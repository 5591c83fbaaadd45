SPECIFICATION Spec
CONSTANTS
  Task = {t1, t2}
  MaxTasks = 2
  NoTask = NoTask
  Boot = Boot
  Kernel = Kernel
  MaxPos = 1
  Line <- MCLine
  Glitch <- MCGlitch
  Exception <- MCFaults
INVARIANTS
  ContextIntact
