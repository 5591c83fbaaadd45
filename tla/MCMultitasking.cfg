SPECIFICATION Spec
CONSTANTS
  Task = {t1, t2, t3}
  MaxTasks = 3
  NoTask = NoTask
  Boot = Boot
  MaxPos = 2
INVARIANTS
  TypeOK
  IndexNamesRunning
  SavedStateIntact
PROPERTIES
  ResumesWhereItLeft
  BootNeverResumes
  EveryTaskRuns
  ImplementsRoundRobin
