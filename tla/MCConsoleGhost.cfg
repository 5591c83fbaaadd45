SPECIFICATION Spec
CONSTANTS
  Task = {}
  Width = 2
  Height = 2
  Letter = {"k", "t"}
  TaskLetter <- MCTaskLetter
  Offset <- MCOffset
  IntMax = 2
  MaxPrinted = 2
INVARIANT OneCursor
