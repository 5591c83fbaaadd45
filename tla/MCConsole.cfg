SPECIFICATION Spec
CONSTANTS
  Task = {t1, t2}
  Width = 2
  Height = 2
  Letter = {"k", "t"}
  TaskLetter <- MCTaskLetter
  Offset <- MCOffset
  IntMax = 2
  MaxPrinted = 4
INVARIANTS
  TypeOK
  OnScreen
  CursorRecovers
  ShowsText
  CursorMarked
