SPECIFICATION Spec
CONSTANTS
  N = 2
  Width = 5
  Height = 4
  Arm = 1
  Colour <- MCColour
  Size <- MCSize
  Start <- MCStart
  Button = {1, 2}
  Motion <- MCMotion
  MaxPackets = 3
INVARIANTS
  TypeOK
  DragFollowsMouse
  Reachable
  QuietFrameRight
PROPERTIES
  MovesWithMouse
  EventuallyShown
