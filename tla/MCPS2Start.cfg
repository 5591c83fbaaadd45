SPECIFICATION Spec
CONSTANTS
  Key = {}
  Button = {0}
  Firmware <- MCTypicalFirmware
  Motion <- MCMotion
  Garbage <- MCGarbage
  KbdRoom = 1
  MaxDown = 2
  Beyond = FALSE
INVARIANTS
  KeyboardHeard
