SPECIFICATION Spec
CONSTANTS
  Key <- MCKey
  Button = {0}
  Firmware <- MCFirmware
  Motion <- MCMotion
  Garbage <- MCGarbage
  KbdRoom = 1
  MaxDown = 2
  Beyond = FALSE
INVARIANTS
  TypeOK
  BothHeard
  PacketsAligned
  EventsAlternate
  ButtonsAgree
  KeysAsPressed
PROPERTIES
  NoByteStuck
CHECK_DEADLOCK FALSE
