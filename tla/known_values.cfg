CONSTANTS
  XLen = 8
  WLen = 4
  HalfLen = 2
  ByteLen = 1
  Windows <- TheWindows
  Registers <- TheRegisters
  Preserved = {"19"}
  Image <- TheImage
  Executable <- TheCode
  Named <- TheNames
  Exported <- TheExports
  IndexLimit = 3
  Unresolved = {32}
  StartValues = {9, 200}
CHECK_DEADLOCK FALSE
SPECIFICATION Spec
INVARIANTS PassIsSound
PROPERTIES RunsWalkTheGraph
