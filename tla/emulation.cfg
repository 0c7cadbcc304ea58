CONSTANTS
  XLen = 8
  WLen = 4
  HalfLen = 2
  ByteLen = 1
  Windows <- TheWindows
  Starts <- TheStarts
  Budget = 5
  Misread <- TheMisread
  StackTop = 100
CHECK_DEADLOCK FALSE
SPECIFICATION FairSpec
INVARIANTS RecordIsTheRun ReturnedRunMatchesProcessor
PROPERTIES EmulationEnds
