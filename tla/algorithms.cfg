CONSTANTS
  XLen = 8
  WLen = 4
  HalfLen = 2
  ByteLen = 1
  StackTop = 100
  WordSize = 2
  MaxChunk = 4
  NeedLimit = 2
  AuxLimit = 2
  ListLimit = 2
  NameLimit = 2
  HexBase = 4
  DecimalBase = 3
  DefaultImageSize = 4
  Wording = 2
  SubBase = 3
  FuncBase = 4
  FnBase = 5
SPECIFICATION Spec
INVARIANTS ValuesAreTheProcessors DecompiledCodeIsTheCode FunctionsFollowTheCode VersionsAreAccountedFor
  FilesAreRead CommandsAnswerAlike CacheAnswersAgree
