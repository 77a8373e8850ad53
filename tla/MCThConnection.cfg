SPECIFICATION ConnSpec
CONSTANTS
  Setups <- MCSetups
  Replies <- MCReplies
  FileSizes = {0, 3, 5}
  FileChunk = 2
  LenRange = 5
  UintRange = 256
  MaxNameLen = 2
  MaxKeyLen = 1
  MaxMessageLen = 4
  Len7Max = 1
  Len16Max = 3
  Len64 = 64
  Radix = 2
  RingInitial = 4
  RingMax = 12
  AllocFails = TRUE
  FrameSeqs <- MCFrameSeqs
CHECK_DEADLOCK FALSE
INVARIANTS RequestIsWritten RouteIsMeant AnswerIsWhole
  WsTypeOK MessagesExact WireIsAccepted
PROPERTIES ExchangeSession FrameQueueSpec OutputEnds
