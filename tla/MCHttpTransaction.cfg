\* Two calls on one connection, GET/POST or file, peer and network free.
SPECIFICATION FairSpec
CONSTANTS
  MaxRequests = 2
  ReqLen = 2
  WriteChunk = 2
  ReadChunk = 2
  BodyLengths = {1}
  Heads <- MCHeads
  MaxSendErrors = 1
  BodyHasNul = TRUE
INVARIANTS
  SentWithoutGap
  ChunkPutOnce
  StopsAtBoundary
  AnswersFirst
  AnswersThisCall
  ContentIsBody
  UndefinedOnlyWithoutHead
PROPERTIES
  CallReturns
CHECK_DEADLOCK FALSE
