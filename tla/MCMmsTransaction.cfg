\* Two calls, of any kind, on one connection; peer, network and clock free.
SPECIFICATION TransactionSpec
CONSTANTS
  MaxRequests = 2
  ReqLen = 1
  WriteChunk = 1
  ReadChunk = 2
  BodyLengths = {2}
  Heads <- MCHeads
  MaxSendErrors = 0
  BodyHasNul = TRUE
  Types = {"mms", "html"}
  MmsType = "mms"
INVARIANTS
  HandsOutAnswer
  DataKeptUntilBytes
PROPERTIES
  ResultsKept
CHECK_DEADLOCK FALSE
