\* Memory from one cell on, so that it grows; transactions nested two deep.
SPECIFICATION Spec
CONSTANTS
  Byte = {"nul", "a", "b"}
  NUL = "nul"
  Garbage = "garbage"
  Data <- MCData
  InitLengths = {0, 1}
  DEFAULT_OUTPUT_BUFFER_LENGTH = 3
  MAX_TRANSACTIONS = 2
  MaxData = 3
INVARIANTS
  TypeOK
  RoomForTerminator
  NoGarbage
PROPERTIES
  ImplementsSavepointText
CHECK_DEADLOCK FALSE
