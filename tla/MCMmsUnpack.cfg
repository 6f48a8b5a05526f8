\* Messages of a few bytes, with lengths that fit, that do not, and that wrap.
SPECIFICATION FairUnpackSpec
CONSTANTS
  Word = 16
  Messages = {4, 10}
  Beyond = 1
  MAX_LIMITS = 2
  Lengths = {0, 1, 3, 15}
  Counts = {2}
INVARIANTS
  ReadsInMemory
  LimitsBalanced
  ValueEndsWhereDeclared
  DataInMessage
PROPERTIES
  UnpackEnds
CHECK_DEADLOCK FALSE
