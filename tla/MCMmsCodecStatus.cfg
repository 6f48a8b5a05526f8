\* A retrieve status as it was unpacked, packed again.
SPECIFICATION CodecSpec
CONSTANTS
  Items <- StatusAgain
  Messages <- MCMessages
  MaxItems = 1
INVARIANT
  NeverAborts
CHECK_DEADLOCK FALSE
