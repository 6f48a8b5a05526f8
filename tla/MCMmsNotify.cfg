\* Messages dated and given an expiry, and their notifications kept, over a clock of eight.
SPECIFICATION NotifyFairSpec
CONSTANTS
  Offsets = {1, 3}
  ThirtyDays = 4
  MaxTime = 8
INVARIANTS
  ExpiredForGood
  NeverTooEarly
PROPERTIES
  Expires
CHECK_DEADLOCK FALSE
