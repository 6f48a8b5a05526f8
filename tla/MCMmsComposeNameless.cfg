\* The assertion at mms.c:615, on a received part of which nothing is said.
SPECIFICATION Spec
CONSTANTS
  Names = {"x", "z", "t1"}
  Paths = {"a/x", "b/x", "z"}
  FileName <- MCFileName
  Files = {"a/x", "b/x"}
  Generated <- MCGenerated
  Cids = {"c0", "c1"}
  Documents <- MCNameless
  MaxPars = 2
INVARIANT NeverAborts
CHECK_DEADLOCK FALSE
