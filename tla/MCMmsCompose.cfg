\* Two pars, made or received, three paths, a text from a buffer.
SPECIFICATION Spec
CONSTANTS
  Names = {"x", "z", "t1"}
  Paths = {"a/x", "b/x", "z"}
  FileName <- MCFileName
  Files = {"a/x", "b/x"}
  Generated <- MCGenerated
  Cids = {"c0", "c1"}
  Documents <- MCDocuments
  MaxPars = 2
INVARIANTS
  ReferencesResolved
  NothingUnasked
  OnePartPerName
  AttachmentsKept
PROPERTIES
  AtMostOneSlot
CHECK_DEADLOCK FALSE
