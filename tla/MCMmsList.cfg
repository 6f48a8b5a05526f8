\* Three nodes, three data, two names and any of the data looked for.
SPECIFICATION FairSpec
CONSTANTS
  Nodes = {n1, n2, n3}
  Null = Null
  Data = {"d1", "d2", "d3"}
  NoData = "none"
  Low <- MCLow
  Names = {"To", "From"}
  Named <- MCNamed
  Indices = {0, 1, 3}
INVARIANTS
  TypeOK
  LinksAgree
PROPERTIES
  ImplementsSequence
  CallReturns
CHECK_DEADLOCK FALSE
