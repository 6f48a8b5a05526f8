\* A SMIL edited, written, read, read into another, and received.
SPECIFICATION Spec
CONSTANTS
  Titles <- MCTitles
  RegionNames <- MCRegionNames
  Fold <- MCFold
  Boxes <- MCBoxes
  Screens <- MCScreens
  Durations = {0, 1}
  Files = {"f"}
  Cids <- MCCids
  Marked = {}
  Documents <- MCDocuments
  MaxPars = 2
  MaxEdits = 3
  Received <- MCReceived
INVARIANTS
  OneRegionPerName
PROPERTIES
  ImplementsPresentation
CHECK_DEADLOCK FALSE
