CONSTANTS
  Contents <- MCContents
  Missing = "missing"
  Nothing = "none"
  Foreign = "foreign"
  Drawn <- MCDrawn
  FirstOutputs = {"foreign"}
  MaxEdits = 2
  MaxFaults = 2
SPECIFICATION Spec
INVARIANTS
  AtRestTellsSource
  PageCatchesUp
PROPERTIES
  OnlyCurrentIsPublished
  PreviewSettlesAndStops
CHECK_DEADLOCK FALSE
