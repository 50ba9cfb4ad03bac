SPECIFICATION Spec
CONSTANTS
  Ids = {"a", "b"}
  NoId = "no id"
  Blank = ""
  Tokens = 3
  Pairs <- MCPairs
INVARIANTS
  DrawingMatchesReceipt
  OneTimerPerPlayback
PROPERTIES
  PlaybackEnds
CHECK_DEADLOCK FALSE
