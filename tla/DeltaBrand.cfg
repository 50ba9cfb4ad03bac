SPECIFICATION Spec
CONSTANTS
  Ids = {"a", "b"}
  NoId = "no id"
  Blank = ""
  Tokens = 3
  Pairs <- MCPairs
INVARIANT CompleteReceipt
CHECK_DEADLOCK FALSE
