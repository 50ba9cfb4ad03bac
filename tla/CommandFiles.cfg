CONSTANTS
  Paths <- MCPaths
  Folder <- MCFolder
  Ext <- MCExt
  Folded <- MCFolded
  Below = {"cwd"}
  MaxLinks = 2
  Procs = {"p", "q"}
  Commands <- MCCommands
  Texts <- MCTexts
  Drawable <- MCDrawable
  Valid <- MCValid
  Out = "out.html"
  Receipt = "out.receipt.json"
  Base = "base.json"
  Head = "head.json"
  Foldings = {"unknown"}
  NoText <- MCNoText
  MaxWorld = 1
  MaxFaults = 1
  MaxCrashes = 1
SPECIFICATION Spec
INVARIANTS
  ReportsAreTrue
PROPERTIES
  SourcesSurvive
  OnlyCheckedArrives
CHECK_DEADLOCK FALSE
