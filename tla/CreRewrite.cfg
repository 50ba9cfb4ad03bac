CONSTANTS
  MaxVariants = 1
  Slots = {s1}
  DryRuns = {FALSE}
  Costs = {"within"}
  Webhooks = {"submitted", "running", "completed", "failed", "cancelled"}
  MaxAttempts = 2
  MaxPolls = 1
  MaxFaults = 1
  NoSlot = NoSlot
  s1 = s1
SPECIFICATION Spec
PROPERTIES
  TerminalRowStays
CHECK_DEADLOCK FALSE
