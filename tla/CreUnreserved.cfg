CONSTANTS
  MaxVariants = 2
  Slots = {s1}
  DryRuns = {FALSE}
  Costs = {"within"}
  Webhooks = {}
  MaxAttempts = 2
  MaxPolls = 1
  MaxFaults = 1
  NoSlot = NoSlot
  s1 = s1
SPECIFICATION Spec
INVARIANTS
  SubmittedIsReserved
CHECK_DEADLOCK FALSE
