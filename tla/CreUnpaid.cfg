CONSTANTS
  MaxVariants = 1
  Slots = {s1}
  DryRuns = {FALSE}
  Costs = {"within"}
  Webhooks = {}
  MaxAttempts = 2
  MaxPolls = 1
  MaxFaults = 1
  NoSlot = NoSlot
  s1 = s1
SPECIFICATION Spec
INVARIANTS
  PackageIsPaid
CHECK_DEADLOCK FALSE
