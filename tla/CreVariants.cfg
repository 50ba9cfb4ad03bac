CONSTANTS
  MaxVariants = 2
  Slots = {s1}
  DryRuns = {TRUE, FALSE}
  Costs = {"within", "over", "unknown"}
  Webhooks = {"completed"}
  MaxAttempts = 2
  MaxPolls = 1
  MaxFaults = 1
  NoSlot = NoSlot
  s1 = s1
SPECIFICATION Spec
INVARIANTS
  JobStateIsTruthful
  PackageIsWhole
PROPERTIES
  ProductionEnds
CHECK_DEADLOCK FALSE
