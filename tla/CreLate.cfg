CONSTANTS
  MaxVariants = 1
  Slots = {s1, s2}
  DryRuns = {FALSE}
  Costs = {"within", "unknown"}
  Webhooks = {"submitted", "running", "completed", "failed", "cancelled"}
  MaxAttempts = 2
  MaxPolls = 1
  MaxFaults = 2
  NoSlot = NoSlot
  s1 = s1
  s2 = s2
SYMMETRY Symmetry
SPECIFICATION Spec
INVARIANTS
  CancelledLeavesNothing
  CancellationIsOnRecord
PROPERTIES
  EffectsAreAtMostOnce
CHECK_DEADLOCK FALSE
