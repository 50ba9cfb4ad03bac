CONSTANTS
  ApiRuns = {a}
  Firings = {}
  Slots = {s1, s2}
  Scenarios = {"accepted", "processing", "failed", "quota"}
  MaxAttempts = 2
  MaxPolls = 1
  MaxFaults = 1
  NoRun = NoRun
  NoSlot = NoSlot
  a = a
  s1 = s1
  s2 = s2
SPECIFICATION Spec
INVARIANTS
  SingleCaller
  WithdrawnBeforeClaimNeverSubmits
  CompletedEffectIsOnRecord
  JobStateIsTruthful
PROPERTIES
  EffectIsAtMostOnce
  EveryRunEnds
  EveryClaimResolves
CHECK_DEADLOCK FALSE
