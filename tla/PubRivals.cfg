CONSTANTS
  ApiRuns = {a}
  Firings = {f1, f2}
  Slots = {s1}
  Scenarios = {"accepted", "quota"}
  MaxAttempts = 2
  MaxPolls = 1
  MaxFaults = 1
  NoRun = NoRun
  NoSlot = NoSlot
  a = a
  f1 = f1
  f2 = f2
  s1 = s1
SPECIFICATION Spec
SYMMETRY Symmetry
INVARIANTS
  AtMostOneSubmission
  SubmitterPaid
  PublicationIsEarned
CHECK_DEADLOCK FALSE
