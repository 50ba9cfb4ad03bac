CONSTANTS
  ApiRuns = {a}
  Firings = {}
  Slots = {s1}
  Scenarios = {"quota"}
  MaxAttempts = 2
  MaxPolls = 1
  MaxFaults = 0
  NoRun = NoRun
  NoSlot = NoSlot
  a = a
  s1 = s1
SPECIFICATION Spec
SYMMETRY Symmetry
INVARIANTS
  ExhaustedIsDeadLettered
CHECK_DEADLOCK FALSE
