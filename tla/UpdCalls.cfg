CONSTANTS
  Procs = {p1, p2}
  NoCall = NoCall
  CheckCall = CheckCall
  d1 = d1
  d2 = d2
  Digests = {d1, d2}
  NoDigest = NoDigest
  VersionOf <- MCVersionOf
  InstalledVersion = 1
  CacheCapacity = 1
  SuccessDelays = {1}
  FirstFailureDelay = 1
  LaterFailureDelay = 1
  CacheHorizon = 1
  MaxGen = 3
  Times = {1, 2}
  MaxPromotions = 2
  MaxRetries = 1
  MaxCrashes = 1
  p1 = p1
  p2 = p2
SPECIFICATION MCSpec
INVARIANTS
  DraftsAreCurrent
  AcknowledgementsLast
  NoticedOnce
PROPERTIES
  ActsAsOneLedger
  EveryCallAnswers
CHECK_DEADLOCK FALSE
