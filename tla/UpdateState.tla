---------------------------- MODULE UpdateState ----------------------------
(***************************************************************************)
(* The cache record of the update notifier of the diagram tool             *)
(* (.agents/skills/archify/scripts/check-update.mjs) and the pure          *)
(* functions that derive one record from another: what a successful check, *)
(* a failed check and an acknowledgement write, which records can be read  *)
(* back, and what a record tells the caller.  Times are abstract units;    *)
(* a release is known by the digest of its archive, and VersionOf gives    *)
(* the version its manifest states.                                        *)
(***************************************************************************)
EXTENDS Naturals, FiniteSets

CONSTANTS
  Digests,            \* digests of published releases
  NoDigest,           \* no candidate
  VersionOf,          \* the version each release states
  InstalledVersion,   \* the version the cache partition belongs to
  CacheCapacity,      \* digests a record may name and still be recoverable
  SuccessDelays,      \* CHECK_TTL_MS with its jitter
  FirstFailureDelay,  \* FIRST_FAILURE_DELAY_MS
  LaterFailureDelay,  \* LATER_FAILURE_DELAY_MS
  CacheHorizon        \* MAX_CACHE_HORIZON_MS

ASSUME DigestsAssumption ==
  /\ NoDigest \notin Digests
  /\ VersionOf \in [Digests -> Nat]
  /\ InstalledVersion \in Nat
  /\ CacheCapacity \in Nat

ASSUME DelaysAssumption ==
  /\ SuccessDelays \subseteq Nat \ {0}
  /\ FirstFailureDelay \in Nat \ {0}
  /\ LaterFailureDelay \in Nat \ {0}
  /\ CacheHorizon \in Nat

States ==
  [next: Nat, failures: 0..2, candidate: Digests \cup {NoDigest},
   offered: SUBSET Digests, acknowledged: SUBSET Digests]

\* next = 0 is the null schedule: no reader starts at a time below 0.
EmptyState ==
  [next |-> 0, failures |-> 0, candidate |-> NoDigest,
   offered |-> {}, acknowledged |-> {}]

\* The record and everything an acknowledgement can turn it into must fit the
\* 64 KiB bound; an acknowledgement moves a digest and adds none.
Recoverable(s) == Cardinality(s.offered \cup s.acknowledged) <= CacheCapacity

Newer(d) == VersionOf[d] > InstalledVersion

\* What normalizeState accepts: a newer candidate needs its provenance.
Readable(s) ==
  /\ Recoverable(s)
  /\ s.candidate # NoDigest /\ Newer(s.candidate)
       => s.candidate \in s.offered \cup s.acknowledged

Fresh(s, t) == s.next > t /\ s.next <= t + CacheHorizon

Silent == [status |-> "silent", digest |-> NoDigest]
Notice(d) == [status |-> "update_available", digest |-> d]
Acknowledged(d) == [status |-> "acknowledged", digest |-> d]
Unavailable == [status |-> "cache-unavailable", digest |-> NoDigest]

Results ==
  {Silent, Unavailable} \cup {Notice(d) : d \in Digests} \cup {Acknowledged(d) : d \in Digests}

\* The history of acknowledgements is not consulted.
ResultWithoutHistory(s) ==
  IF s.candidate # NoDigest /\ Newer(s.candidate) THEN Notice(s.candidate) ELSE Silent

ResultForCandidate(s) ==
  IF /\ s.candidate # NoDigest
     /\ Newer(s.candidate)
     /\ s.candidate \notin s.acknowledged
  THEN Notice(s.candidate)
  ELSE Silent

AfterAcknowledgement(s, d) ==
  [s EXCEPT !.offered = @ \ {d}, !.acknowledged = @ \cup {d}]

AfterFailedCheck(s, t, withdraw) ==
  LET failures == IF s.failures = 2 THEN 2 ELSE s.failures + 1
      delay == IF failures <= 1 THEN FirstFailureDelay ELSE LaterFailureDelay
  IN  [s EXCEPT !.next = t + delay,
                !.failures = failures,
                !.candidate = IF withdraw THEN NoDigest ELSE @]

\* What a successful check writes when the record may grow: the candidate is
\* offered if it is news.
WithCandidate(s, d, t, delay) ==
  LET next == [s EXCEPT !.candidate = d, !.next = t + delay, !.failures = 0]
  IN  IF ResultForCandidate(next).status = "update_available"
      THEN [next EXCEPT !.offered = @ \cup {d}]
      ELSE next

\* The capacity fallback: a record that cannot be encoded is replaced by a
\* failed check that withdraws the candidate.
AfterCheck(s, d, t, delay) ==
  IF Recoverable(WithCandidate(s, d, t, delay))
  THEN WithCandidate(s, d, t, delay)
  ELSE AfterFailedCheck(s, t, TRUE)

ResultOfCheck(s, d, t, delay) ==
  IF Recoverable(WithCandidate(s, d, t, delay))
  THEN ResultForCandidate(WithCandidate(s, d, t, delay))
  ELSE Unavailable
=============================================================================
