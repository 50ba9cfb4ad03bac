------------------------ MODULE UpdateNotifierProofs ------------------------
(***************************************************************************)
(* For any calls, releases, generations, retries and crashes, and whatever *)
(* the leases do: no update of the record is lost, no reported             *)
(* acknowledgement is undone, and the directory acts as one ledger.        *)
(***************************************************************************)
EXTENDS UpdateNotifier, FiniteSetTheorems, TLAPS

-----------------------------------------------------------------------------
(* The inductive invariant                                                 *)

\* Steps of a process that holds a generation.
Working ==
  {"mkpending", "owner", "promote", "inspect", "retire", "move", "install", "installed",
   "held", "own", "fetch", "commit", "list", "fence", "draft", "publish", "cancel"}

\* Steps behind the look for later generations in Promote.
Past == Working \ {"mkpending", "owner", "promote", "cancel"}

\* Steps behind the listing of the lower operations.
Fencing == {"fence", "draft", "publish"}

\* The change of one operation of the ledger.
LedgerStep(s, next) ==
  \/ \E d \in Digests, t \in Times, delay \in SuccessDelays : next = AfterCheck(s, d, t, delay)
  \/ \E t \in Times : next = AfterFailedCheck(s, t, FALSE)
  \/ \E d \in s.offered \cup s.acknowledged : next = AfterAcknowledgement(s, d)

\* Of the records that were committed one is the newest.
HasLatest == Committed # {} => \E g \in Committed : \A h \in Committed : h <= g

\* A generation belongs to one process, which found it free.
Owned ==
  /\ \A p \in Procs : pc[p] \in Working => gen[p] # 0
  /\ \A p \in Procs : gen[p] # 0 => kind[gen[p]] # "none"
  /\ \A p \in Procs : pc[p] = "mkpending" => kind[gen[p]] = "reserved"
  /\ \A p, q \in Procs : gen[p] # 0 /\ gen[p] = gen[q] => p = q

\* An operation behind Promote whose directory is still pending is older than
\* none that was committed, and is on the list of every later one that fences.
Fenced ==
  /\ \A p \in Procs : pc[p] \in {"draft", "publish"} => todo[p] = {}
  /\ \A p \in Procs : pc[p] \in Past /\ kind[gen[p]] = "pending"
       => \A h \in Gens : h > gen[p] => kind[h] # "committed"
  /\ \A p, q \in Procs :
       pc[p] \in Past /\ kind[gen[p]] = "pending" /\ pc[q] \in Fencing /\ gen[p] < gen[q]
         => gen[p] \in todo[q]

\* What a call knows when it decides, and that its draft is a change of the
\* newest record.
Drafted ==
  /\ \A p \in Procs : pc[p] # "idle" /\ mem[p].call = CheckCall /\ pc[p] \notin {"done", "crashed"}
       => mem[p].started \in Times
  /\ \A p \in Procs : pc[p] \in {"commit", "list", "fence", "draft"} /\ mem[p].call = CheckCall
                        /\ ~mem[p].failed => mem[p].fetched \in Digests
  /\ \A p \in Procs : pc[p] = "publish" => Readable(mem[p].next)
  /\ \A p \in Procs : pc[p] = "publish" /\ mem[p].out.status = "acknowledged"
       => mem[p].out.digest \in mem[p].next.acknowledged
  /\ \A p \in Procs : pc[p] = "publish" /\ kind[gen[p]] = "pending"
       => mem[p].base = LatestGen /\ LedgerStep(Latest, mem[p].next)

\* What callers were told is on record and no answer forgets it.
Answered ==
  /\ told \subseteq Latest.acknowledged
  /\ \A p \in Procs : mem[p].known \subseteq told
  /\ \A p \in Procs : mem[p].out.status = "update_available" => mem[p].out.digest \notin mem[p].known
  /\ \A p \in Procs : pc[p] = "idle" => mem[p] = NoMem
  /\ \A p \in Procs : pc[p] = "cancel" => mem[p].out.status # "acknowledged"

IInv == TypeOK /\ HasLatest /\ Owned /\ Fenced /\ Drafted /\ Answered

-----------------------------------------------------------------------------
(* The functions on records                                                *)

\* A record without entries is a record, and nothing is wrong with it.
LEMMA EmptyStateTypes == EmptyState \in States
BY DEF EmptyState, States

\* An acknowledgement moves a digest.
LEMMA AcknowledgementTypes ==
  ASSUME NEW s \in States, NEW d \in Digests
  PROVE  AfterAcknowledgement(s, d) \in States
BY DEF AfterAcknowledgement, States

\* A failed check reschedules.
LEMMA FailureTypes ==
  ASSUME NEW s \in States, NEW t \in Nat, NEW withdraw \in BOOLEAN
  PROVE  AfterFailedCheck(s, t, withdraw) \in States
<1> DEFINE failures == IF s.failures = 2 THEN 2 ELSE s.failures + 1
           delay == IF failures <= 1 THEN FirstFailureDelay ELSE LaterFailureDelay
           candidate == IF withdraw THEN NoDigest ELSE s.candidate
<1>1. failures \in 0..2
  BY DEF States
<1>2. t + delay \in Nat
  BY DelaysAssumption
<1>3. candidate \in Digests \cup {NoDigest}
  BY DEF States
<1>4. AfterFailedCheck(s, t, withdraw)
        = [s EXCEPT !.next = t + delay, !.failures = failures, !.candidate = candidate]
  BY DEF AfterFailedCheck
<1> HIDE DEF failures, delay, candidate
<1> QED BY <1>1, <1>2, <1>3, <1>4 DEF States

\* A successful check offers what it found.
LEMMA CandidateTypes ==
  ASSUME NEW s \in States, NEW d \in Digests, NEW t \in Nat, NEW delay \in SuccessDelays
  PROVE  WithCandidate(s, d, t, delay) \in States
<1> DEFINE next == [s EXCEPT !.candidate = d, !.next = t + delay, !.failures = 0]
           offered == [next EXCEPT !.offered = @ \cup {d}]
<1>1. t + delay \in Nat /\ 0 \in 0..2
  BY DelaysAssumption
<1>2. next \in States
  <2> DEFINE time == t + delay
  <2>1. time \in Nat /\ d \in Digests \cup {NoDigest}
    BY <1>1
  <2> HIDE DEF time
  <2>2. [s EXCEPT !.candidate = d, !.next = time, !.failures = 0] \in States
    BY <1>1, <2>1 DEF States
  <2> QED BY <2>2 DEF time
<1> HIDE DEF next
<1>3. offered \in States
  BY <1>2 DEF States
<1>4. WithCandidate(s, d, t, delay) \in {next, offered}
  BY DEF WithCandidate, next
<1> QED BY <1>2, <1>3, <1>4

\* A check writes a record, whether what it found fits or not.
LEMMA CheckTypes ==
  ASSUME NEW s \in States, NEW d \in Digests, NEW t \in Nat, NEW delay \in SuccessDelays
  PROVE  AfterCheck(s, d, t, delay) \in States
BY CandidateTypes, FailureTypes DEF AfterCheck

\* What a record tells a caller is an answer.
LEMMA ResultTypes ==
  ASSUME NEW s \in States
  PROVE  ResultForCandidate(s) \in Results \ {Acknowledged(d) : d \in Digests}
<1>1. s.candidate \in Digests \cup {NoDigest}
  BY DEF States
<1> QED BY <1>1 DEF ResultForCandidate, Results, Notice, Silent, Acknowledged

-----------------------------------------------------------------------------
(* The types                                                               *)

\* A process starts with nothing in mind.
LEMMA NoMemTypes == NoMem \in Memory
<1>1. Silent \in Results /\ EmptyState \in States /\ 0 \in 0..MaxGen
  BY EmptyStateTypes, BoundsAssumption DEF Results
<1> QED BY <1>1 DEF NoMem, Memory

\* An answer leaves the process without an operation.
LEMMA FinishTypes ==
  ASSUME TypeCalls, NEW p \in Procs, NEW m, NEW out \in Results,
         m.call \in Digests \cup {NoCall, CheckCall}, m.known \in SUBSET Digests,
         Finish(p, m, out)
  PROVE  TypeCalls'
<1> DEFINE after == [NoMem EXCEPT !.call = m.call, !.known = m.known, !.out = out]
<1>1. after \in Memory
  BY NoMemTypes DEF Memory
<1>2. out.status = "acknowledged" => out.digest \in Digests
  BY DEF Results, Silent, Unavailable, Notice, Acknowledged
<1> HIDE DEF after
<1>3. mem' = [mem EXCEPT ![p] = after]
  BY DEF Finish, after
<1>4. mem' \in [Procs -> Memory]
  BY <1>1, <1>3 DEF TypeCalls
<1>5. told' \subseteq Digests
  BY <1>2 DEF Finish, TypeCalls
<1>6. pc' \in [Procs -> Steps] /\ gen' \in [Procs -> 0..MaxGen]
  BY BoundsAssumption DEF Finish, Goto, TypeCalls, Steps
<1> QED BY <1>4, <1>5, <1>6 DEF Finish, TypeCalls

\* The helpers that move one process without its answer.
LEMMA MoveTypes ==
  ASSUME TypeCalls, NEW p \in Procs, NEW m \in Memory, NEW step \in Steps,
         Goto(p, step), mem' \in {mem, [mem EXCEPT ![p] = m]}, UNCHANGED <<gen, todo, outside>>
  PROVE  TypeCalls'
<1>1. mem' \in [Procs -> Memory]
  BY DEF TypeCalls
<1>2. pc' \in [Procs -> Steps]
  BY DEF TypeCalls, Goto
<1> QED BY <1>1, <1>2 DEF TypeCalls, outside

LEMMA ContinueTypes ==
  ASSUME TypeOK, NEW p \in Procs, NEW step \in Steps, Continue(p, step)
  PROVE  TypeOK'
<1>1. TypeDisk'
  BY DEF TypeOK, TypeDisk, Continue, disk
<1>2. TypeCalls'
  <2>1. Goto(p, step) /\ mem' = mem /\ UNCHANGED <<gen, todo, outside>>
    BY DEF Continue
  <2>2. NoMem \in Memory /\ TypeCalls
    BY NoMemTypes DEF TypeOK
  <2> QED BY <2>1, <2>2, MoveTypes
<1> QED BY <1>1, <1>2 DEF TypeOK

LEMMA CancelThenTypes ==
  ASSUME TypeOK, NEW p \in Procs, NEW after \in {"done", "lost"}, NEW out \in Results,
         CancelThen(p, after, out)
  PROVE  TypeOK'
<1> DEFINE m == [mem[p] EXCEPT !.after = after, !.out = out]
<1>1. m \in Memory
  <2>1. mem[p] \in Memory
    BY DEF TypeOK, TypeCalls
  <2> QED BY <2>1 DEF Memory
<1>2. mem' = [mem EXCEPT ![p] = m]
  BY DEF CancelThen
<1>3. "cancel" \in Steps
  BY DEF Steps
<1> HIDE DEF m
<1>4. TypeCalls'
  BY <1>1, <1>2, <1>3, MoveTypes DEF TypeOK, CancelThen
<1>5. TypeDisk'
  BY DEF TypeOK, TypeDisk, CancelThen, disk
<1> QED BY <1>4, <1>5 DEF TypeOK

\* The newest record is a record.
LEMMA LatestTypes ==
  ASSUME TypeOK, HasLatest
  PROVE  /\ LatestGen \in 0..MaxGen
         /\ Latest \in States
         /\ Readable(Latest)
         /\ Committed = {} => LatestGen = 0
         /\ Committed # {} => LatestGen \in Committed /\ \A h \in Committed : h <= LatestGen
<1>1. CASE Committed = {}
  <2>1. LatestGen = 0 /\ Latest = EmptyState
    BY <1>1 DEF LatestGen, Latest
  <2>2. Cardinality({} \cup {}) <= CacheCapacity
    BY FS_EmptySet, DigestsAssumption
  <2>3. Readable(EmptyState)
    BY <2>2 DEF Readable, Recoverable, EmptyState
  <2> QED BY <1>1, <2>1, <2>3, EmptyStateTypes, BoundsAssumption
<1>2. CASE Committed # {}
  <2>1. LatestGen \in Committed /\ \A h \in Committed : h <= LatestGen
    BY <1>2 DEF HasLatest, LatestGen
  <2>2. LatestGen \in Gens /\ Readable(content[LatestGen])
    BY <2>1 DEF Committed
  <2>3. Latest = content[LatestGen]
    BY <2>2 DEF Latest, Gens
  <2>4. LatestGen \in 1..MaxGen /\ content[LatestGen] \in States
    BY <2>2 DEF TypeOK, TypeDisk, Gens
  <2>5. LatestGen \in 0..MaxGen
    BY <2>4, BoundsAssumption
  <2> QED BY <1>2, <2>1, <2>2, <2>3, <2>4, <2>5
<1> QED BY <1>1, <1>2

\* Every step leaves values of the right types.
LEMMA TypeStep ==
  ASSUME TypeOK, HasLatest, Drafted, [Next]_vars
  PROVE  TypeOK'
<1> USE DEF TypeOK
<1>1. \A p \in Procs : mem[p] \in Memory /\ gen[p] \in 0..MaxGen /\ pc[p] \in Steps
  BY DEF TypeCalls
<1>2. Latest \in States /\ LatestGen \in 0..MaxGen /\ ResultForCandidate(Latest) \in Results
  BY LatestTypes, ResultTypes
<1>3. Silent \in Results /\ Unavailable \in Results /\ LastGoodResult \in Results
  BY <1>2 DEF Results, LastGoodResult
<1>4. \A p \in Procs : mem[p].call \in Digests \cup {NoCall, CheckCall} /\ mem[p].known \in SUBSET Digests
                         /\ mem[p].out \in Results
  BY <1>1 DEF Memory
<1>5. ASSUME NEW p \in Procs, NEW now \in Times, StartCheck(p, now)
      PROVE  TypeOK'
  <2> DEFINE m == [mem[p] EXCEPT !.call = CheckCall, !.started = now, !.known = told]
  <2>1. m \in Memory
    <3>1. mem[p] \in Memory /\ told \in SUBSET Digests
      BY <1>1 DEF TypeCalls
    <3> QED BY <3>1 DEF Memory
  <2>2. m.call \in Digests \cup {NoCall, CheckCall} /\ m.known \in SUBSET Digests
    BY <2>1 DEF Memory
  <2>3. TypeDisk'
    BY <1>5 DEF StartCheck, TypeDisk, disk
  <2>4. "acquire" \in Steps
    BY DEF Steps
  <2>5. \/ Finish(p, m, ResultForCandidate(Latest))
        \/ Goto(p, "acquire") /\ mem' = [mem EXCEPT ![p] = m] /\ UNCHANGED <<gen, todo, outside>>
    BY <1>5 DEF StartCheck
  <2> HIDE DEF m
  <2> QED BY <1>2, <2>1, <2>2, <2>3, <2>4, <2>5, FinishTypes, MoveTypes
<1>6. ASSUME NEW p \in Procs, NEW d \in Digests, StartAcknowledge(p, d)
      PROVE  TypeOK'
  <2> DEFINE m == [mem[p] EXCEPT !.call = d, !.known = told]
  <2>1. m \in Memory
    <3>1. mem[p] \in Memory /\ told \in SUBSET Digests
      BY <1>1 DEF TypeCalls
    <3> QED BY <3>1 DEF Memory
  <2>2. "acquire" \in Steps /\ mem' = [mem EXCEPT ![p] = m]
    BY <1>6 DEF Steps, StartAcknowledge
  <2>3. TypeDisk'
    BY <1>6 DEF StartAcknowledge, TypeDisk, disk
  <2> HIDE DEF m
  <2> QED BY <1>6, <2>1, <2>2, <2>3, MoveTypes DEF StartAcknowledge
<1>7. ASSUME NEW p \in Procs, Look(p)
      PROVE  TypeOK'
  BY <1>7, ContinueTypes DEF Look, Steps
<1>8. ASSUME NEW p \in Procs, Reserve(p)
      PROVE  TypeOK'
  <2>1. CASE Finish(p, mem[p], Unavailable) /\ UNCHANGED disk
    BY <1>3, <1>4, <2>1, FinishTypes DEF TypeDisk, disk
  <2>2. ASSUME NEW g \in Gens, kind' = [kind EXCEPT ![g] = "reserved"], gen' = [gen EXCEPT ![p] = g],
               mem' = [mem EXCEPT ![p].tries = 0], Goto(p, "mkpending"),
               UNCHANGED <<stale, content, claim, retired, todo, outside>>
        PROVE  TypeOK'
    <3>1. TypeDisk'
      BY <2>2 DEF TypeDisk, Kinds
    <3>2. [mem[p] EXCEPT !.tries = 0] \in Memory
      BY <1>1 DEF Memory
    <3>3. mem' \in [Procs -> Memory]
      BY <2>2, <3>2 DEF TypeCalls
    <3>4. pc' \in [Procs -> Steps] /\ gen' \in [Procs -> 0..MaxGen]
      BY <2>2, BoundsAssumption DEF TypeCalls, Goto, Steps, Gens
    <3> QED BY <2>2, <3>1, <3>3, <3>4 DEF TypeCalls, outside
  <2> QED BY <1>8, <2>1, <2>2 DEF Reserve
<1>9. ASSUME NEW p \in Procs, MakePending(p)
      PROVE  TypeOK'
  BY <1>9 DEF MakePending, Goto, Steps, TypeDisk, TypeCalls, Kinds, outside
<1>10. ASSUME NEW p \in Procs, WriteOwner(p)
       PROVE  TypeOK'
  <2>1. CASE kind[gen[p]] = "fenced" /\ Continue(p, "lost")
    BY <2>1, ContinueTypes DEF Steps
  <2>2. CASE kind[gen[p]] = "fenced" /\ Finish(p, mem[p], Unavailable) /\ UNCHANGED disk
    BY <1>3, <1>4, <2>2, FinishTypes DEF TypeDisk, disk
  <2>3. CASE kind[gen[p]] = "pending"
               /\ stale' = [stale EXCEPT ![gen[p]] = FALSE] /\ Goto(p, "promote")
               /\ UNCHANGED <<kind, content, claim, retired, gen, todo, mem, outside>>
    BY <2>3 DEF Goto, Steps, TypeDisk, TypeCalls, outside
  <2> QED BY <1>10, <2>1, <2>2, <2>3 DEF WriteOwner
<1>11. ASSUME NEW p \in Procs, Promote(p)
       PROVE  TypeOK'
  BY <1>3, <1>11, ContinueTypes, CancelThenTypes DEF Promote, Steps
<1>12. ASSUME NEW p \in Procs, NextAttempt(p)
       PROVE  TypeCalls'
  <2> DEFINE m == [mem[p] EXCEPT !.tries = @ + 1, !.seen = 0]
  <2>1. m \in Memory
    <3>1. mem[p].tries + 1 \in Nat /\ 0 \in 0..MaxGen
      BY <1>1, BoundsAssumption DEF Memory
    <3> QED BY <1>1, <3>1 DEF Memory
  <2>2. "promote" \in Steps /\ mem' = [mem EXCEPT ![p] = m]
    BY <1>12 DEF Steps, NextAttempt
  <2> HIDE DEF m
  <2> QED BY <1>12, <2>1, <2>2, MoveTypes DEF NextAttempt
<1>13. ASSUME NEW p \in Procs, Inspect(p)
       PROVE  TypeOK'
  <2>1. CASE Goto(p, "retire") /\ mem' = [mem EXCEPT ![p].seen = claim]
               /\ UNCHANGED <<disk, gen, todo, outside>>
    <3>1. [mem[p] EXCEPT !.seen = claim] \in Memory
      BY <1>1 DEF Memory, TypeDisk
    <3>2. TypeCalls'
      BY <2>1, <3>1, MoveTypes DEF Steps
    <3> QED BY <2>1, <3>2 DEF TypeDisk, disk
  <2> QED BY <1>3, <1>13, <2>1, ContinueTypes, CancelThenTypes DEF Inspect, ClaimStatus, Steps
<1>14. ASSUME NEW p \in Procs, Retire(p)
       PROVE  TypeOK'
  <2>1. CASE Continue(p, "move")
    BY <2>1, ContinueTypes DEF Steps
  <2>2. CASE NextAttempt(p) /\ UNCHANGED disk
    BY <1>12, <2>2 DEF TypeDisk, disk
  <2>3. CASE Finish(p, mem[p], Unavailable) /\ UNCHANGED disk
    BY <1>3, <1>4, <2>3, FinishTypes DEF TypeDisk, disk
  <2> QED BY <1>14, <2>1, <2>2, <2>3 DEF Retire
<1>15. ASSUME NEW p \in Procs, MoveClaim(p)
       PROVE  TypeOK'
  <2>1. TypeDisk'
    <3>1. mem[p].seen \in 0..MaxGen /\ 0 \in 0..MaxGen
      BY <1>1, BoundsAssumption DEF Memory
    <3>2. claim' \in 0..MaxGen /\ retired' \subseteq 0..MaxGen
      BY <1>15, <3>1 DEF MoveClaim, TypeDisk, disk
    <3> QED BY <1>15, <3>2 DEF MoveClaim, TypeDisk, disk
  <2>2. CASE NextAttempt(p)
    BY <1>12, <2>1, <2>2
  <2>3. CASE Finish(p, mem[p], Unavailable)
    BY <1>3, <1>4, <2>1, <2>3, FinishTypes
  <2> QED BY <1>15, <2>2, <2>3 DEF MoveClaim
<1>16. ASSUME NEW p \in Procs, Install(p)
       PROVE  TypeOK'
  <2>1. CASE NextAttempt(p) /\ UNCHANGED disk
    BY <1>12, <2>1 DEF TypeDisk, disk
  <2>2. CASE claim' = gen[p] /\ Goto(p, "installed")
               /\ UNCHANGED <<kind, stale, content, retired, gen, todo, mem, outside>>
    BY <1>1, <2>2 DEF Goto, Steps, TypeDisk, TypeCalls, outside
  <2> QED BY <1>16, <2>1, <2>2 DEF Install
<1>17. ASSUME NEW p \in Procs, Installed(p)
       PROVE  TypeOK'
  <2>1. CASE Finish(p, mem[p], Unavailable) /\ UNCHANGED disk
    BY <1>3, <1>4, <2>1, FinishTypes DEF TypeDisk, disk
  <2>2. CASE Continue(p, "held") \/ CancelThen(p, "lost", Silent)
    BY <1>3, <2>2, ContinueTypes, CancelThenTypes DEF Steps
  <2> QED BY <1>17, <2>1, <2>2 DEF Installed
<1>18. ASSUME NEW p \in Procs,
              ReadAgain(p) \/ ConfirmBeforeFetch(p) \/ OwnBeforeFencing(p) \/ OwnAfterFencing(p)
       PROVE  TypeOK'
  BY <1>2, <1>3, <1>18, ContinueTypes, CancelThenTypes
     DEF ReadAgain, ConfirmBeforeFetch, OwnBeforeFencing, OwnAfterFencing, Steps
<1>19. ASSUME NEW p \in Procs, Fetch(p)
       PROVE  TypeOK'
  <2>1. ASSUME NEW d \in Digests
        PROVE  [mem[p] EXCEPT !.fetched = d] \in Memory
    BY <1>1 DEF Memory
  <2>2. [mem[p] EXCEPT !.failed = TRUE] \in Memory
    BY <1>1 DEF Memory
  <2>3. mem' \in [Procs -> Memory]
    BY <1>19, <2>1, <2>2 DEF Fetch, TypeCalls
  <2>4. pc' \in [Procs -> Steps]
    BY <1>19 DEF Fetch, Goto, Steps, TypeCalls
  <2> QED BY <1>19, <2>3, <2>4 DEF Fetch, TypeDisk, TypeCalls, disk, outside
<1>20. ASSUME NEW p \in Procs, ListLower(p)
       PROVE  TypeOK'
  BY <1>20 DEF ListLower, LowerPending, Goto, Steps, TypeDisk, TypeCalls, disk, outside
<1>21. ASSUME NEW p \in Procs, FenceOne(p)
       PROVE  TypeOK'
  BY <1>21 DEF FenceOne, Rename, TypeDisk, TypeCalls, Kinds, outside
<1>22. ASSUME NEW p \in Procs, Draft(p)
       PROVE  TypeOK'
  <2>1. ASSUME NEW s \in States, NEW out \in Results, WriteDraft(p, s, out)
        PROVE  TypeOK'
    <3>1. [mem[p] EXCEPT !.next = s, !.base = LatestGen, !.out = out] \in Memory
      BY <1>1, <1>2 DEF Memory
    <3>2. mem' \in [Procs -> Memory] /\ pc' \in [Procs -> Steps]
      BY <2>1, <3>1 DEF WriteDraft, TypeCalls, Goto, Steps
    <3> QED BY <2>1, <3>2 DEF WriteDraft, TypeDisk, TypeCalls, disk, outside
  <2>2. mem[p].call = CheckCall => mem[p].started \in Nat
    BY <1>22, BoundsAssumption DEF Draft, Drafted
  <2> DEFINE named == Latest.offered \cup Latest.acknowledged
  <2>3. named \subseteq Digests /\ CheckCall \notin Digests
    BY <1>2, BoundsAssumption DEF States
  <2>4. CASE mem[p].call = CheckCall /\ ~mem[p].failed
    <3>1. mem[p].fetched \in Digests
      BY <1>22, <2>4 DEF Draft, Drafted
    <3>2. ASSUME NEW delay \in SuccessDelays
          PROVE  /\ AfterCheck(Latest, mem[p].fetched, mem[p].started, delay) \in States
                 /\ ResultOfCheck(Latest, mem[p].fetched, mem[p].started, delay) \in Results
      BY <1>2, <1>3, <2>2, <2>4, <3>1, CheckTypes, CandidateTypes, ResultTypes DEF ResultOfCheck
    <3> QED BY <1>22, <2>1, <2>4, <2>3, <3>2 DEF Draft
  <2>5. CASE mem[p].call = CheckCall /\ mem[p].failed
    <3>1. AfterFailedCheck(Latest, mem[p].started, FALSE) \in States
      BY <1>2, <2>2, <2>5, FailureTypes
    <3> QED BY <1>3, <1>22, <2>1, <2>5, <2>3, <3>1 DEF Draft
  <2>6. CASE mem[p].call # CheckCall
    <3>1. ASSUME NEW d \in Digests
          PROVE  AfterAcknowledgement(Latest, d) \in States /\ Acknowledged(d) \in Results
      BY <1>2, AcknowledgementTypes DEF Results
    <3> QED BY <1>3, <1>22, <2>1, <2>6, <2>3, <3>1, CancelThenTypes DEF Draft
  <2> QED BY <2>4, <2>5, <2>6, <1>1 DEF Memory
<1>23. ASSUME NEW p \in Procs, Publish(p)
       PROVE  TypeOK'
  <2>1. CASE Finish(p, mem[p], Unavailable) /\ UNCHANGED disk
    BY <1>3, <1>4, <2>1, FinishTypes DEF TypeDisk, disk
  <2>2. CASE Lose(p)
    <3>1. [mem[p] EXCEPT !.next = EmptyState, !.base = 0, !.out = Silent] \in Memory
      <4>1. 0 \in 0..MaxGen
        BY BoundsAssumption
      <4> QED BY <1>1, <1>3, <4>1, EmptyStateTypes DEF Memory
    <3>2. mem' \in [Procs -> Memory] /\ pc' \in [Procs -> Steps]
      BY <2>2, <3>1 DEF Lose, TypeCalls, Goto, Steps
    <3> QED BY <2>2, <3>2 DEF Lose, TypeDisk, TypeCalls, disk, outside
  <2>3. CASE /\ Rename(gen[p], "committed")
             /\ content' = [content EXCEPT ![gen[p]] = mem[p].next]
             /\ Finish(p, mem[p], mem[p].out)
             /\ UNCHANGED <<claim, retired>>
    <3>1. mem[p].next \in States
      BY <1>1 DEF Memory
    <3>2. TypeDisk'
      BY <2>3, <3>1 DEF Rename, TypeDisk, Kinds
    <3> QED BY <1>4, <2>3, <3>2, FinishTypes
  <2> QED BY <1>23, <2>1, <2>2, <2>3 DEF Publish
<1>24. ASSUME NEW p \in Procs, Cancel(p)
       PROVE  TypeOK'
  <2>1. TypeDisk'
    BY <1>24 DEF Cancel, Rename, TypeDisk, Kinds
  <2>2. CASE Finish(p, mem[p], mem[p].out)
    BY <1>4, <2>1, <2>2, FinishTypes
  <2>3. CASE Goto(p, "lost") /\ UNCHANGED <<gen, todo, mem, outside>>
    BY <2>1, <2>3 DEF Goto, Steps, TypeCalls, outside
  <2> QED BY <1>24, <2>2, <2>3 DEF Cancel
<1>25. ASSUME NEW p \in Procs, LoseCheck(p)
       PROVE  TypeOK'
  <2>1. TypeDisk'
    BY <1>25 DEF LoseCheck, TypeDisk, disk
  <2>2. Finish(p, mem[p], Silent) \/ Finish(p, mem[p], LastGoodResult)
    BY <1>25 DEF LoseCheck
  <2> QED BY <1>3, <1>4, <2>1, <2>2, FinishTypes
<1>26. ASSUME NEW p \in Procs, LoseAcknowledge(p)
       PROVE  TypeOK'
  <2>1. TypeDisk'
    BY <1>26 DEF LoseAcknowledge, TypeDisk, disk
  <2>2. CASE Finish(p, mem[p], Silent)
    BY <1>3, <1>4, <2>1, <2>2, FinishTypes
  <2>3. CASE Goto(p, "acquire") /\ mem' = [mem EXCEPT ![p].retries = @ + 1]
               /\ UNCHANGED <<gen, todo, outside>>
    <3>1. [mem[p] EXCEPT !.retries = @ + 1] \in Memory
      BY <1>1 DEF Memory
    <3>2. TypeCalls'
      BY <2>3, <3>1 DEF Goto, Steps, TypeCalls, outside
    <3> QED BY <2>1, <3>2
  <2> QED BY <1>26, <2>2, <2>3 DEF LoseAcknowledge
<1>27. ASSUME NEW p \in Procs, Crash(p)
       PROVE  TypeOK'
  BY <1>27, NoMemTypes, BoundsAssumption
     DEF Crash, Goto, Steps, TypeDisk, TypeCalls, disk
<1>28. ASSUME NEW g \in Gens, Expire(g)
       PROVE  TypeOK'
  BY <1>28 DEF Expire, TypeDisk, TypeCalls, locals, outside
<1>29. ASSUME UNCHANGED vars
       PROVE  TypeOK'
  BY <1>29 DEF vars, disk, locals, outside, TypeDisk, TypeCalls
<1> QED BY <1>5, <1>6, <1>7, <1>8, <1>9, <1>10, <1>11, <1>13, <1>14, <1>15, <1>16, <1>17, <1>18,
           <1>19, <1>20, <1>21, <1>22, <1>23, <1>24, <1>25, <1>26, <1>27, <1>28, <1>29
        DEF Next, Start, Step, Acquire, Commit

-----------------------------------------------------------------------------
(* Generations and the newest record                                       *)

\* A step that commits nothing leaves the record readers see alone.
LEMMA LatestStays ==
  ASSUME content' = content,
         \A g \in Gens : kind'[g] = "committed" <=> kind[g] = "committed"
  PROVE  /\ Committed' = Committed /\ LatestGen' = LatestGen /\ Latest' = Latest
         /\ HasLatest => HasLatest'
<1>1. Committed' = Committed
  BY DEF Committed
<1>2. LatestGen' = LatestGen
  BY <1>1 DEF LatestGen
<1>3. Latest' = Latest
  BY <1>2 DEF Latest
<1> QED BY <1>1, <1>2, <1>3 DEF HasLatest

\* A process that answers gives its generation up.
LEMMA FinishEnds ==
  ASSUME NEW p, NEW m, NEW out, Finish(p, m, out)
  PROVE  Goto(p, "done") /\ gen' = [gen EXCEPT ![p] = 0]
BY DEF Finish

\* A call that starts answers at once or goes for an operation.
LEMMA StartMoves ==
  ASSUME NEW p \in Procs, Start(p)
  PROVE  \/ Goto(p, "done") /\ gen' = [gen EXCEPT ![p] = 0]
         \/ Goto(p, "acquire") /\ UNCHANGED gen
<1>1. ASSUME NEW now \in Times, StartCheck(p, now)
      PROVE  \/ Goto(p, "done") /\ gen' = [gen EXCEPT ![p] = 0]
             \/ Goto(p, "acquire") /\ UNCHANGED gen
  <2> DEFINE m == [mem[p] EXCEPT !.call = CheckCall, !.started = now, !.known = told]
  <2>1. \/ Finish(p, m, ResultForCandidate(Latest))
        \/ Goto(p, "acquire") /\ mem' = [mem EXCEPT ![p] = m] /\ UNCHANGED <<gen, todo, outside>>
    BY <1>1 DEF StartCheck
  <2> HIDE DEF m
  <2>2. CASE Finish(p, m, ResultForCandidate(Latest))
    BY <2>2, FinishEnds
  <2> QED BY <2>1, <2>2
<1>2. ASSUME NEW d \in Digests, StartAcknowledge(p, d)
      PROVE  Goto(p, "acquire") /\ UNCHANGED gen
  BY <1>2 DEF StartAcknowledge
<1> QED BY <1>1, <1>2 DEF Start

\* Generations stay with their processes.
LEMMA OwnedStep ==
  ASSUME TypeOK, Owned, [Next]_vars
  PROVE  Owned'
<1>1. /\ pc \in [Procs -> Steps] /\ gen \in [Procs -> 0..MaxGen]
      /\ kind \in [Gens -> Kinds] /\ todo \in [Procs -> SUBSET Gens]
  BY DEF TypeOK, TypeCalls, TypeDisk
<1>2. \A p \in Procs : gen[p] # 0 => gen[p] \in Gens
  BY <1>1, BoundsAssumption DEF Gens
<1>3. ASSUME NEW p \in Procs, NEW step \in Steps, NEW k \in Kinds,
             Goto(p, step), UNCHANGED gen, k \notin {"none", "pending"},
             step # "mkpending", step \in Working => pc[p] \in Working,
             kind' = kind \/ \E g \in Gens : kind[g] = "pending" /\ kind' = [kind EXCEPT ![g] = k]
      PROVE  Owned'
  <2>1. \A h \in Gens : kind'[h] = kind[h] \/ (kind[h] = "pending" /\ kind'[h] = k)
    BY <1>1, <1>3
  <2>2. \A q \in Procs : pc'[q] = pc[q] \/ (q = p /\ pc'[q] = step)
    BY <1>1, <1>3 DEF Goto
  <2>3. \A q \in Procs : pc'[q] \in Working => gen'[q] # 0
    BY <1>3, <2>2 DEF Owned
  <2>4. \A q \in Procs : gen'[q] # 0 => kind'[gen'[q]] # "none"
    BY <1>2, <1>3, <2>1 DEF Owned
  <2>5. \A q \in Procs : pc'[q] = "mkpending" => kind'[gen'[q]] = "reserved"
    <3>1. "mkpending" \in Working
      BY DEF Working
    <3> QED BY <1>2, <1>3, <2>1, <2>2, <3>1 DEF Owned
  <2> QED BY <1>3, <2>3, <2>4, <2>5 DEF Owned
<1>4. ASSUME NEW p \in Procs, NEW step \in {"done", "crashed"}, NEW k \in Kinds,
             Goto(p, step), gen' = [gen EXCEPT ![p] = 0], k \notin {"none", "pending"},
             kind' = kind \/ \E g \in Gens : kind[g] = "pending" /\ kind' = [kind EXCEPT ![g] = k]
      PROVE  Owned'
  BY <1>1, <1>2, <1>4 DEF Owned, Goto, Working
<1>5. "cancelled" \in Kinds /\ "fenced" \in Kinds /\ "committed" \in Kinds
  BY DEF Kinds
<1>6. ASSUME NEW p \in Procs, Start(p)
      PROVE  Owned'
  <2>1. kind' = kind
    BY <1>6 DEF Start, StartCheck, StartAcknowledge, disk
  <2>2. \/ Goto(p, "done") /\ gen' = [gen EXCEPT ![p] = 0]
        \/ Goto(p, "acquire") /\ UNCHANGED gen
    BY <1>6, StartMoves
  <2>3. "acquire" \in Steps /\ "acquire" \notin Working
    BY DEF Steps, Working
  <2> QED BY <1>3, <1>4, <1>5, <2>1, <2>2, <2>3
<1>7. ASSUME NEW p \in Procs, Reserve(p)
      PROVE  Owned'
  <2>1. CASE Finish(p, mem[p], Unavailable) /\ UNCHANGED disk
    BY <1>4, <1>5, <2>1 DEF Finish, disk
  <2>2. ASSUME NEW g \in Gens, kind[g] = "none",
               kind' = [kind EXCEPT ![g] = "reserved"], gen' = [gen EXCEPT ![p] = g],
               Goto(p, "mkpending")
        PROVE  Owned'
    BY <1>1, <1>2, <2>2, BoundsAssumption DEF Owned, Goto, Working, Gens
  <2> QED BY <1>7, <2>1, <2>2 DEF Reserve
<1>8. ASSUME NEW p \in Procs, MakePending(p)
      PROVE  Owned'
  <2>1. gen[p] \in Gens
    BY <1>2, <1>8 DEF Owned, MakePending, Working
  <2> QED BY <1>1, <1>2, <1>8, <2>1 DEF Owned, MakePending, Goto, Working
<1>9. ASSUME NEW p \in Procs, Look(p) \/ WriteOwner(p) \/ Promote(p) \/ Inspect(p)
      PROVE  Owned'
  BY <1>3, <1>4, <1>5, <1>9
     DEF Look, WriteOwner, Promote, Inspect, Continue, CancelThen, Finish, disk, Working, Steps
<1>10. ASSUME NEW p \in Procs, Retire(p) \/ MoveClaim(p) \/ Install(p) \/ Installed(p)
       PROVE  Owned'
  BY <1>3, <1>4, <1>5, <1>10
     DEF Retire, MoveClaim, Install, Installed, NextAttempt, Continue, CancelThen, Finish, disk,
         Working, Steps
<1>11. ASSUME NEW p \in Procs, ReadAgain(p) \/ ConfirmBeforeFetch(p) \/ Fetch(p)
       PROVE  Owned'
  BY <1>3, <1>5, <1>11
     DEF ReadAgain, ConfirmBeforeFetch, Fetch, Continue, CancelThen, disk, Working, Steps
<1>12. ASSUME NEW p \in Procs, OwnBeforeFencing(p) \/ ListLower(p) \/ OwnAfterFencing(p) \/ Draft(p)
       PROVE  Owned'
  BY <1>3, <1>5, <1>12
     DEF OwnBeforeFencing, ListLower, OwnAfterFencing, Draft, WriteDraft, Continue, CancelThen,
         disk, Working, Steps
<1>13. ASSUME NEW p \in Procs, FenceOne(p)
       PROVE  Owned'
  BY <1>1, <1>2, <1>13 DEF FenceOne, Rename, Owned, Working
<1>14. ASSUME NEW p \in Procs, Publish(p) \/ Cancel(p)
       PROVE  Owned'
  <2>1. gen[p] \in Gens
    BY <1>2, <1>14 DEF Owned, Publish, Cancel, Working
  <2> QED BY <1>3, <1>4, <1>5, <1>14, <2>1
          DEF Publish, Cancel, Rename, Lose, Finish, disk, Working, Steps
<1>15. ASSUME NEW p \in Procs, LoseCheck(p) \/ LoseAcknowledge(p) \/ Crash(p)
       PROVE  Owned'
  BY <1>3, <1>4, <1>5, <1>15 DEF LoseCheck, LoseAcknowledge, Crash, Finish, disk, Working, Steps
<1>16. ASSUME NEW g \in Gens, Expire(g)
       PROVE  Owned'
  BY <1>16 DEF Expire, Owned, locals
<1>17. ASSUME UNCHANGED vars
       PROVE  Owned'
  BY <1>17 DEF Owned, vars, disk, locals
<1> QED BY <1>6, <1>7, <1>8, <1>9, <1>10, <1>11, <1>12, <1>13, <1>14, <1>15, <1>16, <1>17
        DEF Next, Step, Acquire, Commit

\* An operation behind Promote is fenced before a later one decides.
LEMMA FencedStep ==
  ASSUME TypeOK, Owned, Fenced, [Next]_vars
  PROVE  Fenced'
<1>1. /\ pc \in [Procs -> Steps] /\ gen \in [Procs -> 0..MaxGen]
      /\ kind \in [Gens -> Kinds] /\ todo \in [Procs -> SUBSET Gens]
  BY DEF TypeOK, TypeCalls, TypeDisk
<1>2. \A p \in Procs : pc[p] \in Working => gen[p] \in Gens
  BY <1>1, BoundsAssumption DEF Gens, Owned
<1>3. Past \subseteq Working /\ Fencing \subseteq Past
  BY DEF Past, Fencing, Working
<1>4. ASSUME NEW p \in Procs, NEW step \in Steps, Goto(p, step), UNCHANGED todo,
             gen' = gen \/ (gen' = [gen EXCEPT ![p] = 0] /\ step \notin Working),
             \A h \in Gens : kind'[h] # kind[h] => kind[h] = "pending" /\ kind'[h] \in {"fenced", "cancelled"},
             step \in Past => pc[p] \in Past,
             step \in Fencing => pc[p] \in Fencing,
             step \in {"draft", "publish"} => pc[p] = "draft" \/ todo[p] = {}
      PROVE  Fenced'
  <2>1. \A q \in Procs : pc'[q] = pc[q] \/ (q = p /\ pc'[q] = step)
    BY <1>1, <1>4 DEF Goto
  <2>2. \A q \in Procs : /\ pc'[q] \in Past => pc[q] \in Past /\ gen'[q] = gen[q] /\ gen[q] \in Gens
                         /\ pc'[q] \in Fencing => pc[q] \in Fencing
    <3>1. ASSUME NEW q \in Procs, pc'[q] \in Past
          PROVE  pc[q] \in Past /\ gen'[q] = gen[q]
      <4>1. CASE q = p
        <5>1. pc'[p] = step
          BY <1>1, <1>4 DEF Goto
        <5>2. step \in Past /\ step \in Working
          BY <1>3, <3>1, <4>1, <5>1
        <5> QED BY <1>4, <4>1, <5>2
      <4>2. CASE q # p
        BY <1>1, <1>4, <2>1, <3>1, <4>2
      <4> QED BY <4>1, <4>2
    <3>2. \A q \in Procs : pc'[q] \in Fencing => pc[q] \in Fencing
      BY <1>4, <2>1
    <3> QED BY <1>2, <1>3, <3>1, <3>2
  <2>3. \A h \in Gens : /\ kind'[h] = "pending" => kind[h] = "pending"
                        /\ kind'[h] = "committed" => kind[h] = "committed"
    BY <1>4
  <2>4. \A q \in Procs : pc'[q] \in {"draft", "publish"} => todo'[q] = {}
    BY <1>4, <2>1 DEF Fenced
  <2>5. \A q \in Procs : pc'[q] \in Past /\ kind'[gen'[q]] = "pending"
          => \A h \in Gens : h > gen'[q] => kind'[h] # "committed"
    BY <2>2, <2>3 DEF Fenced
  <2>6. \A q, r \in Procs :
          pc'[q] \in Past /\ kind'[gen'[q]] = "pending" /\ pc'[r] \in Fencing /\ gen'[q] < gen'[r]
            => gen'[q] \in todo'[r]
    BY <1>3, <1>4, <2>2, <2>3 DEF Fenced
  <2> QED BY <2>4, <2>5, <2>6 DEF Fenced
<1>5. ASSUME NEW p \in Procs, Start(p)
      PROVE  Fenced'
  <2>1. kind' = kind /\ UNCHANGED todo
    BY <1>5 DEF Start, StartCheck, StartAcknowledge, Finish, disk
  <2>2. \/ Goto(p, "done") /\ gen' = [gen EXCEPT ![p] = 0]
        \/ Goto(p, "acquire") /\ UNCHANGED gen
    BY <1>5, StartMoves
  <2>3. {"acquire", "done"} \subseteq Steps \ Working
    BY DEF Steps, Working
  <2> QED BY <1>3, <1>4, <2>1, <2>2, <2>3
<1>6. ASSUME NEW p \in Procs, Reserve(p)
      PROVE  Fenced'
  <2>1. CASE Finish(p, mem[p], Unavailable) /\ UNCHANGED disk
    BY <1>3, <1>4, <2>1 DEF Finish, disk, Steps, Working, Past, Fencing
  <2>2. ASSUME NEW g \in Gens, kind[g] = "none",
               kind' = [kind EXCEPT ![g] = "reserved"], gen' = [gen EXCEPT ![p] = g],
               Goto(p, "mkpending"), UNCHANGED todo
        PROVE  Fenced'
    <3>1. "mkpending" \notin Past /\ "mkpending" \notin Fencing
      BY DEF Past, Fencing
    <3>2. \A q \in Procs : pc'[q] \in Past => pc[q] \in Past /\ pc'[q] = pc[q] /\ q # p
                                               /\ gen'[q] = gen[q] /\ gen[q] \in Gens
      BY <1>1, <1>2, <1>3, <2>2, <3>1 DEF Goto
    <3>3. \A h \in Gens : /\ kind'[h] = "pending" => kind[h] = "pending"
                          /\ kind'[h] = "committed" => kind[h] = "committed"
      BY <1>1, <2>2
    <3> QED BY <1>3, <2>2, <3>2, <3>3 DEF Fenced, Fencing
  <2> QED BY <1>6, <2>1, <2>2 DEF Reserve
<1>7. ASSUME NEW p \in Procs, MakePending(p)
      PROVE  Fenced'
  <2>1. gen[p] \in Gens /\ gen[p] # 0 /\ kind' = [kind EXCEPT ![gen[p]] = "pending"]
    BY <1>2, <1>7 DEF MakePending, Working, Owned
  <2>2. \A q \in Procs : pc'[q] \in Past => pc[q] \in Past /\ pc'[q] = pc[q] /\ q # p
                                             /\ gen'[q] = gen[q] /\ gen[q] \in Gens /\ gen[q] # gen[p]
    BY <1>1, <1>2, <1>3, <1>7, <2>1 DEF MakePending, Goto, Past, Owned
  <2>3. \A h \in Gens : /\ kind'[h] = "pending" => kind[h] = "pending" \/ h = gen[p]
                        /\ kind'[h] = "committed" => kind[h] = "committed"
    BY <1>1, <2>1
  <2> QED BY <1>3, <1>7, <2>2, <2>3 DEF Fenced, Fencing, MakePending
<1>8. ASSUME NEW p \in Procs, Promote(p)
      PROVE  Fenced'
  <2>1. CASE CancelThen(p, "lost", Silent)
    BY <1>3, <1>4, <2>1 DEF CancelThen, disk, Past, Fencing, Working, Steps
  <2>2. CASE Continue(p, "inspect") /\ ~Superseded(gen[p])
    <3>1. UNCHANGED <<kind, gen, todo>> /\ gen[p] \in Gens
      BY <1>2, <1>8, <2>2 DEF Promote, Continue, disk, Working
    <3>2. \A q \in Procs : /\ pc'[q] \in Past => pc[q] \in Past \/ q = p
                           /\ pc'[q] \in Fencing => pc[q] \in Fencing
                           /\ pc'[q] \in {"draft", "publish"} => pc[q] \in {"draft", "publish"}
      BY <1>1, <2>2 DEF Continue, Goto, Fencing
    <3>3. \A h \in Gens : h > gen[p] => kind[h] = "none"
      BY <2>2 DEF Superseded
    <3>4. \A q \in Procs : pc[q] \in Fencing => gen[q] \in Gens /\ kind[gen[q]] # "none"
      BY <1>2, <1>3, BoundsAssumption DEF Owned, Gens
    <3>5. \A q \in Procs : pc[q] \in Fencing => ~(gen[p] < gen[q])
      BY <3>1, <3>3, <3>4 DEF Gens
    <3> QED BY <3>1, <3>2, <3>3, <3>5 DEF Fenced
  <2> QED BY <1>8, <2>1, <2>2 DEF Promote
<1>9. ASSUME NEW p \in Procs, Look(p) \/ WriteOwner(p) \/ Inspect(p)
      PROVE  Fenced'
  BY <1>4, <1>9
     DEF Look, WriteOwner, Inspect, Continue, CancelThen, Finish, disk, Past, Fencing, Working, Steps
<1>10. ASSUME NEW p \in Procs, Retire(p) \/ MoveClaim(p) \/ Install(p) \/ Installed(p)
       PROVE  Fenced'
  BY <1>4, <1>10
     DEF Retire, MoveClaim, Install, Installed, NextAttempt, Continue, CancelThen, Finish, disk,
         Past, Fencing, Working, Steps
<1>11. ASSUME NEW p \in Procs, ReadAgain(p) \/ ConfirmBeforeFetch(p) \/ Fetch(p)
       PROVE  Fenced'
  BY <1>4, <1>11
     DEF ReadAgain, ConfirmBeforeFetch, Fetch, Continue, CancelThen, disk, Past, Fencing, Working,
         Steps
<1>12. ASSUME NEW p \in Procs, OwnBeforeFencing(p) \/ OwnAfterFencing(p) \/ Draft(p)
       PROVE  Fenced'
  BY <1>4, <1>12
     DEF OwnBeforeFencing, OwnAfterFencing, Draft, WriteDraft, Continue, CancelThen,
         disk, Past, Fencing, Working, Steps
<1>13. ASSUME NEW p \in Procs, ListLower(p)
       PROVE  Fenced'
  <2>1. UNCHANGED <<kind, gen>> /\ gen[p] \in Gens /\ pc[p] \in Past
    BY <1>2, <1>13 DEF ListLower, disk, Working, Past
  <2>2. \A q \in Procs : /\ pc'[q] \in Past => pc[q] \in Past /\ gen[q] \in Gens
                         /\ pc'[q] \in Fencing => pc[q] \in Fencing \/ q = p
                         /\ pc'[q] \in {"draft", "publish"} => q # p /\ pc[q] \in {"draft", "publish"}
                         /\ todo'[q] = IF q = p THEN LowerPending(gen[p]) ELSE todo[q]
    BY <1>1, <1>2, <1>3, <1>13, <2>1 DEF ListLower, Goto
  <2>3. \A q \in Procs : pc'[q] \in Past /\ kind[gen[q]] = "pending" /\ gen[q] < gen[p]
          => gen[q] \in LowerPending(gen[p])
    BY <2>2 DEF LowerPending
  <2> QED BY <2>1, <2>2, <2>3 DEF Fenced
<1>14. ASSUME NEW p \in Procs, FenceOne(p)
       PROVE  Fenced'
  <2>1. PICK h \in todo[p] : /\ todo' = [todo EXCEPT ![p] = @ \ {h}]
                             /\ IF kind[h] = "pending" THEN Rename(h, "fenced")
                                ELSE UNCHANGED <<kind, stale>>
    BY <1>14 DEF FenceOne
  <2>2. h \in Gens /\ UNCHANGED <<pc, gen>> /\ pc[p] = "fence"
    BY <1>1, <1>14 DEF FenceOne
  <2>3. kind'[h] # "pending"
    BY <1>1, <2>1, <2>2 DEF Rename
  <2>4. \A g \in Gens : /\ kind'[g] = "pending" => kind[g] = "pending"
                        /\ kind'[g] = "committed" => kind[g] = "committed"
    BY <1>1, <2>1, <2>2 DEF Rename
  <2>5. \A q \in Procs : todo'[q] = IF q = p THEN todo[q] \ {h} ELSE todo[q]
    BY <1>1, <2>1
  <2>6. \A q \in Procs : pc[q] \in Past => gen[q] \in Gens
    BY <1>2, <1>3
  <2> QED BY <2>2, <2>3, <2>4, <2>5, <2>6 DEF Fenced
<1>15. ASSUME NEW p \in Procs, Publish(p)
       PROVE  Fenced'
  <2>1. CASE Lose(p) \/ (Finish(p, mem[p], Unavailable) /\ UNCHANGED disk)
    BY <1>4, <2>1 DEF Lose, Finish, disk, Past, Fencing, Working, Steps
  <2>2. CASE kind[gen[p]] = "pending" /\ Rename(gen[p], "committed") /\ Finish(p, mem[p], mem[p].out)
    <3>1. gen[p] \in Gens /\ pc[p] \in Fencing /\ todo[p] = {} /\ UNCHANGED todo
      BY <1>2, <1>15, <2>2 DEF Publish, Working, Fencing, Fenced, Finish
    <3>2. \A q \in Procs : pc'[q] \in Past => pc[q] \in Past /\ pc'[q] = pc[q] /\ q # p
                                               /\ gen'[q] = gen[q] /\ gen[q] \in Gens
      BY <1>1, <1>2, <1>3, <2>2 DEF Finish, Goto, Past, Working
    <3>3. \A h \in Gens : /\ kind'[h] = "pending" => kind[h] = "pending"
                          /\ kind'[h] = "committed" => kind[h] = "committed" \/ h = gen[p]
      BY <1>1, <2>2, <3>1 DEF Rename
    <3>4. \A q \in Procs : pc'[q] \in Past /\ kind'[gen[q]] = "pending" => ~(gen[q] < gen[p])
      BY <3>1, <3>2, <3>3 DEF Fenced
    <3>5. \A q \in Procs : pc'[q] \in Fencing => pc'[q] \in Past
      BY <1>3
    <3>6. \A q \in Procs : pc'[q] \in {"draft", "publish"} => pc'[q] \in Past
      BY DEF Past, Working
    <3> QED BY <3>1, <3>2, <3>3, <3>4, <3>5, <3>6 DEF Fenced, Gens
  <2> QED BY <1>15, <2>1, <2>2 DEF Publish
<1>16. ASSUME NEW p \in Procs, Cancel(p)
       PROVE  Fenced'
  <2>1. \A h \in Gens : kind'[h] # kind[h] => kind[h] = "pending" /\ kind'[h] \in {"fenced", "cancelled"}
    BY <1>1, <1>2, <1>16 DEF Cancel, Rename, Working
  <2> QED BY <1>4, <1>16, <2>1 DEF Cancel, Finish, Past, Fencing, Working, Steps
<1>17. ASSUME NEW p \in Procs, LoseCheck(p) \/ LoseAcknowledge(p)
       PROVE  Fenced'
  BY <1>4, <1>17 DEF LoseCheck, LoseAcknowledge, Finish, disk, Past, Fencing, Working, Steps
<1>18. ASSUME NEW p \in Procs, Crash(p)
       PROVE  Fenced'
  <2>1. UNCHANGED kind
    BY <1>18 DEF Crash, disk
  <2>2. \A q \in Procs : pc'[q] \in Past => pc[q] \in Past /\ pc'[q] = pc[q] /\ q # p
                                             /\ gen'[q] = gen[q] /\ todo'[q] = todo[q]
    BY <1>1, <1>18 DEF Crash, Goto, Past, Working
  <2>3. {"draft", "publish"} \subseteq Fencing
    BY DEF Fencing
  <2> QED BY <1>3, <2>1, <2>2, <2>3 DEF Fenced
<1>19. ASSUME NEW g \in Gens, Expire(g)
       PROVE  Fenced'
  BY <1>19 DEF Expire, Fenced, locals
<1>20. ASSUME UNCHANGED vars
       PROVE  Fenced'
  BY <1>20 DEF Fenced, vars, disk, locals
<1> QED BY <1>5, <1>6, <1>7, <1>8, <1>9, <1>10, <1>11, <1>12, <1>13, <1>14, <1>15, <1>16, <1>17,
           <1>18, <1>19, <1>20
        DEF Next, Step, Acquire, Commit

-----------------------------------------------------------------------------
(* Drafts                                                                  *)

\* A change of the ledger leaves a record that can be read back and withdraws
\* no acknowledgement.
LEMMA LedgerSteps ==
  ASSUME NEW s \in States, Readable(s), NEW next, LedgerStep(s, next)
  PROVE  Readable(next) /\ s.acknowledged \subseteq next.acknowledged
<1>1. ASSUME NEW t, NEW withdraw \in BOOLEAN
      PROVE  /\ Readable(AfterFailedCheck(s, t, withdraw))
             /\ s.acknowledged = AfterFailedCheck(s, t, withdraw).acknowledged
  <2> DEFINE failed == AfterFailedCheck(s, t, withdraw)
  <2>1. /\ failed.offered = s.offered /\ failed.acknowledged = s.acknowledged
        /\ failed.candidate \in {NoDigest, s.candidate}
    BY DEF AfterFailedCheck, States
  <2> HIDE DEF failed
  <2>2. Readable(failed)
    BY <2>1 DEF Readable, Recoverable
  <2> QED BY <2>1, <2>2 DEF failed
<1>2. ASSUME NEW d \in Digests, NEW t, NEW delay
      PROVE  /\ Readable(AfterCheck(s, d, t, delay))
             /\ s.acknowledged \subseteq AfterCheck(s, d, t, delay).acknowledged
  <2> DEFINE found == WithCandidate(s, d, t, delay)
  <2>1. CASE ~Recoverable(found)
    BY <1>1, <2>1 DEF AfterCheck
  <2>2. CASE Recoverable(found)
    <3>1. /\ found.candidate = d
          /\ found.acknowledged = s.acknowledged
          /\ Newer(d) /\ d \notin s.acknowledged => d \in found.offered
      <4> DEFINE base == [s EXCEPT !.candidate = d, !.next = t + delay, !.failures = 0]
      <4>1. base.candidate = d /\ base.acknowledged = s.acknowledged
        BY DEF States
      <4>2. base.offered = s.offered /\ DOMAIN base = DOMAIN s
        BY DEF States
      <4>3. d # NoDigest
        BY DigestsAssumption
      <4>4. Newer(d) /\ d \notin s.acknowledged
              => ResultForCandidate(base).status = "update_available"
        BY <4>1, <4>3 DEF ResultForCandidate, Notice
      <4>5. found = IF ResultForCandidate(base).status = "update_available"
                    THEN [base EXCEPT !.offered = @ \cup {d}] ELSE base
        BY DEF WithCandidate
      <4>6. [base EXCEPT !.offered = @ \cup {d}].candidate = base.candidate
        BY DEF States
      <4>7. [base EXCEPT !.offered = @ \cup {d}].acknowledged = base.acknowledged
        BY DEF States
      <4>8. [base EXCEPT !.offered = @ \cup {d}].offered = base.offered \cup {d}
        BY DEF States
      <4> HIDE DEF base, found
      <4> QED BY <4>1, <4>4, <4>5, <4>6, <4>7, <4>8
    <3>2. AfterCheck(s, d, t, delay) = found
      BY <2>2 DEF AfterCheck
    <3> HIDE DEF found
    <3> QED BY <2>2, <3>1, <3>2 DEF Readable
  <2> QED BY <2>1, <2>2
<1>3. ASSUME NEW d \in s.offered \cup s.acknowledged
      PROVE  /\ Readable(AfterAcknowledgement(s, d))
             /\ s.acknowledged \subseteq AfterAcknowledgement(s, d).acknowledged
  <2> DEFINE moved == AfterAcknowledgement(s, d)
  <2>1. /\ moved.offered = s.offered \ {d} /\ moved.acknowledged = s.acknowledged \cup {d}
        /\ moved.candidate = s.candidate
    BY DEF AfterAcknowledgement, States
  <2> HIDE DEF moved
  <2>2. moved.offered \cup moved.acknowledged = s.offered \cup s.acknowledged
    BY <2>1
  <2>3. Readable(moved)
    BY <2>1, <2>2 DEF Readable, Recoverable
  <2> QED BY <2>1, <2>3 DEF moved
<1> QED BY <1>1, <1>2, <1>3 DEF LedgerStep

\* The publication of a draft, the one step that changes what readers see.
Commits(p) ==
  /\ pc[p] = "publish"
  /\ kind[gen[p]] = "pending"
  /\ Rename(gen[p], "committed")
  /\ content' = [content EXCEPT ![gen[p]] = mem[p].next]
  /\ Finish(p, mem[p], mem[p].out)

\* Nothing else commits.
LEMMA OnlyPublishCommits ==
  ASSUME TypeOK, Owned, [Next]_vars
  PROVE  \/ /\ content' = content
            /\ \A g \in Gens : kind'[g] = "committed" <=> kind[g] = "committed"
         \/ \E p \in Procs : Commits(p)
<1>1. /\ gen \in [Procs -> 0..MaxGen] /\ kind \in [Gens -> Kinds] /\ todo \in [Procs -> SUBSET Gens]
  BY DEF TypeOK, TypeCalls, TypeDisk
<1>2. \A p \in Procs : pc[p] \in Working => gen[p] \in Gens
  BY <1>1, BoundsAssumption DEF Gens, Owned
<1>3. ASSUME NEW p \in Procs, Start(p)
      PROVE  UNCHANGED <<kind, content>>
  BY <1>3 DEF Start, StartCheck, StartAcknowledge, disk
<1>4. ASSUME NEW p \in Procs, Reserve(p) \/ MakePending(p) \/ FenceOne(p) \/ Cancel(p)
      PROVE  /\ content' = content
             /\ \A g \in Gens : kind'[g] = "committed" <=> kind[g] = "committed"
  <2>1. CASE Reserve(p)
    BY <1>1, <2>1 DEF Reserve, disk
  <2>2. CASE MakePending(p)
    <3>1. gen[p] \in Gens /\ kind[gen[p]] = "reserved"
      BY <1>2, <2>2 DEF MakePending, Working, Owned
    <3> QED BY <1>1, <2>2, <3>1 DEF MakePending
  <2>3. CASE FenceOne(p)
    BY <1>1, <2>3 DEF FenceOne, Rename
  <2>4. CASE Cancel(p)
    BY <1>1, <1>2, <2>4 DEF Cancel, Rename, Working
  <2> QED BY <1>4, <2>1, <2>2, <2>3, <2>4
<1>5. ASSUME NEW p \in Procs,
             \/ Look(p) \/ WriteOwner(p) \/ Promote(p) \/ Inspect(p) \/ Retire(p) \/ MoveClaim(p)
             \/ Install(p) \/ Installed(p) \/ ReadAgain(p) \/ ConfirmBeforeFetch(p) \/ Fetch(p)
             \/ OwnBeforeFencing(p) \/ ListLower(p) \/ OwnAfterFencing(p) \/ Draft(p)
             \/ LoseCheck(p) \/ LoseAcknowledge(p) \/ Crash(p)
      PROVE  UNCHANGED <<kind, content>>
  BY <1>5 DEF Look, WriteOwner, Promote, Inspect, Retire, MoveClaim, Install, Installed, ReadAgain,
              ConfirmBeforeFetch, Fetch, OwnBeforeFencing, ListLower, OwnAfterFencing, Draft,
              WriteDraft, LoseCheck, LoseAcknowledge, Crash, Continue, CancelThen, disk
<1>6. ASSUME NEW p \in Procs, Publish(p)
      PROVE  UNCHANGED <<kind, content>> \/ Commits(p)
  BY <1>6 DEF Publish, Lose, Commits, disk
<1>7. ASSUME (\E g \in Gens : Expire(g)) \/ UNCHANGED vars
      PROVE  UNCHANGED <<kind, content>>
  BY <1>7 DEF Expire, vars, disk
<1> QED BY <1>3, <1>4, <1>5, <1>6, <1>7 DEF Next, Step, Acquire, Commit

\* A record is published on top of the one it was computed from, by one
\* process at a time.
LEMMA CommitIsLatest ==
  ASSUME TypeOK, HasLatest, Owned, Fenced, Drafted, NEW p \in Procs, Commits(p)
  PROVE  /\ HasLatest'
         /\ LatestGen' = gen[p]
         /\ Latest' = mem[p].next
         /\ \A q \in Procs : pc[q] = "publish" /\ kind[gen[q]] = "pending" => q = p
<1>1. /\ gen \in [Procs -> 0..MaxGen] /\ kind \in [Gens -> Kinds] /\ content \in [Gens -> States]
  BY DEF TypeOK, TypeCalls, TypeDisk
<1>2. \A q \in Procs : pc[q] = "publish" => gen[q] \in Gens /\ gen[q] # 0 /\ todo[q] = {}
                                              /\ pc[q] \in Past /\ pc[q] \in Fencing
  BY <1>1, BoundsAssumption DEF Gens, Owned, Fenced, Past, Fencing, Working
<1>3. \A g \in Gens : /\ kind'[g] = IF g = gen[p] THEN "committed" ELSE kind[g]
                      /\ content'[g] = IF g = gen[p] THEN mem[p].next ELSE content[g]
  BY <1>1, <1>2 DEF Commits, Rename
<1>4. Committed' = Committed \cup {gen[p]}
  BY <1>2, <1>3 DEF Commits, Committed, Drafted
<1>5. \A h \in Committed' : h <= gen[p] /\ h \in Nat
  BY <1>2, <1>4 DEF Committed, Commits, Fenced, Gens
<1>6. \A g \in Committed' : (\A h \in Committed' : h <= g) <=> g = gen[p]
  BY <1>4, <1>5
<1>7. LatestGen' = gen[p]
  BY <1>4, <1>5, <1>6 DEF LatestGen
<1>8. HasLatest'
  BY <1>4, <1>5 DEF HasLatest
<1>9. Latest' = mem[p].next
  BY <1>2, <1>3, <1>7 DEF Latest, Commits
<1>10. ASSUME NEW q \in Procs, pc[q] = "publish", kind[gen[q]] = "pending"
       PROVE  q = p
  <2>1. ~(gen[p] < gen[q]) /\ ~(gen[q] < gen[p])
    BY <1>2, <1>10 DEF Commits, Fenced
  <2>2. gen[p] = gen[q]
    BY <1>2, <1>10, <2>1 DEF Commits, Gens
  <2> QED BY <1>2, <1>10, <2>2 DEF Owned
<1> QED BY <1>7, <1>8, <1>9, <1>10

\* Steps of one process leave what the others remember alone.
LEMMA OthersStay ==
  ASSUME TypeOK, NEW p \in Procs, Start(p) \/ Step(p) \/ Crash(p), NEW q \in Procs, q # p
  PROVE  pc'[q] = pc[q] /\ mem'[q] = mem[q] /\ gen'[q] = gen[q]
<1>1. pc \in [Procs -> Steps] /\ gen \in [Procs -> 0..MaxGen] /\ mem \in [Procs -> Memory]
  BY DEF TypeOK, TypeCalls
<1>2. \/ UNCHANGED <<pc, mem, gen>>
      \/ /\ \E step : Goto(p, step)
         /\ mem' = mem \/ \E m : mem' = [mem EXCEPT ![p] = m]
         /\ gen' = gen \/ \E g : gen' = [gen EXCEPT ![p] = g]
  <2>1. ASSUME NEW m, NEW out, Finish(p, m, out)
        PROVE  /\ \E step : Goto(p, step)
               /\ \E n : mem' = [mem EXCEPT ![p] = n]
               /\ \E g : gen' = [gen EXCEPT ![p] = g]
    BY <2>1 DEF Finish
  <2>2. CASE Start(p)
    <3>1. ASSUME NEW now \in Times, StartCheck(p, now)
          PROVE  <1>2!2
      <4> DEFINE m == [mem[p] EXCEPT !.call = CheckCall, !.started = now, !.known = told]
      <4>1. \/ Finish(p, m, ResultForCandidate(Latest))
            \/ Goto(p, "acquire") /\ mem' = [mem EXCEPT ![p] = m] /\ UNCHANGED <<gen, todo, outside>>
        BY <3>1 DEF StartCheck
      <4> HIDE DEF m
      <4> QED BY <2>1, <4>1
    <3>2. ASSUME NEW d \in Digests, StartAcknowledge(p, d)
          PROVE  <1>2!2
      BY <3>2 DEF StartAcknowledge
    <3> QED BY <2>2, <3>1, <3>2 DEF Start
  <2>3. CASE Acquire(p)
    BY <2>1, <2>3 DEF Acquire, Look, Reserve, MakePending, WriteOwner, Promote, Inspect, Retire,
                      MoveClaim, Install, Installed, NextAttempt, Continue, CancelThen
  <2>4. CASE ReadAgain(p) \/ ConfirmBeforeFetch(p) \/ Fetch(p)
    BY <2>4 DEF ReadAgain, ConfirmBeforeFetch, Fetch, Continue, CancelThen
  <2>5. CASE Commit(p)
    BY <2>1, <2>5 DEF Commit, OwnBeforeFencing, ListLower, FenceOne, OwnAfterFencing, Draft,
                      WriteDraft, Publish, Lose, Continue, CancelThen
  <2>6. CASE Cancel(p) \/ LoseCheck(p) \/ LoseAcknowledge(p) \/ Crash(p)
    BY <2>1, <2>6 DEF Cancel, LoseCheck, LoseAcknowledge, Crash
  <2> QED BY <2>2, <2>3, <2>4, <2>5, <2>6 DEF Step
<1> QED BY <1>1, <1>2 DEF Goto

\* What a process that answers leaves behind.
LEMMA FinishAnswers ==
  ASSUME TypeCalls, NEW p \in Procs, NEW m, NEW out, Finish(p, m, out)
  PROVE  /\ pc'[p] = "done"
         /\ mem'[p].known = m.known
         /\ mem'[p].out = out
         /\ told' = IF out.status = "acknowledged" THEN told \cup {out.digest} ELSE told
<1> DEFINE last == [NoMem EXCEPT !.call = m.call, !.known = m.known, !.out = out]
<1>1. last.known = m.known /\ last.out = out
  BY DEF NoMem
<1> HIDE DEF last
<1>2. mem' = [mem EXCEPT ![p] = last]
  BY DEF Finish, last
<1>3. mem'[p] = last
  BY <1>2 DEF TypeCalls
<1>4. pc'[p] = "done" /\ told' = IF out.status = "acknowledged" THEN told \cup {out.digest} ELSE told
  BY DEF Finish, Goto, TypeCalls
<1> QED BY <1>1, <1>3, <1>4

\* A notice taken from the newest record is news to everyone who was told.
LEMMA NoticesAreNews ==
  ASSUME TypeOK, HasLatest, Answered
  PROVE  \A out \in {Silent, Unavailable, ResultForCandidate(Latest), LastGoodResult} :
           /\ out.status # "acknowledged"
           /\ out.status = "update_available" => out.digest \notin told
BY DEF Answered, ResultForCandidate, LastGoodResult, Silent, Unavailable, Notice

\* A call in progress keeps its question and what its caller knew.
LEMMA CallsRemember ==
  ASSUME TypeOK, NEW p \in Procs, Step(p) \/ Crash(p), pc'[p] \notin {"done", "crashed"}
  PROVE  /\ mem'[p].call = mem[p].call /\ mem'[p].started = mem[p].started
         /\ mem'[p].known = mem[p].known
         /\ pc[p] # "fetch" => mem'[p].failed = mem[p].failed /\ mem'[p].fetched = mem[p].fetched
<1> DEFINE Keeps(m) ==
             /\ m.call = mem[p].call /\ m.started = mem[p].started /\ m.known = mem[p].known
             /\ pc[p] # "fetch" => m.failed = mem[p].failed /\ m.fetched = mem[p].fetched
<1>1. pc \in [Procs -> Steps] /\ mem \in [Procs -> Memory]
  BY DEF TypeOK, TypeCalls
<1>2. \A m, out : ~Finish(p, m, out)
  BY <1>1 DEF Finish, Goto
<1>3. Keeps(mem'[p])
  <2>1. CASE Acquire(p)
    BY <1>1, <1>2, <2>1 DEF Memory, Acquire, Look, Reserve, MakePending, WriteOwner, Promote, Inspect, Retire,
                      MoveClaim, Install, Installed, NextAttempt, Continue, CancelThen
  <2>2. CASE ReadAgain(p) \/ ConfirmBeforeFetch(p)
    BY <1>1, <2>2 DEF Memory, ReadAgain, ConfirmBeforeFetch, Continue, CancelThen
  <2>3. CASE Fetch(p)
    BY <1>1, <2>3 DEF Memory, Fetch
  <2>4. CASE OwnBeforeFencing(p) \/ ListLower(p) \/ FenceOne(p) \/ OwnAfterFencing(p) \/ Publish(p)
    BY <1>1, <1>2, <2>4 DEF Memory, OwnBeforeFencing, ListLower, FenceOne, OwnAfterFencing,
                            Publish, Lose, Continue, CancelThen
  <2>5. CASE Draft(p)
    <3>1. ASSUME NEW s, NEW out, WriteDraft(p, s, out)
          PROVE  Keeps(mem'[p])
      BY <1>1, <3>1 DEF Memory, WriteDraft
    <3>2. ASSUME CancelThen(p, "done", Silent)
          PROVE  Keeps(mem'[p])
      BY <1>1, <3>2 DEF Memory, CancelThen
    <3> HIDE DEF Keeps
    <3> QED BY <2>5, <3>1, <3>2 DEF Draft
  <2>6. CASE Cancel(p) \/ LoseCheck(p) \/ LoseAcknowledge(p)
    BY <1>1, <1>2, <2>6 DEF Memory, Cancel, LoseCheck, LoseAcknowledge
  <2>7. ~Crash(p)
    BY <1>1 DEF Crash, Goto
  <2> QED BY <2>1, <2>2, <2>3, <2>4, <2>6, <2>7, <2>5 DEF Step, Commit
<1> QED BY <1>1, <1>3

\* A draft is computed from the newest record.
LEMMA DraftFromLatest ==
  ASSUME TypeOK, HasLatest, Drafted, Answered, NEW p \in Procs, Draft(p)
  PROVE  \/ /\ pc'[p] = "publish"
            /\ mem'[p].base = LatestGen
            /\ LedgerStep(Latest, mem'[p].next)
            /\ mem'[p].out.status = "acknowledged" => mem'[p].out.digest \in mem'[p].next.acknowledged
            /\ mem'[p].out.status = "update_available" => mem'[p].out.digest \notin told
            /\ told' = told
         \/ CancelThen(p, "done", Silent)
<1>1. /\ mem \in [Procs -> Memory] /\ pc \in [Procs -> Steps]
      /\ Latest \in States /\ told \subseteq Latest.acknowledged
  BY LatestTypes DEF TypeOK, TypeCalls, Answered
<1> DEFINE named == Latest.offered \cup Latest.acknowledged
<1>2. named \subseteq Digests /\ CheckCall \notin Digests
  BY <1>1, BoundsAssumption DEF States
<1>3. ASSUME NEW s, NEW out, WriteDraft(p, s, out)
      PROVE  /\ pc'[p] = "publish" /\ mem'[p].base = LatestGen
             /\ mem'[p].next = s /\ mem'[p].out = out /\ told' = told
  BY <1>1, <1>3 DEF WriteDraft, Goto, Memory, outside
<1>4. CASE mem[p].call = CheckCall /\ ~mem[p].failed
  <2> DEFINE d == mem[p].fetched
             t == mem[p].started
  <2>1. d \in Digests /\ t \in Times
    BY <1>4 DEF Draft, Drafted
  <2>2. PICK delay \in SuccessDelays :
          WriteDraft(p, AfterCheck(Latest, d, t, delay), ResultOfCheck(Latest, d, t, delay))
    BY <1>2, <1>4 DEF Draft
  <2> HIDE DEF d, t
  <2>3. LedgerStep(Latest, AfterCheck(Latest, d, t, delay))
    BY <2>1 DEF LedgerStep
  <2> DEFINE found == WithCandidate(Latest, d, t, delay)
  <2>4. found.acknowledged = Latest.acknowledged
    BY <1>1 DEF WithCandidate, States
  <2>5. ResultOfCheck(Latest, d, t, delay) \in {Unavailable, ResultForCandidate(found)}
    BY DEF ResultOfCheck
  <2> HIDE DEF found
  <2>6. /\ ResultOfCheck(Latest, d, t, delay).status # "acknowledged"
        /\ ResultOfCheck(Latest, d, t, delay).status = "update_available"
             => ResultOfCheck(Latest, d, t, delay).digest \notin told
    BY <1>1, <2>4, <2>5 DEF ResultForCandidate, Unavailable, Silent, Notice
  <2> QED BY <1>3, <2>2, <2>3, <2>6
<1>5. CASE mem[p].call = CheckCall /\ mem[p].failed
  <2>1. mem[p].started \in Times
    BY <1>5 DEF Draft, Drafted
  <2> DEFINE failed == AfterFailedCheck(Latest, mem[p].started, FALSE)
  <2>2. WriteDraft(p, failed, Silent)
    BY <1>2, <1>5 DEF Draft
  <2>3. LedgerStep(Latest, failed)
    BY <2>1 DEF LedgerStep
  <2> HIDE DEF failed
  <2>4. mem'[p].out = Silent /\ mem'[p].next = failed /\ mem'[p].base = LatestGen
          /\ pc'[p] = "publish" /\ told' = told
    BY <1>3, <2>2
  <2> QED BY <2>3, <2>4 DEF Silent
<1>6. CASE mem[p].call # CheckCall
  <2>1. ASSUME NEW d \in named
        PROVE  /\ LedgerStep(Latest, AfterAcknowledgement(Latest, d))
               /\ d \in AfterAcknowledgement(Latest, d).acknowledged
    BY <1>1, <2>1 DEF LedgerStep, AfterAcknowledgement, States
  <2>2. \/ \E d \in named : WriteDraft(p, AfterAcknowledgement(Latest, d), Acknowledged(d))
        \/ CancelThen(p, "done", Silent)
    BY <1>6 DEF Draft
  <2>3. ASSUME NEW d \in named, WriteDraft(p, AfterAcknowledgement(Latest, d), Acknowledged(d))
        PROVE  /\ pc'[p] = "publish" /\ mem'[p].base = LatestGen /\ told' = told
               /\ LedgerStep(Latest, mem'[p].next)
               /\ mem'[p].out.status = "acknowledged"
               /\ mem'[p].out.digest \in mem'[p].next.acknowledged
    <3>1. Acknowledged(d).status = "acknowledged" /\ Acknowledged(d).digest = d
      BY DEF Acknowledged
    <3> QED BY <1>3, <2>1, <2>3, <3>1
  <2>4. CASE \E d \in named : WriteDraft(p, AfterAcknowledgement(Latest, d), Acknowledged(d))
    <3>1. PICK d \in named : WriteDraft(p, AfterAcknowledgement(Latest, d), Acknowledged(d))
      BY <2>4
    <3> QED BY <2>3, <3>1
  <2> QED BY <2>2, <2>4
<1> QED BY <1>4, <1>5, <1>6, <1>1 DEF Memory

\* What one step of a process does to its own call.
LEMMA OwnCall ==
  ASSUME TypeOK, HasLatest, Drafted, Answered, NEW p \in Procs, Start(p) \/ Step(p) \/ Crash(p)
  PROVE  /\ pc'[p] # "idle"
         /\ mem'[p].known \subseteq told
         /\ mem'[p].out.status = "update_available" => mem'[p].out.digest \notin mem'[p].known
         /\ pc'[p] = "cancel" => mem'[p].out.status # "acknowledged"
         /\ pc'[p] = "publish" => Draft(p)
         /\ told' = told \/ Commits(p)
<1> DEFINE Good ==
             /\ pc'[p] # "idle"
             /\ mem'[p].known \subseteq told
             /\ mem'[p].out.status = "update_available" => mem'[p].out.digest \notin mem'[p].known
             /\ pc'[p] = "cancel" => mem'[p].out.status # "acknowledged"
             /\ pc'[p] = "publish" => Draft(p)
             /\ told' = told \/ Commits(p)
           Answers == {Silent, Unavailable, ResultForCandidate(Latest), LastGoodResult}
<1>1. mem \in [Procs -> Memory] /\ pc \in [Procs -> Steps] /\ mem[p] \in Memory
  BY DEF TypeOK, TypeCalls
<1>2. /\ mem[p].known \subseteq told
      /\ mem[p].out.status = "update_available" => mem[p].out.digest \notin mem[p].known
      /\ pc[p] = "cancel" => mem[p].out.status # "acknowledged"
      /\ pc[p] = "idle" => mem[p] = NoMem
  BY DEF Answered
<1>3. /\ \A out \in Answers : out.status # "acknowledged"
      /\ \A out \in Answers : out.status = "update_available" => out.digest \notin told
  BY NoticesAreNews
<1>4. ASSUME NEW m, NEW out \in Answers, Finish(p, m, out), m.known \subseteq told
      PROVE  Good
  BY <1>3, <1>4, FinishAnswers DEF TypeOK
<1>5. ASSUME NEW after, NEW out \in Answers, CancelThen(p, after, out)
      PROVE  Good
  <2>1. /\ pc'[p] = "cancel" /\ mem'[p].known = mem[p].known /\ mem'[p].out = out /\ told' = told
    BY <1>1, <1>5 DEF CancelThen, Goto, Memory, outside
  <2> QED BY <1>2, <1>3, <2>1
<1>6. ASSUME NEW step, Goto(p, step), step \notin {"idle", "cancel", "publish"},
             mem'[p].known = mem[p].known, mem'[p].out \in {mem[p].out, Silent}, told' = told
      PROVE  Good
  <2>1. pc'[p] = step
    BY <1>1, <1>6 DEF Goto
  <2> QED BY <1>2, <1>3, <1>6, <2>1
<1>7. ASSUME NEW step, Continue(p, step), step \notin {"idle", "cancel", "publish"}
      PROVE  Good
  BY <1>6, <1>7 DEF Continue, outside
<1>8. ASSUME NextAttempt(p)
      PROVE  Good
  <2>1. mem'[p].known = mem[p].known /\ mem'[p].out = mem[p].out
    BY <1>1, <1>8 DEF NextAttempt, Memory
  <2> QED BY <1>6, <1>8, <2>1 DEF NextAttempt, outside
<1>9. ASSUME NEW now \in Times, StartCheck(p, now)
      PROVE  Good
  <2> DEFINE m == [mem[p] EXCEPT !.call = CheckCall, !.started = now, !.known = told]
  <2>1. m.known = told /\ m.out = mem[p].out
    BY <1>1 DEF Memory
  <2>2. \/ Finish(p, m, ResultForCandidate(Latest))
        \/ Goto(p, "acquire") /\ mem' = [mem EXCEPT ![p] = m] /\ UNCHANGED <<gen, todo, outside>>
    BY <1>9 DEF StartCheck
  <2> HIDE DEF m
  <2>3. mem[p].out = Silent
    BY <1>2, <1>9 DEF StartCheck, NoMem
  <2>4. CASE Goto(p, "acquire") /\ mem' = [mem EXCEPT ![p] = m] /\ UNCHANGED <<gen, todo, outside>>
    <3>1. mem'[p] = m /\ pc'[p] = "acquire" /\ told' = told
      BY <1>1, <2>4 DEF Goto, outside
    <3> QED BY <1>3, <2>1, <2>3, <3>1
  <2> QED BY <1>4, <2>1, <2>2, <2>4
<1>10. ASSUME NEW d \in Digests, StartAcknowledge(p, d)
       PROVE  Good
  <2>1. mem[p].out = Silent
    BY <1>2, <1>10 DEF StartAcknowledge, NoMem
  <2>2. mem'[p].known = told /\ mem'[p].out = mem[p].out /\ pc'[p] = "acquire" /\ told' = told
    BY <1>1, <1>10 DEF StartAcknowledge, Memory, Goto, outside
  <2> QED BY <1>3, <2>1, <2>2
<1>11. CASE Look(p) \/ Reserve(p) \/ MakePending(p) \/ WriteOwner(p)
  <2>1. ASSUME Reserve(p), ~Finish(p, mem[p], Unavailable)
        PROVE  Good
    <3>1. Goto(p, "mkpending") /\ mem' = [mem EXCEPT ![p].tries = 0] /\ UNCHANGED outside
      BY <2>1 DEF Reserve
    <3>2. mem'[p].known = mem[p].known /\ mem'[p].out = mem[p].out
      BY <1>1, <3>1 DEF Memory
    <3> QED BY <1>6, <3>1, <3>2 DEF outside
  <2> QED BY <1>2, <1>4, <1>6, <1>7, <1>11, <2>1 DEF Look, Reserve, MakePending, WriteOwner, outside
<1>12. CASE Promote(p) \/ Inspect(p) \/ Retire(p) \/ MoveClaim(p) \/ Install(p) \/ Installed(p)
  <2>1. ASSUME Goto(p, "retire"), mem' = [mem EXCEPT ![p].seen = claim], UNCHANGED outside
        PROVE  Good
    <3>1. mem'[p].known = mem[p].known /\ mem'[p].out = mem[p].out
      BY <1>1, <2>1 DEF Memory
    <3> QED BY <1>6, <2>1, <3>1 DEF outside
  <2>2. CASE Promote(p) \/ Inspect(p)
    BY <1>5, <1>7, <2>1, <2>2 DEF Promote, Inspect
  <2>3. CASE Retire(p) \/ MoveClaim(p)
    BY <1>2, <1>4, <1>7, <1>8, <2>3 DEF Retire, MoveClaim
  <2>4. CASE Install(p) \/ Installed(p)
    BY <1>2, <1>4, <1>5, <1>6, <1>7, <1>8, <2>4 DEF Install, Installed, outside
  <2> QED BY <1>12, <2>2, <2>3, <2>4
<1>13. CASE ReadAgain(p) \/ ConfirmBeforeFetch(p) \/ OwnBeforeFencing(p) \/ OwnAfterFencing(p)
  <2> QED BY <1>5, <1>7, <1>13 DEF ReadAgain, ConfirmBeforeFetch, OwnBeforeFencing, OwnAfterFencing
<1>14. CASE Fetch(p)
  <2>1. mem'[p].known = mem[p].known /\ mem'[p].out = mem[p].out
    BY <1>1, <1>14 DEF Fetch, Memory
  <2> QED BY <1>6, <1>14, <2>1 DEF Fetch, outside
<1>15. CASE ListLower(p)
  BY <1>6, <1>15 DEF ListLower, outside
<1>16. CASE FenceOne(p)
  <2>1. UNCHANGED <<pc, mem, told>> /\ pc[p] = "fence"
    BY <1>16 DEF FenceOne, outside
  <2> QED BY <1>2, <2>1
<1>17. CASE Draft(p)
  <2>1. CASE CancelThen(p, "done", Silent)
    BY <1>5, <2>1
  <2>2. mem'[p].known = mem[p].known \/ pc'[p] \in {"done", "crashed"}
    BY <1>17, CallsRemember DEF Step, Commit
  <2> QED BY <1>2, <1>17, <2>1, <2>2, DraftFromLatest
<1>18. CASE Publish(p)
  <2>1. CASE Lose(p)
    <3>1. mem'[p].known = mem[p].known /\ mem'[p].out = Silent
      BY <1>1, <2>1 DEF Lose, Memory
    <3> QED BY <1>6, <2>1, <3>1 DEF Lose, outside
  <2>2. CASE Finish(p, mem[p], Unavailable)
    BY <1>2, <1>4, <2>2
  <2>3. CASE Commits(p)
    BY <1>2, <2>3, FinishAnswers DEF Commits, TypeOK
  <2> QED BY <1>18, <2>1, <2>2, <2>3 DEF Publish, Commits
<1>19. CASE Cancel(p)
  <2>1. CASE Finish(p, mem[p], mem[p].out)
    BY <1>2, <1>19, <2>1, FinishAnswers DEF Cancel, TypeOK
  <2>2. CASE Goto(p, "lost") /\ UNCHANGED <<gen, todo, mem, outside>>
    BY <1>6, <2>2 DEF outside
  <2> QED BY <1>19, <2>1, <2>2 DEF Cancel
<1>20. CASE LoseCheck(p) \/ LoseAcknowledge(p)
  <2>1. ASSUME Goto(p, "acquire"), mem' = [mem EXCEPT ![p].retries = @ + 1], UNCHANGED outside
        PROVE  Good
    <3>1. mem'[p].known = mem[p].known /\ mem'[p].out = mem[p].out
      BY <1>1, <2>1 DEF Memory
    <3> QED BY <1>6, <2>1, <3>1 DEF outside
  <2> QED BY <1>2, <1>4, <1>20, <2>1 DEF LoseCheck, LoseAcknowledge
<1>21. CASE Crash(p)
  <2>1. mem'[p] = NoMem /\ pc'[p] = "crashed" /\ told' = told
    BY <1>1, <1>21 DEF Crash, Goto
  <2> QED BY <2>1 DEF NoMem, Silent
<1> QED BY <1>9, <1>10, <1>11, <1>12, <1>13, <1>14, <1>15, <1>16, <1>17, <1>18, <1>19, <1>20, <1>21
        DEF Start, Step, Acquire, Commit

\* Where the steps of a call lead from and to.
LEMMA StepsInProgress ==
  ASSUME TypeOK, NEW p \in Procs
  PROVE  /\ Start(p) => pc[p] = "idle" /\ pc'[p] \in {"acquire", "done"}
         /\ Step(p) \/ Crash(p) => pc[p] \notin {"idle", "done", "crashed"}
         /\ (Step(p) \/ Crash(p)) /\ pc'[p] \in {"commit", "list", "fence", "draft"} /\ ~Fetch(p)
              => /\ pc[p] # "fetch"
                 /\ pc[p] \in {"commit", "list", "fence", "draft"} \/ mem[p].call # CheckCall
<1>1. pc \in [Procs -> Steps]
  BY DEF TypeOK, TypeCalls
<1>2. ASSUME Start(p)
      PROVE  pc[p] = "idle" /\ pc'[p] \in {"acquire", "done"}
  <2>1. pc[p] = "idle"
    BY <1>2 DEF Start, StartCheck, StartAcknowledge
  <2> QED BY <1>1, <1>2, <2>1, StartMoves DEF Goto
<1> DEFINE Behind == {"commit", "list", "fence", "draft"}
           Fine == /\ pc[p] \notin {"idle", "done", "crashed"}
                   /\ pc'[p] \in Behind
                        => pc[p] # "fetch" /\ (pc[p] \in Behind \/ mem[p].call # CheckCall)
<1>3. ASSUME Acquire(p)
      PROVE  Fine
  BY <1>1, <1>3 DEF Acquire, Look, Reserve, MakePending, WriteOwner, Promote, Inspect, Retire,
                    MoveClaim, Install, Installed, NextAttempt, Continue, CancelThen, Finish, Goto
<1>4. ASSUME ReadAgain(p) \/ ConfirmBeforeFetch(p)
      PROVE  Fine
  BY <1>1, <1>4 DEF ReadAgain, ConfirmBeforeFetch, Continue, CancelThen, Goto
<1>5. ASSUME Fetch(p)
      PROVE  pc[p] \notin {"idle", "done", "crashed"}
  BY <1>5 DEF Fetch
<1>6. ASSUME OwnBeforeFencing(p) \/ ListLower(p) \/ FenceOne(p) \/ OwnAfterFencing(p)
      PROVE  Fine
  BY <1>1, <1>6 DEF OwnBeforeFencing, ListLower, FenceOne, OwnAfterFencing, Continue, CancelThen, Goto
<1>7. ASSUME Draft(p)
      PROVE  Fine
  BY <1>7 DEF Draft
<1>8. ASSUME Publish(p) \/ Cancel(p) \/ LoseCheck(p) \/ LoseAcknowledge(p) \/ Crash(p)
      PROVE  Fine
  BY <1>1, <1>8 DEF Publish, Lose, Cancel, LoseCheck, LoseAcknowledge, Crash, Finish, Goto
<1> QED BY <1>2, <1>3, <1>4, <1>5, <1>6, <1>7, <1>8 DEF Step, Commit

\* A directory becomes pending by the hand of its owner alone.
LEMMA PendingIsOwned ==
  ASSUME TypeOK, Owned, NEW p \in Procs, Start(p) \/ Step(p) \/ Crash(p),
         NEW q \in Procs, q # p, pc[q] = "publish", kind'[gen[q]] = "pending"
  PROVE  kind[gen[q]] = "pending"
<1>1. /\ gen \in [Procs -> 0..MaxGen] /\ kind \in [Gens -> Kinds] /\ todo \in [Procs -> SUBSET Gens]
  BY DEF TypeOK, TypeCalls, TypeDisk
<1>2. /\ gen[q] \in Gens /\ gen[q] # 0
      /\ pc[p] \in Working => gen[p] \in Gens /\ gen[p] # gen[q]
  BY <1>1, BoundsAssumption DEF Gens, Owned, Working
<1>3. CASE Start(p)
  BY <1>3 DEF Start, StartCheck, StartAcknowledge, disk
<1>4. CASE Reserve(p) \/ MakePending(p)
  BY <1>1, <1>2, <1>4 DEF Reserve, MakePending, Working, disk
<1>5. CASE \/ Look(p) \/ WriteOwner(p) \/ Promote(p) \/ Inspect(p) \/ Retire(p) \/ MoveClaim(p)
           \/ Install(p) \/ Installed(p) \/ ReadAgain(p) \/ ConfirmBeforeFetch(p) \/ Fetch(p)
           \/ OwnBeforeFencing(p) \/ ListLower(p) \/ OwnAfterFencing(p) \/ Draft(p)
           \/ LoseCheck(p) \/ LoseAcknowledge(p) \/ Crash(p)
  BY <1>5 DEF Look, WriteOwner, Promote, Inspect, Retire, MoveClaim, Install, Installed, ReadAgain,
              ConfirmBeforeFetch, Fetch, OwnBeforeFencing, ListLower, OwnAfterFencing, Draft,
              WriteDraft, LoseCheck, LoseAcknowledge, Crash, Continue, CancelThen, disk
<1>6. CASE FenceOne(p)
  BY <1>1, <1>2, <1>6 DEF FenceOne, Rename
<1>7. CASE Publish(p) \/ Cancel(p)
  BY <1>1, <1>2, <1>7 DEF Publish, Cancel, Lose, Rename, Working, disk
<1> QED BY <1>3, <1>4, <1>5, <1>6, <1>7 DEF Step, Acquire, Commit

-----------------------------------------------------------------------------
(* The invariant                                                           *)

\* The decisions of the calls stay based on the newest record.
LEMMA DraftedStep ==
  ASSUME IInv, [Next]_vars
  PROVE  Drafted'
<1> USE DEF IInv
<1>1. /\ pc \in [Procs -> Steps] /\ mem \in [Procs -> Memory] /\ gen \in [Procs -> 0..MaxGen]
      /\ kind \in [Gens -> Kinds]
  BY DEF TypeOK, TypeCalls, TypeDisk
<1>2. CASE (\E g \in Gens : Expire(g)) \/ UNCHANGED vars
  <2>1. UNCHANGED <<pc, mem, gen, kind, content>>
    BY <1>2 DEF Expire, vars, disk, locals
  <2>2. UNCHANGED <<LatestGen, Latest>>
    BY <2>1, LatestStays
  <2> QED BY <2>1, <2>2 DEF Drafted
<1>3. ASSUME NEW p \in Procs, Start(p) \/ Step(p) \/ Crash(p)
      PROVE  Drafted'
  <2>1. \A q \in Procs : q # p => pc'[q] = pc[q] /\ mem'[q] = mem[q] /\ gen'[q] = gen[q]
    BY <1>3, OthersStay
  <2>2. /\ pc'[p] # "idle"
        /\ pc'[p] = "publish" => Draft(p)
    BY <1>3, OwnCall
  <2>3. ASSUME NEW q \in Procs, pc'[q] \notin {"idle", "done", "crashed"}, mem'[q].call = CheckCall
        PROVE  mem'[q].started \in Times
    <3>1. CASE q # p
      BY <2>1, <2>3, <3>1 DEF Drafted
    <3>2. CASE q = p /\ Start(p)
      <4>1. ASSUME NEW now \in Times, StartCheck(p, now)
            PROVE  mem'[p].started \in Times
        <5> DEFINE m == [mem[p] EXCEPT !.call = CheckCall, !.started = now, !.known = told]
        <5>1. m.started = now
          BY <1>1 DEF Memory
        <5>2. \/ Finish(p, m, ResultForCandidate(Latest))
              \/ Goto(p, "acquire") /\ mem' = [mem EXCEPT ![p] = m] /\ UNCHANGED <<gen, todo, outside>>
          BY <4>1 DEF StartCheck
        <5> HIDE DEF m
        <5>3. ~Finish(p, m, ResultForCandidate(Latest))
          BY <2>3, <3>2, FinishAnswers DEF TypeOK
        <5> QED BY <1>1, <5>1, <5>2, <5>3
      <4>2. ASSUME NEW d \in Digests, StartAcknowledge(p, d)
            PROVE  FALSE
        <5>1. mem'[p].call = d
          BY <1>1, <4>2 DEF StartAcknowledge, Memory
        <5> QED BY <2>3, <3>2, <5>1, BoundsAssumption
      <4> QED BY <3>2, <4>1, <4>2 DEF Start
    <3>3. CASE q = p /\ ~Start(p)
      <4>1. mem'[p].call = mem[p].call /\ mem'[p].started = mem[p].started
        BY <1>3, <2>3, <3>3, CallsRemember
      <4>2. pc[p] \notin {"idle", "done", "crashed"}
        BY <1>1, <1>3, <3>3, StepsInProgress
      <4> QED BY <2>3, <3>3, <4>1, <4>2 DEF Drafted
    <3> QED BY <3>1, <3>2, <3>3
  <2>4. ASSUME NEW q \in Procs, pc'[q] \in {"commit", "list", "fence", "draft"},
               mem'[q].call = CheckCall, ~mem'[q].failed
        PROVE  mem'[q].fetched \in Digests
    <3>1. CASE q # p
      BY <2>1, <2>4, <3>1 DEF Drafted
    <3>2. CASE q = p /\ Fetch(p)
      <4>1. ASSUME NEW d \in Digests, mem' = [mem EXCEPT ![p].fetched = d]
            PROVE  mem'[p].fetched = d
        BY <1>1, <4>1 DEF Memory
      <4>2. ASSUME mem' = [mem EXCEPT ![p].failed = TRUE]
            PROVE  mem'[p].failed
        BY <1>1, <4>2 DEF Memory
      <4> QED BY <2>4, <3>2, <4>1, <4>2 DEF Fetch
    <3>3. CASE q = p /\ ~Fetch(p)
      <4>1. (Step(p) \/ Crash(p)) /\ pc[p] # "fetch"
              /\ (pc[p] \in {"commit", "list", "fence", "draft"} \/ mem[p].call # CheckCall)
        BY <1>1, <1>3, <2>4, <3>3, StepsInProgress
      <4>2. /\ mem'[p].call = mem[p].call /\ mem'[p].failed = mem[p].failed
            /\ mem'[p].fetched = mem[p].fetched
        BY <2>4, <3>3, <4>1, CallsRemember
      <4> QED BY <2>4, <3>3, <4>1, <4>2 DEF Drafted
    <3> QED BY <3>1, <3>2, <3>3
  <2>5. ASSUME NEW q \in Procs, pc'[q] = "publish"
        PROVE  /\ Readable(mem'[q].next)
               /\ mem'[q].out.status = "acknowledged" => mem'[q].out.digest \in mem'[q].next.acknowledged
    <3>1. CASE q # p
      BY <2>1, <2>5, <3>1 DEF Drafted
    <3>2. CASE q = p
      <4>1. Draft(p) /\ ~CancelThen(p, "done", Silent)
        BY <1>1, <2>2, <2>5, <3>2 DEF CancelThen, Goto
      <4> QED BY <3>2, <4>1, DraftFromLatest, LatestTypes, LedgerSteps
    <3> QED BY <3>1, <3>2
  <2>6. ASSUME NEW q \in Procs, pc'[q] = "publish", kind'[gen'[q]] = "pending"
        PROVE  mem'[q].base = LatestGen' /\ LedgerStep(Latest', mem'[q].next)
    <3>1. CASE Commits(p)
      <4>1. q # p
        BY <2>6, <3>1, FinishAnswers DEF Commits, TypeOK
      <4>2. gen[q] \in Gens /\ gen[p] \in Gens /\ kind[gen[q]] = "pending"
        BY <1>1, <2>1, <2>6, <3>1, <4>1, BoundsAssumption DEF Commits, Rename, Owned, Working, Gens
      <4> QED BY <2>1, <2>6, <3>1, <4>1, <4>2, CommitIsLatest
    <3>2. CASE UNCHANGED <<LatestGen, Latest>>
      <4>1. CASE q # p
        <5>1. kind[gen[q]] = "pending"
          BY <1>3, <2>1, <2>6, <4>1, PendingIsOwned
        <5> QED BY <2>1, <2>6, <3>2, <4>1, <5>1 DEF Drafted
      <4>2. CASE q = p
        <5>1. Draft(p) /\ ~CancelThen(p, "done", Silent)
          BY <1>1, <2>2, <2>6, <4>2 DEF CancelThen, Goto
        <5> QED BY <3>2, <4>2, <5>1, DraftFromLatest
      <4> QED BY <4>1, <4>2
    <3>3. (\E r \in Procs : Commits(r)) => Commits(p)
      BY <1>3, <2>1, FinishAnswers DEF Commits, TypeOK
    <3> QED BY <3>1, <3>2, <3>3, OnlyPublishCommits, LatestStays
  <2> QED BY <2>3, <2>4, <2>5, <2>6 DEF Drafted
<1> QED BY <1>2, <1>3 DEF Next

\* What callers were told stays true.
LEMMA AnsweredStep ==
  ASSUME IInv, [Next]_vars
  PROVE  Answered'
<1> USE DEF IInv
<1>1. mem \in [Procs -> Memory] /\ pc \in [Procs -> Steps]
  BY DEF TypeOK, TypeCalls
<1>2. CASE (\E g \in Gens : Expire(g)) \/ UNCHANGED vars
  <2>1. UNCHANGED <<pc, mem, told, kind, content>>
    BY <1>2 DEF Expire, vars, disk, locals, outside
  <2>2. UNCHANGED Latest
    BY <2>1, LatestStays
  <2> QED BY <2>1, <2>2 DEF Answered
<1>3. ASSUME NEW p \in Procs, Start(p) \/ Step(p) \/ Crash(p)
      PROVE  Answered'
  <2>1. \A q \in Procs : q # p => pc'[q] = pc[q] /\ mem'[q] = mem[q]
    BY <1>3, OthersStay
  <2>2. /\ pc'[p] # "idle"
        /\ mem'[p].known \subseteq told
        /\ mem'[p].out.status = "update_available" => mem'[p].out.digest \notin mem'[p].known
        /\ pc'[p] = "cancel" => mem'[p].out.status # "acknowledged"
        /\ told' = told \/ Commits(p)
    BY <1>3, OwnCall
  <2>3. told \subseteq told' /\ told' \subseteq Latest'.acknowledged
    <3>1. CASE Commits(p)
      <4>1. told' = IF mem[p].out.status = "acknowledged" THEN told \cup {mem[p].out.digest} ELSE told
        BY <3>1, FinishAnswers DEF Commits, TypeOK
      <4>2. Latest' = mem[p].next
        BY <3>1, CommitIsLatest
      <4>3. Latest.acknowledged \subseteq mem[p].next.acknowledged
        BY <3>1, LatestTypes, LedgerSteps DEF Commits, Drafted
      <4>4. mem[p].out.status = "acknowledged" => mem[p].out.digest \in mem[p].next.acknowledged
        BY <3>1 DEF Commits, Drafted
      <4> QED BY <4>1, <4>2, <4>3, <4>4 DEF Answered
    <3>2. CASE ~Commits(p)
      <4>1. told' = told
        BY <2>2, <3>2
      <4>2. (\E r \in Procs : Commits(r)) => Commits(p)
        BY <1>3, <2>1, FinishAnswers DEF Commits, TypeOK
      <4>3. UNCHANGED Latest
        <5>1. /\ content' = content
              /\ \A g \in Gens : kind'[g] = "committed" <=> kind[g] = "committed"
          BY <3>2, <4>2, OnlyPublishCommits
        <5> QED BY <5>1, LatestStays
      <4> QED BY <4>1, <4>3 DEF Answered
    <3> QED BY <3>1, <3>2
  <2> QED BY <2>1, <2>2, <2>3 DEF Answered
<1> QED BY <1>2, <1>3 DEF Next

\* The invariant holds when the directory is empty.
LEMMA InvInit == Init => IInv
<1> SUFFICES ASSUME Init PROVE IInv
  OBVIOUS
<1> USE DEF Init
<1>1. TypeOK
  BY NoMemTypes, EmptyStateTypes, BoundsAssumption
     DEF TypeOK, TypeDisk, TypeCalls, Kinds, Steps, Gens
<1>2. Committed = {}
  BY DEF Committed
<1>3. HasLatest
  BY <1>2 DEF HasLatest
<1>4. Owned /\ Fenced
  BY DEF Owned, Fenced, Working, Past, Fencing
<1>5. Drafted
  BY DEF Drafted
<1>6. Answered
  BY DEF Answered, NoMem, Silent
<1> QED BY <1>1, <1>3, <1>4, <1>5, <1>6 DEF IInv

\* Every step preserves the invariant.
LEMMA InvStep == IInv /\ [Next]_vars => IInv'
<1> SUFFICES ASSUME IInv, [Next]_vars PROVE IInv'
  OBVIOUS
<1>1. TypeOK' /\ Owned' /\ Fenced'
  BY TypeStep, OwnedStep, FencedStep DEF IInv
<1>2. HasLatest'
  BY OnlyPublishCommits, LatestStays, CommitIsLatest DEF IInv
<1>3. Drafted' /\ Answered'
  BY DraftedStep, AnsweredStep
<1> QED BY <1>1, <1>2, <1>3 DEF IInv

\* The ledger computes records with the functions of the checker.
LEMMA SameRecords ==
  /\ \A s : Ledger!Recoverable(s) <=> Recoverable(s)
  /\ \A s, t, withdraw : Ledger!AfterFailedCheck(s, t, withdraw) = AfterFailedCheck(s, t, withdraw)
  /\ \A s, d : Ledger!AfterAcknowledgement(s, d) = AfterAcknowledgement(s, d)
  /\ \A s, d, t, delay : Ledger!AfterCheck(s, d, t, delay) = AfterCheck(s, d, t, delay)
<1>1. \A s : Ledger!Recoverable(s) <=> Recoverable(s)
  BY Zenon DEF Ledger!Recoverable, Recoverable, Ledger!Cardinality, Cardinality
<1>2. \A s, t, withdraw : Ledger!AfterFailedCheck(s, t, withdraw) = AfterFailedCheck(s, t, withdraw)
  BY Zenon DEF Ledger!AfterFailedCheck, AfterFailedCheck
<1>3. \A s, d : Ledger!AfterAcknowledgement(s, d) = AfterAcknowledgement(s, d)
  BY Zenon DEF Ledger!AfterAcknowledgement, AfterAcknowledgement
<1>4. \A s : Ledger!ResultForCandidate(s) = ResultForCandidate(s)
  BY Zenon DEF Ledger!ResultForCandidate, ResultForCandidate, Ledger!Newer, Newer, Ledger!Notice,
               Notice, Ledger!Silent, Silent
<1>5. \A s, d, t, delay : Ledger!WithCandidate(s, d, t, delay) = WithCandidate(s, d, t, delay)
  <2> TAKE s, d, t, delay
  <2> DEFINE next == [s EXCEPT !.candidate = d, !.next = t + delay, !.failures = 0]
             offered == [next EXCEPT !.offered = @ \cup {d}]
  <2>1. WithCandidate(s, d, t, delay)
          = IF ResultForCandidate(next).status = "update_available" THEN offered ELSE next
    BY Zenon DEF WithCandidate
  <2>2. Ledger!WithCandidate(s, d, t, delay)
          = IF Ledger!ResultForCandidate(next).status = "update_available" THEN offered ELSE next
    BY Zenon DEF Ledger!WithCandidate
  <2> HIDE DEF next, offered
  <2> QED BY <1>4, <2>1, <2>2
<1>6. \A s, d, t, delay : Ledger!AfterCheck(s, d, t, delay) = AfterCheck(s, d, t, delay)
  BY <1>1, <1>2, <1>5, Zenon DEF Ledger!AfterCheck, AfterCheck
<1> QED BY <1>1, <1>2, <1>3, <1>6

-----------------------------------------------------------------------------
(* The theorems                                                            *)

\* Every behaviour of the update checker satisfies the invariant.
THEOREM Invariance == Spec => []IInv
<1> QED BY InvInit, InvStep, PTL DEF Spec

\* Directories, local variables and answers keep their types, however many
\* processes call, crash and overtake each other.
THEOREM TypesHold == Spec => []TypeOK
<1>1. IInv => TypeOK
  BY DEF IInv
<1> QED BY <1>1, Invariance, PTL

\* No update of the record is lost: commitOperation fences the older
\* operations before it reads, so the record a publication starts from is the
\* newest one.
THEOREM NoUpdateIsLost == Spec => []DraftsAreCurrent
<1>1. IInv => DraftsAreCurrent
  BY DEF IInv, Drafted, DraftsAreCurrent
<1> QED BY <1>1, Invariance, PTL

\* An acknowledgement that acknowledgeUpdate reported is on record for good.
THEOREM AcknowledgementsStay == Spec => []AcknowledgementsLast
<1>1. IInv => AcknowledgementsLast
  BY DEF IInv, Answered, AcknowledgementsLast
<1> QED BY <1>1, Invariance, PTL

\* checkForUpdate does not repeat a notice that was acknowledged before it
\* was called.
THEOREM NoticesAreNotRepeated == Spec => []NoticedOnce
<1>1. IInv => NoticedOnce
  BY DEF IInv, Answered, NoticedOnce
<1> QED BY <1>1, Invariance, PTL

\* The cache directory implements a single record changed by one operation at
\* a time.
THEOREM Refinement == Spec => ActsAsOneLedger
<1>1. Init => Ledger!Readable(Latest)
  <2> SUFFICES ASSUME Init PROVE Ledger!Readable(Latest)
    OBVIOUS
  <2>1. Readable(Latest)
    BY InvInit, LatestTypes DEF IInv
  <2> QED BY <2>1, SameRecords, Zenon DEF Ledger!Readable, Readable, Ledger!Newer, Newer
<1>2. IInv /\ [Next]_vars => [Ledger!Next]_Latest
  <2> SUFFICES ASSUME IInv, [Next]_vars, Latest' # Latest
               PROVE  Ledger!Next
    OBVIOUS
  <2>1. PICK p \in Procs : Commits(p)
    BY OnlyPublishCommits, LatestStays DEF IInv
  <2>2. Latest' = mem[p].next /\ LedgerStep(Latest, mem[p].next)
    BY <2>1, CommitIsLatest DEF IInv, Commits, Drafted
  <2> QED BY <2>2, SameRecords, Zenon
          DEF LedgerStep, Ledger!Next, Ledger!Check, Ledger!FailedCheck, Ledger!Acknowledge
<1> QED BY <1>1, <1>2, Invariance, PTL DEF Spec, ActsAsOneLedger, Ledger!Spec

=============================================================================
