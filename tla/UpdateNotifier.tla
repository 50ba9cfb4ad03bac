--------------------------- MODULE UpdateNotifier ---------------------------
(***************************************************************************)
(* The update notifier of the diagram tool,                                *)
(* .agents/skills/archify/scripts/check-update.mjs.  Each call (a check or *)
(* the acknowledgement of a notice) is an operating-system process that    *)
(* runs once.  Processes share a cache directory and coordinate through    *)
(* names in it alone:                                                      *)
(*                                                                         *)
(*   reserved-<g>                a generation taken by mkdir, never removed *)
(*   pending-<g>                 an operation under way; its owner file    *)
(*                               gives it a lease of 30 seconds            *)
(*   committed-<g>, fenced-<g>,  what the pending directory was renamed to *)
(*   cancelled-<g>                                                         *)
(*   active-claim                the claim of one generation, installed by *)
(*                               renaming a complete directory onto it     *)
(*   retired-claim-<g>/active    where a finished or expired claim goes    *)
(*                                                                         *)
(* A process may crash or stall between any two steps, and its lease may   *)
(* run out while it is alive.  One file-system call that others can see is *)
(* one step.  A handler that finds a directory it has verified moved away  *)
(* distrusts its cache token and gives up as "cache-unavailable".          *)
(***************************************************************************)
EXTENDS UpdateState

CONSTANTS
  Procs,          \* calls of the checker
  NoCall,         \* the call of a process that has not started
  CheckCall,      \* checkForUpdate; an acknowledgement is its digest
  MaxGen,         \* MAX_OPERATION_GENERATION
  Times,          \* readings of the wall clock, which may be set back
  MaxPromotions,  \* attempts of promoteOperationClaim (8 in the code)
  MaxRetries,     \* bound on the retries an acknowledgement's deadline allows
  MaxCrashes      \* bound on crashes

ASSUME BoundsAssumption ==
  /\ MaxGen \in Nat /\ Times \subseteq Nat \ {0} /\ MaxPromotions \in Nat
  /\ MaxRetries \in Nat /\ MaxCrashes \in Nat
  /\ NoCall # CheckCall /\ {NoCall, CheckCall} \cap Digests = {}

VARIABLES
  kind,      \* generation -> the directory that stands for it
  stale,     \* generation -> has the lease of its pending directory run out?
  content,   \* generation -> the state.json a committed directory holds
  claim,     \* the generation of active-claim, 0 when there is none
  retired,   \* generations g for which retired-claim-<g>/active exists
  pc, gen, todo, mem,  \* each process: next step, generation, pending
                       \* directories left to fence, other local variables
  told,      \* digests whose acknowledgement was reported to a caller
  crashes

disk == <<kind, stale, content, claim, retired>>
locals == <<pc, gen, todo, mem>>
outside == <<told, crashes>>
vars == <<disk, locals, outside>>

Gens == 1..MaxGen
Kinds == {"none", "reserved", "pending", "committed", "fenced", "cancelled"}

Steps == {"idle", "acquire", "reserve", "mkpending", "owner", "promote", "inspect",
          "retire", "move", "install", "installed", "held", "own", "fetch", "commit",
          "list", "fence", "draft", "publish", "cancel", "lost", "done",
          "crashed"}

NoMem ==
  [call |-> NoCall, started |-> 0, seen |-> 0, tries |-> 0, retries |-> 0,
   fetched |-> NoDigest, failed |-> FALSE, next |-> EmptyState, base |-> 0,
   out |-> Silent, after |-> "done", known |-> {}]

-----------------------------------------------------------------------------
(* What the processes read from the directory.                             *)

Committed == {g \in Gens : kind[g] = "committed" /\ Readable(content[g])}

\* readState: the newest committed generation that can be read.
LatestGen == IF Committed = {} THEN 0
             ELSE CHOOSE g \in Committed : \A h \in Committed : h <= g
Latest == IF LatestGen = 0 THEN EmptyState ELSE content[LatestGen]

Active(g) == kind[g] = "pending" /\ ~stale[g]

Superseded(g) == \E h \in Gens : h > g /\ kind[h] # "none"

\* inspectActiveClaim; the claim directory is always complete, so the corrupt
\* shapes it also recovers from do not occur without a damaged disk.
ClaimStatus ==
  CASE claim = 0 -> "absent"
    [] claim # 0 /\ Active(claim) -> "busy"
    [] OTHER -> "releasable"

Owns(p) == ClaimStatus = "busy" /\ claim = gen[p]

\* What a process that lost its operation may still tell its caller.
LastGoodResult ==
  IF Latest.candidate \in Latest.offered THEN ResultForCandidate(Latest) ELSE Silent

-----------------------------------------------------------------------------
Init ==
  /\ kind = [g \in Gens |-> "none"]
  /\ stale = [g \in Gens |-> FALSE]
  /\ content = [g \in Gens |-> EmptyState]
  /\ claim = 0
  /\ retired = {}
  /\ pc = [p \in Procs |-> "idle"]
  /\ gen = [p \in Procs |-> 0]
  /\ todo = [p \in Procs |-> {}]
  /\ mem = [p \in Procs |-> NoMem]
  /\ told = {}
  /\ crashes = 0

Goto(p, step) == pc' = [pc EXCEPT ![p] = step]

\* A pending directory is renamed; only a pending one has a lease.
Rename(g, k) ==
  /\ kind' = [kind EXCEPT ![g] = k]
  /\ stale' = [stale EXCEPT ![g] = FALSE]

\* The process ends and its line of JSON reaches the caller.
Finish(p, m, out) ==
  /\ Goto(p, "done")
  /\ mem' = [mem EXCEPT ![p] = [NoMem EXCEPT !.call = m.call, !.known = m.known, !.out = out]]
  /\ gen' = [gen EXCEPT ![p] = 0]
  /\ told' = IF out.status = "acknowledged" THEN told \cup {out.digest} ELSE told
  /\ UNCHANGED <<todo, crashes>>

\* cancelOperation follows, then the step "after" with the result "out".
CancelThen(p, after, out) ==
  /\ Goto(p, "cancel")
  /\ mem' = [mem EXCEPT ![p].after = after, ![p].out = out]
  /\ UNCHANGED <<disk, gen, todo, outside>>

Continue(p, step) ==
  /\ Goto(p, step)
  /\ UNCHANGED <<disk, gen, todo, mem, outside>>

\* The operation was fenced: nothing is left of it.
Lose(p) ==
  /\ Goto(p, "lost")
  /\ mem' = [mem EXCEPT ![p].next = EmptyState, ![p].base = 0, ![p].out = Silent]
  /\ UNCHANGED <<disk, gen, todo, outside>>

\* checkForUpdate up to acquireOperation: a fresh record answers at once.
StartCheck(p, now) ==
  /\ pc[p] = "idle"
  /\ LET m == [mem[p] EXCEPT !.call = CheckCall, !.started = now, !.known = told] IN
     IF Fresh(Latest, now)
     THEN Finish(p, m, ResultForCandidate(Latest))
     ELSE /\ Goto(p, "acquire")
          /\ mem' = [mem EXCEPT ![p] = m]
          /\ UNCHANGED <<gen, todo, outside>>
  /\ UNCHANGED disk

\* acknowledgeUpdate for the event key of digest d.
StartAcknowledge(p, d) ==
  /\ pc[p] = "idle"
  /\ Goto(p, "acquire")
  /\ mem' = [mem EXCEPT ![p].call = d, ![p].known = told]
  /\ UNCHANGED <<disk, gen, todo, outside>>

\* acquireOperation gives way to a live claim and to any live operation (a
\* live claim is that of a live operation, so one look tells both).
Look(p) ==
  /\ pc[p] = "acquire"
  /\ IF \E g \in Gens : Active(g) THEN Continue(p, "lost") ELSE Continue(p, "reserve")

\* mkdir reserved-<g> for the first free generation; the space may be used up.
Reserve(p) ==
  /\ pc[p] = "reserve"
  /\ \/ \E g \in Gens :
          /\ kind[g] = "none" /\ \A h \in Gens : h < g => kind[h] # "none"
          /\ kind' = [kind EXCEPT ![g] = "reserved"]
          /\ gen' = [gen EXCEPT ![p] = g]
          /\ mem' = [mem EXCEPT ![p].tries = 0]
          /\ Goto(p, "mkpending")
          /\ UNCHANGED <<stale, content, claim, retired, todo, outside>>
     \/ /\ \A g \in Gens : kind[g] # "none"
        /\ Finish(p, mem[p], Unavailable)
        /\ UNCHANGED disk

MakePending(p) ==
  /\ pc[p] = "mkpending"
  /\ kind' = [kind EXCEPT ![gen[p]] = "pending"]
  /\ stale' = [stale EXCEPT ![gen[p]] = FALSE]
  /\ Goto(p, "owner")
  /\ UNCHANGED <<content, claim, retired, gen, todo, mem, outside>>

\* The owner file renews the lease.  If a later generation has fenced the
\* directory, the write fails: as fenced, or as a cache that changed when the
\* directory was gone before its parents were captured.
WriteOwner(p) ==
  /\ pc[p] = "owner"
  /\ \/ /\ kind[gen[p]] = "pending"
        /\ stale' = [stale EXCEPT ![gen[p]] = FALSE]
        /\ Goto(p, "promote")
        /\ UNCHANGED <<kind, content, claim, retired, gen, todo, mem, outside>>
     \/ kind[gen[p]] = "fenced" /\ Continue(p, "lost")
     \/ kind[gen[p]] = "fenced" /\ Finish(p, mem[p], Unavailable) /\ UNCHANGED disk

-----------------------------------------------------------------------------
(* promoteOperationClaim: claim-<g> is prepared and renamed to active-claim *)
(* once the claim in the way is retired.                                   *)

NextAttempt(p) ==
  /\ Goto(p, "promote")
  /\ mem' = [mem EXCEPT ![p].tries = @ + 1, ![p].seen = 0]
  /\ UNCHANGED <<gen, todo, outside>>

Promote(p) ==
  /\ pc[p] = "promote"
  /\ IF mem[p].tries = MaxPromotions \/ Superseded(gen[p])
     THEN CancelThen(p, "lost", Silent)
     ELSE Continue(p, "inspect")

Inspect(p) ==
  /\ pc[p] = "inspect"
  /\ CASE ClaimStatus = "absent" -> Continue(p, "install")
       [] ClaimStatus = "busy" -> CancelThen(p, "lost", Silent)
       [] ClaimStatus = "releasable" /\ claim > gen[p] -> CancelThen(p, "lost", Silent)
       [] OTHER -> /\ Goto(p, "retire")
                   /\ mem' = [mem EXCEPT ![p].seen = claim]
                   /\ UNCHANGED <<disk, gen, todo, outside>>

\* retireActiveClaim up to its rename: the retirement directory, the guard
\* file that keeps the moved claim from ever being empty, the identity check.
Retire(p) ==
  /\ pc[p] = "retire"
  /\ \/ claim = mem[p].seen /\ Continue(p, "move")
     \/ claim = 0 /\ NextAttempt(p) /\ UNCHANGED disk
     \/ claim # mem[p].seen /\ Finish(p, mem[p], Unavailable) /\ UNCHANGED disk

\* The rename goes by name: it moves whatever claim is there by now, unless
\* retired-claim-<seen>/active is already taken.
Blocked(p) == mem[p].seen \in retired

MoveClaim(p) ==
  /\ pc[p] = "move"
  /\ IF claim # 0 /\ ~Blocked(p)
     THEN /\ claim' = 0
          /\ retired' = retired \cup {mem[p].seen}
          /\ UNCHANGED <<kind, stale, content>>
     ELSE UNCHANGED disk
  /\ \/ (claim \in {0, mem[p].seen} \/ Blocked(p)) /\ NextAttempt(p)
     \/ claim \notin {0, mem[p].seen} /\ Finish(p, mem[p], Unavailable)

\* A directory is not renamed onto one that is not empty.
Install(p) ==
  /\ pc[p] = "install"
  /\ IF claim = 0
     THEN /\ claim' = gen[p]
          /\ Goto(p, "installed")
          /\ UNCHANGED <<kind, stale, content, retired, gen, todo, mem, outside>>
     ELSE NextAttempt(p) /\ UNCHANGED disk

\* The claim counts only if the operation is still within its lease; a claim
\* another process has retired meanwhile may also surface as a changed cache.
Installed(p) ==
  /\ pc[p] = "installed"
  /\ \/ Active(gen[p]) /\ claim = gen[p] /\ Continue(p, "held")
     \/ ~Active(gen[p]) /\ CancelThen(p, "lost", Silent)
     \/ claim # gen[p] /\ Finish(p, mem[p], Unavailable) /\ UNCHANGED disk

-----------------------------------------------------------------------------
(* checkForUpdate behind acquireOperation.                                 *)

\* The state is read again: another process may have refreshed it.
ReadAgain(p) ==
  /\ pc[p] = "held"
  /\ IF mem[p].call # CheckCall THEN Continue(p, "commit")
     ELSE IF Fresh(Latest, mem[p].started)
     THEN CancelThen(p, "done", ResultForCandidate(Latest))
     ELSE Continue(p, "own")

\* Ownership is confirmed immediately before the request.
ConfirmBeforeFetch(p) ==
  /\ pc[p] = "own"
  /\ IF Owns(p) THEN Continue(p, "fetch") ELSE CancelThen(p, "lost", Silent)

\* fetchCandidate answers the release the manifest (a service) names, any at any
\* time, or fails: a timeout, a status other than 200, an invalid body.
Fetch(p) ==
  /\ pc[p] = "fetch"
  /\ \/ \E d \in Digests : mem' = [mem EXCEPT ![p].fetched = d]
     \/ mem' = [mem EXCEPT ![p].failed = TRUE]
  /\ Goto(p, "commit")
  /\ UNCHANGED <<disk, gen, todo, outside>>

-----------------------------------------------------------------------------
(* commitOperation.                                                        *)

OwnBeforeFencing(p) ==
  /\ pc[p] = "commit"
  /\ IF Owns(p) THEN Continue(p, "list") ELSE CancelThen(p, "lost", Silent)

\* Nothing is fenced.
NoLower(g) == {}

\* fenceLowerOperations lists what is pending below, then renames each.
LowerPending(g) == {h \in Gens : h < g /\ kind[h] = "pending"}

ListLower(p) ==
  /\ pc[p] = "list"
  /\ todo' = [todo EXCEPT ![p] = LowerPending(gen[p])]
  /\ Goto(p, "fence")
  /\ UNCHANGED <<disk, gen, mem, outside>>

\* In the order of their generations; one renamed meanwhile is passed over.
FenceOne(p) ==
  /\ pc[p] = "fence" /\ todo[p] # {}
  /\ \E h \in todo[p] :
       /\ \A other \in todo[p] : h <= other
       /\ todo' = [todo EXCEPT ![p] = @ \ {h}]
       /\ IF kind[h] = "pending" THEN Rename(h, "fenced") ELSE UNCHANGED <<kind, stale>>
  /\ UNCHANGED <<content, claim, retired, pc, gen, mem, outside>>

OwnAfterFencing(p) ==
  /\ pc[p] = "fence" /\ todo[p] = {}
  /\ IF Owns(p) THEN Continue(p, "draft") ELSE CancelThen(p, "lost", Silent)

\* The decision of the caller on the state it reads now: the record to write
\* with its result, or none.
WriteDraft(p, s, out) ==
  /\ Goto(p, "publish")
  /\ mem' = [mem EXCEPT ![p].next = s, ![p].base = LatestGen, ![p].out = out]
  /\ UNCHANGED <<disk, gen, todo, outside>>

Draft(p) ==
  /\ pc[p] = "draft"
  /\ LET m == mem[p]  d == m.call IN
     \/ /\ m.call = CheckCall /\ ~m.failed
        /\ \E delay \in SuccessDelays :
             WriteDraft(p, AfterCheck(Latest, m.fetched, m.started, delay),
                           ResultOfCheck(Latest, m.fetched, m.started, delay))
     \/ /\ m.call = CheckCall /\ m.failed
        /\ WriteDraft(p, AfterFailedCheck(Latest, m.started, FALSE), Silent)
     \/ /\ d \in Latest.offered \cup Latest.acknowledged
        /\ WriteDraft(p, AfterAcknowledgement(Latest, d), Acknowledged(d))
     \/ /\ d \in Digests \ (Latest.offered \cup Latest.acknowledged)
        /\ CancelThen(p, "done", Silent)

\* The owner file is not looked at: a fenced operation commits.
PublishFenced(p) ==
  /\ pc[p] = "publish"
  /\ Rename(gen[p], "committed")
  /\ content' = [content EXCEPT ![gen[p]] = mem[p].next]
  /\ Finish(p, mem[p], mem[p].out)
  /\ UNCHANGED <<claim, retired>>

\* state.json is written into the pending directory and the directory becomes
\* committed.  A fenced directory is gone: the rename says so, the write may
\* find the cache changed instead.
Publish(p) ==
  /\ pc[p] = "publish"
  /\ \/ /\ kind[gen[p]] = "pending"
        /\ Rename(gen[p], "committed")
        /\ content' = [content EXCEPT ![gen[p]] = mem[p].next]
        /\ Finish(p, mem[p], mem[p].out)
        /\ UNCHANGED <<claim, retired>>
     \/ kind[gen[p]] = "fenced" /\ Lose(p)
     \/ kind[gen[p]] = "fenced" /\ Finish(p, mem[p], Unavailable) /\ UNCHANGED disk

\* cancelOperation: a directory fenced meanwhile stays fenced.
Cancel(p) ==
  /\ pc[p] = "cancel"
  /\ IF kind[gen[p]] = "pending" THEN Rename(gen[p], "cancelled")
     ELSE UNCHANGED <<kind, stale>>
  /\ IF mem[p].after = "done" THEN Finish(p, mem[p], mem[p].out)
     ELSE Goto(p, "lost") /\ UNCHANGED <<gen, todo, mem, outside>>
  /\ UNCHANGED <<content, claim, retired>>

\* Every retry starts the deadline afresh.
LoseAcknowledgeUncounted(p) ==
  /\ pc[p] = "lost" /\ mem[p].call # CheckCall
  /\ Goto(p, "acquire")
  /\ UNCHANGED <<disk, gen, todo, mem, outside>>

\* Without an operation: a check answers from the record, or says that one is
\* under way; an acknowledgement tries again until its deadline.
LoseCheck(p) ==
  /\ pc[p] = "lost" /\ mem[p].call = CheckCall
  /\ Finish(p, mem[p], IF mem[p].failed \/ mem[p].fetched # NoDigest THEN Silent
                       ELSE LastGoodResult)
  /\ UNCHANGED disk

LoseAcknowledge(p) ==
  /\ pc[p] = "lost" /\ mem[p].call # CheckCall
  /\ \/ /\ mem[p].retries < MaxRetries
        /\ Goto(p, "acquire")
        /\ mem' = [mem EXCEPT ![p].retries = @ + 1]
        /\ UNCHANGED <<gen, todo, outside>>
     \/ Finish(p, mem[p], Silent)
  /\ UNCHANGED disk

-----------------------------------------------------------------------------
(* The surroundings: time and the end of a process.                        *)

Expire(g) ==
  /\ kind[g] = "pending" /\ ~stale[g]
  /\ stale' = [stale EXCEPT ![g] = TRUE]
  /\ UNCHANGED <<kind, content, claim, retired, locals, outside>>

Crash(p) ==
  /\ crashes < MaxCrashes
  /\ pc[p] \notin {"idle", "done", "crashed"}
  /\ Goto(p, "crashed")
  /\ gen' = [gen EXCEPT ![p] = 0]
  /\ todo' = [todo EXCEPT ![p] = {}]
  /\ mem' = [mem EXCEPT ![p] = NoMem]
  /\ crashes' = crashes + 1
  /\ UNCHANGED <<disk, told>>

Acquire(p) ==
  Look(p) \/ Reserve(p) \/ MakePending(p) \/ WriteOwner(p) \/ Promote(p) \/ Inspect(p)
    \/ Retire(p) \/ MoveClaim(p) \/ Install(p) \/ Installed(p)

Commit(p) ==
  OwnBeforeFencing(p) \/ ListLower(p) \/ FenceOne(p) \/ OwnAfterFencing(p) \/ Draft(p)
    \/ Publish(p)

Step(p) ==
  Acquire(p) \/ ReadAgain(p) \/ ConfirmBeforeFetch(p) \/ Fetch(p) \/ Commit(p)
    \/ Cancel(p) \/ LoseCheck(p) \/ LoseAcknowledge(p)

Start(p) ==
  \/ \E t \in Times : StartCheck(p, t)
  \/ \E d \in Digests : StartAcknowledge(p, d)

Next ==
  \/ \E p \in Procs : Start(p) \/ Step(p) \/ Crash(p)
  \/ \E g \in Gens : Expire(g)

\* A process that has started runs on unless it crashes.  Nothing makes a
\* lease expire or a caller call.
Spec == Init /\ [][Next]_vars /\ \A p \in Procs : WF_vars(Step(p))

-----------------------------------------------------------------------------
(* Properties.                                                             *)

\* What a process remembers from one step to the next.
Memory ==
  [call: Digests \cup {NoCall, CheckCall}, started: Times \cup {0}, seen: 0..MaxGen,
   tries: Nat, retries: Nat, fetched: Digests \cup {NoDigest}, failed: BOOLEAN,
   next: States, base: 0..MaxGen, out: Results, after: {"done", "lost"},
   known: SUBSET Digests]

TypeDisk ==
  /\ kind \in [Gens -> Kinds]
  /\ stale \in [Gens -> BOOLEAN]
  /\ content \in [Gens -> States]
  /\ claim \in 0..MaxGen
  /\ retired \subseteq 0..MaxGen

TypeCalls ==
  /\ pc \in [Procs -> Steps]
  /\ gen \in [Procs -> 0..MaxGen]
  /\ todo \in [Procs -> SUBSET Gens]
  /\ mem \in [Procs -> Memory]
  /\ told \subseteq Digests
  /\ crashes \in Nat

\* Directories, local variables and answers have the types the code gives them.
TypeOK == TypeDisk /\ TypeCalls

\* No update of the record is lost: a process about to publish still has its
\* directory only if the record it started from is the newest one
\* (commitOperation fences before it reads).
DraftsAreCurrent ==
  \A p \in Procs : pc[p] = "publish" /\ kind[gen[p]] = "pending"
                     => mem[p].base = LatestGen

\* What the cache directory says changes as if by one operation at a time,
\* each on the record the last one left.
Ledger == INSTANCE UpdateLedger WITH ledger <- Latest
ActsAsOneLedger == Ledger!Spec

\* An acknowledgement that was reported is never undone by a check that was
\* already under way.
AcknowledgementsLast == told \subseteq Latest.acknowledged

\* A notice that was acknowledged before a check began is not shown by it.
NoticedOnce ==
  \A p \in Procs : pc[p] = "done" /\ mem[p].out.status = "update_available"
                     => mem[p].out.digest \notin mem[p].known

\* Every call that does not crash answers: no attempt, retry or rival keeps
\* it for ever.  A process calls once, so that in the end none is running.
EveryCallAnswers == <>[](\A p \in Procs : pc[p] \in {"idle", "done", "crashed"})
=============================================================================
