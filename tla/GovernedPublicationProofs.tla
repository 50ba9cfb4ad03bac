---------------------- MODULE GovernedPublicationProofs ----------------------
(***************************************************************************)
(* For any executions, attempt slots, provider scenarios and bounds: the   *)
(* types hold, the publisher is called at most once, the effect's rows     *)
(* implement AtMostOnceEffect, and submission, completion, publication and *)
(* final job states are earned by what happened before.                    *)
(***************************************************************************)
EXTENDS GovernedPublication, TLAPS

-----------------------------------------------------------------------------
(* Types                                                                   *)

\* The initial rows and workflows are well typed.
LEMMA InitTypes == Init => TypeOK
<1> SUFFICES ASSUME Init PROVE TypeOK
  OBVIOUS
<1>1. TypeRows
  <2>1. attemptRow \in BOOLEAN /\ publication \in BOOLEAN
    BY Zenon DEF Init
  <2>2. receipt \in Seen /\ job \in [Runs -> {"absent", "running"} \cup TerminalJob]
    BY DEF Init, Seen
  <2> QED BY <2>1, <2>2 DEF Init, TypeRows
<1>2. TypeControl
  <2>1. payload \in [Runs -> SUBSET PayloadKeys]
    BY DEF Init
  <2>2. pc \in [Attempts -> PCs] /\ seen \in [Attempts -> Seen]
    BY DEF Init, PCs, Seen
  <2> QED BY <2>1, <2>2, BoundAssumption DEF Init, TypeControl
<1> QED BY <1>1, <1>2 DEF TypeOK

\* Going from one program counter to another keeps the attempts well typed.
LEMMA StepTypes ==
  ASSUME TypeControl, NEW r \in Runs, NEW s \in Slots, NEW from, NEW to \in PCs,
         NEW v \in Seen, Step(r, s, from, to, v)
  PROVE  TypeControl'
BY DEF TypeControl, Step, control, Attempts

\* An exception ends the attempt and may end the workflow.
LEMMA RaiseTypes ==
  ASSUME TypeControl, NEW r \in Runs, NEW s \in Slots, Raise(r, s), faults' \in 0..MaxFaults
  PROVE  TypeControl'
<1>1. pc' \in [Attempts -> PCs] /\ seen' \in [Attempts -> Seen]
  BY DEF TypeControl, Raise, Attempts, PCs, Seen
<1>2. cur' \in [Runs -> Slots \cup {NoSlot}] /\ wf' \in [Runs -> {"none"} \cup Stages \cup Ended]
  BY DEF TypeControl, Raise, Lose, Ended
<1> QED BY <1>1, <1>2 DEF TypeControl, Raise

\* The workflow goes on to a stage or ends.
LEMMA DecisionTypes ==
  ASSUME NEW stage, NEW out, NEW cancelled
  PROVE  Decision(stage, out, cancelled) \in Stages \cup Ended
BY DEF Decision, Onward, Following, Stages, BoundedStages, TerminalStages, Ended

\* Only a few activities write a row, and most steps leave them all alone.
LEMMA SameRowsTypes == TypeRows /\ UNCHANGED <<world, job>> => TypeRows'
BY DEF TypeRows, world, remote, ledger, rows

\* The request activity writes at most its own job.
LEMMA RequestTypes ==
  ASSUME TypeOK, NEW r \in Runs, NEW s \in Slots, Request(r, s)
  PROVE  TypeOK'
<1> USE DEF TypeOK
<1>1. CASE LoadRequest(r, s)
  <2>1. TypeControl'
    BY <1>1, StepTypes DEF LoadRequest, PCs, Seen
  <2>2. TypeRows'
    BY <1>1, SameRowsTypes DEF LoadRequest
  <2> QED BY <2>1, <2>2
<1>2. CASE CreateScheduledRun(r, s)
  <2>1. TypeControl'
    BY <1>2, StepTypes, RaiseTypes DEF CreateScheduledRun, RaiseAt, TypeControl, PCs, Seen, Move, Attempts
  <2>2. TypeRows'
    BY <1>2 DEF CreateScheduledRun, TypeRows, world, remote, ledger, rows, JobStarted, TerminalJob
  <2> QED BY <2>1, <2>2
<1> QED BY <1>1, <1>2 DEF Request

\* The authorize activity writes effect, plan and reservation.
LEMMA AuthorizeTypes ==
  ASSUME TypeOK, NEW r \in Runs, NEW s \in Slots, Authorize(r, s)
  PROVE  TypeOK'
<1> USE DEF TypeOK
<1>1. CASE PlanEffect(r, s)
  <2>1. TypeControl'
    BY <1>1, StepTypes DEF PlanEffect, Move, TypeControl, Attempts, PCs
  <2>2. TypeRows'
    BY <1>1 DEF PlanEffect, TypeRows, world, remote, ledger, rows, Move
  <2> QED BY <2>1, <2>2
<1>2. CASE LinkPlan(r, s)
  <2>1. TypeControl'
    BY <1>2, StepTypes, RaiseTypes DEF LinkPlan, RaiseAt, TypeControl, PCs, Seen, Move, Attempts
  <2>2. TypeRows'
    BY <1>2 DEF LinkPlan, TypeRows, world, remote, ledger, rows, Move
  <2> QED BY <2>1, <2>2
<1>3. CASE Reserve(r, s)
  <2>1. TypeControl'
    BY <1>3, StepTypes, RaiseTypes DEF Reserve, RaiseAt, TypeControl, PCs, Seen, Move, Attempts, TypeRows
  <2>2. TypeRows'
    BY <1>3 DEF Reserve, TypeRows, world, remote, ledger, rows, SameReservation
  <2> QED BY <2>1, <2>2
<1>4. CASE CheckAuthorization(r, s)
  <2>1. TypeControl'
    BY <1>4, StepTypes DEF CheckAuthorization, PCs, Seen
  <2>2. TypeRows'
    BY <1>4, SameRowsTypes DEF CheckAuthorization
  <2> QED BY <2>1, <2>2
<1> QED BY <1>1, <1>2, <1>3, <1>4 DEF Authorize

\* The submit activity writes attempt, effect, receipt and event.
LEMMA SubmitTypes ==
  ASSUME TypeOK, NEW r \in Runs, NEW s \in Slots, SubmitOrReconcile(r, s)
  PROVE  TypeOK'
<1> USE DEF TypeOK
<1>1. CASE CreateAttempt(r, s)
  <2>1. TypeControl'
    BY <1>1, StepTypes DEF CreateAttempt, Move, TypeControl, Attempts, PCs
  <2>2. TypeRows'
    BY <1>1 DEF CreateAttempt, TypeRows, world, remote, ledger, rows, Move
  <2> QED BY <2>1, <2>2
<1>2. CASE BeginEffectSubmission(r, s)
  <2>1. TypeControl'
    BY <1>2, StepTypes DEF BeginEffectSubmission, Move, TypeControl, Attempts, PCs
  <2>2. TypeRows'
    BY <1>2 DEF BeginEffectSubmission, TypeRows, world, remote, ledger, rows, Claimable
  <2> QED BY <2>1, <2>2
<1>3. CASE Recheck(r, s)
  <2>1. TypeControl'
    BY <1>3, StepTypes DEF Recheck, Move, TypeControl, Attempts, PCs, Seen
  <2>2. TypeRows'
    BY <1>3, SameRowsTypes DEF Recheck
  <2> QED BY <2>1, <2>2
<1>4. CASE Submit(r, s)
  <2>1. TypeControl'
    BY <1>4, StepTypes, RaiseTypes DEF Submit, RaiseAt, TypeControl, PCs, Seen, Move, Attempts, ReceiptState, RemoteStates
  <2>2. TypeRows'
    BY <1>4 DEF Submit, TypeRows, world, remote, ledger, rows, ReceiptState
  <2> QED BY <2>1, <2>2
<1>5. CASE Reconcile(r, s)
  <2>1. TypeControl'
    BY <1>5, StepTypes, RaiseTypes DEF Reconcile, RaiseAt, TypeControl, PCs, Seen, Move, Attempts, ReceiptState, RemoteStates
  <2>2. TypeRows'
    BY <1>5, SameRowsTypes DEF Reconcile
  <2> QED BY <2>1, <2>2
<1>6. CASE RecordRemoteReceipt(r, s)
  <2>1. TypeControl'
    BY <1>6, StepTypes DEF RecordRemoteReceipt, Move, TypeControl, Attempts, PCs
  <2>2. TypeRows'
    BY <1>6 DEF RecordRemoteReceipt, TypeRows, world, remote, ledger, rows, TypeControl, Attempts
  <2> QED BY <2>1, <2>2
<1>7. CASE RecordSubmission(r, s)
  <2>1. TypeControl'
    BY <1>7, StepTypes DEF RecordSubmission, Move, TypeControl, Attempts, PCs
  <2>2. TypeRows'
    BY <1>7 DEF RecordSubmission, TypeRows, world, remote, ledger, rows, TypeControl, Attempts
  <2> QED BY <2>1, <2>2
<1>8. CASE CompleteEffect(r, s)
  <2>1. TypeControl'
    BY <1>8, StepTypes DEF CompleteEffect, Move, TypeControl, Attempts, PCs
  <2>2. TypeRows'
    BY <1>8 DEF CompleteEffect, TypeRows, world, remote, ledger, rows, Move
  <2> QED BY <2>1, <2>2
<1> QED BY <1>1, <1>2, <1>3, <1>4, <1>5, <1>6, <1>7, <1>8 DEF SubmitOrReconcile

\* The await activity polls, and settles and publishes at the end.
LEMMA AwaitTypes ==
  ASSUME TypeOK, NEW r \in Runs, NEW s \in Slots, AwaitPublication(r, s)
  PROVE  TypeOK'
<1> USE DEF TypeOK
<1>1. CASE PollStatus(r, s)
  <2>1. TypeControl'
    BY <1>1, StepTypes DEF PollStatus, StatusState, PCs, Seen, RemoteStates
  <2>2. TypeRows'
    BY <1>1 DEF PollStatus, TypeRows, world, remote, ledger, rows, Polled
  <2> QED BY <2>1, <2>2
<1>2. CASE RecordPoll(r, s)
  <2>1. TypeControl'
    BY <1>2, StepTypes DEF RecordPoll, Move, TypeControl, Attempts, PCs
  <2>2. TypeRows'
    BY <1>2 DEF RecordPoll, TypeRows, world, remote, ledger, rows, TypeControl, Attempts
  <2> QED BY <2>1, <2>2
<1>3. CASE Settle(r, s)
  <2>1. TypeControl'
    BY <1>3, StepTypes, RaiseTypes DEF Settle, RaiseAt, TypeControl, PCs, Seen, Move, Attempts
  <2>2. TypeRows'
    BY <1>3 DEF Settle, TypeRows, world, remote, ledger, rows, Settle
  <2> QED BY <2>1, <2>2
<1>4. CASE RecordPublication(r, s)
  <2>1. TypeControl'
    BY <1>4, StepTypes DEF RecordPublication, Move, TypeControl, Attempts, PCs
  <2>2. TypeRows'
    BY <1>4 DEF RecordPublication, TypeRows, world, remote, ledger, rows, Move
  <2> QED BY <2>1, <2>2
<1> QED BY <1>1, <1>2, <1>3, <1>4 DEF AwaitPublication

\* The terminal activities release the reservation and close the job.
LEMMA ConcludeTypes ==
  ASSUME TypeOK, NEW r \in Runs, NEW s \in Slots, Conclude(r, s)
  PROVE  TypeOK'
<1> USE DEF TypeOK
<1>1. CASE Complete(r, s)
  <2>1. TypeControl'
    BY <1>1, StepTypes DEF Complete, Terminal, PCs, Seen
  <2>2. TypeRows'
    BY <1>1 DEF Complete, TypeRows, world, remote, ledger, rows, Terminal, TerminalJob
  <2> QED BY <2>1, <2>2
<1>2. CASE ReleaseDenied(r, s)
  <2>1. TypeControl'
    BY <1>2, StepTypes DEF ReleaseDenied, Move, TypeControl, Attempts, PCs, Release
  <2>2. TypeRows'
    BY <1>2 DEF ReleaseDenied, TypeRows, world, remote, ledger, rows, Release
  <2> QED BY <2>1, <2>2
<1>3. CASE Deny(r, s)
  <2>1. TypeControl'
    BY <1>3, StepTypes DEF Deny, Terminal, PCs, Seen
  <2>2. TypeRows'
    BY <1>3 DEF Deny, TypeRows, world, remote, ledger, rows, Terminal, TerminalJob
  <2> QED BY <2>1, <2>2
<1>4. CASE CancelRemote(r, s)
  <2>1. TypeControl'
    BY <1>4, StepTypes DEF CancelRemote, Move, TypeControl, Attempts, PCs
  <2>2. TypeRows'
    BY <1>4 DEF CancelRemote, TypeRows, world, remote, ledger, rows, Polled
  <2> QED BY <2>1, <2>2
<1>5. CASE RecordCancellation(r, s)
  <2>1. TypeControl'
    BY <1>5, StepTypes DEF RecordCancellation, Move, TypeControl, Attempts, PCs
  <2>2. TypeRows'
    BY <1>5 DEF RecordCancellation, TypeRows, world, remote, ledger, rows, Seen, RemoteStates
  <2> QED BY <2>1, <2>2
<1>6. CASE ReleaseCancelled(r, s)
  <2>1. TypeControl'
    BY <1>6, StepTypes DEF ReleaseCancelled, Move, TypeControl, Attempts, PCs, Release
  <2>2. TypeRows'
    BY <1>6 DEF ReleaseCancelled, TypeRows, world, remote, ledger, rows, Release
  <2> QED BY <2>1, <2>2
<1>7. CASE Cancel(r, s)
  <2>1. TypeControl'
    BY <1>7, StepTypes DEF Cancel, Terminal, PCs, Seen
  <2>2. TypeRows'
    BY <1>7 DEF Cancel, TypeRows, world, remote, ledger, rows, Terminal, TerminalJob
  <2> QED BY <2>1, <2>2
<1>8. CASE DeadLetter(r, s)
  <2>1. TypeControl'
    BY <1>8, StepTypes DEF DeadLetter, Terminal, PCs, Seen
  <2>2. TypeRows'
    BY <1>8 DEF DeadLetter, TypeRows, world, remote, ledger, rows, Terminal, TerminalJob
  <2> QED BY <2>1, <2>2
<1> QED BY <1>1, <1>2, <1>3, <1>4, <1>5, <1>6, <1>7, <1>8 DEF Conclude

\* Delivery, a returning attempt and a failing one write no row.
LEMMA AttemptTypes ==
  ASSUME TypeOK, NEW r \in Runs, NEW s \in Slots, AttemptStep(r, s) \/ Fail(r, s)
  PROVE  TypeOK'
<1> USE DEF TypeOK
<1>1. CASE Deliver(r, s)
  BY <1>1, StepTypes, SameRowsTypes DEF Deliver, PCs, Seen
<1>2. CASE Return(r, s)
  <2>1. wf' \in [Runs -> {"none"} \cup Stages \cup Ended]
    BY <1>2, DecisionTypes DEF Return, TypeControl, Attempts
  <2>2. pc' \in [Attempts -> PCs] /\ seen' \in [Attempts -> Seen]
    BY <1>2 DEF Return, TypeControl, Attempts, PCs, Seen
  <2>3. payload' \in [Runs -> SUBSET PayloadKeys]
    BY <1>2 DEF Return, TypeControl, Handed
  <2>4. tries' \in [Runs -> Nat] /\ polls' \in [Runs -> Nat] /\ cur' \in [Runs -> Slots \cup {NoSlot}]
    BY <1>2 DEF Return, TypeControl, PollsAfter
  <2>5. TypeControl'
    BY <1>2, <2>1, <2>2, <2>3, <2>4 DEF Return, TypeControl
  <2> QED BY <1>2, <2>5, SameRowsTypes DEF Return
<1>3. CASE Fail(r, s)
  <2>1. faults' \in 0..MaxFaults
    BY <1>3, BoundAssumption DEF Fail, TypeControl
  <2> QED BY <1>3, <2>1, RaiseTypes, SameRowsTypes DEF Fail
<1> QED BY <1>1, <1>2, <1>3, RequestTypes, AuthorizeTypes, SubmitTypes, AwaitTypes,
           ConcludeTypes DEF AttemptStep

\* The API, a schedule, an operator and Temporal.
LEMMA OutsideTypes ==
  ASSUME TypeOK, NEW r \in Runs
  PROVE  /\ StartApi(r) \/ Fire(r) \/ RequestCancel(r) \/ TimeOut(r) => TypeOK'
         /\ \A s \in Slots : Dispatch(r, s) => TypeOK'
<1> USE DEF TypeOK
<1>1. ASSUME StartApi(r) PROVE TypeOK'
  BY <1>1 DEF StartApi, TypeRows, TypeControl, world, remote, ledger, rows, Stages, BoundedStages
<1>2. ASSUME Fire(r) PROVE TypeOK'
  BY <1>2, SameRowsTypes DEF Fire, TypeControl, Stages, BoundedStages
<1>3. ASSUME RequestCancel(r) PROVE TypeOK'
  BY <1>3, SameRowsTypes DEF RequestCancel, TypeControl
<1>4. ASSUME TimeOut(r) PROVE TypeOK'
  BY <1>4, SameRowsTypes, BoundAssumption DEF TimeOut, Lose, TypeControl, Ended
<1>5. ASSUME NEW s \in Slots, Dispatch(r, s) PROVE TypeOK'
  <2>1. Entry(r, wf[r]) \in PCs
    BY <1>5 DEF Dispatch, Entry, FirstStep, Stages, BoundedStages, TerminalStages, PCs
  <2> QED BY <1>5, <2>1, SameRowsTypes DEF Dispatch, TypeControl, Attempts
<1> QED BY <1>1, <1>2, <1>3, <1>4, <1>5

\* Every execution of the specification is well typed.
LEMMA StepKeepsTypes == TypeOK /\ [Next]_vars => TypeOK'
<1> SUFFICES ASSUME TypeOK, [Next]_vars PROVE TypeOK'
  OBVIOUS
<1>1. CASE UNCHANGED vars
  BY <1>1 DEF vars, world, remote, ledger, rows, control, TypeOK, TypeRows, TypeControl
<1>2. CASE \E r \in Runs : StartApi(r) \/ Fire(r) \/ RequestCancel(r) \/ TimeOut(r)
  BY <1>2, OutsideTypes
<1>3. CASE \E f \in Facts : Revoke(f)
  BY <1>3 DEF Revoke, TypeOK, TypeRows, TypeControl, control, remote, ledger, rows
<1>4. CASE \E r \in Runs, s \in Slots : Dispatch(r, s) \/ Fail(r, s) \/ AttemptStep(r, s)
  BY <1>4, OutsideTypes, AttemptTypes
<1> QED BY <1>1, <1>2, <1>3, <1>4 DEF Next

\* Type correctness of rows, workflows and attempts, for all constants.
THEOREM TypeCorrect == Spec => []TypeOK
BY InitTypes, StepKeepsTypes, PTL DEF Spec

-----------------------------------------------------------------------------
(* At most one submission                                                  *)

\* An attempt that goes where nobody calls or records adds no caller and no
\* recorder.
LEMMA LeaveTargets ==
  ASSUME NEW r \in Runs, NEW s \in Slots, NEW to,
         TypeControl, pc' = [pc EXCEPT ![<<r, s>>] = to],
         to \notin {"sb_recheck", "sb_call", "sb_receipt", "sb_event", "sb_complete"}
  PROVE  Calling' \subseteq Calling /\ Recording' \subseteq Recording
BY DEF Calling, Recording, TypeControl, Attempts

\* Fewer callers and recorders, with effect and publisher untouched, are harmless.
LEMMA QuietStep ==
  ASSUME SingleCaller, Calling' \subseteq Calling, Recording' \subseteq Recording,
         UNCHANGED <<effect, submits>>
  PROVE  SingleCaller'
BY DEF SingleCaller

\* Nobody calls or records in the request, delivery, await and terminal stages.
LEMMA ElsewhereQuiet ==
  ASSUME TypeControl, SingleCaller, NEW r \in Runs, NEW s \in Slots,
         Request(r, s) \/ Deliver(r, s) \/ AwaitPublication(r, s) \/ Conclude(r, s)
           \/ Return(r, s) \/ Fail(r, s)
  PROVE  SingleCaller'
<1> USE LeaveTargets, QuietStep DEF Step, Move, Terminal, Release, RaiseAt, Raise, world, remote, rows
<1>1. CASE Request(r, s)
  BY <1>1 DEF Request, LoadRequest, CreateScheduledRun
<1>2. CASE Deliver(r, s)
  BY <1>2 DEF Deliver
<1>3. CASE AwaitPublication(r, s)
  BY <1>3 DEF AwaitPublication, PollStatus, RecordPoll, Settle, RecordPublication
<1>4. CASE Conclude(r, s)
  BY <1>4 DEF Conclude, Complete, ReleaseDenied, Deny, CancelRemote, RecordCancellation,
       ReleaseCancelled, Cancel, DeadLetter
<1>5. CASE Return(r, s)
  BY <1>5 DEF Return
<1>6. CASE Fail(r, s)
  BY <1>6 DEF Fail
<1> QED BY <1>1, <1>2, <1>3, <1>4, <1>5, <1>6

\* Planning an effect only happens before anybody could have claimed it.
LEMMA AuthorizeQuiet ==
  ASSUME TypeControl, SingleCaller, NEW r \in Runs, NEW s \in Slots, Authorize(r, s)
  PROVE  SingleCaller'
<1> USE LeaveTargets DEF Step, Move, RaiseAt, Raise, world, remote, rows
<1>1. CASE PlanEffect(r, s)
  <2>1. Calling' \subseteq Calling /\ Recording' \subseteq Recording /\ submits' = submits
    BY <1>1 DEF PlanEffect
  <2>2. CASE effect = "none"
    BY <1>1, <2>1, <2>2 DEF PlanEffect, SingleCaller
  <2>3. CASE effect # "none"
    BY <1>1, <2>1, <2>3, QuietStep DEF PlanEffect
  <2> QED BY <2>2, <2>3
<1>2. CASE LinkPlan(r, s)
  BY <1>2, QuietStep DEF LinkPlan
<1>3. CASE Reserve(r, s)
  BY <1>3, QuietStep DEF Reserve
<1>4. CASE CheckAuthorization(r, s)
  BY <1>4, QuietStep DEF CheckAuthorization
<1> QED BY <1>1, <1>2, <1>3, <1>4 DEF Authorize

\* The claim makes the one caller, the call is its last act as such, and only
\* what was sent is recorded.
LEMMA SubmitKeepsSingleCaller ==
  ASSUME TypeControl, SingleCaller, NEW r \in Runs, NEW s \in Slots, SubmitOrReconcile(r, s)
  PROVE  SingleCaller'
<1> DEFINE me == <<r, s>>
<1>a. me \in Attempts
  BY DEF Attempts
<1>1. CASE CreateAttempt(r, s)
  BY <1>1, LeaveTargets, QuietStep DEF CreateAttempt, Step, Move, remote
<1>2. CASE BeginEffectSubmission(r, s)
  <2>1. CASE Claimable
    <3>1. Calling = {} /\ Recording = {} /\ submits = 0
      BY <2>1 DEF Claimable, SingleCaller
    <3>2. Calling' = {me} /\ Recording' = {}
      BY <1>2, <2>1, <3>1, <1>a DEF BeginEffectSubmission, Step, Move, Calling, Recording, TypeControl
    <3> QED BY <1>2, <2>1, <3>1, <3>2 DEF BeginEffectSubmission, SingleCaller, remote
  <2>2. CASE ~Claimable
    BY <1>2, <2>2, LeaveTargets, QuietStep DEF BeginEffectSubmission, Step, Move, remote
  <2> QED BY <2>1, <2>2
<1>3. CASE Recheck(r, s)
  <2>1. Calling' \subseteq Calling /\ Recording' \subseteq Recording
    BY <1>3, <1>a DEF Recheck, Step, Move, Calling, Recording, TypeControl
  <2> QED BY <1>3, <2>1, QuietStep DEF Recheck, world, remote, rows
<1>4. CASE Submit(r, s)
  <2>1. CASE scenario \in Rejects
    BY <1>4, <2>1, LeaveTargets, QuietStep DEF Submit, RaiseAt, Raise, remote, rows
  <2>2. CASE scenario \notin Rejects
    <3>1. me \in Calling
      BY <1>4, <2>2, <1>a DEF Submit, Step, Calling
    <3>2. Calling = {me} /\ submits = 0 /\ effect = "submitting"
      BY <3>1 DEF SingleCaller
    <3>3. Calling' = {}
      BY <1>4, <2>2, <3>2, <1>a DEF Submit, Step, Calling, TypeControl
    <3>4. submits' = 1 /\ effect' = "submitting"
      BY <1>4, <2>2, <3>2 DEF Submit, rows
    <3> QED BY <3>3, <3>4 DEF SingleCaller
  <2> QED BY <2>1, <2>2
<1>5. CASE Reconcile(r, s)
  <2>1. UNCHANGED <<effect, submits>> /\ Calling' \subseteq Calling
    BY <1>5 DEF Reconcile, Step, RaiseAt, Raise, Calling, Attempts, TypeControl, world, remote, rows
  <2>2. Recording' \subseteq Recording \/ submits = 1
    BY <1>5, LeaveTargets DEF Reconcile, Step, RaiseAt, Raise, SingleCaller
  <2> QED BY <2>1, <2>2 DEF SingleCaller
<1>6. CASE RecordRemoteReceipt(r, s) \/ RecordSubmission(r, s)
  <2>1. Calling' \subseteq Calling /\ Recording' \subseteq Recording
    BY <1>6, <1>a DEF RecordRemoteReceipt, RecordSubmission, Step, Move, Calling, Recording, TypeControl
  <2> QED BY <1>6, <2>1, QuietStep DEF RecordRemoteReceipt, RecordSubmission, remote
<1>7. CASE CompleteEffect(r, s)
  <2>1. me \in Recording
    BY <1>7, <1>a DEF CompleteEffect, Step, Move, Recording
  <2>2. Calling = {} /\ submits = 1
    BY <2>1 DEF SingleCaller
  <2>3. Calling' = {} /\ Recording' \subseteq Recording /\ submits' = 1
    BY <1>7, <2>2, LeaveTargets DEF CompleteEffect, Step, Move, remote
  <2> QED BY <1>7, <2>3 DEF SingleCaller, CompleteEffect
<1> QED BY <1>1, <1>2, <1>3, <1>4, <1>5, <1>6, <1>7 DEF SubmitOrReconcile

LEMMA StepKeepsSingleCaller ==
  TypeOK /\ SingleCaller /\ [Next]_vars => SingleCaller'
<1> SUFFICES ASSUME TypeOK, SingleCaller, [Next]_vars PROVE SingleCaller'
  OBVIOUS
<1> USE DEF TypeOK
<1>1. CASE UNCHANGED vars
  BY <1>1, QuietStep DEF vars, world, remote, rows, Calling, Recording
<1>2. CASE \E r \in Runs : StartApi(r) \/ Fire(r) \/ RequestCancel(r) \/ TimeOut(r)
  BY <1>2, QuietStep DEF StartApi, Fire, RequestCancel, TimeOut, world, remote, rows, Calling, Recording
<1>3. CASE \E f \in Facts : Revoke(f)
  BY <1>3, QuietStep DEF Revoke, remote, rows, Calling, Recording
<1>4. CASE \E r \in Runs, s \in Slots : Dispatch(r, s)
  <2>1. PICK r \in Runs, s \in Slots : Dispatch(r, s)
    BY <1>4
  <2>2. Entry(r, wf[r]) \notin {"sb_recheck", "sb_call", "sb_receipt", "sb_event", "sb_complete"}
    BY <2>1 DEF Dispatch, Entry, FirstStep, Stages, BoundedStages, TerminalStages
  <2> QED BY <2>1, <2>2, LeaveTargets, QuietStep DEF Dispatch, world, remote, rows
<1>5. CASE \E r \in Runs, s \in Slots : Fail(r, s) \/ AttemptStep(r, s)
  BY <1>5, ElsewhereQuiet, AuthorizeQuiet, SubmitKeepsSingleCaller DEF AttemptStep
<1> QED BY <1>1, <1>2, <1>3, <1>4, <1>5 DEF Next

\* Whatever fails, times out or runs twice, one attempt at a time is between
\* claim and call, and only before the first submission.
THEOREM CallerIsSingle == Spec => []SingleCaller
<1>1. Init => SingleCaller
  BY DEF Init, SingleCaller, Calling, Recording
<1> QED BY <1>1, TypeCorrect, StepKeepsSingleCaller, PTL DEF Spec

\* The publisher is called at most once for a request.
THEOREM SubmittedAtMostOnce == Spec => []AtMostOneSubmission
<1>1. SingleCaller => AtMostOneSubmission
  BY DEF SingleCaller, AtMostOneSubmission
<1> QED BY <1>1, CallerIsSingle, PTL

-----------------------------------------------------------------------------
(* The rows and the publisher implement AtMostOnceEffect                   *)

\* Four steps of an attempt are steps of the abstract effect.
LEMMA EffectSteps ==
  ASSUME TypeOK, SingleCaller, NEW r \in Runs, NEW s \in Slots
  PROVE  /\ PlanEffect(r, s) => [Effect!Plan]_<<effect, submits>>
         /\ BeginEffectSubmission(r, s) => [Effect!Claim]_<<effect, submits>>
         /\ Submit(r, s) => [Effect!Send]_<<effect, submits>>
         /\ CompleteEffect(r, s) => [Effect!Record]_<<effect, submits>>
<1>a. <<r, s>> \in Attempts
  BY DEF Attempts
<1>1. PlanEffect(r, s) => [Effect!Plan]_<<effect, submits>>
  BY DEF PlanEffect, Effect!Plan, remote
<1>2. BeginEffectSubmission(r, s) => [Effect!Claim]_<<effect, submits>>
  BY DEF BeginEffectSubmission, Claimable, Effect!Claim, remote
<1>3. Submit(r, s) => [Effect!Send]_<<effect, submits>>
  <2> SUFFICES ASSUME Submit(r, s) PROVE [Effect!Send]_<<effect, submits>>
    OBVIOUS
  <2>1. CASE scenario \in Rejects
    BY <2>1 DEF Submit, remote, rows
  <2>2. CASE scenario \notin Rejects
    <3>1. effect = "submitting" /\ submits = 0
      BY <2>2, <1>a DEF Submit, Step, Calling, SingleCaller
    <3> QED BY <2>2, <3>1 DEF Submit, Effect!Send, rows
  <2> QED BY <2>1, <2>2
<1>4. CompleteEffect(r, s) => [Effect!Record]_<<effect, submits>>
  <2> SUFFICES ASSUME CompleteEffect(r, s) PROVE [Effect!Record]_<<effect, submits>>
    OBVIOUS
  <2>1. submits = 1 /\ effect \in {"submitting", "completed"}
    BY <1>a DEF CompleteEffect, Step, Move, Recording, SingleCaller, TypeOK, TypeRows
  <2>2. submits' = submits /\ effect' = "completed"
    BY DEF CompleteEffect, remote
  <2> QED BY <2>1, <2>2 DEF Effect!Record
<1> QED BY <1>1, <1>2, <1>3, <1>4

\* Every other step leaves the effect's status and the publisher alone.
LEMMA EffectUntouched ==
  ASSUME NEW r \in Runs, NEW s \in Slots,
         \/ Request(r, s) \/ Deliver(r, s) \/ AwaitPublication(r, s) \/ Conclude(r, s)
         \/ Return(r, s) \/ Fail(r, s) \/ Dispatch(r, s)
         \/ LinkPlan(r, s) \/ Reserve(r, s) \/ CheckAuthorization(r, s)
         \/ CreateAttempt(r, s) \/ Recheck(r, s) \/ Reconcile(r, s)
         \/ RecordRemoteReceipt(r, s) \/ RecordSubmission(r, s)
  PROVE  UNCHANGED <<effect, submits>>
<1> USE DEF world, remote, rows
<1>1. CASE Request(r, s) \/ Deliver(r, s) \/ Return(r, s) \/ Fail(r, s) \/ Dispatch(r, s)
  BY <1>1 DEF Request, LoadRequest, CreateScheduledRun, Deliver, Return, Fail, Dispatch
<1>2. CASE AwaitPublication(r, s)
  BY <1>2 DEF AwaitPublication, PollStatus, RecordPoll, Settle, RecordPublication
<1>3. CASE Conclude(r, s)
  BY <1>3 DEF Conclude, Complete, ReleaseDenied, Deny, CancelRemote, RecordCancellation,
       ReleaseCancelled, Cancel, DeadLetter, Terminal, Release
<1> QED BY <1>1, <1>2, <1>3 DEF LinkPlan, Reserve, CheckAuthorization, CreateAttempt,
           Recheck, Reconcile, RecordRemoteReceipt, RecordSubmission

\* A step of any execution is a step of the abstract effect or leaves it alone.
LEMMA StepRefines ==
  TypeOK /\ SingleCaller /\ [Next]_vars => [Effect!Next]_<<effect, submits>>
<1> SUFFICES ASSUME TypeOK, SingleCaller, [Next]_vars PROVE [Effect!Next]_<<effect, submits>>
  OBVIOUS
<1>1. CASE UNCHANGED vars
  BY <1>1 DEF vars, world, remote, rows
<1>2. CASE \E r \in Runs : StartApi(r) \/ Fire(r) \/ RequestCancel(r) \/ TimeOut(r)
  BY <1>2 DEF StartApi, Fire, RequestCancel, TimeOut, world, remote, rows
<1>3. CASE \E f \in Facts : Revoke(f)
  BY <1>3 DEF Revoke, remote, rows
<1>4. CASE \E r \in Runs, s \in Slots : Dispatch(r, s) \/ Fail(r, s) \/ AttemptStep(r, s)
  <2>1. PICK r \in Runs, s \in Slots : Dispatch(r, s) \/ Fail(r, s) \/ AttemptStep(r, s)
    BY <1>4
  <2>2. CASE PlanEffect(r, s) \/ BeginEffectSubmission(r, s) \/ Submit(r, s) \/ CompleteEffect(r, s)
    BY <2>2, EffectSteps DEF Effect!Next
  <2>3. CASE ~(PlanEffect(r, s) \/ BeginEffectSubmission(r, s) \/ Submit(r, s) \/ CompleteEffect(r, s))
    BY <2>1, <2>3, EffectUntouched DEF AttemptStep, Authorize, SubmitOrReconcile
  <2> QED BY <2>2, <2>3
<1> QED BY <1>1, <1>2, <1>3, <1>4 DEF Next

\* All executions together implement one at-most-once effect.
THEOREM EffectRefinement == Spec => EffectIsAtMostOnce
<1>1. Init => Effect!Init
  BY DEF Init, Effect!Init
<1> QED BY <1>1, TypeCorrect, CallerIsSingle, StepRefines, PTL
        DEF Spec, EffectIsAtMostOnce, Effect!Spec

-----------------------------------------------------------------------------
(* What was paid, recorded and published                                   *)

\* Execution r has a linked plan and a reservation of its own.
Paid(r) == plan = "linked" /\ reservation # "none" /\ reservedBy = r

\* The effect was claimed while package, account and approval stood ...
Granted == {"publishable", "approval"} \subseteq claimFacts
\* ... what the publisher answered is stored, and it reported the publication.
Recorded == receipt = ReceiptState /\ <<"submission", ReceiptState>> \in events
Reported == <<"poll", "published">> \in events

Authorizing == {"au_effect", "au_plan", "au_reserve", "au_check"}
AuthorizeOut == {"nobudget", "authorized", "unauthorized"}
Claiming == {"sb_claim", "sb_recheck", "sb_call", "sb_reconcile"}
Storing == {"sb_receipt", "sb_event", "sb_complete"}
Awaiting == {"aw_status", "aw_event", "aw_settle", "aw_publish"}

\* Execution r's submission is on record.
Delivered(r) == effect = "completed" /\ submitter = r

\* What an attempt of r at p, remembering v, can rely on.
Sound(r, p, v) ==
  /\ p = "au_reserve" => plan = "linked"
  /\ p \in {"au_check", "sb_attempt"} \cup Claiming \cup Storing => Paid(r)
  /\ p = "ret" /\ v = "authorized" => Paid(r)
  /\ p \in Claiming \cup Storing => attemptRow
  /\ p = "sb_call" => Granted
  /\ p \in Storing => v = ReceiptState
  /\ p \in {"sb_event", "sb_complete"} => receipt = ReceiptState
  /\ p = "sb_complete" => Recorded
  /\ p \in Awaiting \/ (p = "ret" /\ v \in RemoteStates) => Delivered(r)
  /\ p \in Awaiting \ {"aw_status"} => v \in RemoteStates
  /\ p \in {"aw_settle", "aw_publish"} => Reported
  /\ p = "aw_publish" => reservation = "settled"
  /\ p = "cp_job" \/ (p = "ret" /\ v = "published") => publication /\ submitter = r

AttemptsSound == \A r \in Runs, s \in Slots : Sound(r, pc[<<r, s>>], seen[<<r, s>>])

\* An attempt at p that remembers v is one of the authorize activity.
Answers(p, v) == p \in Authorizing \/ (p = "ret" /\ v \in AuthorizeOut)

\* What a workflow's stage stands for; only an authorization is awaited as one.
WorkflowsSound ==
  \A r \in Runs :
    /\ wf[r] \in {"delivery", "submit"} => Paid(r)
    /\ wf[r] = "await" => Delivered(r)
    /\ wf[r] = "complete" \/ job[r] = "succeeded" => publication /\ submitter = r
    /\ r \in ApiRuns /\ wf[r] # "none" => job[r] # "absent"
    /\ wf[r] \notin Stages => cur[r] = NoSlot
    /\ \A s \in Slots :
         cur[r] = s => (wf[r] = "authorize" <=> Answers(pc[<<r, s>>], seen[<<r, s>>]))

\* What the rows say of each other.
RowsSound ==
  /\ effect = "none" => effectJob = NoRun /\ reservation = "none"
  /\ reservation # "none" => reservedBy = effectJob
  /\ submitter # NoRun => reservation # "none" /\ reservedBy = submitter
  /\ receipt \in {"none", ReceiptState}
  /\ effect = "completed" => submits = 1 /\ attemptRow /\ plan = "linked" /\ Recorded
  /\ publication => effect = "completed" /\ reservation = "settled" /\ Reported
  /\ facts \subseteq claimFacts
  /\ submits # 0 => Granted
  /\ submits # 0 <=> submitter # NoRun

Earned == RowsSound /\ WorkflowsSound /\ AttemptsSound

\* No step takes back what a row says.
Grown ==
  /\ plan = "linked" => plan' = "linked"
  /\ reservation # "none" => reservation' # "none" /\ reservedBy' = reservedBy
  /\ reservation = "settled" => reservation' = "settled"
  /\ effect = "completed" => effect' = "completed"
  /\ attemptRow => attemptRow'
  /\ receipt # "none" => receipt' = receipt
  /\ events \subseteq events'
  /\ scenario' = scenario
  /\ submitter # NoRun => submitter' = submitter
  /\ publication => publication'

\* So an attempt goes on relying on what it relied on ...
LEMMA SoundKept ==
  ASSUME NEW r \in Runs, NEW p, NEW v, Grown, Sound(r, p, v),
         p = "sb_call" => claimFacts' = claimFacts
  PROVE  Sound(r, p, v)'
<1>1. Paid(r) => Paid(r)'
  BY DEF Paid, Grown
<1>2. receipt = ReceiptState => (receipt = ReceiptState)'
  BY DEF ReceiptState, Grown
<1>3. Recorded => Recorded'
  BY <1>2 DEF Recorded, ReceiptState, Grown
<1>4. Delivered(r) => Delivered(r)'
  BY ValueAssumption DEF Delivered, Grown
<1>5. Reported => Reported'
  BY DEF Reported, Grown
<1>6. publication /\ submitter = r => (publication /\ submitter = r)'
  BY ValueAssumption DEF Grown
<1>7. ReceiptState' = ReceiptState
  BY DEF ReceiptState, Grown
<1>8. p = "sb_call" => (Granted <=> Granted')
  BY DEF Granted
<1>9. (reservation = "settled" => (reservation = "settled")') /\ (attemptRow => attemptRow')
      /\ (plan = "linked" => (plan = "linked")')
  BY DEF Grown
<1> QED BY <1>1, <1>2, <1>3, <1>4, <1>5, <1>6, <1>7, <1>8, <1>9 DEF Sound

\* ... every attempt but the one that moves, which must earn its next step ...
LEMMA AttemptsKept ==
  ASSUME TypeControl, AttemptsSound, Grown, NEW r \in Runs, NEW s \in Slots,
         NEW to, NEW v, Sound(r, to, v)',
         pc' = [pc EXCEPT ![<<r, s>>] = to], seen' = [seen EXCEPT ![<<r, s>>] = v],
         Calling = {} \/ claimFacts' = claimFacts
  PROVE  AttemptsSound'
<1> SUFFICES ASSUME NEW q \in Runs, NEW t \in Slots
             PROVE  Sound(q, pc[<<q, t>>], seen[<<q, t>>])'
  BY DEF AttemptsSound
<1>a. <<q, t>> \in Attempts /\ <<r, s>> \in Attempts
  BY DEF Attempts
<1>1. CASE q = r /\ t = s
  <2>1. pc'[<<q, t>>] = to /\ seen'[<<q, t>>] = v
    BY <1>1, <1>a DEF TypeControl
  <2> QED BY <1>1, <2>1 DEF Sound
<1>2. CASE ~(q = r /\ t = s)
  <2>1. PICK p, u : p = pc[<<q, t>>] /\ u = seen[<<q, t>>]
    OBVIOUS
  <2>2. pc'[<<q, t>>] = p /\ seen'[<<q, t>>] = u
    BY <1>2, <1>a, <2>1 DEF TypeControl
  <2>3. p = "sb_call" => claimFacts' = claimFacts
    BY <1>a, <2>1 DEF Calling
  <2>4. Sound(q, p, u)
    BY <2>1 DEF AttemptsSound
  <2>5. Sound(q, p, u)'
    BY <2>3, <2>4, SoundKept
  <2> QED BY <2>2, <2>5 DEF Sound
<1> QED BY <1>1, <1>2

\* ... and a workflow on what its stage stands for.
LEMMA WorkflowsKept ==
  ASSUME Grown, NEW r \in Runs
  PROVE  /\ Paid(r) => Paid(r)'
         /\ Delivered(r) => Delivered(r)'
         /\ publication /\ submitter = r => (publication /\ submitter = r)'
BY ValueAssumption DEF Grown, Paid, Delivered

\* The attempt's next step, where no job changes but to the better.
LEMMA StepSound ==
  ASSUME TypeControl, AttemptsSound, WorkflowsSound, Grown, NEW r \in Runs, NEW s \in Slots,
         NEW from, NEW to, NEW v, Step(r, s, from, to, v), Sound(r, to, v)',
         Answers(pc[<<r, s>>], seen[<<r, s>>]) <=> Answers(to, v),
         Calling = {} \/ claimFacts' = claimFacts,
         \A q \in Runs : /\ job[q] # "absent" => job'[q] # "absent"
                         /\ job'[q] = "succeeded" =>
                              job[q] = "succeeded" \/ (publication /\ submitter = q)
  PROVE  AttemptsSound' /\ WorkflowsSound'
<1>1. AttemptsSound'
  BY AttemptsKept DEF Step
<1>2. ASSUME NEW q \in Runs
      PROVE  /\ wf'[q] \in {"delivery", "submit"} => Paid(q)'
             /\ wf'[q] = "await" => Delivered(q)'
             /\ wf'[q] = "complete" \/ job'[q] = "succeeded" => (publication /\ submitter = q)'
             /\ q \in ApiRuns /\ wf'[q] # "none" => job'[q] # "absent"
             /\ wf'[q] \notin Stages => cur'[q] = NoSlot
  BY <1>2, WorkflowsKept DEF WorkflowsSound, Step, control
<1>3. ASSUME NEW q \in Runs, NEW t \in Slots, cur'[q] = t
      PROVE  wf'[q] = "authorize" <=> Answers(pc'[<<q, t>>], seen'[<<q, t>>])
  <2>1. <<q, t>> \in Attempts /\ <<r, s>> \in Attempts
    BY DEF Attempts
  <2>2. cur[q] = t /\ wf'[q] = wf[q]
    BY <1>3 DEF Step, control
  <2>3. wf[q] = "authorize" <=> Answers(pc[<<q, t>>], seen[<<q, t>>])
    BY <2>2 DEF WorkflowsSound
  <2>4. CASE q = r /\ t = s
    BY <2>1, <2>2, <2>3, <2>4 DEF Step, TypeControl
  <2>5. CASE ~(q = r /\ t = s)
    <3>1. pc'[<<q, t>>] = pc[<<q, t>>] /\ seen'[<<q, t>>] = seen[<<q, t>>]
      BY <2>1, <2>5 DEF Step, TypeControl
    <3> QED BY <2>2, <2>3, <3>1
  <2> QED BY <2>4, <2>5
<1> QED BY <1>1, <1>2, <1>3 DEF WorkflowsSound, Answers

\* An attempt that ends with an exception, and a workflow that no longer waits.
LEMMA LoseSound ==
  ASSUME TypeControl, WorkflowsSound, Grown, NEW r \in Runs, Lose(r), job' = job,
         \A q \in Runs, t \in Slots : 
           q # r => pc'[<<q, t>>] = pc[<<q, t>>] /\ seen'[<<q, t>>] = seen[<<q, t>>]
  PROVE  WorkflowsSound'
<1>1. ASSUME NEW q \in Runs
      PROVE  /\ wf'[q] = wf[q] \/ (wf'[q] = "failed" /\ wf[q] # "none")
             /\ cur'[q] = cur[q] \/ cur'[q] = NoSlot
             /\ q # r => cur'[q] = cur[q] /\ wf'[q] = wf[q]
             /\ q = r => cur'[q] = NoSlot
  BY DEF Lose, TypeControl, BoundedStages
<1>2. ASSUME NEW q \in Runs
      PROVE  /\ wf'[q] \in {"delivery", "submit"} => Paid(q)'
             /\ wf'[q] = "await" => Delivered(q)'
             /\ wf'[q] = "complete" \/ job'[q] = "succeeded" => (publication /\ submitter = q)'
             /\ q \in ApiRuns /\ wf'[q] # "none" => job'[q] # "absent"
             /\ wf'[q] \notin Stages => cur'[q] = NoSlot
  BY <1>1, <1>2, WorkflowsKept DEF WorkflowsSound
<1>3. ASSUME NEW q \in Runs, NEW t \in Slots, cur'[q] = t
      PROVE  wf'[q] = "authorize" <=> Answers(pc'[<<q, t>>], seen'[<<q, t>>])
  <2>1. q # r
    BY <1>1, <1>3, ValueAssumption
  <2>2. wf[q] = "authorize" <=> Answers(pc[<<q, t>>], seen[<<q, t>>])
    BY <1>1, <1>3, <2>1 DEF WorkflowsSound
  <2> QED BY <1>1, <2>1, <2>2
<1> QED BY <1>2, <1>3 DEF WorkflowsSound, Answers

\* An attempt that raises, awaited or not.
LEMMA RaiseSound ==
  ASSUME TypeControl, AttemptsSound, WorkflowsSound, Grown, NEW r \in Runs, NEW s \in Slots,
         Raise(r, s), claimFacts' = claimFacts, job' = job
  PROVE  AttemptsSound' /\ WorkflowsSound'
<1>1. Sound(r, "idle", "none")'
  BY DEF Sound, Claiming, Storing, Awaiting
<1>2. AttemptsSound'
  BY <1>1, AttemptsKept DEF Raise
<1>3. ASSUME NEW q \in Runs, NEW t \in Slots, ~(q = r /\ t = s)
      PROVE  pc'[<<q, t>>] = pc[<<q, t>>] /\ seen'[<<q, t>>] = seen[<<q, t>>]
  BY <1>3 DEF Raise, TypeControl, Attempts
<1>4. CASE cur[r] = s
  BY <1>2, <1>3, <1>4, LoseSound DEF Raise
<1>5. CASE cur[r] # s
  <2>1. ASSUME NEW q \in Runs
        PROVE  /\ wf'[q] \in {"delivery", "submit"} => Paid(q)'
               /\ wf'[q] = "await" => Delivered(q)'
               /\ wf'[q] = "complete" \/ job'[q] = "succeeded" => (publication /\ submitter = q)'
               /\ q \in ApiRuns /\ wf'[q] # "none" => job'[q] # "absent"
               /\ wf'[q] \notin Stages => cur'[q] = NoSlot
    BY <1>5, <2>1, WorkflowsKept DEF WorkflowsSound, Raise
  <2>2. ASSUME NEW q \in Runs, NEW t \in Slots, cur'[q] = t
        PROVE  wf'[q] = "authorize" <=> Answers(pc'[<<q, t>>], seen'[<<q, t>>])
    <3>1. wf[q] = "authorize" <=> Answers(pc[<<q, t>>], seen[<<q, t>>])
      BY <1>5, <2>2 DEF WorkflowsSound, Raise
    <3>2. ~(q = r /\ t = s) /\ wf'[q] = wf[q]
      BY <1>5, <2>2 DEF Raise
    <3> QED BY <1>3, <3>1, <3>2
  <2> QED BY <1>2, <2>1, <2>2 DEF WorkflowsSound, Answers
<1> QED BY <1>2, <1>4, <1>5

\* Most steps leave every row alone.
LEMMA SameRowsSound ==
  ASSUME RowsSound, UNCHANGED world
  PROVE  RowsSound' /\ Grown /\ claimFacts' = claimFacts
BY DEF RowsSound, Grown, world, remote, ledger, rows, Granted, Recorded, Reported, ReceiptState

\* What each attempt is doing now, in the terms of Step.
LEMMA AttemptNow ==
  ASSUME Earned, NEW r \in Runs, NEW s \in Slots
  PROVE  Sound(r, pc[<<r, s>>], seen[<<r, s>>])
BY DEF Earned, AttemptsSound

\* The request and delivery activities rely on nothing and promise nothing.
LEMMA RequestEarned ==
  ASSUME TypeOK, Earned, NEW r \in Runs, NEW s \in Slots, Request(r, s) \/ Deliver(r, s)
  PROVE  Earned'
<1> USE DEF TypeOK, Earned
<1>1. RowsSound' /\ Grown /\ claimFacts' = claimFacts
  BY SameRowsSound DEF Request, LoadRequest, CreateScheduledRun, Deliver
<1>2. Sound(r, "ret", "ok")'
  BY DEF Sound, Claiming, Storing, Awaiting, RemoteStates
<1>3. ASSUME NEW from \in {"rq_load", "rq_job", "dl"}, Step(r, s, from, "ret", "ok"),
             \A q \in Runs : job'[q] = job[q] \/ job'[q] = "running"
      PROVE  AttemptsSound' /\ WorkflowsSound'
  BY <1>1, <1>2, <1>3, StepSound DEF Answers, Authorizing, AuthorizeOut, Step
<1>4. CASE LoadRequest(r, s) \/ Deliver(r, s)
  BY <1>1, <1>3, <1>4 DEF LoadRequest, Deliver
<1>5. CASE CreateScheduledRun(r, s)
  <2>1. CASE "publishable" \in facts
    <3>1. \A q \in Runs : job'[q] = job[q] \/ job'[q] = "running"
      BY <1>5, <2>1 DEF CreateScheduledRun, JobStarted, TypeRows
    <3> QED BY <1>1, <1>3, <1>5, <2>1, <3>1 DEF CreateScheduledRun
  <2>2. CASE "publishable" \notin facts
    BY <1>1, <1>5, <2>2, RaiseSound DEF CreateScheduledRun, RaiseAt
  <2> QED BY <2>1, <2>2
<1> QED BY <1>4, <1>5 DEF Request

\* The authorize activity answers "authorized" only for an execution that paid.
LEMMA AuthorizeEarned ==
  ASSUME TypeOK, Earned, NEW r \in Runs, NEW s \in Slots, Authorize(r, s)
  PROVE  Earned'
<1> USE DEF TypeOK, Earned
<1>a. PICK u : u = seen[<<r, s>>]
  OBVIOUS
<1>b. ASSUME NEW from \in Authorizing, NEW to, NEW v, Step(r, s, from, to, v),
             Answers(to, v), Sound(r, to, v)', Grown, claimFacts' = claimFacts, job' = job
      PROVE  AttemptsSound' /\ WorkflowsSound'
  BY <1>b, StepSound DEF Answers, Step
<1>1. CASE PlanEffect(r, s)
  <2>1. RowsSound' /\ Grown
    BY <1>1 DEF PlanEffect, RowsSound, Grown, remote, ledger, Granted, Recorded, Reported, ReceiptState
  <2>2. Sound(r, "au_plan", u)' /\ Answers("au_plan", u)
    BY DEF Sound, Claiming, Storing, Awaiting, Answers, Authorizing
  <2> QED BY <1>a, <1>b, <1>1, <2>1, <2>2 DEF PlanEffect, Move, Authorizing
<1>2. CASE LinkPlan(r, s)
  <2>1. RowsSound' /\ Grown
    BY <1>2 DEF LinkPlan, RowsSound, Grown, remote, ledger, Granted, Recorded, Reported, ReceiptState
  <2>2. CASE RaiseAt(r, s, "au_plan")
    BY <1>2, <2>1, <2>2, RaiseSound DEF LinkPlan, RaiseAt
  <2>3. CASE Move(r, s, "au_plan", "au_reserve") /\ plan' = "linked"
    <3>1. Sound(r, "au_reserve", u)' /\ Answers("au_reserve", u)
      BY <2>3 DEF Sound, Claiming, Storing, Awaiting, Answers, Authorizing
    <3> QED BY <1>a, <1>b, <1>2, <2>1, <2>3, <3>1 DEF LinkPlan, Move, Authorizing
  <2> QED BY <1>2, <2>2, <2>3 DEF LinkPlan
<1>3. CASE Reserve(r, s)
  <2>1. RowsSound' /\ Grown
    BY <1>3, ValueAssumption DEF Reserve, RowsSound, Grown, remote, rows, Granted, Recorded,
       Reported, ReceiptState, ledger
  <2>2. CASE RaiseAt(r, s, "au_reserve")
    BY <1>3, <2>1, <2>2, RaiseSound DEF Reserve, RaiseAt
  <2>3. CASE Step(r, s, "au_reserve", "ret", "nobudget")
    <3>1. Sound(r, "ret", "nobudget")' /\ Answers("ret", "nobudget")
      BY DEF Sound, Claiming, Storing, Awaiting, RemoteStates, Answers, AuthorizeOut
    <3> QED BY <1>b, <1>3, <2>1, <2>3, <3>1 DEF Reserve, Authorizing
  <2>4. CASE ~RaiseAt(r, s, "au_reserve") /\ ~Step(r, s, "au_reserve", "ret", "nobudget")
    <3>1. PICK v : Step(r, s, "au_reserve", "au_check", v)
      BY <1>3, <2>4 DEF Reserve
    <3>2. plan = "linked"
      BY <3>1, AttemptNow DEF Step, Sound
    <3>3. Paid(r)'
      BY <1>3, <2>4, <3>2 DEF Reserve, Paid, SameReservation, ledger, rows
    <3>4. Sound(r, "au_check", v)' /\ Answers("au_check", v)
      BY <3>3 DEF Sound, Claiming, Storing, Awaiting, Answers, Authorizing
    <3> QED BY <1>b, <1>3, <2>1, <3>1, <3>4 DEF Reserve, Authorizing
  <2> QED BY <2>2, <2>3, <2>4
<1>4. CASE CheckAuthorization(r, s)
  <2>1. RowsSound' /\ Grown /\ claimFacts' = claimFacts
    BY <1>4, SameRowsSound DEF CheckAuthorization
  <2>2. PICK v \in {"authorized", "unauthorized"} : Step(r, s, "au_check", "ret", v)
    BY <1>4 DEF CheckAuthorization
  <2>3. Paid(r)
    BY <2>2, AttemptNow DEF Step, Sound
  <2>4. Sound(r, "ret", v)' /\ Answers("ret", v)
    BY <2>1, <2>3, WorkflowsKept
       DEF Sound, Claiming, Storing, Awaiting, RemoteStates, Answers, AuthorizeOut
  <2> QED BY <1>b, <1>4, <2>1, <2>2, <2>4 DEF CheckAuthorization, Authorizing
<1> QED BY <1>1, <1>2, <1>3, <1>4 DEF Authorize

\* The submit activity carries the payment to the call, and the answer of the
\* publisher to receipt, event and completion.
LEMMA SubmitEarned ==
  ASSUME TypeOK, SingleCaller, Earned, NEW r \in Runs, NEW s \in Slots, SubmitOrReconcile(r, s)
  PROVE  Earned'
<1> USE DEF TypeOK, Earned
<1>a. PICK u : u = seen[<<r, s>>]
  OBVIOUS
<1>b. <<r, s>> \in Attempts
  BY DEF Attempts
<1>c. ASSUME NEW from \in {"sb_attempt"} \cup Claiming \cup Storing, NEW to, NEW v,
             Step(r, s, from, to, v), ~Answers(to, v), Sound(r, to, v)', Grown,
             Calling = {} \/ claimFacts' = claimFacts, job' = job
      PROVE  AttemptsSound' /\ WorkflowsSound'
  <2>1. ~Answers(pc[<<r, s>>], seen[<<r, s>>])
    BY <1>c DEF Step, Answers, Authorizing, Claiming, Storing
  <2> QED BY <1>c, <2>1, StepSound
<1>d. Sound(r, pc[<<r, s>>], u)
  BY <1>a, AttemptNow
<1>e. ReceiptState \in RemoteStates \ {"published"} /\ ReceiptState \notin AuthorizeOut
  BY DEF ReceiptState, RemoteStates, AuthorizeOut
<1>1. CASE CreateAttempt(r, s)
  <2>1. RowsSound' /\ Grown
    BY <1>1 DEF CreateAttempt, RowsSound, Grown, remote, ledger, Granted, Recorded, Reported, ReceiptState
  <2>2. Paid(r)' /\ attemptRow'
    BY <1>1, <1>d, <2>1, WorkflowsKept DEF CreateAttempt, Move, Step, Sound
  <2>3. Sound(r, "sb_claim", u)' /\ ~Answers("sb_claim", u)
    BY <2>2 DEF Sound, Claiming, Storing, Awaiting, Answers, Authorizing
  <2> QED BY <1>a, <1>c, <1>1, <2>1, <2>3 DEF CreateAttempt, Move
<1>2. CASE BeginEffectSubmission(r, s)
  <2>1. Claimable => Calling = {} /\ submits = 0
    BY DEF Claimable, SingleCaller
  <2>2. RowsSound' /\ Grown
    BY <1>2, <2>1 DEF BeginEffectSubmission, Claimable, RowsSound, Grown, remote, ledger, Granted,
       Recorded, Reported, ReceiptState
  <2>3. Paid(r)' /\ attemptRow'
    BY <1>2, <1>d, <2>2, WorkflowsKept DEF BeginEffectSubmission, Move, Step, Sound, Claiming
  <2>4. Sound(r, "sb_recheck", u)' /\ Sound(r, "sb_reconcile", u)'
    BY <2>3 DEF Sound, Claiming, Storing, Awaiting
  <2>5. ~Answers("sb_recheck", u) /\ ~Answers("sb_reconcile", u)
    BY DEF Answers, Authorizing
  <2> QED BY <1>a, <1>c, <1>2, <2>1, <2>2, <2>4, <2>5 DEF BeginEffectSubmission, Move, Claiming
<1>3. CASE Recheck(r, s)
  <2>1. RowsSound' /\ Grown /\ claimFacts' = claimFacts
    BY <1>3, SameRowsSound DEF Recheck
  <2>2. Paid(r)' /\ attemptRow'
    BY <1>3, <1>d, <2>1, WorkflowsKept DEF Recheck, Move, Step, Sound, Claiming, Grown
  <2>3. CASE Reauthorized
    <3>1. Granted'
      BY <2>1, <2>3 DEF Reauthorized, Granted, RowsSound
    <3>2. Sound(r, "sb_call", u)' /\ ~Answers("sb_call", u)
      BY <2>2, <3>1 DEF Sound, Claiming, Storing, Awaiting, Answers, Authorizing
    <3> QED BY <1>a, <1>c, <1>3, <2>1, <2>3, <3>2 DEF Recheck, Move, Claiming
  <2>4. CASE ~Reauthorized
    <3>1. Sound(r, "ret", "revoked")' /\ ~Answers("ret", "revoked")
      BY DEF Sound, Claiming, Storing, Awaiting, RemoteStates, Answers, Authorizing, AuthorizeOut
    <3> QED BY <1>c, <1>3, <2>1, <2>4, <3>1 DEF Recheck, Claiming
  <2> QED BY <2>3, <2>4
<1>4. CASE Submit(r, s)
  <2>1. CASE scenario \in Rejects
    <3>1. RowsSound' /\ Grown /\ claimFacts' = claimFacts
      BY <1>4, <2>1, SameRowsSound DEF Submit, world
    <3> QED BY <1>4, <2>1, <3>1, RaiseSound DEF Submit, RaiseAt
  <2>2. CASE scenario \notin Rejects
    <3>1. Paid(r) /\ attemptRow /\ Granted
      BY <1>4, <2>2, <1>d DEF Submit, Step, Sound, Claiming
    <3>2. submits = 0 /\ effect = "submitting" /\ submitter = NoRun
      BY <1>4, <2>2, <1>b DEF Submit, Step, Calling, SingleCaller, RowsSound
    <3>3. RowsSound' /\ Grown
      BY <1>4, <2>2, <3>1, <3>2, ValueAssumption
         DEF Submit, RowsSound, Grown, rows, ledger, Granted, Recorded, Reported, ReceiptState, Paid
    <3>4. Paid(r)' /\ attemptRow' /\ ReceiptState' = ReceiptState
      BY <3>1, <3>3, WorkflowsKept DEF Grown, ReceiptState
    <3>5. Sound(r, "sb_receipt", ReceiptState)'
      BY <3>4 DEF Sound, Claiming, Storing, Awaiting
    <3>6. PICK v : v = ReceiptState
      OBVIOUS
    <3>7. Sound(r, "sb_receipt", v)' /\ ~Answers("sb_receipt", v)
      BY <3>4, <3>5, <3>6 DEF Sound, Answers, Authorizing
    <3> QED BY <1>c, <1>4, <2>2, <3>3, <3>6, <3>7 DEF Submit, Storing, Claiming
  <2> QED BY <2>1, <2>2
<1>5. CASE Reconcile(r, s)
  <2>1. RowsSound' /\ Grown /\ claimFacts' = claimFacts
    BY <1>5, SameRowsSound DEF Reconcile
  <2>2. CASE submits > 0
    <3>1. Paid(r)' /\ attemptRow' /\ ReceiptState' = ReceiptState
      BY <1>5, <1>d, <2>1, <2>2, WorkflowsKept
         DEF Reconcile, Step, Sound, Claiming, Grown, ReceiptState
    <3>2. PICK v : v = ReceiptState
      OBVIOUS
    <3>3. Sound(r, "sb_receipt", v)' /\ ~Answers("sb_receipt", v)
      BY <3>1, <3>2 DEF Sound, Claiming, Storing, Awaiting, Answers, Authorizing
    <3> QED BY <1>c, <1>5, <2>1, <2>2, <3>2, <3>3 DEF Reconcile, Claiming
  <2>3. CASE ~(submits > 0)
    BY <1>5, <2>1, <2>3, RaiseSound DEF Reconcile, RaiseAt
  <2> QED BY <2>2, <2>3
<1>6. CASE RecordRemoteReceipt(r, s)
  <2>1. u = ReceiptState /\ Paid(r) /\ attemptRow
    BY <1>6, <1>d DEF RecordRemoteReceipt, Move, Step, Sound, Storing
  <2>2. RowsSound' /\ Grown
    BY <1>6, <1>a, <2>1 DEF RecordRemoteReceipt, RowsSound, Grown, remote, ledger, Granted,
       Recorded, Reported, ReceiptState
  <2>3. Paid(r)' /\ attemptRow' /\ u = ReceiptState' /\ receipt' = ReceiptState'
    BY <1>6, <1>a, <2>1, <2>2, WorkflowsKept
       DEF RecordRemoteReceipt, Grown, RowsSound, ReceiptState, remote
  <2>4. Sound(r, "sb_event", u)' /\ ~Answers("sb_event", u)
    BY <2>3 DEF Sound, Claiming, Storing, Awaiting, Answers, Authorizing
  <2> QED BY <1>a, <1>c, <1>6, <2>2, <2>4 DEF RecordRemoteReceipt, Move, Storing
<1>7. CASE RecordSubmission(r, s)
  <2>1. u = ReceiptState /\ Paid(r) /\ attemptRow /\ receipt = ReceiptState
    BY <1>7, <1>d DEF RecordSubmission, Move, Step, Sound, Storing
  <2>2. RowsSound' /\ Grown
    BY <1>7, <1>a, <2>1 DEF RecordSubmission, RowsSound, Grown, remote, ledger, Granted,
       Recorded, Reported, ReceiptState
  <2>3. Paid(r)' /\ attemptRow' /\ u = ReceiptState' /\ Recorded'
    BY <1>7, <1>a, <2>1, <2>2, WorkflowsKept
       DEF RecordSubmission, Grown, Recorded, ReceiptState, remote
  <2>4. Sound(r, "sb_complete", u)' /\ ~Answers("sb_complete", u)
    BY <2>3 DEF Sound, Claiming, Storing, Awaiting, Answers, Authorizing, Recorded
  <2> QED BY <1>a, <1>c, <1>7, <2>2, <2>4 DEF RecordSubmission, Move, Storing
<1>8. CASE CompleteEffect(r, s)
  <2>1. u = ReceiptState /\ Paid(r) /\ attemptRow /\ Recorded
    BY <1>8, <1>d DEF CompleteEffect, Move, Step, Sound, Storing
  <2>2. submits = 1 /\ submitter = r
    BY <1>8, <1>b, <2>1, ValueAssumption
       DEF CompleteEffect, Move, Step, Recording, SingleCaller, RowsSound, Paid
  <2>3. RowsSound' /\ Grown
    BY <1>8, <2>1, <2>2 DEF CompleteEffect, RowsSound, Grown, remote, ledger, Granted,
       Recorded, Reported, ReceiptState, Paid
  <2>4. Delivered(r)'
    BY <1>8, <2>2 DEF CompleteEffect, Delivered, remote
  <2>5. Sound(r, "ret", u)' /\ ~Answers("ret", u)
    BY <1>e, <2>1, <2>4 DEF Sound, Claiming, Storing, Awaiting, Answers, Authorizing, AuthorizeOut
  <2> QED BY <1>a, <1>c, <1>8, <2>3, <2>5 DEF CompleteEffect, Move, Storing
<1> QED BY <1>1, <1>2, <1>3, <1>4, <1>5, <1>6, <1>7, <1>8 DEF SubmitOrReconcile

\* The await activity publishes what was reported, behind the settlement.
LEMMA AwaitEarned ==
  ASSUME TypeOK, Earned, NEW r \in Runs, NEW s \in Slots, AwaitPublication(r, s)
  PROVE  Earned'
<1> USE DEF TypeOK, Earned
<1>a. PICK u : u = seen[<<r, s>>]
  OBVIOUS
<1>b. RemoteStates \cap AuthorizeOut = {}
  BY DEF RemoteStates, AuthorizeOut
<1>c. ASSUME NEW from \in Awaiting, NEW to, NEW v, Step(r, s, from, to, v), ~Answers(to, v),
             Sound(r, to, v)', Grown, claimFacts' = claimFacts, job' = job
      PROVE  AttemptsSound' /\ WorkflowsSound'
  <2>1. ~Answers(pc[<<r, s>>], seen[<<r, s>>])
    BY <1>c DEF Step, Answers, Authorizing, Awaiting
  <2> QED BY <1>c, <2>1, StepSound
<1>d. Sound(r, pc[<<r, s>>], u)
  BY <1>a, AttemptNow
<1>1. CASE PollStatus(r, s)
  <2>1. RowsSound' /\ Grown
    BY <1>1 DEF PollStatus, RowsSound, Grown, rows, ledger, Granted, Recorded, Reported, ReceiptState
  <2>2. Delivered(r)'
    BY <1>1, <1>d, <2>1, WorkflowsKept DEF PollStatus, Step, Sound, Awaiting
  <2>3. CASE Step(r, s, "aw_status", "ret", "dead_lettered")
    <3>1. Sound(r, "ret", "dead_lettered")' /\ ~Answers("ret", "dead_lettered")
      BY DEF Sound, Claiming, Storing, Awaiting, RemoteStates, Answers, Authorizing, AuthorizeOut
    <3> QED BY <1>c, <1>1, <2>1, <2>3, <3>1 DEF PollStatus, Awaiting
  <2>4. CASE ~Step(r, s, "aw_status", "ret", "dead_lettered")
    <3>1. PICK v \in RemoteStates : Step(r, s, "aw_status", "aw_event", v)
      BY <1>1, <2>4 DEF PollStatus, StatusState, RemoteStates
    <3>2. Sound(r, "aw_event", v)' /\ ~Answers("aw_event", v)
      BY <2>2 DEF Sound, Claiming, Storing, Awaiting, Answers, Authorizing
    <3> QED BY <1>c, <1>1, <2>1, <3>1, <3>2 DEF PollStatus, Awaiting
  <2> QED BY <2>3, <2>4
<1>2. CASE RecordPoll(r, s)
  <2>1. RowsSound' /\ Grown
    BY <1>2 DEF RecordPoll, RowsSound, Grown, remote, ledger, Granted, Recorded, Reported, ReceiptState
  <2>2. Delivered(r) /\ u \in RemoteStates
    BY <1>2, <1>d DEF RecordPoll, Move, Step, Sound, Awaiting
  <2>3. Delivered(r)'
    BY <2>1, <2>2, WorkflowsKept
  <2>4. CASE u = "published"
    <3>1. Reported'
      BY <1>a, <1>2, <2>4 DEF RecordPoll, Reported
    <3>2. Sound(r, "aw_settle", u)' /\ ~Answers("aw_settle", u)
      BY <2>2, <2>3, <3>1 DEF Sound, Claiming, Storing, Awaiting, Answers, Authorizing
    <3> QED BY <1>a, <1>c, <1>2, <2>1, <2>4, <3>2 DEF RecordPoll, Move, Awaiting
  <2>5. CASE u # "published"
    <3>1. Sound(r, "ret", u)' /\ ~Answers("ret", u)
      BY <1>b, <2>2, <2>3, <2>5
         DEF Sound, Claiming, Storing, Awaiting, Answers, Authorizing, AuthorizeOut
    <3> QED BY <1>a, <1>c, <1>2, <2>1, <2>5, <3>1 DEF RecordPoll, Move, Awaiting
  <2> QED BY <2>4, <2>5
<1>3. CASE Settle(r, s)
  <2>1. CASE reservation = "released"
    <3>1. RowsSound' /\ Grown /\ claimFacts' = claimFacts
      BY <1>3, <2>1, SameRowsSound DEF Settle, world, ledger
    <3> QED BY <1>3, <2>1, <3>1, RaiseSound DEF Settle, RaiseAt
  <2>2. CASE reservation # "released"
    <3>1. Delivered(r) /\ u \in RemoteStates /\ Reported
      BY <1>3, <2>2, <1>d DEF Settle, Move, Step, Sound, Awaiting
    <3>2. reservation # "none" /\ effect # "none"
      BY <3>1, ValueAssumption DEF Delivered, RowsSound
    <3>3. RowsSound' /\ Grown
      BY <1>3, <2>2, <3>2 DEF Settle, RowsSound, Grown, remote, rows, Granted, Recorded,
         Reported, ReceiptState
    <3>4. Delivered(r)' /\ Reported' /\ reservation' = "settled"
      BY <1>3, <2>2, <3>1, <3>3, WorkflowsKept DEF Settle, Reported, Grown
    <3>5. Sound(r, "aw_publish", u)' /\ ~Answers("aw_publish", u)
      BY <3>1, <3>4 DEF Sound, Claiming, Storing, Awaiting, Answers, Authorizing
    <3> QED BY <1>a, <1>c, <1>3, <2>2, <3>3, <3>5 DEF Settle, Move, Awaiting
  <2> QED BY <2>1, <2>2
<1>4. CASE RecordPublication(r, s)
  <2>1. Delivered(r) /\ u \in RemoteStates /\ Reported /\ reservation = "settled"
    BY <1>4, <1>d DEF RecordPublication, Move, Step, Sound, Awaiting
  <2>2. RowsSound' /\ Grown
    BY <1>4, <2>1 DEF RecordPublication, RowsSound, Grown, remote, ledger, Granted, Recorded,
       Reported, ReceiptState, Delivered
  <2>3. Delivered(r)' /\ publication'
    BY <1>4, <2>1, <2>2, WorkflowsKept DEF RecordPublication
  <2>4. Sound(r, "ret", u)' /\ ~Answers("ret", u)
    BY <1>b, <2>1, <2>3
       DEF Sound, Claiming, Storing, Awaiting, Answers, Authorizing, AuthorizeOut, Delivered
  <2> QED BY <1>a, <1>c, <1>4, <2>2, <2>4 DEF RecordPublication, Move, Awaiting
<1> QED BY <1>1, <1>2, <1>3, <1>4 DEF AwaitPublication

\* The terminal activities close the job and release what is not settled.
LEMMA ConcludeEarned ==
  ASSUME TypeOK, Earned, NEW r \in Runs, NEW s \in Slots, Conclude(r, s)
  PROVE  Earned'
<1> USE DEF TypeOK, Earned
<1>a. PICK u : u = seen[<<r, s>>]
  OBVIOUS
<1> DEFINE Ends == {"cp_job", "dn_release", "dn_job", "cn_remote", "cn_event", "cn_release",
                    "cn_job", "dd_job"}
<1>b. ASSUME NEW from \in Ends, NEW to, NEW v, Step(r, s, from, to, v),
             to \in Ends \ {"cp_job"} \/ (to = "ret" /\ v = "ok"), Grown, claimFacts' = claimFacts,
             \A q \in Runs : /\ job[q] # "absent" => job'[q] # "absent"
                             /\ job'[q] = "succeeded" =>
                                  job[q] = "succeeded" \/ (publication /\ submitter = q)
      PROVE  AttemptsSound' /\ WorkflowsSound'
  <2>1. ~Answers(pc[<<r, s>>], seen[<<r, s>>]) /\ ~Answers(to, v)
    BY <1>b DEF Step, Answers, Authorizing, AuthorizeOut
  <2>2. Sound(r, to, v)'
    BY <1>b DEF Sound, Claiming, Storing, Awaiting, RemoteStates
  <2> QED BY <1>b, <2>1, <2>2, StepSound
<1>1. ASSUME NEW from \in Ends, NEW state \in TerminalJob, Terminal(r, s, from, state),
             state = "succeeded" => from = "cp_job"
      PROVE  Earned'
  <2>1. RowsSound' /\ Grown /\ claimFacts' = claimFacts
    BY <1>1, SameRowsSound DEF Terminal
  <2>2. from = "cp_job" => publication /\ submitter = r
    BY <1>1, AttemptNow DEF Terminal, Step, Sound
  <2>3. \A q \in Runs : /\ job[q] # "absent" => job'[q] # "absent"
                        /\ job'[q] = "succeeded" =>
                             job[q] = "succeeded" \/ (publication /\ submitter = q)
    BY <1>1, <2>2 DEF Terminal, TypeRows, TerminalJob
  <2> QED BY <1>b, <1>1, <2>1, <2>3 DEF Terminal
<1>2. CASE Complete(r, s) \/ Deny(r, s) \/ Cancel(r, s) \/ DeadLetter(r, s)
  BY <1>1, <1>2 DEF Complete, Deny, Cancel, DeadLetter, TerminalJob
<1>3. ASSUME NEW from \in Ends, NEW to \in Ends \ {"cp_job"}, Release(r, s, from, to)
      PROVE  Earned'
  <2>1. RowsSound' /\ Grown
    BY <1>3 DEF Release, RowsSound, Grown, remote, rows, Granted, Recorded, Reported, ReceiptState
  <2> QED BY <1>a, <1>b, <1>3, <2>1 DEF Release, Move
<1>4. CASE ReleaseDenied(r, s) \/ ReleaseCancelled(r, s)
  BY <1>3, <1>4 DEF ReleaseDenied, ReleaseCancelled
<1>5. CASE CancelRemote(r, s)
  <2>1. RowsSound' /\ Grown
    BY <1>5 DEF CancelRemote, RowsSound, Grown, rows, ledger, Granted, Recorded, Reported, ReceiptState
  <2> QED BY <1>a, <1>b, <1>5, <2>1 DEF CancelRemote, Move
<1>6. CASE RecordCancellation(r, s)
  <2>1. RowsSound' /\ Grown
    BY <1>6 DEF RecordCancellation, RowsSound, Grown, remote, ledger, Granted, Recorded,
       Reported, ReceiptState
  <2> QED BY <1>a, <1>b, <1>6, <2>1 DEF RecordCancellation, Move
<1> QED BY <1>2, <1>4, <1>5, <1>6 DEF Conclude

\* A result carries its soundness into the stage the workflow goes on with.
LEMMA ReturnEarned ==
  ASSUME TypeOK, Earned, NEW r \in Runs, NEW s \in Slots, Return(r, s)
  PROVE  Earned'
<1> USE DEF TypeOK, Earned
<1>a. PICK u : u = seen[<<r, s>>]
  OBVIOUS
<1>b. <<r, s>> \in Attempts
  BY DEF Attempts
<1>c. Sound(r, "ret", u)
  BY <1>a, AttemptNow DEF Return
<1>1. RowsSound' /\ Grown /\ claimFacts' = claimFacts /\ job' = job
  BY SameRowsSound DEF Return
<1>2. AttemptsSound'
  <2>1. Sound(r, "idle", "none")'
    BY DEF Sound, Claiming, Storing, Awaiting
  <2> QED BY <1>1, <2>1, AttemptsKept DEF Return
<1>3. /\ wf'[r] \in {"delivery", "submit"} => Paid(r)
      /\ wf'[r] = "await" => Delivered(r)
      /\ wf'[r] = "complete" => publication /\ submitter = r
      /\ r \in ApiRuns /\ wf'[r] # "none" => job[r] # "absent"
      /\ wf'[r] \notin Stages => cur'[r] = NoSlot
  <2>1. CASE cur[r] # s
    BY <2>1 DEF Return, WorkflowsSound
  <2>2. CASE cur[r] = s
    <3>1. wf'[r] = Decision(wf[r], u, cancelReq[r])
      BY <1>a, <2>2 DEF Return, TypeControl
    <3>2. wf[r] = "authorize" => u \in AuthorizeOut
      BY <1>a, <2>2 DEF WorkflowsSound, Return, Answers, Authorizing
    <3>3. wf[r] \in {"none"} \cup Stages \cup Ended
      BY DEF TypeControl
    <3>4. wf'[r] \in {"delivery", "submit"} => Paid(r)
      BY <1>c, <3>1, <3>2, <3>3 DEF WorkflowsSound, Decision, Onward, Following, Sound, AuthorizeOut,
         TerminalStages, BoundedStages
    <3>5. wf'[r] = "await" => Delivered(r)
      BY <1>c, <3>1, <3>3 DEF Decision, Onward, Following, Sound, TerminalStages, RemoteStates
    <3>6. wf'[r] = "complete" => publication /\ submitter = r
      BY <1>c, <3>1, <3>3 DEF Decision, Onward, Following, Sound, TerminalStages
    <3>7. wf[r] # "none" \/ cur[r] = NoSlot
      BY DEF WorkflowsSound, Stages, BoundedStages, TerminalStages
    <3>8. r \in ApiRuns /\ wf'[r] # "none" => job[r] # "absent"
      BY <3>7, <2>2, ValueAssumption DEF WorkflowsSound
    <3>9. cur'[r] = NoSlot
      BY <2>2 DEF Return, TypeControl
    <3> QED BY <3>4, <3>5, <3>6, <3>8, <3>9
  <2> QED BY <2>1, <2>2
<1>4. ASSUME NEW q \in Runs
      PROVE  /\ wf'[q] \in {"delivery", "submit"} => Paid(q)'
             /\ wf'[q] = "await" => Delivered(q)'
             /\ wf'[q] = "complete" \/ job'[q] = "succeeded" => (publication /\ submitter = q)'
             /\ q \in ApiRuns /\ wf'[q] # "none" => job'[q] # "absent"
             /\ wf'[q] \notin Stages => cur'[q] = NoSlot
  <2>1. (q # r => wf'[q] = wf[q]) /\ (cur'[q] = cur[q] \/ cur'[q] = NoSlot)
    BY <1>4 DEF Return, TypeControl
  <2> QED BY <1>1, <1>3, <1>4, <2>1, WorkflowsKept DEF WorkflowsSound
<1>5. ASSUME NEW q \in Runs, NEW t \in Slots, cur'[q] = t
      PROVE  wf'[q] = "authorize" <=> Answers(pc'[<<q, t>>], seen'[<<q, t>>])
  <2>1. cur[q] = t /\ wf'[q] = wf[q] /\ ~(q = r /\ t = s)
    BY <1>5, ValueAssumption DEF Return, TypeControl
  <2>2. pc'[<<q, t>>] = pc[<<q, t>>] /\ seen'[<<q, t>>] = seen[<<q, t>>]
    BY <2>1, <1>b DEF Return, TypeControl, Attempts
  <2> QED BY <2>1, <2>2 DEF WorkflowsSound
<1>6. WorkflowsSound'
  BY <1>4, <1>5 DEF WorkflowsSound, Answers
<1> QED BY <1>1, <1>2, <1>6

\* A dispatched attempt inherits what the stage stands for.
LEMMA DispatchEarned ==
  ASSUME TypeOK, Earned, NEW r \in Runs, NEW s \in Slots, Dispatch(r, s)
  PROVE  Earned'
<1> USE DEF TypeOK, Earned
<1>a. PICK u, e : u = seen[<<r, s>>] /\ e = Entry(r, wf[r])
  OBVIOUS
<1>b. <<r, s>> \in Attempts
  BY DEF Attempts
<1>1. RowsSound' /\ Grown /\ claimFacts' = claimFacts /\ job' = job
  BY SameRowsSound DEF Dispatch
<1>2. /\ e \in {"rq_load", "rq_job", "au_effect", "dl", "sb_attempt", "aw_status", "cp_job",
                "dn_release", "cn_remote", "dd_job"}
      /\ e = "sb_attempt" => wf[r] = "submit"
      /\ e = "aw_status" => wf[r] = "await"
      /\ e = "cp_job" => wf[r] = "complete"
      /\ wf[r] = "authorize" <=> e = "au_effect"
  BY <1>a DEF Dispatch, Entry, FirstStep, Stages, BoundedStages, TerminalStages
<1>3. Sound(r, e, u)'
  <2>1. /\ e = "sb_attempt" => Paid(r)'
        /\ e = "aw_status" => Delivered(r)'
        /\ e = "cp_job" => (publication /\ submitter = r)'
    BY <1>1, <1>2, WorkflowsKept DEF WorkflowsSound
  <2> QED BY <1>2, <2>1 DEF Sound, Claiming, Storing, Awaiting
<1>4. pc' = [pc EXCEPT ![<<r, s>>] = e] /\ seen' = [seen EXCEPT ![<<r, s>>] = u]
  BY <1>a, <1>b DEF Dispatch, TypeControl
<1>5. AttemptsSound'
  BY <1>1, <1>3, <1>4, AttemptsKept
<1>6. ASSUME NEW q \in Runs
      PROVE  /\ wf'[q] \in {"delivery", "submit"} => Paid(q)'
             /\ wf'[q] = "await" => Delivered(q)'
             /\ wf'[q] = "complete" \/ job'[q] = "succeeded" => (publication /\ submitter = q)'
             /\ q \in ApiRuns /\ wf'[q] # "none" => job'[q] # "absent"
             /\ wf'[q] \notin Stages => cur'[q] = NoSlot
  BY <1>1, <1>6, WorkflowsKept DEF WorkflowsSound, Dispatch, TypeControl, Stages, BoundedStages,
     TerminalStages
<1>7. ASSUME NEW q \in Runs, NEW t \in Slots, cur'[q] = t
      PROVE  wf'[q] = "authorize" <=> Answers(pc'[<<q, t>>], seen'[<<q, t>>])
  <2>1. CASE q = r
    <3>1. t = s /\ pc'[<<q, t>>] = e
      BY <1>7, <2>1, <1>b, <1>4 DEF Dispatch, TypeControl
    <3> QED BY <1>2, <2>1, <3>1 DEF Dispatch, Answers, Authorizing
  <2>2. CASE q # r
    <3>1. cur[q] = t /\ pc'[<<q, t>>] = pc[<<q, t>>] /\ seen'[<<q, t>>] = seen[<<q, t>>]
      BY <1>7, <2>2 DEF Dispatch, TypeControl, Attempts
    <3> QED BY <3>1 DEF WorkflowsSound, Dispatch
  <2> QED BY <2>1, <2>2
<1>8. WorkflowsSound'
  BY <1>6, <1>7 DEF WorkflowsSound, Answers
<1> QED BY <1>1, <1>5, <1>8

\* The API, a schedule, an operator and lost attempts change no row.
LEMMA OutsideEarned ==
  ASSUME TypeOK, Earned, NEW r \in Runs
  PROVE  /\ StartApi(r) \/ Fire(r) \/ RequestCancel(r) \/ TimeOut(r) => Earned'
         /\ \A s \in Slots : Fail(r, s) => Earned'
         /\ \A f \in Facts : Revoke(f) => Earned'
<1> USE DEF TypeOK, Earned
<1>a. ASSUME UNCHANGED <<world, pc, seen>>
      PROVE  RowsSound' /\ Grown /\ AttemptsSound'
  <2>1. RowsSound' /\ Grown
    BY <1>a, SameRowsSound
  <2>2. AttemptsSound'
    <3> SUFFICES ASSUME NEW q \in Runs, NEW t \in Slots
                 PROVE  Sound(q, pc[<<q, t>>], seen[<<q, t>>])'
      BY DEF AttemptsSound
    <3>1. PICK p, u : p = pc[<<q, t>>] /\ u = seen[<<q, t>>]
      OBVIOUS
    <3>2. Sound(q, p, u)'
      BY <1>a, <2>1, <3>1, AttemptNow, SoundKept, SameRowsSound
    <3> QED BY <1>a, <3>1, <3>2 DEF Sound
  <2> QED BY <2>1, <2>2
<1>1. ASSUME StartApi(r) \/ Fire(r) PROVE Earned'
  <2>1. RowsSound' /\ Grown /\ AttemptsSound' /\ UNCHANGED <<pc, seen, cur>>
    BY <1>1, <1>a DEF StartApi, Fire
  <2>2. wf[r] = "none" /\ wf' = [wf EXCEPT ![r] = "request"]
    BY <1>1 DEF StartApi, Fire, WorkflowsSound
  <2>3. \A q \in Runs : /\ job'[q] = "succeeded" => job[q] = "succeeded"
                        /\ job[q] # "absent" => job'[q] # "absent"
                        /\ q = r /\ q \in ApiRuns => job'[q] # "absent"
    BY <1>1, ApiAssumption DEF StartApi, Fire, TypeRows
  <2>4. ASSUME NEW q \in Runs
        PROVE  /\ wf'[q] \in {"delivery", "submit"} => Paid(q)'
               /\ wf'[q] = "await" => Delivered(q)'
               /\ wf'[q] = "complete" \/ job'[q] = "succeeded" => (publication /\ submitter = q)'
               /\ q \in ApiRuns /\ wf'[q] # "none" => job'[q] # "absent"
               /\ wf'[q] \notin Stages => cur'[q] = NoSlot
    BY <2>1, <2>2, <2>3, <2>4, WorkflowsKept
       DEF WorkflowsSound, TypeControl, Stages, BoundedStages
  <2>5. ASSUME NEW q \in Runs, NEW t \in Slots, cur'[q] = t
        PROVE  wf'[q] = "authorize" <=> Answers(pc'[<<q, t>>], seen'[<<q, t>>])
    BY <2>1, <2>2, <2>5 DEF WorkflowsSound, TypeControl
  <2> QED BY <2>1, <2>4, <2>5 DEF WorkflowsSound, Answers
<1>2. ASSUME RequestCancel(r) PROVE Earned'
  <2>1. RowsSound' /\ Grown /\ AttemptsSound' /\ UNCHANGED <<pc, seen, cur, wf, job, world>>
    BY <1>2, <1>a DEF RequestCancel
  <2> QED BY <2>1 DEF WorkflowsSound, world, remote, ledger, rows, Paid, Delivered, Answers
<1>3. ASSUME TimeOut(r) PROVE Earned'
  <2>1. RowsSound' /\ Grown /\ AttemptsSound' /\ UNCHANGED <<pc, seen, job>>
    BY <1>3, <1>a DEF TimeOut
  <2> QED BY <1>3, <2>1, LoseSound DEF TimeOut
<1>4. ASSUME NEW s \in Slots, Fail(r, s) PROVE Earned'
  BY <1>4, SameRowsSound, RaiseSound DEF Fail
<1>5. ASSUME NEW f \in Facts, Revoke(f) PROVE Earned'
  <2>1. RowsSound'
    BY <1>5 DEF Revoke, RowsSound, remote, ledger, rows, Granted, Recorded, Reported, ReceiptState
  <2>2. AttemptsSound' /\ WorkflowsSound'
    BY <1>5 DEF Revoke, remote, ledger, rows, control, AttemptsSound, WorkflowsSound, Sound, Paid,
       Granted, ReceiptState, Recorded, Delivered, Reported, Answers
  <2> QED BY <2>1, <2>2
<1> QED BY <1>1, <1>2, <1>3, <1>4, <1>5

\* Every step keeps the rows, the workflows and the attempts sound.
LEMMA StepKeepsEarned ==
  TypeOK /\ SingleCaller /\ Earned /\ [Next]_vars => Earned'
<1> SUFFICES ASSUME TypeOK, SingleCaller, Earned, [Next]_vars PROVE Earned'
  OBVIOUS
<1>1. CASE UNCHANGED vars
  BY <1>1 DEF vars, world, remote, ledger, rows, control, Earned, RowsSound, AttemptsSound,
     WorkflowsSound, Sound, Paid, Granted, ReceiptState, Recorded, Delivered, Reported, Answers
<1>2. CASE \E r \in Runs : StartApi(r) \/ Fire(r) \/ RequestCancel(r) \/ TimeOut(r)
  BY <1>2, OutsideEarned
<1>3. CASE \E f \in Facts : Revoke(f)
  <2>1. CASE Runs = {}
    BY <1>3, <2>1 DEF Revoke, remote, ledger, rows, control, Earned, RowsSound, AttemptsSound,
       WorkflowsSound, Granted, ReceiptState, Recorded, Reported
  <2>2. CASE Runs # {}
    BY <1>3, <2>2, OutsideEarned
  <2> QED BY <2>1, <2>2
<1>4. CASE \E r \in Runs, s \in Slots : Dispatch(r, s) \/ Fail(r, s) \/ AttemptStep(r, s)
  BY <1>4, DispatchEarned, OutsideEarned, RequestEarned, AuthorizeEarned, SubmitEarned,
     AwaitEarned, ConcludeEarned, ReturnEarned DEF AttemptStep
<1> QED BY <1>1, <1>2, <1>3, <1>4 DEF Next

-----------------------------------------------------------------------------
(* Who is denied submits nothing                                           *)

\* A claim that the recheck gave up: nobody will submit any more.
Abandoned == effect = "submitting" /\ submits = 0 /\ Calling = {}

\* Execution r has not submitted and no attempt of it is about to.
Trying == {"sb_attempt"} \cup Claiming \cup Storing
Untried(r) == submitter # r /\ \A s \in Slots : pc[<<r, s>>] \notin Trying

Refused(r) == \/ wf[r] = "denied" \/ job[r] = "denied"
              \/ \E s \in Slots : pc[<<r, s>>] \in {"dn_release", "dn_job"}

Early == {"none", "request", "authorize"}
Over  == TerminalStages \cup Ended

DenialsSound ==
  \A r \in Runs :
    /\ wf[r] \in Early => Untried(r)
    /\ \A s \in Slots : pc[<<r, s>>] = "ret" /\ seen[<<r, s>>] = "revoked" => Abandoned
    /\ Refused(r) => Abandoned \/ (Untried(r) /\ wf[r] \in Over)

\* An abandoned claim stays abandoned: it is claimed once, and nobody is left
\* to call or to record.
LEMMA AbandonedKept ==
  ASSUME TypeOK, SingleCaller, Abandoned, NEW r \in Runs, NEW s \in Slots,
         Dispatch(r, s) \/ Fail(r, s) \/ AttemptStep(r, s)
  PROVE  Abandoned'
<1> USE DEF TypeOK
<1>a. <<r, s>> \in Attempts /\ Recording = {} /\ Calling = {} /\ effect = "submitting" /\ submits = 0
  BY DEF Abandoned, SingleCaller, Attempts
<1>b. \A a \in Attempts : pc[a] \notin {"sb_recheck", "sb_call", "sb_receipt", "sb_event", "sb_complete"}
  BY <1>a DEF Calling, Recording
<1>1. UNCHANGED <<effect, submits>>
  <2>1. CASE PlanEffect(r, s) \/ BeginEffectSubmission(r, s)
    BY <1>a, <2>1 DEF PlanEffect, BeginEffectSubmission, Claimable, remote
  <2>2. ~Submit(r, s) \/ scenario \in Rejects
    BY <1>a, <1>b DEF Submit, Step
  <2>3. CASE Submit(r, s)
    BY <2>2, <2>3 DEF Submit, rows, remote
  <2>4. ~CompleteEffect(r, s)
    BY <1>a, <1>b DEF CompleteEffect, Move, Step
  <2> QED BY <2>1, <2>3, <2>4, EffectUntouched DEF AttemptStep, Authorize, SubmitOrReconcile
<1>2. Calling' = {}
  <2> USE <1>a, LeaveTargets DEF Step, Move, Terminal, Release, RaiseAt, Raise
  <2>1. CASE Dispatch(r, s)
    <3>1. Entry(r, wf[r]) \notin {"sb_recheck", "sb_call", "sb_receipt", "sb_event", "sb_complete"}
      BY <2>1 DEF Dispatch, Entry, FirstStep, Stages, BoundedStages, TerminalStages
    <3> QED BY <2>1, <3>1 DEF Dispatch
  <2>2. CASE Fail(r, s) \/ Request(r, s) \/ Deliver(r, s) \/ Return(r, s)
    BY <2>2 DEF Fail, Request, LoadRequest, CreateScheduledRun, Deliver, Return
  <2>3. CASE Authorize(r, s)
    BY <2>3 DEF Authorize, PlanEffect, LinkPlan, Reserve, CheckAuthorization
  <2>4. CASE AwaitPublication(r, s)
    BY <2>4 DEF AwaitPublication, PollStatus, RecordPoll, Settle, RecordPublication
  <2>5. CASE Conclude(r, s)
    BY <2>5 DEF Conclude, Complete, ReleaseDenied, Deny, CancelRemote, RecordCancellation,
         ReleaseCancelled, Cancel, DeadLetter
  <2>6. CASE SubmitOrReconcile(r, s)
    <3>1. ~Recheck(r, s) /\ ~RecordRemoteReceipt(r, s) /\ ~RecordSubmission(r, s) /\ ~CompleteEffect(r, s)
      BY <1>b DEF Recheck, RecordRemoteReceipt, RecordSubmission, CompleteEffect
    <3>2. CASE CreateAttempt(r, s) \/ BeginEffectSubmission(r, s)
      BY <3>2 DEF CreateAttempt, BeginEffectSubmission, Claimable
    <3>3. CASE Submit(r, s)
      BY <1>b, <3>3 DEF Submit
    <3>4. CASE Reconcile(r, s)
      BY <3>4 DEF Reconcile
    <3> QED BY <2>6, <3>1, <3>2, <3>3, <3>4 DEF SubmitOrReconcile
  <2> QED BY <2>1, <2>2, <2>3, <2>4, <2>5, <2>6 DEF AttemptStep
<1> QED BY <1>a, <1>1, <1>2 DEF Abandoned

\* What the attempt at <<r, s>> must not do, so that the denials stay sound.
LEMMA DenialsKept ==
  ASSUME TypeControl, DenialsSound, NEW r \in Runs, NEW s \in Slots, NEW to, NEW v,
         pc' = [pc EXCEPT ![<<r, s>>] = to], seen' = [seen EXCEPT ![<<r, s>>] = v],
         Abandoned => Abandoned',
         to \in Trying => pc[<<r, s>>] \in Trying \/ wf[r] = "submit",
         to = "dn_release" => wf[r] = "denied",
         to = "dn_job" => pc[<<r, s>>] = "dn_release",
         to = "ret" /\ v = "revoked" => Abandoned',
         submitter' = submitter \/ (submitter' = r /\ pc[<<r, s>>] \in Trying),
         \A q \in Runs :
           /\ job'[q] = "denied" => job[q] = "denied" \/ (q = r /\ pc[<<r, s>>] = "dn_job")
           /\ wf'[q] \in Early => wf[q] \in Early
           /\ wf[q] \in Over => wf'[q] \in Over
           /\ wf'[q] = "denied" => wf[q] = "denied" \/ Abandoned \/ wf[q] \in Early
  PROVE  DenialsSound'
<1>a. \A q \in Runs, t \in Slots :
        IF q = r /\ t = s THEN pc'[<<q, t>>] = to /\ seen'[<<q, t>>] = v
        ELSE pc'[<<q, t>>] = pc[<<q, t>>] /\ seen'[<<q, t>>] = seen[<<q, t>>]
  BY DEF TypeControl, Attempts
<1>b. "submit" \notin Early \cup Over /\ "denied" \in Over
  BY DEF Early, Over, TerminalStages, Ended
<1>1. ASSUME NEW q \in Runs, Untried(q), wf[q] # "submit"
      PROVE  Untried(q)'
  <2>1. submitter' # q
    BY <1>1 DEF Untried
  <2>2. ASSUME NEW t \in Slots PROVE pc'[<<q, t>>] \notin Trying
    BY <1>a, <1>1, <2>2 DEF Untried
  <2> QED BY <2>1, <2>2 DEF Untried, Trying, Claiming, Storing
<1>2. ASSUME NEW q \in Runs, wf'[q] \in Early
      PROVE  Untried(q)'
  BY <1>b, <1>1, <1>2 DEF DenialsSound
<1>3. ASSUME NEW q \in Runs, NEW t \in Slots, pc'[<<q, t>>] = "ret" /\ seen'[<<q, t>>] = "revoked"
      PROVE  Abandoned'
  BY <1>a, <1>3 DEF DenialsSound
<1>4. ASSUME NEW q \in Runs, Refused(q)'
      PROVE  Abandoned' \/ (Untried(q)' /\ wf'[q] \in Over)
  <2>1. CASE Refused(q)
    BY <1>b, <1>1, <2>1 DEF DenialsSound
  <2>2. CASE ~Refused(q)
    <3>1. wf'[q] = "denied" /\ (Abandoned \/ wf[q] \in Early)
      BY <1>a, <1>4, <2>2 DEF Refused
    <3> QED BY <1>b, <1>1, <3>1 DEF DenialsSound
  <2> QED BY <2>1, <2>2
<1> QED BY <1>2, <1>3, <1>4 DEF DenialsSound, Early, Over

\* A step inside an activity leaves every workflow where it is.
LEMMA StepDenials ==
  ASSUME TypeControl, DenialsSound, NEW r \in Runs, NEW s \in Slots, NEW from, NEW to, NEW v,
         Step(r, s, from, to, v), Abandoned => Abandoned',
         to \in Trying => from \in Trying, to # "dn_release",
         to = "dn_job" => from = "dn_release",
         to = "ret" /\ v = "revoked" => Abandoned',
         submitter' = submitter \/ (submitter' = r /\ from \in Trying),
         \A q \in Runs : job'[q] = "denied" => job[q] = "denied" \/ (q = r /\ from = "dn_job")
  PROVE  DenialsSound'
<1>1. pc[<<r, s>>] = from /\ wf' = wf
  BY DEF Step, control
<1> QED BY <1>1, DenialsKept DEF Step

\* An attempt that raises denies nobody.
LEMMA RaiseDenials ==
  ASSUME TypeControl, DenialsSound, NEW r \in Runs, NEW s \in Slots, Raise(r, s),
         Abandoned => Abandoned', submitter' = submitter, job' = job
  PROVE  DenialsSound'
<1>1. \A q \in Runs : /\ wf'[q] \in Early => wf[q] \in Early
                      /\ wf[q] \in Over => wf'[q] \in Over
                      /\ wf'[q] = "denied" => wf[q] = "denied"
  BY DEF Raise, Lose, TypeControl, Early, Over, Ended, TerminalStages, BoundedStages
<1>2. "idle" \notin Trying
  BY DEF Trying, Claiming, Storing
<1> QED BY <1>1, <1>2, DenialsKept DEF Raise

\* Nobody but an attempt that tries submits.
LEMMA ActivityDenials ==
  ASSUME TypeOK, SingleCaller, Earned, DenialsSound, NEW r \in Runs, NEW s \in Slots,
         \/ Request(r, s) \/ Authorize(r, s) \/ Deliver(r, s) \/ SubmitOrReconcile(r, s)
         \/ AwaitPublication(r, s) \/ Conclude(r, s)
  PROVE  DenialsSound'
<1> USE DEF TypeOK
<1>a. PICK u : u = seen[<<r, s>>]
  OBVIOUS
<1>b. Abandoned => Abandoned'
  BY AbandonedKept DEF AttemptStep
<1>c. Sound(r, pc[<<r, s>>], u)
  BY <1>a, AttemptNow
<1>d. "revoked" \notin RemoteStates \cup AuthorizeOut /\ ReceiptState \in RemoteStates
  BY DEF RemoteStates, AuthorizeOut, ReceiptState
<1> USE StepDenials, RaiseDenials, <1>b DEF world, remote, RaiseAt
<1>1. CASE Request(r, s) \/ Deliver(r, s)
  <2>1. CASE LoadRequest(r, s) \/ Deliver(r, s)
    BY <2>1 DEF LoadRequest, Deliver, Trying, Claiming, Storing
  <2>2. CASE CreateScheduledRun(r, s)
    <3>1. CASE "publishable" \in facts
      <4>1. \A q \in Runs : job'[q] = "denied" => job[q] = "denied"
        BY <2>2, <3>1 DEF CreateScheduledRun, JobStarted, TypeRows
      <4> QED BY <2>2, <3>1, <4>1 DEF CreateScheduledRun, Trying, Claiming, Storing
    <3>2. CASE "publishable" \notin facts
      BY <2>2, <3>2 DEF CreateScheduledRun
    <3> QED BY <3>1, <3>2
  <2> QED BY <1>1, <2>1, <2>2 DEF Request
<1>2. CASE Authorize(r, s)
  <2>1. ASSUME NEW from, NEW to \in Authorizing, NEW v, Step(r, s, from, to, v),
               submitter' = submitter, job' = job
        PROVE  DenialsSound'
    BY <2>1 DEF Authorizing, Trying, Claiming, Storing
  <2>2. ASSUME NEW from, NEW v \in AuthorizeOut, Step(r, s, from, "ret", v),
               submitter' = submitter, job' = job
        PROVE  DenialsSound'
    BY <1>d, <2>2 DEF Trying, Claiming, Storing
  <2>3. CASE PlanEffect(r, s) \/ LinkPlan(r, s)
    BY <1>a, <2>1, <2>3 DEF PlanEffect, LinkPlan, Move, Authorizing
  <2>4. CASE Reserve(r, s)
    BY <2>1, <2>2, <2>4 DEF Reserve, Authorizing, AuthorizeOut
  <2>5. CASE CheckAuthorization(r, s)
    BY <2>2, <2>5 DEF CheckAuthorization, AuthorizeOut
  <2> QED BY <1>2, <2>3, <2>4, <2>5 DEF Authorize
<1>3. CASE SubmitOrReconcile(r, s)
  <2>1. ASSUME NEW from \in Trying, NEW to \in Trying, NEW v, Step(r, s, from, to, v),
               submitter' \in {submitter, r}, job' = job
        PROVE  DenialsSound'
    BY <2>1 DEF Trying, Claiming, Storing
  <2>2. CASE CreateAttempt(r, s) \/ BeginEffectSubmission(r, s)
    BY <1>a, <2>1, <2>2 DEF CreateAttempt, BeginEffectSubmission, Move, Trying, Claiming, Storing
  <2>3. CASE RecordRemoteReceipt(r, s) \/ RecordSubmission(r, s)
    BY <1>a, <2>1, <2>3 DEF RecordRemoteReceipt, RecordSubmission, Move, Trying, Claiming, Storing
  <2>4. CASE Recheck(r, s)
    <3>1. CASE Reauthorized
      BY <1>a, <2>1, <2>4, <3>1 DEF Recheck, Move, Trying, Claiming, Storing
    <3>2. CASE ~Reauthorized
      <4>1. <<r, s>> \in Attempts /\ Calling = {<<r, s>>} /\ effect = "submitting" /\ submits = 0
        BY <2>4, <3>2 DEF Recheck, Step, Calling, SingleCaller, Attempts
      <4>2. Calling' = {}
        BY <2>4, <3>2, <4>1 DEF Recheck, Step, Calling, TypeControl
      <4>3. Abandoned'
        BY <2>4, <4>1, <4>2 DEF Abandoned, Recheck, rows
      <4> QED BY <2>4, <3>2, <4>3 DEF Recheck, Trying, Claiming, Storing
    <3> QED BY <3>1, <3>2
  <2>5. CASE Submit(r, s)
    BY <2>1, <2>5 DEF Submit, Trying, Claiming, Storing
  <2>6. CASE Reconcile(r, s)
    BY <2>1, <2>6 DEF Reconcile, Trying, Claiming, Storing
  <2>7. CASE CompleteEffect(r, s)
    <3>1. u # "revoked"
      BY <1>c, <1>d, <2>7 DEF CompleteEffect, Move, Step, Sound, Storing
    <3> QED BY <1>a, <2>7, <3>1 DEF CompleteEffect, Move, Trying, Claiming, Storing
  <2> QED BY <1>3, <2>2, <2>3, <2>4, <2>5, <2>6, <2>7 DEF SubmitOrReconcile
<1>4. CASE AwaitPublication(r, s)
  <2>1. ASSUME NEW from, NEW to \in Awaiting \cup {"ret"}, NEW v, v # "revoked",
               Step(r, s, from, to, v), submitter' = submitter, job' = job
        PROVE  DenialsSound'
    BY <2>1 DEF Awaiting, Trying, Claiming, Storing
  <2>2. CASE PollStatus(r, s)
    <3>1. StatusState(Polled) # "revoked"
      BY DEF StatusState
    <3> QED BY <2>1, <2>2, <3>1 DEF PollStatus, Awaiting
  <2>3. CASE RecordPoll(r, s) \/ Settle(r, s) \/ RecordPublication(r, s)
    <3>1. pc[<<r, s>>] \in Awaiting \ {"aw_status"} => u # "revoked"
      BY <1>c, <1>d DEF Sound
    <3>2. CASE RecordPoll(r, s)
      BY <1>a, <2>1, <3>1, <3>2 DEF RecordPoll, Move, Step, Awaiting
    <3>3. CASE Settle(r, s)
      BY <1>a, <2>1, <3>1, <3>3 DEF Settle, Move, Step, Awaiting
    <3>4. CASE RecordPublication(r, s)
      BY <1>a, <2>1, <3>1, <3>4 DEF RecordPublication, Move, Step, Awaiting
    <3> QED BY <2>3, <3>2, <3>3, <3>4
  <2> QED BY <1>4, <2>2, <2>3 DEF AwaitPublication
<1>5. CASE Conclude(r, s)
  <2>1. ASSUME NEW from, NEW state, Terminal(r, s, from, state), state = "denied" => from = "dn_job"
        PROVE  DenialsSound'
    <3>1. \A q \in Runs : job'[q] = "denied" => job[q] = "denied" \/ (q = r /\ from = "dn_job")
      BY <2>1 DEF Terminal, TypeRows
    <3> QED BY <2>1, <3>1 DEF Terminal, Trying, Claiming, Storing
  <2>2. CASE Complete(r, s) \/ Deny(r, s) \/ Cancel(r, s) \/ DeadLetter(r, s)
    BY <2>1, <2>2 DEF Complete, Deny, Cancel, DeadLetter
  <2>3. CASE ReleaseDenied(r, s) \/ ReleaseCancelled(r, s)
    BY <1>a, <2>3 DEF ReleaseDenied, ReleaseCancelled, Release, Move, Trying, Claiming, Storing
  <2>4. CASE CancelRemote(r, s) \/ RecordCancellation(r, s)
    BY <1>a, <2>4 DEF CancelRemote, RecordCancellation, Move, Trying, Claiming, Storing
  <2> QED BY <1>5, <2>2, <2>3, <2>4 DEF Conclude
<1> QED BY <1>1, <1>2, <1>3, <1>4, <1>5

\* A workflow is denied by an authorization that was not granted, before any
\* attempt to submit, or by the recheck, which abandons the claim.
LEMMA ReturnDenials ==
  ASSUME TypeOK, SingleCaller, Earned, DenialsSound, NEW r \in Runs, NEW s \in Slots, Return(r, s)
  PROVE  DenialsSound'
<1> USE DEF TypeOK
<1>a. PICK u : u = seen[<<r, s>>]
  OBVIOUS
<1>1. Abandoned => Abandoned'
  BY AbandonedKept DEF AttemptStep
<1>2. /\ wf'[r] \in Early => wf[r] \in Early
      /\ wf[r] \in Over => wf'[r] \in Over
      /\ wf'[r] = "denied" => wf[r] = "denied" \/ Abandoned \/ wf[r] \in Early
  <2>1. CASE cur[r] # s
    BY <2>1 DEF Return
  <2>2. CASE cur[r] = s
    <3>1. wf'[r] = Decision(wf[r], u, cancelReq[r])
      BY <1>a, <2>2 DEF Return, TypeControl
    <3>2. wf[r] \in Stages
      BY <2>2, ValueAssumption DEF Earned, WorkflowsSound
    <3>3. wf[r] = "authorize" <=> u \in AuthorizeOut
      BY <1>a, <2>2 DEF Earned, WorkflowsSound, Return, Answers, Authorizing
    <3>4. u = "revoked" => Abandoned
      BY <1>a DEF DenialsSound, Return
    <3>5. wf'[r] \in Early => wf[r] \in Early
      BY <3>1, <3>2 DEF Decision, Onward, Following, Early, Stages, TerminalStages, BoundedStages
    <3>6. wf[r] \in Over => wf'[r] \in Over
      BY <3>1, <3>2 DEF Decision, Onward, Over, Ended, Stages, TerminalStages, BoundedStages
    <3>7. wf'[r] = "denied" => Abandoned \/ wf[r] \in Early
      BY <3>1, <3>2, <3>3, <3>4
         DEF Decision, Onward, Following, Early, AuthorizeOut, Stages, TerminalStages, BoundedStages
    <3> QED BY <3>5, <3>6, <3>7
  <2> QED BY <2>1, <2>2
<1>3. \A q \in Runs : q # r => wf'[q] = wf[q]
  BY DEF Return, TypeControl
<1>4. "idle" \notin Trying /\ submitter' = submitter /\ job' = job
  BY DEF Return, world, remote, Trying, Claiming, Storing
<1> QED BY <1>1, <1>2, <1>3, <1>4, DenialsKept DEF Return

\* Only the submit stage dispatches an attempt that tries to submit.
LEMMA DispatchDenials ==
  ASSUME TypeOK, SingleCaller, Earned, DenialsSound, NEW r \in Runs, NEW s \in Slots,
         Dispatch(r, s)
  PROVE  DenialsSound'
<1> USE DEF TypeOK
<1>a. PICK u, e : u = seen[<<r, s>>] /\ e = Entry(r, wf[r])
  OBVIOUS
<1>1. pc' = [pc EXCEPT ![<<r, s>>] = e] /\ seen' = [seen EXCEPT ![<<r, s>>] = u]
  BY <1>a DEF Dispatch, TypeControl, Attempts
<1>2. /\ e \in Trying => wf[r] = "submit"
      /\ e = "dn_release" => wf[r] = "denied"
      /\ e # "dn_job" /\ e # "ret"
  BY <1>a DEF Dispatch, Entry, FirstStep, Stages, BoundedStages, TerminalStages, Trying, Claiming, Storing
<1>3. submitter' = submitter /\ job' = job /\ wf' = wf
  BY DEF Dispatch, world, remote
<1> QED BY <1>1, <1>2, <1>3, AbandonedKept, DenialsKept

\* Nothing outside the attempts denies or submits.
LEMMA OutsideDenials ==
  ASSUME TypeOK, Earned, DenialsSound, UNCHANGED <<effect, submits, submitter, pc, seen>>,
         \A q \in Runs :
           /\ job'[q] = "denied" => job[q] = "denied"
           /\ wf'[q] \in Early => wf[q] \in Early
           /\ wf[q] \in Over => wf'[q] \in Over
           /\ wf'[q] = "denied" => wf[q] = "denied"
  PROVE  DenialsSound'
<1>1. \A q \in Runs : Untried(q)' <=> Untried(q)
  BY DEF Untried, Trying, Claiming, Storing
<1>2. Abandoned' <=> Abandoned
  BY DEF Abandoned, Calling
<1>3. \A q \in Runs : Refused(q)' => Refused(q)
  BY DEF Refused
<1> QED BY <1>1, <1>2, <1>3 DEF DenialsSound, Early, Over

\* Every step keeps the denials sound.
LEMMA StepKeepsDenials ==
  TypeOK /\ SingleCaller /\ Earned /\ DenialsSound /\ [Next]_vars => DenialsSound'
<1> SUFFICES ASSUME TypeOK, SingleCaller, Earned, DenialsSound, [Next]_vars PROVE DenialsSound'
  OBVIOUS
<1> USE DEF TypeOK
<1>1. CASE UNCHANGED vars
  BY <1>1, OutsideDenials DEF vars, world, remote, rows, control
<1>2. ASSUME NEW r \in Runs, StartApi(r) \/ Fire(r) PROVE DenialsSound'
  <2>1. wf[r] = "none"
    BY <1>2 DEF StartApi, Fire, Earned, WorkflowsSound
  <2>2. \A q \in Runs :
          /\ job'[q] = "denied" => job[q] = "denied"
          /\ wf'[q] \in Early => wf[q] \in Early
          /\ wf[q] \in Over => wf'[q] \in Over
          /\ wf'[q] = "denied" => wf[q] = "denied"
    BY <1>2, <2>1 DEF StartApi, Fire, TypeRows, TypeControl, Early, Over, TerminalStages, Ended
  <2> QED BY <1>2, <2>2, OutsideDenials DEF StartApi, Fire, world, remote, rows
<1>3. ASSUME NEW r \in Runs, RequestCancel(r) \/ TimeOut(r) PROVE DenialsSound'
  <2>1. \A q \in Runs :
          /\ wf'[q] \in Early => wf[q] \in Early
          /\ wf[q] \in Over => wf'[q] \in Over
          /\ wf'[q] = "denied" => wf[q] = "denied"
    BY <1>3 DEF RequestCancel, TimeOut, Lose, TypeControl, Early, Over, TerminalStages, Ended,
       BoundedStages
  <2> QED BY <1>3, <2>1, OutsideDenials DEF RequestCancel, TimeOut, world, remote, rows
<1>4. CASE \E f \in Facts : Revoke(f)
  BY <1>4, OutsideDenials DEF Revoke, remote, rows, control
<1>5. ASSUME NEW r \in Runs, NEW s \in Slots, Fail(r, s) PROVE DenialsSound'
  BY <1>5, AbandonedKept, RaiseDenials DEF Fail, world, remote
<1>6. CASE \E r \in Runs, s \in Slots : Dispatch(r, s) \/ Fail(r, s) \/ AttemptStep(r, s)
  BY <1>5, <1>6, ActivityDenials, ReturnDenials, DispatchDenials DEF AttemptStep
<1> QED BY <1>1, <1>2, <1>3, <1>4, <1>6 DEF Next

-----------------------------------------------------------------------------
(* The safety invariants of the publication                                *)

\* Nothing is earned, submitted or denied at first.
LEMMA InitEarned == Init => Earned /\ DenialsSound
<1> SUFFICES ASSUME Init PROVE Earned /\ DenialsSound
  OBVIOUS
<1>a. \A r \in Runs, s \in Slots : pc[<<r, s>>] = "idle" /\ seen[<<r, s>>] = "none"
  BY DEF Init, Attempts
<1>1. RowsSound
  BY DEF Init, RowsSound
<1>2. AttemptsSound
  <2>1. ASSUME NEW r PROVE Sound(r, "idle", "none")
    BY DEF Sound, Claiming, Storing, Awaiting
  <2> QED BY <1>a, <2>1 DEF AttemptsSound
<1>3. WorkflowsSound
  BY <1>a, ValueAssumption DEF Init, WorkflowsSound, Answers, Authorizing
<1>4. DenialsSound
  BY <1>a, ValueAssumption
     DEF Init, DenialsSound, Untried, Refused, Trying, Claiming, Storing, Early
<1> QED BY <1>1, <1>2, <1>3, <1>4 DEF Earned

\* What every execution has earned holds throughout.
THEOREM EarnedThroughout == Spec => [](Earned /\ DenialsSound)
BY InitEarned, TypeCorrect, CallerIsSingle, StepKeepsEarned, StepKeepsDenials, PTL DEF Spec

\* Nobody submits on the effect or the reservation of another execution.
THEOREM SubmitterAlwaysPaid == Spec => []SubmitterPaid
<1>1. Earned => SubmitterPaid
  BY DEF Earned, RowsSound, SubmitterPaid
<1> QED BY <1>1, EarnedThroughout, PTL

\* Approval, package or account withdrawn before the claim: nothing is submitted.
THEOREM WithdrawnNeverSubmits == Spec => []WithdrawnBeforeClaimNeverSubmits
<1>1. Earned => WithdrawnBeforeClaimNeverSubmits
  BY DEF Earned, RowsSound, Granted, WithdrawnBeforeClaimNeverSubmits
<1> QED BY <1>1, EarnedThroughout, PTL

\* A completed effect has its attempt, plan, receipt and event on record.
THEOREM CompletionIsRecorded == Spec => []CompletedEffectIsOnRecord
<1>1. Earned => CompletedEffectIsOnRecord
  BY DEF Earned, RowsSound, Recorded, ReceiptState, CompletedEffectIsOnRecord
<1> QED BY <1>1, EarnedThroughout, PTL

\* A publication is backed by a completed effect, a settlement and a report.
THEOREM PublicationEarned == Spec => []PublicationIsEarned
<1>1. Earned => PublicationIsEarned
  BY DEF Earned, RowsSound, Reported, PublicationIsEarned
<1> QED BY <1>1, EarnedThroughout, PTL

\* Succeeded jobs published and denied jobs never submitted.
THEOREM JobsAreTruthful == Spec => []JobStateIsTruthful
<1>1. Earned /\ DenialsSound => JobStateIsTruthful
  <2> SUFFICES ASSUME Earned, DenialsSound, NEW r \in Runs
               PROVE  /\ job[r] = "succeeded" => publication /\ submitter = r
                      /\ job[r] = "denied" => submitter # r
    BY DEF JobStateIsTruthful
  <2>1. job[r] = "succeeded" => publication /\ submitter = r
    BY DEF Earned, WorkflowsSound
  <2>2. job[r] = "denied" => submitter # r
    BY ValueAssumption DEF DenialsSound, Refused, Untried, Abandoned, Earned, RowsSound
  <2> QED BY <2>1, <2>2
<1> QED BY <1>1, EarnedThroughout, PTL

=============================================================================
