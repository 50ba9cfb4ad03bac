------------------------- MODULE GovernedPublication -------------------------
(***************************************************************************)
(* GovernedPublicationWorkflow (src/salience/workflows/publication.py):    *)
(* every execution that can act on ONE immutable publication request.      *)
(*                                                                         *)
(* An execution is a Temporal workflow.  Its stages are activities, each   *)
(* tried a bounded number of times; one attempt is a chain of PostgreSQL   *)
(* transactions and provider calls with awaits between them, so an attempt *)
(* is a program counter here and each transaction or call one step.        *)
(* Temporal may time an attempt out while its code still runs: the attempt *)
(* stays in its slot, its result no longer counts, and it goes on writing. *)
(*                                                                         *)
(* The executions of one request share its plan, external effect, budget   *)
(* reservation, attempt row, remote receipt and publication, because every *)
(* one of those rows is keyed by the request's idempotency key.            *)
(***************************************************************************)
EXTENDS Naturals, FiniteSets

CONSTANTS
  ApiRuns,      \* the execution the control API starts for the request
  Firings,      \* executions a Temporal schedule of the request starts
  Slots,        \* attempts of one execution that can be running at once
  Scenarios,    \* provider behaviours the fixture publisher is built with
  MaxAttempts,  \* MAX_PUBLICATION_ATTEMPTS
  MaxPolls,     \* PublicationWorkflowState.max_polls
  MaxFaults,    \* bound on attempts lost to crashes, errors and timeouts
  NoRun,        \* no execution
  NoSlot        \* no attempt

Runs == ApiRuns \cup Firings

\* The API answers a second start with the job of the first.
ASSUME ApiAssumption == Cardinality(ApiRuns) <= 1 /\ ApiRuns \cap Firings = {}
ASSUME ValueAssumption == NoRun \notin Runs /\ NoSlot \notin Slots
ASSUME BoundAssumption ==
  /\ MaxAttempts \in Nat \ {0} /\ MaxPolls \in Nat /\ MaxFaults \in Nat
ASSUME ScenarioAssumption ==
  Scenarios \subseteq {"accepted", "processing", "failed", "cancelled", "quota"}

VARIABLES
  facts,        \* the governance facts that hold now
  scenario,     \* the fixture publisher's scenario
  polled,       \* its status calls so far, at most 2 (later ones answer alike)
  submits,      \* publisher creates made, idempotent or not
  effect,       \* external_effects.status
  effectJob,    \* external_effects.job_id
  plan,         \* publication_plans: absent, bare, or linked to the effect
  reservation,  \* budget_reservations.status
  reservedBy,   \* budget_reservations.job_id
  attemptRow,   \* publication_attempts holds attempt 1
  receipt,      \* remote_publication_receipts.state
  events,       \* publication_status_events: pairs of source and state
  publication,  \* publications holds the request
  job,          \* jobs.state of each execution's job
  wf,           \* the stage each workflow is at
  cancelReq,    \* _cancellation_requested
  tries,        \* attempts started for the stage, counted where bounded
  payload,      \* the keys the stages have handed on
  polls,        \* the payload's poll_count
  cur,          \* the slot of the attempt whose result the workflow awaits
  pc,           \* where each attempt is
  seen,         \* what each attempt has read or will return
  faults,       \* attempts lost so far
  claimFacts,   \* history: the facts when the effect was claimed
  submitter     \* history: the execution that called submit

remote    == <<scenario, polled, submits, submitter>>
ledger    == <<reservation, reservedBy>>
rows      == <<effect, effectJob, plan, attemptRow, receipt, events, publication>>
control   == <<wf, cancelReq, tries, payload, polls, cur, faults>>
world     == <<facts, remote, ledger, rows, claimFacts>>
vars      == <<world, job, control, pc, seen>>

-----------------------------------------------------------------------------
(* Values                                                                  *)

\* publishable: the ready package is approved and the account active.
\* approval: publication approval, policy, rights, disclosure, connection and
\* capability profile all stand.  budget: the budget is active.
Facts == {"publishable", "approval", "budget"}

\* What PublicationAuthorizer.reauthorize is given fresh from the database.
Reauthorized == {"publishable", "approval"} \subseteq facts

TerminalStages == {"complete", "denied", "cancel", "dead_letter"}
BoundedStages  == {"request", "authorize", "delivery", "submit", "await"}
Stages         == BoundedStages \cup TerminalStages
Ended          == {"closed", "failed"}
PayloadKeys    == {"reservation", "remote"}
TerminalJob    == {"succeeded", "denied", "cancelled", "dead_lettered"}

Attempts == Runs \X Slots
PCs == {"idle", "ret", "rq_load", "rq_job", "au_effect", "au_plan", "au_reserve",
        "au_check", "dl", "sb_attempt", "sb_claim", "sb_recheck", "sb_call",
        "sb_reconcile", "sb_receipt", "sb_event", "sb_complete", "aw_status",
        "aw_event", "aw_settle", "aw_publish", "cp_job", "dn_release", "dn_job",
        "cn_remote", "cn_event", "cn_release", "cn_job", "dd_job"}
RemoteStates == {"accepted", "processing", "published", "failed", "cancelled"}
Seen == {"none", "ok", "reserved", "settled", "released", "authorized",
         "unauthorized", "nobudget", "revoked", "dead_lettered"} \cup RemoteStates

\* The first step of a stage's activity.
FirstStep == [request |-> "rq_load", authorize |-> "au_effect", delivery |-> "dl",
              submit |-> "sb_attempt", await |-> "aw_status", complete |-> "cp_job",
              denied |-> "dn_release", cancel |-> "cn_remote", dead_letter |-> "dd_job"]
Entry(r, stage) == IF stage = "request" /\ r \in Firings THEN "rq_job" ELSE FirstStep[stage]

\* What GovernedPublicationWorkflow.run does next with an activity's result,
\* when nobody asked for a cancellation ...
Following == [request |-> "authorize", authorize |-> "delivery", delivery |-> "submit"]
OnwardAnythingSettles(stage, out) ==                         \* mutant
  IF stage \in TerminalStages                             THEN "closed"
  ELSE IF out \in {"unauthorized", "nobudget", "revoked"} THEN "denied"
  ELSE IF stage \in DOMAIN Following                      THEN Following[stage]
  ELSE IF out \in {"accepted", "processing"}              THEN "await"
  ELSE "complete"
Onward(stage, out) ==
  IF stage \in TerminalStages                             THEN "closed"
  ELSE IF out \in {"unauthorized", "nobudget", "revoked"} THEN "denied"
  ELSE IF stage \in DOMAIN Following                      THEN Following[stage]
  ELSE IF out \in {"accepted", "processing"}              THEN "await"
  ELSE IF out = "published" THEN "complete" ELSE "dead_letter"

\* ... and when somebody did: it is looked at only between bounded stages.
Decision(stage, out, cancelled) ==
  IF cancelled /\ Onward(stage, out) \in BoundedStages THEN "cancel" ELSE Onward(stage, out)

-----------------------------------------------------------------------------
(* FixturePublisherAdapter                                                 *)

Rejects == {"quota"}
ReceiptState == IF scenario \in {"failed", "cancelled"} THEN scenario ELSE "accepted"
StatusState(n) ==
  IF scenario \in {"failed", "cancelled", "processing"} THEN scenario
  ELSE IF n = 1 THEN "processing" ELSE "published"
Polled == IF polled < 2 THEN polled + 1 ELSE 2

-----------------------------------------------------------------------------
(* Attempts and the workflow that awaits them                              *)

Init ==
  /\ facts = Facts /\ scenario \in Scenarios /\ polled = 0 /\ submits = 0
  /\ effect = "none" /\ effectJob = NoRun
  /\ plan \in {"absent", "bare"}
  /\ reservation = "none" /\ reservedBy = NoRun
  /\ attemptRow = FALSE /\ receipt = "none" /\ events = {} /\ publication = FALSE
  /\ job = [r \in Runs |-> "absent"]
  /\ wf = [r \in Runs |-> "none"]
  /\ cancelReq = [r \in Runs |-> FALSE]
  /\ tries = [r \in Runs |-> 0]
  /\ payload = [r \in Runs |-> {}]
  /\ polls = [r \in Runs |-> 0]
  /\ cur = [r \in Runs |-> NoSlot]
  /\ pc = [a \in Attempts |-> "idle"]
  /\ seen = [a \in Attempts |-> "none"]
  /\ faults = 0 /\ claimFacts = Facts /\ submitter = NoRun

\* start_publication: the request and the job are written, the workflow started.
StartApi(r) ==
  /\ r \in ApiRuns /\ job[r] = "absent" /\ "publishable" \in facts
  /\ job' = [job EXCEPT ![r] = "running"]
  /\ wf' = [wf EXCEPT ![r] = "request"]
  /\ UNCHANGED <<world, cancelReq, tries, payload, polls, cur, faults, pc, seen>>

\* A schedule names an existing plan, and Temporal skips a firing while an
\* earlier one is open (the default overlap policy).
Fire(r) ==
  /\ r \in Firings /\ wf[r] = "none" /\ plan # "absent"
  /\ \A q \in Firings : wf[q] \in Ended \cup {"none"}
  /\ wf' = [wf EXCEPT ![r] = "request"]
  /\ UNCHANGED <<world, job, cancelReq, tries, payload, polls, cur, faults, pc, seen>>

\* cancel_publication signals the workflow by the job's workflow_run_id, which
\* names a workflow only for the jobs the API creates.
RequestCancel(r) ==
  /\ r \in ApiRuns /\ wf[r] \in Stages /\ ~cancelReq[r]
  /\ cancelReq' = [cancelReq EXCEPT ![r] = TRUE]
  /\ UNCHANGED <<world, job, wf, tries, payload, polls, cur, faults, pc, seen>>

\* An operator, an expiry or a provider withdraws one of the facts.
Revoke(f) ==
  /\ f \in facts
  /\ facts' = facts \ {f}
  /\ UNCHANGED <<remote, ledger, rows, claimFacts, job, control, pc, seen>>

\* Temporal hands the stage's activity to a worker.
Dispatch(r, s) ==
  /\ wf[r] \in Stages /\ cur[r] = NoSlot /\ pc[<<r, s>>] = "idle"
  /\ cur' = [cur EXCEPT ![r] = s]
  /\ tries' = [tries EXCEPT ![r] = IF wf[r] \in BoundedStages THEN @ + 1 ELSE @]
  /\ pc' = [pc EXCEPT ![<<r, s>>] = Entry(r, wf[r])]
  /\ UNCHANGED <<world, job, wf, cancelReq, payload, polls, faults, seen>>

\* The awaited attempt is lost: the stage is retried, or, tried often enough,
\* its error ends the workflow (run catches nothing).
Lose(r) ==
  /\ cur' = [cur EXCEPT ![r] = NoSlot]
  /\ wf' = [wf EXCEPT ![r] = IF @ \in BoundedStages /\ tries[r] >= MaxAttempts
                             THEN "failed" ELSE @]

\* The attempt ends with an exception.
Raise(r, s) ==
  /\ pc' = [pc EXCEPT ![<<r, s>>] = "idle"]
  /\ seen' = [seen EXCEPT ![<<r, s>>] = "none"]
  /\ IF cur[r] = s THEN Lose(r) ELSE UNCHANGED <<cur, wf>>
  /\ UNCHANGED <<cancelReq, tries, payload, polls>>

\* A crash, a lost connection or a violated constraint, at any point.
Fail(r, s) ==
  /\ pc[<<r, s>>] # "idle" /\ faults < MaxFaults
  /\ faults' = faults + 1
  /\ Raise(r, s)
  /\ UNCHANGED <<world, job>>

\* start_to_close_timeout: the attempt's code is not stopped.
TimeOut(r) ==
  /\ cur[r] # NoSlot /\ faults < MaxFaults
  /\ faults' = faults + 1
  /\ Lose(r)
  /\ UNCHANGED <<world, job, cancelReq, tries, payload, polls, pc, seen>>

\* The keys a returning stage adds to the payload.
Handed(stage, out) ==
  {k \in PayloadKeys : \/ k = "reservation" /\ stage = "authorize" /\ out # "nobudget"
                       \/ k = "remote" /\ stage = "submit" /\ out # "revoked"}

\* poll_count goes up with each status call and never down.
PollsUncounted(r) == polls[r]                               \* mutant
PollsAfter(r) == IF wf[r] = "await" THEN polls[r] + 1 ELSE polls[r]

Return(r, s) ==
  /\ pc[<<r, s>>] = "ret"
  /\ pc' = [pc EXCEPT ![<<r, s>>] = "idle"]
  /\ seen' = [seen EXCEPT ![<<r, s>>] = "none"]
  /\ IF cur[r] = s
     THEN /\ cur' = [cur EXCEPT ![r] = NoSlot]
          /\ tries' = [tries EXCEPT ![r] = 0]
          /\ payload' = [payload EXCEPT ![r] = @ \cup Handed(wf[r], seen[<<r, s>>])]
          /\ polls' = [polls EXCEPT ![r] = PollsAfter(r)]
          /\ wf' = [wf EXCEPT ![r] = Decision(@, seen[<<r, s>>], cancelReq[r])]
     ELSE UNCHANGED <<cur, tries, payload, polls, wf>>
  /\ UNCHANGED <<world, job, cancelReq, faults>>

\* The attempt goes from one step to the next, remembering v.
Step(r, s, from, to, v) ==
  /\ pc[<<r, s>>] = from
  /\ pc' = [pc EXCEPT ![<<r, s>>] = to]
  /\ seen' = [seen EXCEPT ![<<r, s>>] = v]
  /\ UNCHANGED control
Move(r, s, from, to) == Step(r, s, from, to, seen[<<r, s>>])
RaiseAt(r, s, at) == pc[<<r, s>>] = at /\ Raise(r, s) /\ UNCHANGED faults

-----------------------------------------------------------------------------
(* salience.publication.request                                            *)

\* The API's execution reads back the request it was started for.
LoadRequest(r, s) ==
  /\ Step(r, s, "rq_load", "ret", "ok")
  /\ UNCHANGED <<world, job>>

\* INSERT INTO jobs ... ON CONFLICT DO NOTHING.
JobStarted(r) == IF job[r] = "absent" THEN "running" ELSE job[r]

\* A firing writes its own job, if package and account are still publishable.
CreateScheduledRun(r, s) ==
  /\ \/ /\ "publishable" \in facts
        /\ Step(r, s, "rq_job", "ret", "ok")
        /\ job' = [job EXCEPT ![r] = JobStarted(r)]
     \/ /\ "publishable" \notin facts
        /\ RaiseAt(r, s, "rq_job")
        /\ UNCHANGED job
  /\ UNCHANGED world

-----------------------------------------------------------------------------
(* salience.publication.authorize                                          *)

\* INSERT ... ON CONFLICT DO NOTHING: the first execution owns the effect.
PlanEffect(r, s) ==
  /\ Move(r, s, "au_effect", "au_plan")
  /\ IF effect = "none" THEN effect' = "planned" /\ effectJob' = r
                        ELSE UNCHANGED <<effect, effectJob>>
  /\ UNCHANGED <<facts, remote, ledger, plan, attemptRow, receipt, events, publication,
                 claimFacts, job>>

\* create_plan refuses a plan that differs from the stored one, and a plan
\* made for a schedule names no effect; attach_external_effect fills it in.
LinkPlan(r, s) ==
  /\ \/ /\ r \in Firings \/ plan # "bare"
        /\ Move(r, s, "au_plan", "au_reserve")
        /\ plan' = "linked"
     \/ /\ r \in ApiRuns /\ plan = "bare"
        /\ RaiseAt(r, s, "au_plan")
        /\ UNCHANGED plan
  /\ UNCHANGED <<facts, remote, ledger, effect, effectJob, attemptRow, receipt, events,
                 publication, claimFacts, job>>

\* A stored reservation serves the job and effect it was made for.
AnyReservation(r) == TRUE                                   \* mutant
SameReservation(r) == reservedBy = r

\* reserve_for_publication_effect.  Other requests may have overdrawn the
\* budget, so a new reservation can be refused while the budget is active.
Reserve(r, s) ==
  LET owned == effectJob = r /\ plan = "linked" IN
  /\ \/ /\ "budget" \notin facts \/ (reservation = "none" /\ owned)
        /\ Step(r, s, "au_reserve", "ret", "nobudget")
        /\ UNCHANGED ledger
     \/ /\ "budget" \in facts /\ reservation = "none" /\ owned
        /\ Step(r, s, "au_reserve", "au_check", "reserved")
        /\ reservation' = "reserved" /\ reservedBy' = r
     \/ /\ "budget" \in facts /\ reservation # "none" /\ SameReservation(r)
        /\ Step(r, s, "au_reserve", "au_check", reservation)
        /\ UNCHANGED ledger
     \/ /\ "budget" \in facts
        /\ IF reservation = "none" THEN ~owned ELSE ~SameReservation(r)
        /\ RaiseAt(r, s, "au_reserve")
        /\ UNCHANGED ledger
  /\ UNCHANGED <<facts, remote, rows, claimFacts, job>>

CheckAuthorization(r, s) ==
  /\ Step(r, s, "au_check", "ret",
          IF Reauthorized /\ seen[<<r, s>>] = "reserved" THEN "authorized" ELSE "unauthorized")
  /\ UNCHANGED <<world, job>>

\* salience.publication.delivery: a signed URL, nothing stored.
Deliver(r, s) ==
  /\ Step(r, s, "dl", "ret", "ok")
  /\ UNCHANGED <<world, job>>

-----------------------------------------------------------------------------
(* salience.publication.submit_or_reconcile                                *)

CreateAttempt(r, s) ==
  /\ Move(r, s, "sb_attempt", "sb_claim")
  /\ attemptRow' = TRUE
  /\ UNCHANGED <<facts, remote, ledger, effect, effectJob, plan, receipt, events,
                 publication, claimFacts, job>>

ClaimableAgain == effect \in {"planned", "submitting"}       \* mutant
Claimable == effect = "planned"

\* begin_effect_submission: UPDATE ... WHERE status = 'planned' RETURNING id.
BeginEffectSubmission(r, s) ==
  /\ IF Claimable
     THEN /\ Move(r, s, "sb_claim", "sb_recheck")
          /\ effect' = "submitting" /\ claimFacts' = facts
     ELSE Move(r, s, "sb_claim", "sb_reconcile") /\ UNCHANGED <<effect, claimFacts>>
  /\ UNCHANGED <<facts, remote, ledger, effectJob, plan, attemptRow, receipt, events,
                 publication, job>>

RecheckSkipped(r, s) ==                                     \* mutant
  /\ Move(r, s, "sb_recheck", "sb_call")
  /\ UNCHANGED <<world, job>>

\* _current_authorization_denial, which takes the budget as reserved.
Recheck(r, s) ==
  /\ IF Reauthorized THEN Move(r, s, "sb_recheck", "sb_call")
                     ELSE Step(r, s, "sb_recheck", "ret", "revoked")
  /\ UNCHANGED <<world, job>>

Submit(r, s) ==
  /\ IF scenario \in Rejects
     THEN RaiseAt(r, s, "sb_call") /\ UNCHANGED remote
     ELSE /\ Step(r, s, "sb_call", "sb_receipt", ReceiptState)
          /\ submits' = submits + 1 /\ submitter' = r
          /\ UNCHANGED <<scenario, polled>>
  /\ UNCHANGED <<facts, ledger, rows, claimFacts, job>>

ReconcileUnrecorded(r, s) ==                                \* mutant
  /\ submits > 0 /\ Step(r, s, "sb_reconcile", "sb_complete", ReceiptState)
  /\ UNCHANGED <<world, job>>
ReconcileSilence(r, s) ==                                   \* mutant
  /\ Step(r, s, "sb_reconcile", "sb_receipt", ReceiptState)
  /\ UNCHANGED <<world, job>>
Reconcile(r, s) ==
  /\ IF submits > 0 THEN Step(r, s, "sb_reconcile", "sb_receipt", ReceiptState)
                    ELSE RaiseAt(r, s, "sb_reconcile")
  /\ UNCHANGED <<world, job>>

RecordRemoteReceipt(r, s) ==
  /\ Move(r, s, "sb_receipt", "sb_event")
  /\ receipt' = IF receipt = "none" THEN seen[<<r, s>>] ELSE receipt
  /\ UNCHANGED <<facts, remote, ledger, effect, effectJob, plan, attemptRow, events,
                 publication, claimFacts, job>>

RecordSubmissionLast(r, s) ==                               \* mutant
  /\ Move(r, s, "sb_event", "ret")
  /\ events' = events \cup {<<"submission", seen[<<r, s>>]>>}
  /\ UNCHANGED <<facts, remote, ledger, effect, effectJob, plan, attemptRow, receipt,
                 publication, claimFacts, job>>
RecordSubmission(r, s) ==
  /\ Move(r, s, "sb_event", "sb_complete")
  /\ events' = events \cup {<<"submission", seen[<<r, s>>]>>}
  /\ UNCHANGED <<facts, remote, ledger, effect, effectJob, plan, attemptRow, receipt,
                 publication, claimFacts, job>>

CompleteEffect(r, s) ==
  /\ Move(r, s, "sb_complete", "ret")
  /\ effect' = "completed"
  /\ UNCHANGED <<facts, remote, ledger, effectJob, plan, attemptRow, receipt, events,
                 publication, claimFacts, job>>

-----------------------------------------------------------------------------
(* salience.publication.await                                              *)

\* A late attempt carries the poll count of its own start, so it may go on.
PollStatus(r, s) ==
  /\ polled' = Polled
  /\ LET state   == StatusState(Polled)
         pastMax == state \in {"accepted", "processing"} /\ polls[r] >= MaxPolls IN
     \/ pastMax /\ Step(r, s, "aw_status", "ret", "dead_lettered")
     \/ (~pastMax \/ cur[r] # s) /\ Step(r, s, "aw_status", "aw_event", state)
  /\ UNCHANGED <<facts, scenario, submits, submitter, ledger, rows, claimFacts, job>>

\* The fixture answers "processing" with a signed webhook, recorded twice.
RecordPoll(r, s) ==
  LET state == seen[<<r, s>>] IN
  /\ Move(r, s, "aw_event", IF state = "published" THEN "aw_settle" ELSE "ret")
  /\ events' = events \cup {<<IF state = "processing" THEN "webhook" ELSE "poll", state>>}
  /\ UNCHANGED <<facts, remote, ledger, effect, effectJob, plan, attemptRow, receipt,
                 publication, claimFacts, job>>

SettleSkipped(r, s) ==                                      \* mutant
  /\ Move(r, s, "aw_settle", "aw_publish")
  /\ UNCHANGED <<world, job>>
Settle(r, s) ==
  /\ IF reservation = "released"
     THEN RaiseAt(r, s, "aw_settle") /\ UNCHANGED reservation
     ELSE Move(r, s, "aw_settle", "aw_publish") /\ reservation' = "settled"
  /\ UNCHANGED <<facts, remote, reservedBy, rows, claimFacts, job>>

RecordPublication(r, s) ==
  /\ Move(r, s, "aw_publish", "ret")
  /\ publication' = TRUE
  /\ UNCHANGED <<facts, remote, ledger, effect, effectJob, plan, attemptRow, receipt,
                 events, claimFacts, job>>

-----------------------------------------------------------------------------
(* The terminal activities                                                 *)

Terminal(r, s, at, state) ==
  /\ Step(r, s, at, "ret", "ok")
  /\ job' = [job EXCEPT ![r] = state]
  /\ UNCHANGED world
Complete(r, s)   == Terminal(r, s, "cp_job", "succeeded")
Deny(r, s)       == Terminal(r, s, "dn_job", "denied")
Cancel(r, s)     == Terminal(r, s, "cn_job", "cancelled")
DeadLetter(r, s) == Terminal(r, s, "dd_job", "dead_lettered")

\* release_unused leaves a settled reservation as it is.
Release(r, s, from, to) ==
  /\ Move(r, s, from, to)
  /\ reservation' = IF "reservation" \in payload[r] /\ reservation = "reserved"
                    THEN "released" ELSE reservation
  /\ UNCHANGED <<facts, remote, reservedBy, rows, claimFacts, job>>
ReleaseDenied(r, s)    == Release(r, s, "dn_release", "dn_job")
ReleaseCancelled(r, s) == Release(r, s, "cn_release", "cn_job")

\* The fixture's cancel reads the status and answers "cancelled".
CancelRemote(r, s) ==
  /\ IF "remote" \in payload[r]
     THEN Move(r, s, "cn_remote", "cn_event") /\ polled' = Polled
     ELSE Move(r, s, "cn_remote", "cn_release") /\ UNCHANGED polled
  /\ UNCHANGED <<facts, scenario, submits, submitter, ledger, rows, claimFacts, job>>

RecordCancellation(r, s) ==
  /\ Move(r, s, "cn_event", "cn_release")
  /\ events' = events \cup {<<"cancellation", "cancelled">>}
  /\ UNCHANGED <<facts, remote, ledger, effect, effectJob, plan, attemptRow, receipt,
                 publication, claimFacts, job>>

-----------------------------------------------------------------------------
(* The specification                                                       *)

Request(r, s)   == LoadRequest(r, s) \/ CreateScheduledRun(r, s)
Authorize(r, s) ==
  \/ PlanEffect(r, s) \/ LinkPlan(r, s) \/ Reserve(r, s) \/ CheckAuthorization(r, s)
SubmitOrReconcile(r, s) ==
  \/ CreateAttempt(r, s) \/ BeginEffectSubmission(r, s) \/ Recheck(r, s)
  \/ Submit(r, s) \/ Reconcile(r, s) \/ RecordRemoteReceipt(r, s)
  \/ RecordSubmission(r, s) \/ CompleteEffect(r, s)
AwaitPublication(r, s) ==
  \/ PollStatus(r, s) \/ RecordPoll(r, s) \/ Settle(r, s) \/ RecordPublication(r, s)
Conclude(r, s) ==
  \/ Complete(r, s) \/ ReleaseDenied(r, s) \/ Deny(r, s)
  \/ CancelRemote(r, s) \/ RecordCancellation(r, s) \/ ReleaseCancelled(r, s)
  \/ Cancel(r, s) \/ DeadLetter(r, s)
AttemptStep(r, s) ==
  \/ Request(r, s) \/ Authorize(r, s) \/ Deliver(r, s) \/ SubmitOrReconcile(r, s)
  \/ AwaitPublication(r, s) \/ Conclude(r, s) \/ Return(r, s)

Next ==
  \/ \E r \in Runs : StartApi(r) \/ Fire(r) \/ RequestCancel(r) \/ TimeOut(r)
  \/ \E f \in Facts : Revoke(f)
  \/ \E r \in Runs, s \in Slots : Dispatch(r, s) \/ Fail(r, s) \/ AttemptStep(r, s)

\* Temporal keeps dispatching an open stage to some worker, and code that runs
\* goes on; the API, schedules, operators and faults owe nothing.
Fairness ==
  /\ \A r \in Runs : WF_vars(\E s \in Slots : Dispatch(r, s))
  /\ \A r \in Runs, s \in Slots : WF_vars(AttemptStep(r, s))

Spec == Init /\ [][Next]_vars /\ Fairness

-----------------------------------------------------------------------------
(* Properties                                                              *)

\* Rows, remote and history keep their types ...
TypeRows ==
  /\ facts \subseteq Facts /\ claimFacts \subseteq Facts
  /\ scenario \in Scenarios /\ polled \in 0..2 /\ submits \in Nat
  /\ effect \in {"none", "planned", "submitting", "completed"}
  /\ plan \in {"absent", "bare", "linked"}
  /\ reservation \in {"none", "reserved", "settled", "released"}
  /\ {effectJob, reservedBy, submitter} \subseteq Runs \cup {NoRun}
  /\ attemptRow \in BOOLEAN /\ receipt \in Seen /\ publication \in BOOLEAN
  /\ events \subseteq {"submission", "webhook", "poll", "cancellation"} \X Seen
  /\ job \in [Runs -> {"absent", "running"} \cup TerminalJob]

\* ... and so do workflows and attempts.
TypeControl ==
  /\ wf \in [Runs -> {"none"} \cup Stages \cup Ended]
  /\ cancelReq \in [Runs -> BOOLEAN]
  /\ tries \in [Runs -> Nat] /\ polls \in [Runs -> Nat]
  /\ payload \in [Runs -> SUBSET PayloadKeys]
  /\ cur \in [Runs -> Slots \cup {NoSlot}]
  /\ pc \in [Attempts -> PCs] /\ seen \in [Attempts -> Seen]
  /\ faults \in 0..MaxFaults

\* Every variable stays within its rows' and counters' types.
TypeOK == TypeRows /\ TypeControl

\* "The workflow never blindly repeats a publisher create" (docs/recovery.md):
\* whatever is retried, crashes, times out or fires again, submit is called at
\* most once, even by a provider that would not recognise the repetition.
AtMostOneSubmission == submits <= 1

\* Why: the attempt that claimed the effect is alone between claim and call, and
\* is there before the first submission; whoever records a receipt comes after it.
Calling   == {a \in Attempts : pc[a] \in {"sb_recheck", "sb_call"}}
Recording == {a \in Attempts : pc[a] \in {"sb_receipt", "sb_event", "sb_complete"}}
SingleCaller ==
  /\ submits \in 0..1
  /\ effect \in {"none", "planned"} => submits = 0
  /\ Calling # {} => effect = "submitting" /\ submits = 0
  /\ Recording # {} => submits = 1
  /\ \A a, b \in Calling : a = b

\* The execution that submitted owns the effect and paid for it: no execution
\* submits on the authorization and reservation of another one.
SubmitterPaid ==
  submitter # NoRun => effectJob = submitter /\ reservedBy = submitter

\* The shared rows and the provider calls are one at-most-once effect.
Effect == INSTANCE AtMostOnceEffect WITH status <- effect, sends <- submits
EffectIsAtMostOnce == Effect!Spec

\* Package, account, approval, policy or rights withdrawn before the effect was
\* claimed: the recheck after the claim sees it and nothing is submitted.
WithdrawnBeforeClaimNeverSubmits ==
  ~({"publishable", "approval"} \subseteq claimFacts) => submits = 0

\* A completed effect stands for one submission, whose attempt, receipt and
\* status event were stored first.
CompletedEffectIsOnRecord ==
  effect = "completed" =>
    /\ submits = 1 /\ attemptRow /\ plan = "linked"
    /\ receipt # "none" /\ <<"submission", receipt>> \in events

\* A publication stands for a recorded submission, a remote that reported it
\* published, and a settled reservation: "settlement before completion".
PublicationIsEarned ==
  publication =>
    /\ effect = "completed" /\ reservation = "settled"
    /\ <<"poll", "published">> \in events

\* The job's final state tells the truth about the remote side: succeeded
\* means published by this execution, denied means it submitted nothing.
JobStateIsTruthful ==
  \A r \in Runs :
    /\ job[r] = "succeeded" => publication /\ submitter = r
    /\ job[r] = "denied" => submitter # r

\* Once a stage is entered the execution ends: no retry, poll or cancellation
\* loop is endless while faults are finitely many.
EveryRunEnds == \A r \in Runs : wf[r] \in Stages ~> wf[r] \in Ended

\* A claimed effect does not hang unnoticed: it completes, its job is denied,
\* or the execution that planned it fails.
EveryClaimResolves ==
  effect = "submitting" ~>
    \/ effect = "completed"
    \/ \E r \in Runs : effectJob = r /\ (job[r] = "denied" \/ wf[r] = "failed")

\* "Retry exhaustion and timeouts create canonical dead-letter records"
\* (docs/recovery.md).
ExhaustedIsDeadLettered ==
  \A r \in Runs : wf[r] = "failed" => job[r] = "dead_lettered"

\* "It rechecks policy, rights, approval, scope, account, capability, and
\* budget immediately before an external submit" (README.md): a budget that was
\* withdrawn before the effect was claimed prevents the submission.
BudgetWithdrawnBeforeClaimNeverSubmits == "budget" \notin claimFacts => submits = 0

=============================================================================
