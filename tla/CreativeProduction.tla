--------------------------- MODULE CreativeProduction ---------------------------
(***************************************************************************)
(* CreativeProductionWorkflow (src/salience/workflows/creative.py): one    *)
(* production of one to three variants, the provider jobs it drives, and   *)
(* the provider's webhooks (src/salience/creative/repository.py).          *)
(*                                                                         *)
(* As in GovernedPublication a stage is an activity, an attempt of it is a *)
(* program counter in a slot, and each transaction or provider call is one *)
(* step.  A stage works on the variants one after the other, and a retry   *)
(* begins with the first one again.                                        *)
(***************************************************************************)
EXTENDS Naturals, FiniteSets

CONSTANTS
  MaxVariants,  \* how many variants are produced (max_variants)
  Slots,        \* attempts that can be running at once
  DryRuns,      \* values of CreativeProductionRequest.dry_run
  Costs,        \* what the provider reports: within, over, or unknown
  Webhooks,     \* the states the provider's webhooks tell of; none if it has none
  MaxAttempts,  \* MAX_CREATIVE_ATTEMPTS
  MaxPolls,     \* provider_timeout_seconds * PROVIDER_POLLS_PER_TIMEOUT_SECOND
  MaxFaults,    \* bound on attempts lost and provider errors
  NoSlot        \* no attempt

ASSUME VariantAssumption == MaxVariants \in 1..3
ASSUME OptionAssumption ==
  /\ DryRuns \subseteq BOOLEAN /\ Costs \subseteq {"within", "over", "unknown"}
  /\ Webhooks \subseteq {"submitted", "running", "completed", "failed", "cancelled"}
ASSUME BoundAssumption ==
  MaxAttempts \in Nat \ {0} /\ MaxPolls \in Nat /\ MaxFaults \in Nat /\ NoSlot \notin Slots

Variants == 1..MaxVariants

VARIABLES
  dryRun,       \* CreativeProductionRequest.dry_run
  permitted,    \* CreativeWorkflowState: permission granted and policy allows
  cost,         \* what the provider will report of each of its jobs
  remote,       \* each variant's job at the provider
  creates,      \* provider submissions made for each variant
  reported,     \* states the provider's jobs have been in
  effect,       \* external_effects.status of each variant
  reservation,  \* budget_reservations.status of each variant
  row,          \* provider_jobs.state of each variant
  asked,        \* provider_jobs.cancel_requested_at is set
  hooks,        \* webhooks whose receipt is stored and transition is not yet made
  assets,       \* variants whose media are imported
  distributed,  \* the distribution package exists
  package,      \* the ready-to-publish package exists
  job,          \* jobs.state
  wf,           \* the stage the workflow is at
  cancelReq,    \* _cancellation_requested
  tries,        \* attempts started for the stage, counted where bounded
  payload,      \* what the stages have handed on
  cur,          \* the slot of the attempt whose result the workflow awaits
  att,          \* each slot's attempt
  faults        \* attempts lost and provider errors so far

request  == <<dryRun, permitted, cost>>
provider == <<remote, creates, reported>>
products == <<assets, distributed, package>>
records  == <<effect, reservation, row, asked, hooks, products>>
control  == <<wf, cancelReq, tries, payload, cur, faults>>
vars     == <<request, provider, records, job, control, att>>

-----------------------------------------------------------------------------
(* Stages                                                                  *)

Preparation    == {"load_brief", "script", "verify_script", "direction"}
BoundedStages  == Preparation \cup {"authorize", "submit_or_reconcile", "await_provider",
                                    "import_validate", "distribute", "final_gate"}
TerminalStages == {"complete", "denied", "cancel"}
Stages         == BoundedStages \cup TerminalStages
Ended          == {"closed", "failed"}

Live     == {"submitted", "running"}
Terminal == {"completed", "failed", "cancelled", "dead_lettered"}

\* The stages after which the next one is the same whatever they return.
Following == [load_brief |-> "script", script |-> "verify_script",
              verify_script |-> "direction", direction |-> "authorize",
              import_validate |-> "distribute", distribute |-> "final_gate",
              final_gate |-> "complete"]

\* CreativeProductionWorkflow.run after a stage: submit and await loop while the
\* payload says that the provider is at it ...
Onward(stage, out, state) ==
  IF stage \in TerminalStages      THEN "closed"
  ELSE IF stage \in DOMAIN Following THEN Following[stage]
  ELSE IF stage = "authorize"      THEN IF out = "ok" THEN "submit_or_reconcile" ELSE "denied"
  ELSE IF state \in Live           THEN "await_provider"
  ELSE "import_validate"

\* ... and a cancellation is looked at before every stage but the last ones.
DecisionCancelLate(stage, out, state, cancelled) ==                      \* mutant
  LET next == Onward(stage, out, state) IN
  IF cancelled /\ next \notin {"closed", "denied"} THEN "cancel" ELSE next
Decision(stage, out, state, cancelled) ==
  LET next == Onward(stage, out, state) IN
  IF cancelled /\ next \notin {"closed", "complete", "denied"} THEN "cancel" ELSE next

\* Where an attempt of a stage begins.  A dry run passes the provider stages by.
FirstStep == [load_brief |-> "prepare", script |-> "prepare", verify_script |-> "prepare",
              direction |-> "prepare", authorize |-> "au_plan",
              submit_or_reconcile |-> "sb_look", await_provider |-> "aw_status",
              import_validate |-> "im_store", distribute |-> "distribute",
              final_gate |-> "final_gate", complete |-> "cp_job", denied |-> "dn_job"]
Entry(stage) ==
  IF stage = "cancel"
  THEN IF dryRun \/ payload.has = "nothing" THEN "cn_job"
       ELSE IF payload.has = "jobs" THEN "cn_ask" ELSE "cn_release"
  ELSE IF stage = "authorize" /\ ~permitted THEN "ret"
  ELSE IF dryRun /\ stage \notin Preparation \cup TerminalStages THEN "ret"
  ELSE FirstStep[stage]

PCs == {"idle", "ret", "prepare", "au_plan", "au_reserve", "au_release", "sb_look",
        "sb_status", "sb_claim", "sb_call", "sb_reconcile", "sb_record", "sb_complete",
        "aw_status", "aw_wait", "aw_retry", "aw_bury", "aw_letter", "aw_fatal", "aw_done",
        "aw_settle", "im_store", "distribute", "final_gate", "cp_job", "dn_job", "cn_ask",
        "cn_status", "cn_call", "cn_move", "cn_cost", "cn_release", "cn_job"}

-----------------------------------------------------------------------------
(* Attempts                                                                *)

\* An attempt: its step, the variant it works on, what it has learned of each
\* variant, its number, the poll counts it was called with, and its outcome.
Idle == [at |-> "idle", on |-> 1, got |-> [v \in Variants |-> "none"], try |-> 0,
         polls |-> [v \in Variants |-> 0], out |-> "ok"]

Init ==
  /\ dryRun \in DryRuns /\ permitted \in BOOLEAN /\ cost \in Costs
  /\ remote = [v \in Variants |-> "none"] /\ creates = [v \in Variants |-> 0]
  /\ reported = {}
  /\ effect = [v \in Variants |-> "none"]
  /\ reservation = [v \in Variants |-> "none"]
  /\ row = [v \in Variants |-> "none"]
  /\ asked = {} /\ hooks = {} /\ assets = {} /\ distributed = FALSE /\ package = FALSE
  /\ job = "running" /\ wf = "load_brief" /\ cancelReq = FALSE /\ tries = 0
  /\ payload = [has |-> "nothing", state |-> "none", polls |-> [v \in Variants |-> 0]]
  /\ cur = NoSlot /\ att = [s \in Slots |-> Idle] /\ faults = 0

RequestCancellation ==
  /\ wf \in Stages /\ ~cancelReq
  /\ cancelReq' = TRUE
  /\ UNCHANGED <<request, provider, records, job, wf, tries, payload, cur, faults, att>>

Dispatch(s) ==
  /\ wf \in Stages /\ cur = NoSlot /\ att[s].at = "idle"
  /\ cur' = s
  /\ tries' = IF wf \in BoundedStages THEN tries + 1 ELSE tries
  /\ att' = [att EXCEPT ![s] =
       [Idle EXCEPT !.at = Entry(wf), !.try = tries', !.polls = payload.polls,
                    !.out = IF permitted THEN "ok" ELSE "denied"]]
  /\ UNCHANGED <<request, provider, records, job, wf, cancelReq, payload, faults>>

\* The awaited attempt is lost: the stage is retried, or its error ends the
\* workflow (run catches nothing).
Lose(fatal) ==
  /\ cur' = NoSlot
  /\ wf' = IF fatal \/ (wf \in BoundedStages /\ tries >= MaxAttempts) THEN "failed" ELSE wf

\* The attempt ends with an exception, which may be one not to be retried.
RaiseAs(s, fatal) ==
  /\ att' = [att EXCEPT ![s] = Idle]
  /\ IF cur = s THEN Lose(fatal) ELSE UNCHANGED <<cur, wf>>
  /\ UNCHANGED <<cancelReq, tries, payload>>
Raise(s) == RaiseAs(s, FALSE) /\ UNCHANGED faults

\* A crash, a lost connection or a provider that cannot be reached.
Fail(s) ==
  /\ att[s].at # "idle" /\ faults < MaxFaults
  /\ faults' = faults + 1
  /\ RaiseAs(s, FALSE)
  /\ UNCHANGED <<request, provider, records, job>>

\* start_to_close_timeout: the attempt's code is not stopped.
TimeOut ==
  /\ cur # NoSlot /\ faults < MaxFaults
  /\ faults' = faults + 1
  /\ Lose(FALSE)
  /\ UNCHANGED <<request, provider, records, job, cancelReq, tries, payload, att>>

\* The provider state the payload gets: submit keeps that of the first variant,
\* await says completed when every variant has.
Reached(s) ==
  IF wf = "submit_or_reconcile" THEN IF dryRun THEN "dry_run" ELSE att[s].got[1]
  ELSE IF wf # "await_provider" THEN payload.state
  ELSE IF \A v \in Variants : att[s].got[v] = "completed" THEN "completed" ELSE "running"

HandedUncounted(s) ==                                                    \* mutant
  [payload EXCEPT !.state = Reached(s),
                  !.has = IF wf = "submit_or_reconcile" THEN "jobs" ELSE @]
Handed(s) ==
  [has |-> IF wf = "authorize" /\ att[s].out = "ok" /\ ~dryRun THEN "reservations"
           ELSE IF wf = "submit_or_reconcile" /\ ~dryRun THEN "jobs" ELSE payload.has,
   state |-> Reached(s),
   polls |-> [v \in Variants |->
                IF wf = "await_provider" /\ att[s].got[v] \in Live
                THEN att[s].polls[v] + 1 ELSE payload.polls[v]]]

Return(s) ==
  /\ att[s].at = "ret"
  /\ att' = [att EXCEPT ![s] = Idle]
  /\ IF cur = s
     THEN /\ cur' = NoSlot /\ tries' = 0
          /\ payload' = Handed(s)
          /\ wf' = Decision(wf, att[s].out, Reached(s), cancelReq)
     ELSE UNCHANGED <<cur, tries, payload, wf>>
  /\ UNCHANGED <<request, provider, records, job, cancelReq, faults>>

At(s, step) == att[s].at = step
On(s)       == att[s].on
Got(s)      == att[s].got[On(s)]
Go(s, to)   == att' = [att EXCEPT ![s].at = to] /\ UNCHANGED control
Learn(s, to, state) ==
  att' = [att EXCEPT ![s].at = to, ![s].got[On(s)] = state] /\ UNCHANGED control
\* On to the next variant, beginning at the given step, or done.
MoveOn(s, first, state) ==
  /\ att' = [att EXCEPT ![s].at = IF On(s) < MaxVariants THEN first ELSE "ret",
                        ![s].on = IF @ < MaxVariants THEN @ + 1 ELSE @,
                        ![s].got[On(s)] = state]
  /\ UNCHANGED control
NextVariant(s, first) == MoveOn(s, first, Got(s))

-----------------------------------------------------------------------------
(* load_brief, script, verify_script and direction                         *)

\* Agents are asked and their output stored under keys of the stage, so a retry
\* stores nothing new.  A script that is rejected raises.
Prepare(s) ==
  /\ At(s, "prepare")
  /\ Go(s, "ret") \/ (wf = "verify_script" /\ Raise(s))
  /\ UNCHANGED <<request, provider, records, job>>

-----------------------------------------------------------------------------
(* salience.creative.authorize                                             *)

PlanEffect(s) ==
  /\ At(s, "au_plan") /\ Go(s, "au_reserve")
  /\ effect' = [effect EXCEPT ![On(s)] = IF @ = "none" THEN "planned" ELSE @]
  /\ UNCHANGED <<request, provider, reservation, row, asked, hooks, products, job>>

\* reserve_for_effect.  A stored reservation is returned as it is.
Reserve(s) ==
  /\ At(s, "au_reserve") /\ MoveOn(s, "au_plan", "reserved")
  /\ reservation' = [reservation EXCEPT ![On(s)] = IF @ = "none" THEN "reserved" ELSE @]
  /\ UNCHANGED <<request, provider, effect, row, asked, hooks, products, job>>

\* The variants this attempt has reserved for.
Reserved(s) == {v \in Variants : att[s].got[v] = "reserved"}

\* BudgetExceeded: the budget is closed, or other jobs left too little of it.
Refuse(s) ==
  /\ At(s, "au_reserve")
  /\ att' = [att EXCEPT ![s].at = IF Reserved(s) = {} THEN "ret" ELSE "au_release",
                        ![s].out = "denied"]
  /\ UNCHANGED <<request, provider, records, job, control>>

ReleaseUnused(v) ==
  reservation' = [reservation EXCEPT
    ![v] = IF @ \in {"reserved", "pending_actual"} THEN "released" ELSE @]

\* Then the ones reserved so far are released, in their order.
ReleaseEarlier(s) ==
  /\ At(s, "au_release")
  /\ \E v \in Reserved(s) :
       /\ \A u \in Reserved(s) : v <= u
       /\ ReleaseUnused(v)
       /\ att' = [att EXCEPT ![s].got[v] = "none",
                             ![s].at = IF Reserved(s) = {v} THEN "ret" ELSE @]
  /\ UNCHANGED <<request, provider, effect, row, asked, hooks, products, job, control>>

-----------------------------------------------------------------------------
(* salience.creative.submit_or_reconcile                                   *)

\* provider_job_for_creative: a job that is on record is only looked at.
LookUp(s) ==
  /\ At(s, "sb_look")
  /\ Go(s, IF row[On(s)] # "none" THEN "sb_status" ELSE "sb_claim")
  /\ UNCHANGED <<request, provider, records, job>>

Review(s) ==
  /\ At(s, "sb_status") /\ Learn(s, "sb_record", remote[On(s)])
  /\ UNCHANGED <<request, provider, records, job>>

ClaimableAgain(v) == effect[v] \in {"planned", "submitting"}             \* mutant
Claimable(v) == effect[v] = "planned"

BeginEffectSubmission(s) ==
  /\ At(s, "sb_claim")
  /\ IF Claimable(On(s))
     THEN Go(s, "sb_call") /\ effect' = [effect EXCEPT ![On(s)] = "submitting"]
     ELSE Go(s, "sb_reconcile") /\ UNCHANGED effect
  /\ UNCHANGED <<request, provider, reservation, row, asked, hooks, products, job>>

Submit(s) ==
  LET v == On(s) IN
  /\ At(s, "sb_call") /\ Learn(s, "sb_record", "submitted")
  /\ creates' = [creates EXCEPT ![v] = @ + 1]
  /\ remote' = [remote EXCEPT ![v] = IF @ = "none" THEN "submitted" ELSE @]
  /\ reported' = reported \cup {<<v, "submitted">>}
  /\ UNCHANGED <<request, records, job>>

\* A provider that does not know the key answers None, which raises.
Reconcile(s) ==
  /\ At(s, "sb_reconcile")
  /\ IF remote[On(s)] # "none" THEN Learn(s, "sb_record", remote[On(s)]) ELSE Raise(s)
  /\ UNCHANGED <<request, provider, records, job>>

\* record_provider_job: ON CONFLICT ... SET state = EXCLUDED.state.
\* attach_provider_job only links rows, and is left out.
RecordProviderJob(s) ==
  /\ At(s, "sb_record") /\ Go(s, "sb_complete")
  /\ row' = [row EXCEPT ![On(s)] = Got(s)]
  /\ UNCHANGED <<request, provider, effect, reservation, asked, hooks, products, job>>

CompleteEffect(s) ==
  /\ At(s, "sb_complete") /\ NextVariant(s, "sb_look")
  /\ effect' = [effect EXCEPT ![On(s)] = "completed"]
  /\ UNCHANGED <<request, provider, reservation, row, asked, hooks, products, job>>

-----------------------------------------------------------------------------
(* The provider job's row                                                  *)

Transitions == [submitted |-> {"running"} \cup Terminal, running |-> Terminal]
CanMove(v, state) ==
  \/ state = row[v]
  \/ row[v] \in DOMAIN Transitions /\ state \in Transitions[row[v]]

\* transition_provider_job, which raises when the table does not allow it.
Transition(v, state) == CanMove(v, state) /\ row' = [row EXCEPT ![v] = state]

\* An attempt's transaction that moves the row and goes on, or raises.
MoveRow(s, state, goOn) ==
  \/ Transition(On(s), state) /\ goOn
  \/ ~CanMove(On(s), state) /\ Raise(s) /\ UNCHANGED row

-----------------------------------------------------------------------------
(* salience.creative.await_provider                                        *)

\* get_status of the variant's job, and what follows from the answer.
PollStatus(s) ==
  LET v     == On(s)
      state == remote[v]
      last  == att[s].try >= MaxAttempts IN
  /\ At(s, "aw_status")
  /\ Learn(s, IF state \in Live
              THEN IF att[s].polls[v] + 1 > MaxPolls THEN "aw_bury" ELSE "aw_wait"
              ELSE IF state = "completed" THEN "aw_done"
              ELSE IF last THEN "aw_bury" ELSE "aw_retry", state)
  /\ UNCHANGED <<request, provider, records, job>>

\* ProviderResponseError: rate limited or unavailable.
ProviderError(s) ==
  /\ At(s, "aw_status") /\ faults < MaxFaults
  /\ faults' = faults + 1
  /\ att' = [att EXCEPT ![s].at = "aw_retry"]
  /\ UNCHANGED <<request, provider, records, job, wf, cancelReq, tries, payload, cur>>

KeepWaiting(s) ==
  /\ At(s, "aw_wait") /\ MoveRow(s, Got(s), NextVariant(s, "aw_status"))
  /\ UNCHANGED <<request, provider, effect, reservation, asked, hooks, products, job>>

\* The row is set to running with a failure class, and the attempt raises.
MarkRetry(s) ==
  /\ At(s, "aw_retry") /\ Raise(s)
  /\ Transition(On(s), "running") \/ (~CanMove(On(s), "running") /\ UNCHANGED row)
  /\ UNCHANGED <<request, provider, effect, reservation, asked, hooks, products, job>>

\* _dead_letter_provider and _retry_or_dead_letter_provider: the row, then the
\* job, then an error that is not retried.
Bury(s) ==
  /\ At(s, "aw_bury") /\ MoveRow(s, "dead_lettered", Go(s, "aw_letter"))
  /\ UNCHANGED <<request, provider, effect, reservation, asked, hooks, products, job>>

DeadLetter(s) ==
  /\ At(s, "aw_letter") /\ Go(s, "aw_fatal")
  /\ job' = "dead_lettered"
  /\ UNCHANGED <<request, provider, records>>

FailWorkflow(s) ==
  /\ At(s, "aw_fatal") /\ RaiseAs(s, TRUE)
  /\ UNCHANGED <<request, provider, records, job, faults>>

RecordCompletion(s) ==
  /\ At(s, "aw_done") /\ MoveRow(s, "completed", Go(s, "aw_settle"))
  /\ UNCHANGED <<request, provider, effect, reservation, asked, hooks, products, job>>

\* record_actual_usage: mark_pending_actual or settle.
Usage(v) ==
  IF reservation[v] \notin {"reserved", "pending_actual"} THEN reservation[v]
  ELSE CASE cost = "unknown" -> "pending_actual"
         [] cost = "within"  -> "settled"
         [] cost = "over"    -> "overage_pending_approval"

\* Only a settled cost lets the variant go on.
Settle(s) ==
  /\ At(s, "aw_settle")
  /\ reservation' = [reservation EXCEPT ![On(s)] = Usage(On(s))]
  /\ IF Usage(On(s)) = "settled" THEN NextVariant(s, "aw_status") ELSE Raise(s)
  /\ UNCHANGED <<request, provider, effect, row, asked, hooks, products, job>>

-----------------------------------------------------------------------------
(* import_validate, distribute, final_gate and complete                    *)

\* Only what the provider has completed can be downloaded.
ImportPrimary(s) ==                                                      \* mutant
  /\ At(s, "im_store") /\ Go(s, "ret")
  /\ remote[On(s)] = "completed" /\ assets' = assets \cup {On(s)}
  /\ UNCHANGED <<request, provider, effect, reservation, row, asked, hooks, distributed,
                 package, job>>
Import(s) ==
  /\ At(s, "im_store")
  /\ IF remote[On(s)] = "completed"
     THEN NextVariant(s, "im_store") /\ assets' = assets \cup {On(s)}
     ELSE Raise(s) /\ UNCHANGED assets
  /\ UNCHANGED <<request, provider, effect, reservation, row, asked, hooks, distributed,
                 package, job>>

\* build_distribution; its rights, platform and originality checks may refuse.
Distribute(s) ==
  /\ At(s, "distribute")
  /\ \/ Go(s, "ret") /\ distributed' = TRUE
     \/ Raise(s) /\ UNCHANGED distributed
  /\ UNCHANGED <<request, provider, effect, reservation, row, asked, hooks, assets, package,
                 job>>

\* finalize_ready_package; its rights, disclosure and claim checks may refuse.
FinalGate(s) ==
  /\ At(s, "final_gate")
  /\ \/ distributed /\ Go(s, "ret") /\ package' = TRUE
     \/ Raise(s) /\ UNCHANGED package
  /\ UNCHANGED <<request, provider, effect, reservation, row, asked, hooks, assets,
                 distributed, job>>

Conclude(s, at, state) ==
  /\ At(s, at) /\ Go(s, "ret")
  /\ job' = state
  /\ UNCHANGED <<request, provider, records>>
Complete(s) == Conclude(s, "cp_job", "succeeded")
Deny(s)     == Conclude(s, "dn_job", "denied")

-----------------------------------------------------------------------------
(* salience.creative.cancel                                                *)

\* On to the next variant, or to the job.
CancelNext(s, first) ==
  /\ att' = [att EXCEPT ![s].at = IF On(s) < MaxVariants THEN first ELSE "cn_job",
                        ![s].on = IF @ < MaxVariants THEN @ + 1 ELSE @]
  /\ UNCHANGED control

\* request_provider_cancellation.
AskNothing(s) ==                                                         \* mutant
  /\ At(s, "cn_ask") /\ Go(s, "cn_status")
  /\ UNCHANGED <<request, provider, records, job>>
AskProvider(s) ==
  /\ At(s, "cn_ask") /\ Go(s, "cn_status")
  /\ asked' = IF row[On(s)] \in Terminal THEN asked ELSE asked \cup {On(s)}
  /\ UNCHANGED <<request, provider, effect, reservation, row, hooks, products, job>>

CancelStatus(s) ==
  LET state == remote[On(s)] IN
  /\ At(s, "cn_status")
  /\ Learn(s, IF state \in Live THEN "cn_call" ELSE "cn_move", state)
  /\ UNCHANGED <<request, provider, records, job>>

\* The provider cancels whatever state the job has come to meanwhile.
CancelRemote(s) ==
  LET v == On(s) IN
  /\ At(s, "cn_call") /\ Learn(s, "cn_move", "cancelled")
  /\ remote' = [remote EXCEPT ![v] = "cancelled"]
  /\ reported' = reported \cup {<<v, "cancelled">>}
  /\ UNCHANGED <<request, creates, records, job>>

RecordCancelled(s) ==
  /\ At(s, "cn_move") /\ MoveRow(s, Got(s), Go(s, "cn_cost"))
  /\ UNCHANGED <<request, provider, effect, reservation, asked, hooks, products, job>>

\* What a cancelled job has cost is settled; for a released one that raises.
SettleCancelled(s) ==
  LET v == On(s) IN
  /\ At(s, "cn_cost")
  /\ reservation' = [reservation EXCEPT ![v] = Usage(v)]
  /\ IF reservation[v] = "released" /\ cost # "unknown" THEN Raise(s)
     ELSE CancelNext(s, "cn_ask")
  /\ UNCHANGED <<request, provider, effect, row, asked, hooks, products, job>>

ReleaseSkipped(s) ==                                                     \* mutant
  /\ At(s, "cn_release") /\ Go(s, "cn_job")
  /\ UNCHANGED <<request, provider, records, job>>
ReleaseCancelled(s) ==
  /\ At(s, "cn_release") /\ CancelNext(s, "cn_release")
  /\ ReleaseUnused(On(s))
  /\ UNCHANGED <<request, provider, effect, row, asked, hooks, products, job>>

Cancel(s) == Conclude(s, "cn_job", "cancelled")

-----------------------------------------------------------------------------
(* The provider and its webhooks                                           *)

\* The provider works on a job, and completes or fails it.  (The fixture does so
\* when it is polled.)
Advance(v) ==
  \E state \in IF remote[v] = "submitted" THEN {"running"} ELSE {"completed", "failed"} :
    /\ remote[v] \in Live
    /\ remote' = [remote EXCEPT ![v] = state]
    /\ reported' = reported \cup {<<v, state>>}
    /\ UNCHANGED <<request, creates, records, job, control, att>>

\* A verified webhook tells any state its job has been in, late or again.  Its
\* receipt is one transaction; a job that is not on record is refused.
ReceiveWebhook(v, state) ==
  /\ state \in Webhooks /\ <<v, state>> \in reported /\ row[v] # "none"
  /\ hooks' = hooks \cup {<<v, state>>}
  /\ UNCHANGED <<request, provider, effect, reservation, row, asked, products, job, control,
                 att>>

\* The transition is another one, which may be refused, or never come.
ApplyWebhook(v, state) ==
  /\ <<v, state>> \in hooks
  /\ hooks' = hooks \ {<<v, state>>}
  /\ Transition(v, state) \/ UNCHANGED row
  /\ UNCHANGED <<request, provider, effect, reservation, asked, products, job, control, att>>

-----------------------------------------------------------------------------
(* The specification                                                       *)

Authorize(s) == PlanEffect(s) \/ Reserve(s) \/ Refuse(s) \/ ReleaseEarlier(s)
SubmitOrReconcile(s) ==
  \/ LookUp(s) \/ Review(s) \/ BeginEffectSubmission(s) \/ Submit(s) \/ Reconcile(s)
  \/ RecordProviderJob(s) \/ CompleteEffect(s)
AwaitProvider(s) ==
  \/ PollStatus(s) \/ KeepWaiting(s) \/ MarkRetry(s) \/ Bury(s) \/ DeadLetter(s)
  \/ FailWorkflow(s) \/ RecordCompletion(s) \/ Settle(s)
Finish(s) == Import(s) \/ Distribute(s) \/ FinalGate(s) \/ Complete(s) \/ Deny(s)
CancelProduction(s) ==
  \/ AskProvider(s) \/ CancelStatus(s) \/ CancelRemote(s) \/ RecordCancelled(s)
  \/ SettleCancelled(s) \/ ReleaseCancelled(s) \/ Cancel(s)
AttemptStep(s) ==
  \/ Prepare(s) \/ Authorize(s) \/ SubmitOrReconcile(s) \/ AwaitProvider(s)
  \/ Finish(s) \/ CancelProduction(s) \/ Return(s)

Next ==
  \/ RequestCancellation \/ TimeOut
  \/ \E s \in Slots : Dispatch(s) \/ Fail(s) \/ ProviderError(s) \/ AttemptStep(s)
  \/ \E v \in Variants :
       \/ Advance(v)
       \/ \E state \in Live \cup Terminal : ReceiveWebhook(v, state) \/ ApplyWebhook(v, state)

\* Temporal keeps dispatching an open stage, and code that runs goes on.  The
\* provider, its webhooks and whoever cancels owe nothing.
Fairness ==
  /\ WF_vars(\E s \in Slots : Dispatch(s))
  /\ \A s \in Slots : WF_vars(AttemptStep(s))

Spec == Init /\ [][Next]_vars /\ Fairness

-----------------------------------------------------------------------------
(* Properties                                                              *)

ProviderStates == {"none"} \cup Live \cup Terminal

\* Rows, provider jobs, the workflow and its attempts keep their types.
TypeOK ==
  /\ dryRun \in BOOLEAN /\ permitted \in BOOLEAN /\ cost \in Costs
  /\ remote \in [Variants -> ProviderStates \ {"dead_lettered"}]
  /\ creates \in [Variants -> Nat]
  /\ reported \subseteq Variants \X (Live \cup Terminal)
  /\ effect \in [Variants -> {"none", "planned", "submitting", "completed"}]
  /\ reservation \in [Variants -> {"none", "reserved", "pending_actual", "settled",
                                   "released", "overage_pending_approval"}]
  /\ row \in [Variants -> ProviderStates]
  /\ asked \subseteq Variants /\ assets \subseteq Variants /\ hooks \subseteq reported
  /\ distributed \in BOOLEAN /\ package \in BOOLEAN
  /\ job \in {"running", "succeeded", "denied", "cancelled", "dead_lettered"}
  /\ wf \in Stages \cup Ended /\ cancelReq \in BOOLEAN /\ tries \in Nat
  /\ payload \in [has : {"nothing", "reservations", "jobs"},
                   state : ProviderStates \cup {"dry_run"}, polls : [Variants -> Nat]]
  /\ cur \in Slots \cup {NoSlot} /\ faults \in 0..MaxFaults
  /\ att \in [Slots -> [at : PCs, on : Variants,
                        got : [Variants -> ProviderStates \cup {"reserved"}],
                        try : Nat, polls : [Variants -> Nat], out : {"ok", "denied"}]]

\* Every variant's effect is an at-most-once effect: "reusing the canonical
\* provider job rather than submitting duplicate work".
VariantEffect(v) == INSTANCE AtMostOnceEffect WITH status <- effect[v], sends <- creates[v]
EffectsAreAtMostOnce ==
  /\ \A v \in Variants : VariantEffect(v)!Init
  /\ [][\A v \in Variants :
          [VariantEffect(v)!Next]_<<effect[v], creates[v]>>]_<<effect, creates>>

\* While attempts do not overlap the job's final state tells the truth: a success
\* has its package, a denied or dry run has submitted nothing, and a cancelled or
\* dead-lettered one has no package.
JobStateIsTruthful ==
  /\ job = "succeeded" => package \/ dryRun
  /\ job = "denied" \/ dryRun => \A v \in Variants : creates[v] = 0
  /\ job \in {"denied", "cancelled", "dead_lettered"} => ~package

\* A cancelled production leaves nothing behind: no variant is still worked on at
\* the provider, and none still holds reserved money.
CancelledLeavesNothing ==
  job = "cancelled" =>
    \A v \in Variants : remote[v] \notin Live /\ reservation[v] # "reserved"

\* A package stands for every variant: submitted once, on record, completed by the
\* provider and imported.
PackageIsWhole ==
  package =>
    \A v \in Variants :
      /\ creates[v] = 1 /\ effect[v] = "completed"
      /\ remote[v] = "completed" /\ v \in assets

\* The provider is told to cancel only after the request to do so is on record.
CancellationIsOnRecord == \A v \in Variants : remote[v] = "cancelled" => v \in asked

\* A variant is submitted under a reservation that was released.
SubmittedReleased(v) == creates[v] > 0 /\ reservation[v] = "released"

\* The provider's answer and the row have come to different ends: a webhook, or an
\* attempt given up, moved the row after the cancellation had read the job live.
EndsDiffer(v) == {remote[v], row[v]} \subseteq Terminal /\ remote[v] # row[v]

\* Once started a production ends: its polls, retries and cancellations are not
\* endless.  Only cancel can raise for ever, and only over a variant submitted under
\* a released reservation, whose cost cannot be settled, or over one whose row has
\* come to another end than the provider's job, which refuses the transition.
ProductionEnds ==
  \/ <>(wf \in Ended)
  \/ <>[](wf = "cancel" /\ \E v \in Variants : SubmittedReleased(v) \/ EndsDiffer(v))

\* "Each bounded provider effect reserves estimated cost before submission"
\* (README.md): what is submitted is not covered by a released reservation.
SubmittedIsReserved == \A v \in Variants : ~SubmittedReleased(v)

\* "... and settles actual cost once before a ready package can be created".
PackageIsPaid == package => \A v \in Variants : reservation[v] = "settled"

\* "Rejects rewrites from terminal states" (docs/implementation-progress.md): what
\* a provider job has come to is not taken back.
TerminalRowStays == [][\A v \in Variants : row[v] \in Terminal => row'[v] = row[v]]_row

=============================================================================
