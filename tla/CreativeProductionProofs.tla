---------------------- MODULE CreativeProductionProofs ----------------------
(***************************************************************************)
(* For any number of attempts, polls and faults, with late attempts,       *)
(* cancellations and webhooks: the effect of each variant is an            *)
(* at-most-once effect; a package is whole; a cancelled production leaves  *)
(* nothing behind; the provider is told to cancel only what is on record;  *)
(* and the job's state tells the truth of what was submitted and packaged, *)
(* but for dead letters, which do while attempts do not overlap.           *)
(***************************************************************************)
EXTENDS CreativeProduction, TLAPS

-----------------------------------------------------------------------------
(* The inductive invariant                                                 *)

AttemptFields == {"at", "on", "got", "try", "polls", "out"}
IsAttempt(a) == DOMAIN a = AttemptFields /\ a.on \in Variants

Shape ==
  /\ effect \in [Variants -> {"none", "planned", "submitting", "completed"}]
  /\ creates \in [Variants -> {0, 1}]
  /\ DOMAIN row = Variants /\ DOMAIN remote = Variants
  /\ DOMAIN att = Slots /\ \A s \in Slots : IsAttempt(att[s])

\* What was sent was claimed; what is complete was sent; and neither a row nor a
\* job at the provider exists of what was not sent.
Sent ==
  \A v \in Variants :
    /\ creates[v] = 1 => effect[v] \in {"submitting", "completed"}
    /\ effect[v] = "completed" => creates[v] = 1
    /\ row[v] # "none" \/ remote[v] # "none" => creates[v] = 1

\* Steps of an attempt that stand behind the submission of its variant
Behind == {"sb_status", "sb_record", "sb_complete", "cn_call"}

\* An attempt between claim and call has the claim to itself, and nothing was sent.
Placed ==
  \A s \in Slots :
    /\ att[s].at = "sb_call"
         => /\ effect[att[s].on] = "submitting" /\ creates[att[s].on] = 0
            /\ \A t \in Slots \ {s} : att[t].at = "sb_call" => att[t].on # att[s].on
    /\ att[s].at \in Behind => creates[att[s].on] = 1

Inv == Shape /\ Sent /\ Placed

-----------------------------------------------------------------------------
(* Where an attempt goes                                                   *)

\* Attempt s becomes a; all others stay.
Becomes(s, a) == IsAttempt(a) /\ att' = [att EXCEPT ![s] = a]

\* It stands neither before a submission nor behind one.
Apart(s) == \E a : Becomes(s, a) /\ a.at \notin Behind \cup {"sb_call"}

LEMMA VariantsGoOn ==
  /\ 1 \in Variants
  /\ \A v \in Variants : v < MaxVariants => v + 1 \in Variants
  BY VariantAssumption DEF Variants

LEMMA IdleApart == IsAttempt(Idle) /\ Idle.at = "idle"
  BY VariantsGoOn DEF IsAttempt, Idle, AttemptFields

LEMMA GoBecomes ==
  ASSUME Shape, NEW s \in Slots, NEW to, NEW state
  PROVE  /\ Go(s, to) => \E a : Becomes(s, a) /\ a.at = to /\ a.on = att[s].on
         /\ Learn(s, to, state) => \E a : Becomes(s, a) /\ a.at = to /\ a.on = att[s].on
<1> DEFINE a == [att[s] EXCEPT !.at = to]
           b == [att[s] EXCEPT !.at = to, !.got[On(s)] = state]
<1>1. IsAttempt(a) /\ a.at = to /\ a.on = att[s].on
  BY DEF Shape, IsAttempt, AttemptFields
<1>2. IsAttempt(b) /\ b.at = to /\ b.on = att[s].on
  BY DEF Shape, IsAttempt, AttemptFields
<1>3. Go(s, to) => att' = [att EXCEPT ![s] = a]
  BY DEF Go, Shape
<1>4. Learn(s, to, state) => att' = [att EXCEPT ![s] = b]
  BY DEF Learn, Shape
<1> HIDE DEF a, b
<1> QED BY <1>1, <1>2, <1>3, <1>4 DEF Becomes

LEMMA NextBecomes ==
  ASSUME Shape, NEW s \in Slots, NEW first, NEW state
  PROVE  /\ MoveOn(s, first, state) => \E a : Becomes(s, a) /\ a.at \in {first, "ret"}
         /\ CancelNext(s, first) => \E a : Becomes(s, a) /\ a.at \in {first, "cn_job"}
<1> DEFINE on == IF att[s].on < MaxVariants THEN att[s].on + 1 ELSE att[s].on
           at(end) == IF att[s].on < MaxVariants THEN first ELSE end
           a == [att[s] EXCEPT !.at = at("ret"), !.on = on, !.got[On(s)] = state]
           b == [att[s] EXCEPT !.at = at("cn_job"), !.on = on]
<1>1. on \in Variants
  BY VariantsGoOn DEF Shape, IsAttempt
<1>2. MoveOn(s, first, state) => att' = [att EXCEPT ![s] = a]
  <2>1. s \in DOMAIN att /\ DOMAIN att[s] = AttemptFields
    BY DEF Shape, IsAttempt
  <2> QED BY <2>1 DEF MoveOn, On, AttemptFields
<1>3. CancelNext(s, first) => att' = [att EXCEPT ![s] = b]
  <2>1. s \in DOMAIN att /\ DOMAIN att[s] = AttemptFields
    BY DEF Shape, IsAttempt
  <2> QED BY <2>1 DEF CancelNext, On, AttemptFields
<1>4. at("ret") \in {first, "ret"} /\ at("cn_job") \in {first, "cn_job"}
  OBVIOUS
<1> HIDE DEF on, at
<1>5. IsAttempt(a) /\ a.at = at("ret") /\ IsAttempt(b) /\ b.at = at("cn_job")
  BY <1>1 DEF Shape, IsAttempt, AttemptFields
<1> HIDE DEF a, b
<1> QED BY <1>2, <1>3, <1>4, <1>5 DEF Becomes

LEMMA RaiseApart ==
  ASSUME NEW s \in Slots, NEW fatal, RaiseAs(s, fatal) PROVE Apart(s)
  BY IdleApart DEF RaiseAs, Apart, Becomes, Behind

LEMMA InvInit == Init => Inv
<1> SUFFICES ASSUME Init PROVE Inv
  OBVIOUS
<1>1. \A s \in Slots : att[s] = Idle
  BY DEF Init
<1>2. Shape
  BY <1>1, IdleApart DEF Init, Shape
<1>3. Sent /\ Placed
  BY <1>1, IdleApart DEF Init, Sent, Placed, Behind
<1> QED BY <1>2, <1>3 DEF Inv

-----------------------------------------------------------------------------
(* Steps that claim, send and record nothing                               *)

Same == effect' = effect /\ creates' = creates

\* Rows and jobs may change where there are some already.
RowsStay ==
  /\ DOMAIN row' = Variants /\ DOMAIN remote' = Variants
  /\ \A v \in Variants : row'[v] # "none" \/ remote'[v] # "none" => creates[v] = 1

LEMMA SameInv ==
  ASSUME Inv, NEW s \in Slots, NEW a, Becomes(s, a), Same, RowsStay,
         a.at # "sb_call", a.at \in Behind => creates[a.on] = 1
  PROVE  Inv'
<1>1. att'[s] = a /\ \A t \in Slots \ {s} : att'[t] = att[t]
  BY DEF Inv, Shape, Becomes
<1>2. Shape'
  BY <1>1 DEF Inv, Shape, Becomes, Same, RowsStay
<1>3. Sent'
  BY DEF Inv, Sent, Same, RowsStay
<1>4. Placed'
  BY <1>1 DEF Inv, Placed, Same
<1> QED BY <1>2, <1>3, <1>4 DEF Inv

LEMMA ApartInv ==
  ASSUME Inv, NEW s \in Slots, Apart(s), Same, RowsStay PROVE Inv'
  BY SameInv DEF Apart

LEMMA RowsUnchanged == ASSUME Inv, row' = row, remote' = remote PROVE RowsStay
  BY DEF Inv, Shape, Sent, RowsStay

LEMMA TransitionStays ==
  ASSUME Inv, NEW v \in Variants, NEW state, Transition(v, state), remote' = remote
  PROVE  RowsStay
<1>1. row[v] = "none" => state = "none"
  BY DEF Transition, CanMove, Transitions
<1> QED BY <1>1 DEF Transition, Inv, Shape, Sent, RowsStay

LEMMA GoApart ==
  ASSUME Shape, NEW s \in Slots, NEW to, to \notin Behind \cup {"sb_call"}, NEW state,
         Go(s, to) \/ Learn(s, to, state)
  PROVE  Apart(s)
  BY GoBecomes DEF Apart

LEMMA NextApart ==
  ASSUME Shape, NEW s \in Slots, NEW first, first \notin Behind \cup {"sb_call"}, NEW state,
         MoveOn(s, first, state) \/ NextVariant(s, first) \/ CancelNext(s, first)
  PROVE  Apart(s)
<1>1. "ret" \notin Behind \cup {"sb_call"} /\ "cn_job" \notin Behind \cup {"sb_call"}
  BY DEF Behind
<1> QED BY <1>1, NextBecomes DEF Apart, NextVariant

-----------------------------------------------------------------------------
(* The steps of the stages                                                 *)

LEMMA DispatchInv == ASSUME Inv, NEW s \in Slots, Dispatch(s) PROVE Inv'
<1> DEFINE a == [Idle EXCEPT !.at = Entry(wf), !.try = tries', !.polls = payload.polls,
                             !.out = IF permitted THEN "ok" ELSE "denied"]
<1>1. wf \in Stages /\ att' = [att EXCEPT ![s] = a]
  BY DEF Dispatch
<1>2. Entry(wf) \notin Behind \cup {"sb_call"}
  BY <1>1 DEF Entry, FirstStep, Stages, BoundedStages, TerminalStages, Preparation, Behind
<1>3. IsAttempt(a) /\ a.at = Entry(wf)
  BY IdleApart DEF IsAttempt, AttemptFields
<1> HIDE DEF a
<1>4. Apart(s)
  BY <1>1, <1>2, <1>3 DEF Apart, Becomes
<1>5. Same /\ RowsStay
  BY RowsUnchanged DEF Dispatch, Same, records, provider
<1> QED BY <1>4, <1>5, ApartInv

LEMMA ReturnInv == ASSUME Inv, NEW s \in Slots, Return(s) PROVE Inv'
<1>1. Apart(s)
  BY IdleApart DEF Return, Apart, Becomes, Behind
<1>2. Same /\ RowsStay
  BY RowsUnchanged DEF Return, Same, records, provider
<1> QED BY <1>1, <1>2, ApartInv

LEMMA AuthorizeInv == ASSUME Inv, NEW s \in Slots, Prepare(s) \/ Authorize(s) PROVE Inv'
<1>1. Shape /\ att[s].on \in Variants
  BY DEF Inv, Shape, IsAttempt
<1>2. CASE Prepare(s)
  <2>1. Apart(s)
    BY <1>1, <1>2, GoApart, RaiseApart DEF Prepare, Raise, Behind
  <2> QED BY <1>2, <2>1, ApartInv, RowsUnchanged DEF Prepare, Same, records, provider
<1>3. CASE PlanEffect(s)
  <2>1. PICK a : Becomes(s, a) /\ a.at = "au_reserve"
    BY <1>1, <1>3, GoBecomes DEF PlanEffect
  <2>2. att'[s] = a /\ \A t \in Slots \ {s} : att'[t] = att[t]
    BY <1>1, <2>1 DEF Shape, Becomes
  <2>3. \A v \in Variants : effect'[v] = effect[v] \/ (effect[v] = "none" /\ effect'[v] = "planned")
    BY <1>1, <1>3 DEF PlanEffect, Shape, On
  <2>4. Shape'
    BY <1>1, <1>3, <2>1, <2>2 DEF Shape, PlanEffect, Becomes, provider, On
  <2>5. Sent'
    BY <1>3, <2>3 DEF Inv, Sent, PlanEffect, provider
  <2>6. Placed'
    BY <1>1, <1>3, <2>1, <2>2, <2>3 DEF Inv, Shape, IsAttempt, Placed, PlanEffect, provider, Behind
  <2> QED BY <2>4, <2>5, <2>6 DEF Inv
<1>4. CASE Reserve(s)
  <2>1. Apart(s)
    BY <1>1, <1>4, NextApart DEF Reserve, Behind
  <2> QED BY <1>4, <2>1, ApartInv, RowsUnchanged DEF Reserve, Same, provider
<1>5. CASE Refuse(s)
  <2> DEFINE at == IF Reserved(s) = {} THEN "ret" ELSE "au_release"
             a == [att[s] EXCEPT !.at = at, !.out = "denied"]
  <2>1. att' = [att EXCEPT ![s] = a] /\ at \in {"ret", "au_release"}
    BY <1>1, <1>5 DEF Refuse, Shape
  <2> HIDE DEF at
  <2>2. IsAttempt(a) /\ a.at = at
    BY <1>1 DEF Shape, IsAttempt, AttemptFields
  <2>3. Apart(s)
    BY <2>1, <2>2 DEF Apart, Becomes, Behind
  <2> QED BY <1>5, <2>3, ApartInv, RowsUnchanged DEF Refuse, Same, records, provider
<1>6. CASE ReleaseEarlier(s)
  <2>1. PICK v : att' = [att EXCEPT ![s].got[v] = "none",
                                    ![s].at = IF Reserved(s) = {v} THEN "ret" ELSE @]
    BY <1>6 DEF ReleaseEarlier
  <2> DEFINE at == IF Reserved(s) = {v} THEN "ret" ELSE att[s].at
             a == [att[s] EXCEPT !.got[v] = "none", !.at = at]
  <2>2. att' = [att EXCEPT ![s] = a] /\ at \in {"ret", "au_release"}
    BY <1>1, <1>6, <2>1 DEF ReleaseEarlier, At, Shape, IsAttempt, AttemptFields
  <2> HIDE DEF at
  <2>3. IsAttempt(a) /\ a.at = at
    BY <1>1 DEF Shape, IsAttempt, AttemptFields
  <2>4. Apart(s)
    BY <2>2, <2>3 DEF Apart, Becomes, Behind
  <2> QED BY <1>6, <2>4, ApartInv, RowsUnchanged DEF ReleaseEarlier, Same, provider
<1> QED BY <1>2, <1>3, <1>4, <1>5, <1>6 DEF Authorize

LEMMA AwaitInv == ASSUME Inv, NEW s \in Slots, AwaitProvider(s) PROVE Inv'
<1>1. Shape /\ att[s].on \in Variants
  BY DEF Inv, Shape, IsAttempt
<1>2. CASE PollStatus(s)
  <2>1. Apart(s)
    BY <1>1, <1>2, GoApart DEF PollStatus, Behind
  <2> QED BY <1>2, <2>1, ApartInv, RowsUnchanged DEF PollStatus, Same, records, provider
<1>3. CASE KeepWaiting(s)
  <2>1. RowsStay
    BY <1>1, <1>3, TransitionStays, RowsUnchanged DEF KeepWaiting, MoveRow, provider, On
  <2>2. Apart(s)
    BY <1>1, <1>3, RaiseApart, NextApart DEF KeepWaiting, MoveRow, Raise, Behind
  <2> QED BY <1>3, <2>1, <2>2, ApartInv DEF KeepWaiting, Same, provider
<1>4. CASE MarkRetry(s)
  <2>1. Apart(s) /\ RowsStay
    BY <1>1, <1>4, RaiseApart, TransitionStays, RowsUnchanged DEF MarkRetry, Raise, provider, On
  <2> QED BY <1>4, <2>1, ApartInv DEF MarkRetry, Same, provider
<1>5. CASE Bury(s)
  <2>1. RowsStay
    BY <1>1, <1>5, TransitionStays, RowsUnchanged DEF Bury, MoveRow, provider, On
  <2>2. Apart(s)
    BY <1>1, <1>5, RaiseApart, GoApart DEF Bury, MoveRow, Raise, Behind
  <2> QED BY <1>5, <2>1, <2>2, ApartInv DEF Bury, Same, provider
<1>6. CASE RecordCompletion(s)
  <2>1. RowsStay
    BY <1>1, <1>6, TransitionStays, RowsUnchanged DEF RecordCompletion, MoveRow, provider, On
  <2>2. Apart(s)
    BY <1>1, <1>6, RaiseApart, GoApart DEF RecordCompletion, MoveRow, Raise, Behind
  <2> QED BY <1>6, <2>1, <2>2, ApartInv DEF RecordCompletion, Same, provider
<1>7. CASE DeadLetter(s)
  <2>1. Apart(s)
    BY <1>1, <1>7, GoApart DEF DeadLetter, Behind
  <2> QED BY <1>7, <2>1, ApartInv, RowsUnchanged DEF DeadLetter, Same, records, provider
<1>8. CASE FailWorkflow(s)
  <2>1. Apart(s)
    BY <1>8, RaiseApart DEF FailWorkflow
  <2> QED BY <1>8, <2>1, ApartInv, RowsUnchanged DEF FailWorkflow, Same, records, provider
<1>9. CASE Settle(s)
  <2>1. Apart(s)
    BY <1>1, <1>9, RaiseApart, NextApart DEF Settle, Raise, Behind
  <2> QED BY <1>9, <2>1, ApartInv, RowsUnchanged DEF Settle, Same, provider
<1> QED BY <1>2, <1>3, <1>4, <1>5, <1>6, <1>7, <1>8, <1>9 DEF AwaitProvider

LEMMA FinishInv == ASSUME Inv, NEW s \in Slots, Finish(s) PROVE Inv'
<1>1. Shape
  BY DEF Inv
<1>2. Apart(s)
  <2>1. CASE Import(s)
    BY <1>1, <2>1, RaiseApart, NextApart DEF Import, Raise, Behind
  <2>2. CASE Distribute(s) \/ FinalGate(s)
    BY <1>1, <2>2, RaiseApart, GoApart DEF Distribute, FinalGate, Raise, Behind
  <2>3. CASE Complete(s) \/ Deny(s)
    BY <1>1, <2>3, GoApart DEF Complete, Deny, Conclude, Behind
  <2> QED BY <2>1, <2>2, <2>3 DEF Finish
<1>3. Same /\ row' = row /\ remote' = remote
  BY DEF Finish, Import, Distribute, FinalGate, Complete, Deny, Conclude, Same, records, provider
<1> QED BY <1>2, <1>3, ApartInv, RowsUnchanged

LEMMA SubmitInv == ASSUME Inv, NEW s \in Slots, SubmitOrReconcile(s) PROVE Inv'
<1> DEFINE v == att[s].on
<1>1. Shape /\ v \in Variants /\ creates[v] \in {0, 1}
  BY DEF Inv, Shape, IsAttempt
<1>2. CASE LookUp(s)
  <2> DEFINE to == IF row[v] # "none" THEN "sb_status" ELSE "sb_claim"
  <2>1. PICK a : Becomes(s, a) /\ a.at = to /\ a.on = v
    BY <1>1, <1>2, GoBecomes DEF LookUp, On
  <2>2. a.at # "sb_call" /\ (a.at \in Behind => creates[a.on] = 1)
    BY <1>1, <2>1 DEF Inv, Sent, Behind
  <2> QED BY <1>2, <2>1, <2>2, SameInv, RowsUnchanged DEF LookUp, Same, records, provider
<1>3. CASE Review(s)
  <2>1. PICK a : Becomes(s, a) /\ a.at = "sb_record" /\ a.on = v
    BY <1>1, <1>3, GoBecomes DEF Review
  <2>2. creates[v] = 1
    BY <1>3 DEF Inv, Placed, Review, At, Behind
  <2> QED BY <1>3, <2>1, <2>2, SameInv, RowsUnchanged DEF Review, Same, records, provider
<1>4. CASE BeginEffectSubmission(s) /\ ~Claimable(v)
  <2>1. Apart(s) /\ effect' = effect
    BY <1>1, <1>4, GoApart DEF BeginEffectSubmission, On, Behind
  <2> QED BY <1>4, <2>1, ApartInv, RowsUnchanged DEF BeginEffectSubmission, Same, provider
<1>5. CASE BeginEffectSubmission(s) /\ Claimable(v)
  <2>1. PICK a : Becomes(s, a) /\ a.at = "sb_call" /\ a.on = v
    BY <1>1, <1>5, GoBecomes DEF BeginEffectSubmission, On
  <2>2. att'[s] = a /\ \A t \in Slots \ {s} : att'[t] = att[t]
    BY <1>1, <2>1 DEF Shape, Becomes
  <2>3. effect[v] = "planned" /\ creates[v] = 0
    BY <1>1, <1>5 DEF Claimable, Inv, Sent
  <2>4. /\ effect' = [effect EXCEPT ![v] = "submitting"] /\ creates' = creates
        /\ row' = row /\ remote' = remote
    BY <1>5 DEF BeginEffectSubmission, provider, On
  <2>5. Shape'
    BY <1>1, <2>1, <2>2, <2>4 DEF Shape, Becomes
  <2>6. Sent'
    BY <1>1, <2>3, <2>4 DEF Inv, Shape, Sent
  <2>7. Placed'
    BY <1>1, <2>1, <2>2, <2>3, <2>4 DEF Inv, Shape, IsAttempt, Placed, Behind
  <2> QED BY <2>5, <2>6, <2>7 DEF Inv
<1>6. CASE Submit(s)
  <2>1. PICK a : Becomes(s, a) /\ a.at = "sb_record" /\ a.on = v
    BY <1>1, <1>6, GoBecomes DEF Submit
  <2>2. att'[s] = a /\ \A t \in Slots \ {s} : att'[t] = att[t]
    BY <1>1, <2>1 DEF Shape, Becomes
  <2>3. effect[v] = "submitting" /\ creates[v] = 0
    BY <1>6 DEF Submit, At, Inv, Placed
  <2>4. /\ effect' = effect /\ row' = row /\ creates' = [creates EXCEPT ![v] = 1]
        /\ DOMAIN remote' = Variants /\ \A u \in Variants \ {v} : remote'[u] = remote[u]
    BY <1>1, <1>6, <2>3 DEF Submit, records, Shape, On
  <2>5. Shape'
    BY <1>1, <2>1, <2>2, <2>4 DEF Shape, Becomes
  <2>6. Sent'
    BY <1>1, <2>3, <2>4 DEF Inv, Shape, Sent
  <2>7. Placed'
    BY <1>1, <1>6, <2>1, <2>2, <2>3, <2>4 DEF Inv, Shape, IsAttempt, Placed, Behind, Submit, At
  <2> QED BY <2>5, <2>6, <2>7 DEF Inv
<1>7. CASE Reconcile(s) /\ remote[v] # "none"
  <2>1. PICK a : Becomes(s, a) /\ a.at = "sb_record" /\ a.on = v
    BY <1>1, <1>7, GoBecomes DEF Reconcile, On
  <2>2. creates[v] = 1
    BY <1>1, <1>7 DEF Inv, Sent
  <2> QED BY <1>7, <2>1, <2>2, SameInv, RowsUnchanged DEF Reconcile, Same, records, provider
<1>8. CASE Reconcile(s) /\ remote[v] = "none"
  <2>1. Apart(s)
    BY <1>8, RaiseApart DEF Reconcile, Raise, On
  <2> QED BY <1>8, <2>1, ApartInv, RowsUnchanged DEF Reconcile, Same, records, provider
<1>9. CASE RecordProviderJob(s)
  <2>1. PICK a : Becomes(s, a) /\ a.at = "sb_complete" /\ a.on = v
    BY <1>1, <1>9, GoBecomes DEF RecordProviderJob
  <2>2. creates[v] = 1
    BY <1>9 DEF Inv, Placed, RecordProviderJob, At, Behind
  <2>3. RowsStay
    BY <1>1, <1>9, <2>2 DEF RecordProviderJob, RowsStay, Inv, Shape, Sent, provider, On
  <2> QED BY <1>9, <2>1, <2>2, <2>3, SameInv DEF RecordProviderJob, Same, provider
<1>10. CASE CompleteEffect(s)
  <2>1. PICK a : Becomes(s, a) /\ a.at \in {"sb_look", "ret"}
    BY <1>1, <1>10, NextBecomes DEF CompleteEffect, NextVariant
  <2>2. att'[s] = a /\ \A t \in Slots \ {s} : att'[t] = att[t]
    BY <1>1, <2>1 DEF Shape, Becomes
  <2>3. creates[v] = 1
    BY <1>10 DEF Inv, Placed, CompleteEffect, At, Behind
  <2>4. /\ effect' = [effect EXCEPT ![v] = "completed"] /\ creates' = creates
        /\ row' = row /\ remote' = remote
    BY <1>10 DEF CompleteEffect, provider, On
  <2>5. Shape'
    BY <1>1, <2>1, <2>2, <2>4 DEF Shape, Becomes
  <2>6. Sent'
    BY <1>1, <2>3, <2>4 DEF Inv, Shape, Sent
  <2>7. Placed'
    BY <1>1, <2>1, <2>2, <2>3, <2>4 DEF Inv, Shape, IsAttempt, Placed, Behind
  <2> QED BY <2>5, <2>6, <2>7 DEF Inv
<1> QED
  BY <1>2, <1>3, <1>4, <1>5, <1>6, <1>7, <1>8, <1>9, <1>10 DEF SubmitOrReconcile

LEMMA CancelInv == ASSUME Inv, NEW s \in Slots, CancelProduction(s) PROVE Inv'
<1> DEFINE v == att[s].on
<1>1. Shape /\ v \in Variants
  BY DEF Inv, Shape, IsAttempt
<1>2. CASE AskProvider(s)
  <2>1. Apart(s)
    BY <1>1, <1>2, GoApart DEF AskProvider, Behind
  <2> QED BY <1>2, <2>1, ApartInv, RowsUnchanged DEF AskProvider, Same, provider
<1>3. CASE CancelStatus(s)
  <2> DEFINE to == IF remote[v] \in Live THEN "cn_call" ELSE "cn_move"
  <2>1. PICK a : Becomes(s, a) /\ a.at = to /\ a.on = v
    BY <1>1, <1>3, GoBecomes DEF CancelStatus, On
  <2>2. a.at # "sb_call" /\ (a.at \in Behind => creates[a.on] = 1)
    BY <1>1, <2>1 DEF Inv, Sent, Behind, Live
  <2> QED BY <1>3, <2>1, <2>2, SameInv, RowsUnchanged DEF CancelStatus, Same, records, provider
<1>4. CASE CancelRemote(s)
  <2>1. Apart(s)
    BY <1>1, <1>4, GoApart DEF CancelRemote, Behind
  <2>2. creates[v] = 1
    BY <1>4 DEF Inv, Placed, CancelRemote, At, Behind
  <2>3. RowsStay
    BY <1>1, <1>4, <2>2 DEF CancelRemote, RowsStay, Inv, Shape, Sent, records, On
  <2> QED BY <1>4, <2>1, <2>3, ApartInv DEF CancelRemote, Same, records
<1>5. CASE RecordCancelled(s)
  <2>1. RowsStay
    BY <1>1, <1>5, TransitionStays, RowsUnchanged DEF RecordCancelled, MoveRow, provider, On
  <2>2. Apart(s)
    BY <1>1, <1>5, RaiseApart, GoApart DEF RecordCancelled, MoveRow, Raise, Behind
  <2> QED BY <1>5, <2>1, <2>2, ApartInv DEF RecordCancelled, Same, provider
<1>6. CASE SettleCancelled(s)
  <2>1. Apart(s)
    BY <1>1, <1>6, RaiseApart, NextApart DEF SettleCancelled, Raise, Behind
  <2> QED BY <1>6, <2>1, ApartInv, RowsUnchanged DEF SettleCancelled, Same, provider
<1>7. CASE ReleaseCancelled(s)
  <2>1. Apart(s)
    BY <1>1, <1>7, NextApart DEF ReleaseCancelled, Behind
  <2> QED BY <1>7, <2>1, ApartInv, RowsUnchanged DEF ReleaseCancelled, Same, provider
<1>8. CASE Cancel(s)
  <2>1. Apart(s)
    BY <1>1, <1>8, GoApart DEF Cancel, Conclude, Behind
  <2> QED
    BY <1>8, <2>1, ApartInv, RowsUnchanged DEF Cancel, Conclude, Same, records, provider
<1> QED BY <1>2, <1>3, <1>4, <1>5, <1>6, <1>7, <1>8 DEF CancelProduction

-----------------------------------------------------------------------------
(* The steps of everybody else                                             *)

LEMMA FailInv ==
  ASSUME Inv, NEW s \in Slots, Fail(s) \/ ProviderError(s) PROVE Inv'
<1>1. Same /\ RowsStay
  BY RowsUnchanged DEF Fail, ProviderError, Same, records, provider
<1>2. CASE Fail(s)
  BY <1>1, <1>2, RaiseApart, ApartInv DEF Fail
<1>3. CASE ProviderError(s)
  <2> DEFINE a == [att[s] EXCEPT !.at = "aw_retry"]
  <2>1. att' = [att EXCEPT ![s] = a]
    BY <1>3 DEF ProviderError, Inv, Shape
  <2>2. IsAttempt(a) /\ a.at = "aw_retry"
    BY DEF Inv, Shape, IsAttempt, AttemptFields
  <2> HIDE DEF a
  <2>3. Apart(s)
    BY <2>1, <2>2 DEF Apart, Becomes, Behind
  <2> QED BY <1>1, <2>3, ApartInv
<1> QED BY <1>2, <1>3

\* Steps that no attempt takes
LEMMA StillInv == ASSUME Inv, att' = att, Same, RowsStay PROVE Inv'
  BY DEF Inv, Shape, Sent, Placed, Same, RowsStay

LEMMA OutsideInv ==
  ASSUME Inv, NEW v \in Variants, NEW state,
         Advance(v) \/ ReceiveWebhook(v, state) \/ ApplyWebhook(v, state)
  PROVE  Inv' /\ Same
<1>1. CASE Advance(v)
  <2>1. creates[v] = 1
    BY <1>1 DEF Advance, Inv, Sent, Live
  <2>2. RowsStay
    BY <1>1, <2>1 DEF Advance, RowsStay, Inv, Shape, Sent, records
  <2> QED BY <1>1, <2>2, StillInv DEF Advance, Same, records
<1>2. CASE ReceiveWebhook(v, state)
  BY <1>2, StillInv, RowsUnchanged DEF ReceiveWebhook, Same, provider
<1>3. CASE ApplyWebhook(v, state)
  <2>1. RowsStay
    BY <1>3, TransitionStays, RowsUnchanged DEF ApplyWebhook, provider
  <2> QED BY <1>3, <2>1, StillInv DEF ApplyWebhook, Same, provider
<1> QED BY <1>1, <1>2, <1>3

LEMMA InvNext == Inv /\ [Next]_vars => Inv'
<1> SUFFICES ASSUME Inv, [Next]_vars PROVE Inv'
  OBVIOUS
<1>1. CASE RequestCancellation \/ TimeOut \/ UNCHANGED vars
  BY <1>1, StillInv, RowsUnchanged
     DEF RequestCancellation, TimeOut, Same, records, provider, vars
<1>2. ASSUME NEW s \in Slots, Dispatch(s) \/ Fail(s) \/ ProviderError(s) \/ AttemptStep(s)
      PROVE  Inv'
  BY <1>2, DispatchInv, FailInv, AuthorizeInv, SubmitInv, AwaitInv, FinishInv, CancelInv,
     ReturnInv DEF AttemptStep
<1>3. ASSUME NEW v \in Variants,
             \/ Advance(v)
             \/ \E state \in Live \cup Terminal :
                  ReceiveWebhook(v, state) \/ ApplyWebhook(v, state)
      PROVE  Inv'
  BY <1>3, OutsideInv
<1> QED BY <1>1, <1>2, <1>3 DEF Next

\* Of every production the inductive invariant always holds: what was sent was
\* claimed, and an attempt between claim and call has the claim to itself.
THEOREM Invariance == Spec => []Inv
  BY InvInit, InvNext, PTL DEF Spec

-----------------------------------------------------------------------------
(* The effect of each variant                                              *)

OneStep(v) == [VariantEffect(v)!Next]_<<effect[v], creates[v]>>

LEMMA StepIsOne ==
  ASSUME Inv, NEW s \in Slots,
         Dispatch(s) \/ Fail(s) \/ ProviderError(s) \/ AttemptStep(s), NEW u \in Variants
  PROVE  OneStep(u)
<1> DEFINE v == att[s].on
<1> USE DEF OneStep, VariantEffect!Next, VariantEffect!Plan, VariantEffect!Claim,
            VariantEffect!Send, VariantEffect!Record
<1>1. v \in Variants /\ creates[v] \in {0, 1}
  BY DEF Inv, Shape, IsAttempt
<1>2. CASE PlanEffect(s)
  BY <1>1, <1>2 DEF PlanEffect, Inv, Shape, provider, On
<1>3. CASE BeginEffectSubmission(s)
  BY <1>1, <1>3 DEF BeginEffectSubmission, Claimable, Inv, Shape, provider, On
<1>4. CASE Submit(s)
  <2>1. effect[v] = "submitting" /\ creates[v] = 0
    BY <1>4 DEF Submit, At, Inv, Placed
  <2> QED BY <1>1, <1>4, <2>1 DEF Submit, Inv, Shape, records, On
<1>5. CASE CompleteEffect(s)
  <2>1. creates[v] = 1 /\ effect[v] \in {"submitting", "completed"}
    BY <1>1, <1>5 DEF CompleteEffect, At, Inv, Placed, Behind, Sent
  <2> QED BY <1>1, <1>5, <2>1 DEF CompleteEffect, Inv, Shape, provider, On
<1>6. CASE \/ Dispatch(s) \/ Fail(s) \/ ProviderError(s) \/ Prepare(s) \/ Return(s)
           \/ Reserve(s) \/ Refuse(s) \/ ReleaseEarlier(s)
  <2>1. Same
    BY <1>6 DEF Dispatch, Fail, ProviderError, Prepare, Return, Reserve, Refuse,
                ReleaseEarlier, Same, records, provider
  <2> QED BY <2>1 DEF Same
<1>7. CASE LookUp(s) \/ Review(s) \/ Reconcile(s) \/ RecordProviderJob(s)
  <2>1. Same
    BY <1>7 DEF LookUp, Review, Reconcile, RecordProviderJob, Same, records, provider
  <2> QED BY <2>1 DEF Same
<1>8. CASE AwaitProvider(s)
  <2>1. Same
    BY <1>8 DEF AwaitProvider, PollStatus, KeepWaiting, MarkRetry, Bury, DeadLetter,
                FailWorkflow, RecordCompletion, Settle, Same, records, provider
  <2> QED BY <2>1 DEF Same
<1>9. CASE Finish(s) \/ CancelProduction(s)
  <2>1. Same
    BY <1>9 DEF Finish, Import, Distribute, FinalGate, Complete, Deny, Conclude,
                CancelProduction, AskProvider, CancelStatus, CancelRemote, RecordCancelled,
                SettleCancelled, ReleaseCancelled, Cancel, Same, records, provider
  <2> QED BY <2>1 DEF Same
<1> QED BY <1>2, <1>3, <1>4, <1>5, <1>6, <1>7, <1>8, <1>9
        DEF AttemptStep, Authorize, SubmitOrReconcile

\* However many attempts of a stage run at once, time out, crash or answer late: the
\* effect of each variant is planned, claimed by one, sent at most once and recorded
\* (submit_or_reconcile behind begin_effect_submission), and nothing goes back.
THEOREM EffectsHappenOnce == Spec => EffectsAreAtMostOnce
<1>1. Init => \A v \in Variants : VariantEffect(v)!Init
  BY DEF Init, VariantEffect!Init
<1>2. Inv /\ [Next]_vars
        => [\A v \in Variants :
              [VariantEffect(v)!Next]_<<effect[v], creates[v]>>]_<<effect, creates>>
  <2> SUFFICES ASSUME Inv, [Next]_vars PROVE (\A v \in Variants : OneStep(v)) \/ Same
    BY DEF OneStep, Same
  <2>1. CASE RequestCancellation \/ TimeOut \/ UNCHANGED vars
    BY <2>1 DEF RequestCancellation, TimeOut, Same, records, provider, vars
  <2>2. ASSUME NEW s \in Slots,
               Dispatch(s) \/ Fail(s) \/ ProviderError(s) \/ AttemptStep(s)
        PROVE  \A v \in Variants : OneStep(v)
    BY <2>2, StepIsOne
  <2>3. ASSUME NEW v \in Variants,
               \/ Advance(v)
               \/ \E state \in Live \cup Terminal :
                    ReceiveWebhook(v, state) \/ ApplyWebhook(v, state)
        PROVE  Same
    BY <2>3, OutsideInv
  <2> QED BY <2>1, <2>2, <2>3 DEF Next
<1> QED BY <1>1, <1>2, Invariance, PTL DEF Spec, EffectsAreAtMostOnce

-----------------------------------------------------------------------------
(* What a production has come to                                           *)
(*                                                                         *)
(* The second invariant relates rows, the provider, the payload and the    *)
(* stage, whatever late attempts still do.                                 *)

\* The steps of each stage
Reserving  == {"au_plan", "au_reserve", "au_release"}
Submitting == {"sb_look", "sb_status", "sb_claim", "sb_call", "sb_reconcile", "sb_record",
               "sb_complete"}
Awaiting   == {"aw_status", "aw_wait", "aw_retry", "aw_bury", "aw_letter", "aw_fatal",
               "aw_done", "aw_settle"}
Asking     == {"cn_ask", "cn_status", "cn_call", "cn_move", "cn_cost"}
Cancelling == Asking \cup {"cn_release", "cn_job"}
StepsOf(stage) ==
  CASE stage \in Preparation          -> {"prepare"}
    [] stage = "authorize"           -> Reserving
    [] stage = "submit_or_reconcile" -> Submitting
    [] stage = "await_provider"      -> Awaiting
    [] stage = "import_validate"     -> {"im_store"}
    [] stage = "distribute"          -> {"distribute"}
    [] stage = "final_gate"          -> {"final_gate"}
    [] stage = "complete"            -> {"cp_job"}
    [] stage = "denied"              -> {"dn_job"}
    [] stage = "cancel"              -> Cancelling

\* A provider job that is over stays over.
Over      == {"completed", "failed", "cancelled"}
Closed(v) == remote[v] \in Over

\* The variant's polls are used up, and the workflow knows.
PolledOut(a, v) == a.polls[v] + 1 > MaxPolls
Exhausted(v)    == wf \in {"await_provider", "failed"} /\ PolledOut(payload, v)

\* Where reservations, submissions, cancellations and successes can come from
MayReserve == /\ ~dryRun
              /\ \/ payload.has # "nothing" \/ job = "denied"
                 \/ wf \in {"authorize", "denied", "failed"}
MaySubmit  == ~dryRun /\ (payload.has = "jobs" \/ wf \in {"submit_or_reconcile", "failed"})
MayCancel  == wf = "cancel" \/ (wf = "closed" /\ job # "denied")

MayConclude == wf = "complete" \/ (wf = "closed" /\ job # "denied")

\* What cancel has to see to for a variant
Freed(v) ==
  /\ payload.has = "jobs" => Closed(v)
  /\ payload.has # "nothing" => reservation[v] \notin {"none", "reserved"}

Brought(v) == remote[v] = "completed" /\ v \in assets
Whole      == payload.has = "jobs" /\ \A v \in Variants : Brought(v)

\* What is so of any attempt, awaited or late
Sound(a) ==
  /\ a.polls \in [Variants -> Nat] /\ DOMAIN a.got = Variants
  /\ \A v \in Variants :
       /\ a.got[v] # "dead_lettered"
       /\ a.got[v] \in Over => Closed(v)
  /\ a.at \in Reserving => MayReserve
  /\ a.at \in {"au_plan", "au_reserve"}
       => \A v \in Variants : v < a.on => reservation[v] # "none"
  /\ a.at = "au_release" => a.out = "denied"
  /\ a.at \in Submitting
       => MaySubmit /\ \A v \in Variants : v < a.on => effect[v] = "completed"
  /\ a.at \in Awaiting
       => /\ payload.has = "jobs"
          /\ \A v \in Variants :
               /\ a.polls[v] <= payload.polls[v]
               /\ PolledOut(a, v) => Closed(v) \/ Exhausted(v)
               /\ v < a.on => Closed(v) \/ ~PolledOut(a, v)
  /\ a.at = "aw_wait" => ~PolledOut(a, a.on)
  /\ a.at = "aw_bury" => Closed(a.on) \/ PolledOut(a, a.on)
  /\ a.at \in {"aw_done", "aw_settle"} => Closed(a.on)
  /\ a.at = "cp_job" => MayConclude /\ (package \/ dryRun)
  /\ a.at = "dn_job" => wf = "denied" \/ job = "denied"
  /\ a.at \in Cancelling => MayCancel /\ \A v \in Variants : v < a.on => Freed(v)
  /\ a.at \in Asking => payload.has = "jobs"
  /\ a.at = "cn_status" => a.on \in asked \/ Closed(a.on)
  /\ a.at = "cn_call" => a.on \in asked
  /\ a.at \in {"cn_move", "cn_cost"} => Closed(a.on)
  /\ a.at = "cn_release" => payload.has = "reservations"
  /\ a.at = "cn_job" => \A v \in Variants : Freed(v)

\* What is so of the awaited attempt: it is at its stage, and what it returns with
\* holds for every variant.
Fits(a) ==
  /\ wf \in Stages /\ a.at \in StepsOf(wf) \cup {"ret"} /\ a.polls = payload.polls
  /\ a.at = "im_store" => \A v \in Variants : v < a.on => Brought(v)
  /\ a.at = "ret" =>
       /\ wf = "authorize" /\ ~dryRun /\ a.out = "ok"
            => \A v \in Variants : reservation[v] # "none"
       /\ wf = "submit_or_reconcile" /\ ~dryRun => \A v \in Variants : effect[v] = "completed"
       /\ wf = "await_provider" => \A v \in Variants : Closed(v) \/ ~PolledOut(a, v)
       /\ wf = "import_validate" /\ ~dryRun => \A v \in Variants : Brought(v)
       /\ wf = "final_gate" => package \/ dryRun
       /\ wf = "denied" => job = "denied"
Turn == cur \in Slots \cup {NoSlot} /\ (cur # NoSlot => Fits(att[cur]))

\* Rows and the provider's jobs
Truth ==
  /\ hooks \subseteq reported
  /\ \A v \in Variants :
       /\ remote[v] \in {"none"} \cup Live \cup Over
       /\ creates[v] = 1 => remote[v] # "none"
       /\ remote[v] = "cancelled" => v \in asked
       /\ row[v] \in Over => Closed(v)
       /\ row[v] = "dead_lettered" => Closed(v) \/ Exhausted(v)
       /\ \A state \in Live \cup Terminal : <<v, state>> \in reported
            => state # "dead_lettered" /\ (state \in Over => Closed(v))

\* What has been recorded when the workflow is where it is
Course ==
  /\ cost \in Costs /\ dryRun \in BOOLEAN /\ DOMAIN reservation = Variants
  /\ wf \in Stages \cup Ended
  /\ payload.has \in {"nothing", "reservations", "jobs"}
  /\ payload.polls \in [Variants -> Nat]
  /\ dryRun \/ wf \in Preparation \cup {"authorize", "denied"} => payload.has = "nothing"
  /\ wf = "submit_or_reconcile" => dryRun \/ payload.has = "reservations"
  /\ wf \in {"await_provider", "import_validate", "distribute", "final_gate", "complete"}
       => dryRun \/ payload.has = "jobs"
  /\ wf = "await_provider" => ~dryRun
  /\ payload.has # "nothing" => \A v \in Variants : reservation[v] # "none"
  /\ payload.has = "jobs" => \A v \in Variants : effect[v] = "completed"
  /\ \A v \in Variants : /\ reservation[v] # "none" => MayReserve
                         /\ creates[v] = 1 => MaySubmit
  /\ wf = "complete" \/ job = "succeeded" => package \/ dryRun
  /\ job = "denied" => wf \in {"denied", "closed"} /\ payload.has = "nothing"
  /\ job = "cancelled" => MayCancel /\ \A v \in Variants : Freed(v)

\* A package is built of what has been brought in, and no late cancellation takes
\* that back.
Building == distributed \/ package \/ \E s \in Slots : att[s].at \in {"distribute", "final_gate"}
Delivery ==
  /\ Building \/ (wf \in {"distribute", "final_gate", "complete"} /\ ~dryRun) => Whole
  /\ Building => \A s \in Slots : att[s].at # "cn_call"

Kept == (\A s \in Slots : Sound(att[s])) /\ Turn /\ Truth /\ Course /\ Delivery

-----------------------------------------------------------------------------
(* What only grows                                                         *)

\* No step takes back what an attempt relies on.
Forward ==
  /\ dryRun' = dryRun /\ (package => package') /\ asked \subseteq asked'
  /\ payload.has = "jobs" => payload'.has = "jobs"
  /\ MayReserve => MayReserve'
  /\ MaySubmit => MaySubmit'
  /\ MayCancel => MayCancel' /\ payload'.has = payload.has
  /\ MayConclude => MayConclude'
  /\ wf = "denied" \/ job = "denied" => wf' = "denied" \/ job' = "denied"
  /\ \A v \in Variants :
       /\ Closed(v) => Closed(v)'
       /\ Exhausted(v) => Closed(v)' \/ Exhausted(v)'
       /\ payload.polls[v] <= payload'.polls[v]
       /\ reservation[v] # "none" => reservation'[v] # "none"
       /\ reservation[v] \notin {"none", "reserved"} => reservation'[v] \notin {"none", "reserved"}
       /\ effect[v] = "completed" => effect'[v] = "completed"

LEMMA SoundForward ==
  ASSUME Course, Course', Forward, NEW a, IsAttempt(a), Sound(a) PROVE Sound(a)'
<1>1. payload.polls \in [Variants -> Nat] /\ payload'.polls \in [Variants -> Nat]
  BY DEF Course
<1>2. a.at \in Cancelling =>
        /\ MayCancel' /\ payload'.has = payload.has
        /\ \A v \in Variants : Freed(v) => Freed(v)'
  BY DEF Sound, Forward, Freed
<1>3. a.at \in Awaiting =>
        /\ payload'.has = "jobs"
        /\ \A v \in Variants :
             /\ a.polls[v] <= payload'.polls[v]
             /\ PolledOut(a, v) => Closed(v)' \/ Exhausted(v)'
             /\ v < a.on => Closed(v)' \/ ~PolledOut(a, v)
  BY <1>1 DEF Sound, Forward
<1>4. a.at \in Reserving => MayReserve'
  BY DEF Sound, Forward
<1>5. a.at \in Submitting
        => MaySubmit' /\ \A v \in Variants : v < a.on => effect'[v] = "completed"
  BY DEF Sound, Forward
<1>6. a.on \in Variants /\ (Closed(a.on) => Closed(a.on)')
  BY DEF IsAttempt, Forward
<1>7. (a.at = "cp_job" => MayConclude' /\ (package' \/ dryRun'))
      /\ (a.at = "dn_job" => wf' = "denied" \/ job' = "denied")
  BY DEF Sound, Forward
<1>8. \A v \in Variants : a.got[v] # "dead_lettered" /\ (a.got[v] \in Over => Closed(v)')
  BY DEF Sound, Forward
<1>9. a.at \in {"au_plan", "au_reserve"}
        => \A v \in Variants : v < a.on => reservation'[v] # "none"
  BY DEF Sound, Forward
<1>10. /\ a.at = "cn_status" => a.on \in asked' \/ Closed(a.on)'
       /\ a.at = "cn_call" => a.on \in asked'
  BY <1>6 DEF Sound, Forward
<1>11. /\ a.at \in Asking => payload'.has = "jobs"
       /\ a.at = "cn_release" => payload'.has = "reservations"
       /\ a.at = "cn_job" => \A v \in Variants : Freed(v)'
       /\ a.at \in Cancelling => \A v \in Variants : v < a.on => Freed(v)'
  BY <1>2 DEF Sound, Forward, Asking, Cancelling
<1> QED
  BY <1>2, <1>3, <1>4, <1>5, <1>6, <1>7, <1>8, <1>9, <1>10, <1>11 DEF Sound, PolledOut

\* All but a few steps leave more than that: only a stage may be given up.
Calm ==
  /\ UNCHANGED <<dryRun, cost, payload>>
  /\ job' # job =>
       /\ job # "denied" /\ (job' = "denied" => wf = "denied")
       /\ job' = "succeeded" => package \/ dryRun
       /\ job' = "cancelled" => MayCancel /\ \A v \in Variants : Freed(v)
  /\ package => package'
  /\ (distributed' => distributed \/ Building) /\ (package' => package \/ Building)
  /\ asked \subseteq asked' /\ assets \subseteq assets'
  /\ DOMAIN reservation' = Variants
  /\ \A v \in Variants :
       /\ Closed(v) => Closed(v)'
       /\ remote[v] = "completed" => remote'[v] = "completed" \/ (MayCancel /\ ~Building)
       /\ creates'[v] = 1 => creates[v] = 1 \/ MaySubmit
       /\ reservation'[v] # "none" => reservation[v] # "none" \/ MayReserve
       /\ reservation[v] # "none" => reservation'[v] # "none"
       /\ reservation[v] \notin {"none", "reserved"} => reservation'[v] \notin {"none", "reserved"}
       /\ effect[v] = "completed" => effect'[v] = "completed"
  /\ wf' = wf \/ (wf \in BoundedStages /\ wf' = "failed")

LEMMA CalmForward == ASSUME Course, Calm PROVE Forward
<1>1. /\ wf' = "failed" => wf' = wf \/ wf \in BoundedStages
      /\ {"cancel", "denied", "closed", "complete"} \cap BoundedStages = {}
  BY DEF Calm, BoundedStages, Preparation
<1>2. /\ (MayReserve => MayReserve') /\ (MaySubmit => MaySubmit')
      /\ (MayCancel => MayCancel') /\ (MayConclude => MayConclude')
  BY <1>1 DEF Calm, MayReserve, MaySubmit, MayCancel, MayConclude
<1>3. \A v \in Variants : Exhausted(v) => Exhausted(v)'
  BY <1>1 DEF Calm, Exhausted, PolledOut
<1>4. \A v \in Variants : payload.polls[v] <= payload'.polls[v]
  BY DEF Course, Calm
<1> QED BY <1>1, <1>2, <1>3, <1>4 DEF Calm, Forward

LEMMA CalmCourse == ASSUME Course, Calm PROVE Course'
<1>1. /\ {"cancel", "denied", "closed", "complete"} \cap BoundedStages = {}
      /\ "failed" \notin Stages /\ "failed" \notin Preparation
  BY DEF BoundedStages, Preparation, Stages, TerminalStages
<1>2. Forward
  BY CalmForward
<1>3. wf' \in Stages \cup Ended
  BY DEF Course, Calm, Ended
<1>4. dryRun' \/ wf' \in Preparation \cup {"authorize", "denied"} => payload'.has = "nothing"
  BY <1>1 DEF Course, Calm
<1>5. /\ wf' = "submit_or_reconcile" => dryRun' \/ payload'.has = "reservations"
      /\ wf' \in {"await_provider", "import_validate", "distribute", "final_gate", "complete"}
           => dryRun' \/ payload'.has = "jobs"
      /\ wf' = "await_provider" => ~dryRun'
  BY <1>1 DEF Course, Calm
<1>6. /\ payload'.has # "nothing" => \A v \in Variants : reservation'[v] # "none"
      /\ payload'.has = "jobs" => \A v \in Variants : effect'[v] = "completed"
  BY DEF Course, Calm
<1>7. \A v \in Variants : /\ reservation'[v] # "none" => MayReserve'
                          /\ creates'[v] = 1 => MaySubmit'
  BY <1>2 DEF Course, Calm, Forward
<1>8. wf' = "complete" \/ job' = "succeeded" => package' \/ dryRun'
  BY <1>1 DEF Course, Calm
<1>9. job' = "denied" => wf' \in {"denied", "closed"} /\ payload'.has = "nothing"
  BY <1>1 DEF Course, Calm
<1>10. job' = "cancelled" => MayCancel' /\ \A v \in Variants : Freed(v)'
  BY <1>2 DEF Course, Calm, Forward, Freed
<1>11. /\ cost' \in Costs /\ dryRun' \in BOOLEAN /\ DOMAIN reservation' = Variants
       /\ payload'.has \in {"nothing", "reservations", "jobs"}
       /\ payload'.polls \in [Variants -> Nat]
  BY DEF Course, Calm
<1> QED
  BY <1>3, <1>4, <1>5, <1>6, <1>7, <1>8, <1>9, <1>10, <1>11 DEF Course

LEMMA FitsCalm ==
  ASSUME Calm, wf' = wf, NEW a, IsAttempt(a), Fits(a) PROVE Fits(a)'
<1>0. a.at = "im_store" => wf = "import_validate"
  BY DEF Fits, StepsOf, Stages, BoundedStages, TerminalStages, Preparation, Reserving,
         Submitting, Awaiting, Cancelling, Asking
<1>1. wf = "import_validate" => \A v \in Variants : Brought(v) => Brought(v)'
  BY DEF Calm, Brought, MayCancel
<1>2. a.at = "im_store" => \A v \in Variants : v < a.on => Brought(v)'
  BY <1>0, <1>1 DEF Fits
<1>3. a.at = "ret" /\ wf = "import_validate" /\ ~dryRun => \A v \in Variants : Brought(v)'
  BY <1>1 DEF Fits
<1>4. a.at = "ret" /\ wf = "await_provider"
        => \A v \in Variants : Closed(v)' \/ ~PolledOut(a, v)
  BY DEF Fits, Calm
<1>5. wf' \in Stages /\ a.at \in StepsOf(wf)' \cup {"ret"} /\ a.polls = payload'.polls
  BY DEF Fits, Calm, StepsOf
<1>6. a.at = "ret" =>
       /\ wf = "authorize" /\ ~dryRun /\ a.out = "ok"
            => \A v \in Variants : reservation'[v] # "none"
       /\ wf = "submit_or_reconcile" /\ ~dryRun => \A v \in Variants : effect'[v] = "completed"
       /\ wf = "final_gate" => package' \/ dryRun'
       /\ wf = "denied" => job' = "denied"
  BY DEF Fits, Calm
<1>7. dryRun' = dryRun
  BY DEF Calm
<1> QED BY <1>2, <1>3, <1>4, <1>5, <1>6, <1>7 DEF Fits, PolledOut

\* The invariant is kept by a step of attempt s alone that makes it a.
LEMMA Assemble ==
  ASSUME Inv, Kept, NEW s \in Slots, NEW a, Becomes(s, a),
         Forward, Course', Sound(a)', Turn', Truth', Delivery'
  PROVE  Kept'
<1>1. ASSUME NEW t \in Slots PROVE Sound(att[t])'
  <2>1. PICK u : u = att'[t]
    OBVIOUS
  <2>2. CASE t = s
    BY <2>1, <2>2 DEF Becomes, Inv, Shape
  <2>3. CASE t # s
    <3>1. u = att[t] /\ IsAttempt(u) /\ Sound(u)
      BY <2>1, <2>3 DEF Becomes, Inv, Shape, Kept
    <3>2. Sound(u)'
      BY <3>1, SoundForward DEF Kept
    <3> QED BY <2>1, <3>2
  <2> QED BY <2>2, <2>3
<1> QED BY <1>1 DEF Kept

\* Rows, and what is reported of a provider job
LEMMA TruthSame ==
  ASSUME Truth, Course, Calm, row' = row, creates' = creates,
         remote' = remote, reported' = reported, hooks' \subseteq reported
  PROVE  Truth'
<1>1. \A v \in Variants : /\ Closed(v) <=> Closed(v)'
                          /\ Exhausted(v) => Closed(v)' \/ Exhausted(v)'
  BY CalmForward DEF Forward, Closed
<1> QED BY <1>1 DEF Truth, Calm

LEMMA TruthMoved ==
  ASSUME Truth, Course, Calm, NEW v \in Variants, NEW state, DOMAIN row = Variants,
         row' = [row EXCEPT ![v] = state],
         state \in Over => Closed(v), state = "dead_lettered" => Closed(v) \/ Exhausted(v),
         creates' = creates, remote' = remote, reported' = reported, hooks' \subseteq reported
  PROVE  Truth'
<1>1. \A u \in Variants : /\ Closed(u) <=> Closed(u)'
                          /\ Exhausted(u) => Closed(u)' \/ Exhausted(u)'
  BY CalmForward DEF Forward, Closed
<1>2. \A u \in Variants : row'[u] = IF u = v THEN state ELSE row[u]
  OBVIOUS
<1> QED BY <1>1, <1>2 DEF Truth, Calm

LEMMA DeliveryCalm ==
  ASSUME Inv, Kept, Calm, NEW s \in Slots, NEW a, Becomes(s, a), a.at = "cn_call" => ~Building,
         a.at \in {"distribute", "final_gate"}
           => Whole /\ ~MayCancel /\ \A t \in Slots : att[t].at # "cn_call"
  PROVE  Delivery'
<1>1. att'[s] = a /\ \A t \in Slots \ {s} : att'[t] = att[t]
  BY DEF Becomes, Inv, Shape
<1>2. Building' => Building \/ a.at \in {"distribute", "final_gate"}
  <2>1. (\E t \in Slots : att'[t].at \in {"distribute", "final_gate"})
          => Building \/ a.at \in {"distribute", "final_gate"}
    BY <1>1 DEF Building
  <2> QED BY <2>1 DEF Building, Calm
<1>3. Building \/ ~MayCancel => (Whole => Whole')
  BY DEF Whole, Brought, Calm
<1>4. Building' => Whole'
  BY <1>2, <1>3 DEF Delivery, Kept
<1>5. wf' \in {"distribute", "final_gate", "complete"} /\ ~dryRun' => Whole'
  BY <1>3 DEF Delivery, Kept, Calm, MayCancel
<1>6. Building' => \A t \in Slots : att'[t].at # "cn_call"
  BY <1>1, <1>2 DEF Delivery, Kept
<1> QED BY <1>4, <1>5, <1>6 DEF Delivery

\* An attempt goes on.
LEMMA GoesOn ==
  ASSUME Inv, Kept, NEW s \in Slots, NEW a, Becomes(s, a), Calm, Truth',
         wf' = wf, cur' = cur, a.at \notin {"distribute", "final_gate"},
         a.at = "cn_call" => ~Building, Sound(a)', cur = s => Fits(a)'
  PROVE  Kept'
<1>1. Forward /\ Course'
  BY CalmForward, CalmCourse DEF Kept
<1>2. att'[s] = a /\ \A t \in Slots \ {s} : att'[t] = att[t]
  BY DEF Becomes, Inv, Shape
<1>3. Turn'
  <2>1. PICK u : u = att'[cur]
    OBVIOUS
  <2>2. CASE cur = NoSlot
    BY <2>2, BoundAssumption DEF Kept, Turn
  <2>3. CASE cur = s
    BY <1>2, <2>1, <2>3 DEF Kept, Turn
  <2>4. CASE cur \in Slots \ {s}
    <3>1. u = att[cur] /\ IsAttempt(u) /\ Fits(u)
      BY <1>2, <2>1, <2>4, BoundAssumption DEF Kept, Turn, Inv, Shape
    <3>2. Fits(u)'
      BY <3>1, FitsCalm
    <3> QED BY <2>1, <2>4, <3>2 DEF Turn
  <2> QED BY <2>2, <2>3, <2>4 DEF Kept, Turn
<1>4. Delivery'
  BY DeliveryCalm
<1> QED BY <1>1, <1>3, <1>4, Assemble

LEMMA IdleSound == Sound(Idle)'
<1>1. /\ Idle.at = "idle" /\ Idle.polls = [v \in Variants |-> 0]
      /\ Idle.got = [v \in Variants |-> "none"]
  BY DEF Idle
<1> QED
  BY <1>1 DEF Sound, Over, Reserving, Submitting, Awaiting, Asking, Cancelling

\* An attempt goes away, and the workflow may give up its stage.
LEMMA Leaves ==
  ASSUME Inv, Kept, NEW s \in Slots, att' = [att EXCEPT ![s] = Idle], Calm, Truth',
         cur = s => cur' = NoSlot, cur # s => cur' = cur /\ wf' = wf
  PROVE  Kept'
<1>1. Forward /\ Course' /\ Becomes(s, Idle)
  BY CalmForward, CalmCourse, IdleApart DEF Kept, Becomes
<1>2. att'[s] = Idle /\ Idle.at = "idle" /\ \A t \in Slots \ {s} : att'[t] = att[t]
  BY IdleApart DEF Inv, Shape
<1>3. Turn'
  <2>1. PICK u : u = att'[cur]
    OBVIOUS
  <2>2. CASE cur = s
    BY <2>2 DEF Turn
  <2>3. CASE cur # s /\ cur = NoSlot
    BY <2>3 DEF Turn
  <2>4. CASE cur # s /\ cur # NoSlot
    <3>1. u = att[cur] /\ IsAttempt(u) /\ Fits(u) /\ cur \in Slots
      BY <1>2, <2>1, <2>4 DEF Kept, Turn, Inv, Shape
    <3>2. Fits(u)'
      BY <2>4, <3>1, FitsCalm
    <3> QED BY <2>1, <2>4, <3>1, <3>2 DEF Turn
  <2> QED BY <2>2, <2>3, <2>4
<1>4. Delivery'
  BY <1>1, <1>2, DeliveryCalm
<1> QED BY <1>1, <1>3, <1>4, Assemble, IdleSound

-----------------------------------------------------------------------------
(* Where an attempt goes, and what it takes along                          *)

\* What a has of the attempt it continues, and what it may have learned
Likes(s, a) ==
  /\ Becomes(s, a) /\ a.polls = att[s].polls /\ a.out = att[s].out
  /\ DOMAIN a.got = Variants
  /\ \A v \in Variants : a.got[v] # "dead_lettered" /\ (a.got[v] \in Over => Closed(v))

LEMMA GoLikes ==
  ASSUME Inv, Kept, NEW s \in Slots, NEW to, NEW state,
         state # "dead_lettered", state \in Over => Closed(att[s].on),
         Go(s, to) \/ Learn(s, to, state)
  PROVE  \E a : Likes(s, a) /\ a.at = to /\ a.on = att[s].on
<1> DEFINE a == [att[s] EXCEPT !.at = to]
           b == [att[s] EXCEPT !.at = to, !.got[On(s)] = state]
<1>1. /\ IsAttempt(att[s]) /\ Sound(att[s])
      /\ DOMAIN att = Slots
  BY DEF Inv, Shape, Kept
<1>2. /\ IsAttempt(a) /\ a.at = to /\ a.on = att[s].on /\ a.polls = att[s].polls
      /\ a.out = att[s].out /\ a.got = att[s].got
  BY <1>1 DEF IsAttempt, AttemptFields
<1>3. /\ IsAttempt(b) /\ b.at = to /\ b.on = att[s].on /\ b.polls = att[s].polls
      /\ b.out = att[s].out /\ b.got = [att[s].got EXCEPT ![att[s].on] = state]
  BY <1>1 DEF IsAttempt, AttemptFields, On
<1>4. Go(s, to) => att' = [att EXCEPT ![s] = a]
  BY <1>1 DEF Go
<1>5. Learn(s, to, state) => att' = [att EXCEPT ![s] = b]
  BY <1>1 DEF Learn
<1> HIDE DEF a, b
<1>6. CASE Go(s, to)
  BY <1>1, <1>2, <1>4, <1>6 DEF Likes, Becomes, Sound
<1>7. CASE Learn(s, to, state)
  BY <1>1, <1>3, <1>5, <1>7 DEF Likes, Becomes, Sound
<1> QED BY <1>6, <1>7

LEMMA NextLikes ==
  ASSUME Inv, Kept, NEW s \in Slots, NEW first, NEW state,
         state # "dead_lettered", state \in Over => Closed(att[s].on),
         MoveOn(s, first, state) \/ NextVariant(s, first)
  PROVE  \E a : /\ Likes(s, a)
                /\ \/ a.at = first /\ att[s].on < MaxVariants /\ a.on = att[s].on + 1
                   \/ a.at = "ret" /\ att[s].on = MaxVariants
<1>1. PICK st : /\ MoveOn(s, first, st)
                /\ st # "dead_lettered" /\ (st \in Over => Closed(att[s].on))
  BY DEF NextVariant, Got, On, Kept, Sound, Inv, Shape, IsAttempt
<1> DEFINE on == IF att[s].on < MaxVariants THEN att[s].on + 1 ELSE att[s].on
           at == IF att[s].on < MaxVariants THEN first ELSE "ret"
           a == [att[s] EXCEPT !.at = at, !.on = on, !.got[On(s)] = st]
<1>2. /\ IsAttempt(att[s]) /\ Sound(att[s]) /\ DOMAIN att = Slots /\ on \in Variants
  BY VariantsGoOn DEF Inv, Shape, Kept, IsAttempt
<1>3. att' = [att EXCEPT ![s] = a]
  BY <1>1, <1>2 DEF MoveOn, On, IsAttempt, AttemptFields
<1>4. \/ at = first /\ att[s].on < MaxVariants /\ on = att[s].on + 1
      \/ at = "ret" /\ att[s].on = MaxVariants
  BY <1>2, VariantAssumption DEF IsAttempt, Variants
<1> HIDE DEF on, at
<1>5. /\ IsAttempt(a) /\ a.at = at /\ a.on = on /\ a.polls = att[s].polls
      /\ a.out = att[s].out /\ a.got = [att[s].got EXCEPT ![att[s].on] = st]
  BY <1>2 DEF IsAttempt, AttemptFields, On
<1> HIDE DEF a
<1>6. Likes(s, a)
  BY <1>1, <1>2, <1>3, <1>5 DEF Likes, Becomes, Sound
<1> QED BY <1>4, <1>5, <1>6

LEMMA CancelLikes ==
  ASSUME Inv, Kept, NEW s \in Slots, NEW first, CancelNext(s, first)
  PROVE  \E a : /\ Likes(s, a)
                /\ \/ a.at = first /\ att[s].on < MaxVariants /\ a.on = att[s].on + 1
                   \/ a.at = "cn_job" /\ att[s].on = MaxVariants
                /\ a.at = "cn_job" => a.on = att[s].on \/ first = "cn_job"
<1> DEFINE on == IF att[s].on < MaxVariants THEN att[s].on + 1 ELSE att[s].on
           at == IF att[s].on < MaxVariants THEN first ELSE "cn_job"
           a == [att[s] EXCEPT !.at = at, !.on = on]
<1>2. /\ IsAttempt(att[s]) /\ Sound(att[s]) /\ DOMAIN att = Slots /\ on \in Variants
  BY VariantsGoOn DEF Inv, Shape, Kept, IsAttempt
<1>3. att' = [att EXCEPT ![s] = a]
  BY <1>2 DEF CancelNext, On, IsAttempt, AttemptFields
<1>4. \/ at = first /\ att[s].on < MaxVariants /\ on = att[s].on + 1
      \/ at = "cn_job" /\ att[s].on = MaxVariants /\ on = att[s].on
  BY <1>2, VariantAssumption DEF IsAttempt, Variants
<1> HIDE DEF on, at
<1>5. /\ IsAttempt(a) /\ a.at = at /\ a.on = on /\ a.polls = att[s].polls
      /\ a.out = att[s].out /\ a.got = att[s].got
  BY <1>2 DEF IsAttempt, AttemptFields
<1> HIDE DEF a
<1>6. Likes(s, a)
  BY <1>2, <1>3, <1>5 DEF Likes, Becomes, Sound
<1> QED BY <1>4, <1>5, <1>6

\* v comes before the next variant.
LEMMA BeforeNext ==
  ASSUME NEW on \in Variants, NEW v \in Variants
  PROVE  /\ v < on + 1 => v < on \/ v = on
         /\ on = MaxVariants => v < on \/ v = on
  BY VariantAssumption DEF Variants

\* Steps that change nothing that is shared
Nothing == UNCHANGED <<request, provider, records, job>>

LEMMA NothingCalm ==
  ASSUME Inv, Kept, Nothing, payload' = payload,
         wf' = wf \/ (wf \in BoundedStages /\ wf' = "failed")
  PROVE  Calm /\ Truth'
<1>1. Calm
  BY DEF Nothing, request, provider, records, products, Calm, Kept, Course, Closed
<1> QED BY <1>1, TruthSame DEF Nothing, provider, records, Kept, Truth

\* A step that changes nothing shared, and after which s stands as a
LEMMA Steps ==
  ASSUME Inv, Kept, NEW s \in Slots, NEW a, Becomes(s, a), Nothing,
         wf' = wf, cur' = cur, payload' = payload,
         a.at \notin {"distribute", "final_gate"}, a.at = "cn_call" => ~Building,
         Sound(a), cur = s => Fits(a)
  PROVE  Kept'
<1>1. Calm /\ Truth' /\ Course'
  BY NothingCalm, CalmCourse DEF Kept
<1>2. Sound(a)'
  BY <1>1, SoundForward, CalmForward DEF Kept, Becomes
<1>3. cur = s => Fits(a)'
  BY <1>1, FitsCalm DEF Becomes
<1> QED BY <1>1, <1>2, <1>3, GoesOn

\* An attempt that raises is idle, and may take its stage with it.
LEMMA RaiseLeaves ==
  ASSUME Inv, Kept, NEW s \in Slots, NEW fatal, RaiseAs(s, fatal),
         fatal => att[s].at = "aw_fatal"
  PROVE  /\ att' = [att EXCEPT ![s] = Idle] /\ payload' = payload
         /\ cur = s => cur' = NoSlot
         /\ cur # s => cur' = cur /\ wf' = wf
         /\ wf' = wf \/ (wf \in BoundedStages /\ wf' = "failed")
<1>1. cur = s /\ att[s].at = "aw_fatal" => wf = "await_provider"
  <2> SUFFICES ASSUME cur = s, att[s].at = "aw_fatal" PROVE wf = "await_provider"
    OBVIOUS
  <2>1. "aw_fatal" \in StepsOf(wf) /\ wf \in Stages
    BY BoundAssumption DEF Kept, Turn, Fits
  <2> QED BY <2>1 DEF StepsOf, Stages, BoundedStages, TerminalStages, Preparation, Reserving,
                      Submitting, Cancelling, Asking
<1>2. "await_provider" \in BoundedStages
  BY DEF BoundedStages
<1> QED BY <1>1, <1>2 DEF RaiseAs, Lose

LEMMA NothingLeaves ==
  ASSUME Inv, Kept, NEW s \in Slots, NEW fatal, RaiseAs(s, fatal),
         fatal => att[s].at = "aw_fatal", Nothing
  PROVE  Kept'
  BY RaiseLeaves, NothingCalm, Leaves

-----------------------------------------------------------------------------
(* The awaited attempt is at its stage                                     *)

LEMMA StageOf ==
  ASSUME Kept, NEW s \in Slots, cur = s
  PROVE  /\ wf \in Stages /\ att[s].at \in StepsOf(wf) \cup {"ret"}
         /\ att[s].at = "prepare" => wf \in Preparation
         /\ att[s].at \in Reserving => wf = "authorize"
         /\ att[s].at \in Submitting => wf = "submit_or_reconcile"
         /\ att[s].at \in Awaiting => wf = "await_provider"
         /\ att[s].at = "im_store" => wf = "import_validate"
         /\ att[s].at = "distribute" => wf = "distribute"
         /\ att[s].at = "final_gate" => wf = "final_gate"
         /\ att[s].at = "cp_job" => wf = "complete"
         /\ att[s].at = "dn_job" => wf = "denied"
         /\ att[s].at \in Cancelling => wf = "cancel"
<1>1. wf \in Stages /\ att[s].at \in StepsOf(wf) \cup {"ret"}
  BY BoundAssumption DEF Kept, Turn, Fits
<1> QED BY <1>1 DEF StepsOf, Stages, BoundedStages, TerminalStages, Preparation, Reserving,
                    Submitting, Awaiting, Cancelling, Asking

LEMMA StepsAre ==
  /\ StepsOf("authorize") = Reserving /\ StepsOf("submit_or_reconcile") = Submitting
  /\ StepsOf("await_provider") = Awaiting /\ StepsOf("import_validate") = {"im_store"}
  /\ StepsOf("cancel") = Cancelling /\ StepsOf("distribute") = {"distribute"}
  /\ StepsOf("final_gate") = {"final_gate"} /\ StepsOf("complete") = {"cp_job"}
  /\ StepsOf("denied") = {"dn_job"}
  BY DEF StepsOf, Preparation

\* Within the stage, before it returns
LEMMA StaysFit ==
  ASSUME Kept, NEW s \in Slots, cur = s, NEW a, Likes(s, a),
         \E G \in {Reserving, Submitting, Awaiting, Cancelling} : att[s].at \in G /\ a.at \in G
  PROVE  Fits(a)
<1>1. a.at \in StepsOf(wf) /\ wf \in Stages
  BY StageOf, StepsAre
<1>2. a.polls = payload.polls
  BY BoundAssumption DEF Kept, Turn, Fits, Likes
<1>3. a.at # "ret" /\ a.at # "im_store"
  BY DEF Reserving, Submitting, Awaiting, Cancelling, Asking
<1> QED BY <1>1, <1>2, <1>3 DEF Fits

\* What is so of an attempt wherever it is
LEMMA Plain ==
  ASSUME Inv, Kept, NEW s \in Slots, NEW a, Likes(s, a)
  PROVE  /\ a.polls \in [Variants -> Nat] /\ DOMAIN a.got = Variants /\ IsAttempt(a)
         /\ Becomes(s, a) /\ att[s].on \in Variants /\ Sound(att[s])
         /\ \A v \in Variants : a.got[v] # "dead_lettered" /\ (a.got[v] \in Over => Closed(v))
  BY DEF Likes, Kept, Sound, Becomes, Inv, Shape, IsAttempt

-----------------------------------------------------------------------------
(* prepare and authorize                                                   *)

LEMMA PrepareKept == ASSUME Inv, Kept, NEW s \in Slots, Prepare(s) PROVE Kept'
<1>1. Nothing
  BY DEF Prepare, Nothing
<1>2. CASE Go(s, "ret")
  <2>1. PICK a : Likes(s, a) /\ a.at = "ret" /\ a.on = att[s].on
    BY <1>2, GoLikes DEF Over
  <2>2. Sound(a)
    BY <2>1, Plain DEF Sound, Reserving, Submitting, Awaiting, Asking, Cancelling
  <2>3. cur = s => Fits(a)
    <3> SUFFICES ASSUME cur = s PROVE Fits(a)
      OBVIOUS
    <3>1. wf \in Preparation /\ wf \in Stages
      BY StageOf DEF Prepare, At
    <3>2. a.polls = payload.polls
      BY <2>1, BoundAssumption DEF Kept, Turn, Fits, Likes
    <3> QED BY <2>1, <3>1, <3>2 DEF Fits, Preparation
  <2> QED BY <1>1, <1>2, <2>1, <2>2, <2>3, Steps, Plain DEF Go, control
<1>3. CASE Raise(s)
  BY <1>1, <1>3, NothingLeaves DEF Raise
<1> QED BY <1>2, <1>3 DEF Prepare

LEMMA PlanKept == ASSUME Inv, Kept, NEW s \in Slots, PlanEffect(s) PROVE Kept'
<1>1. PICK a : Likes(s, a) /\ a.at = "au_reserve" /\ a.on = att[s].on
  BY GoLikes DEF PlanEffect, Over
<1>2. Sound(a)
  BY <1>1, Plain
     DEF PlanEffect, At, Sound, Reserving, Submitting, Awaiting, Asking, Cancelling
<1>3. cur = s => Fits(a)
  BY <1>1, StaysFit DEF PlanEffect, At, Reserving
<1>4. att[s].on \in Variants /\ DOMAIN effect = Variants
  BY DEF Inv, Shape, IsAttempt
<1>5. Calm
  BY <1>4 DEF PlanEffect, request, provider, products, Go, control, Calm, Kept, Course, Closed, On
<1>6. Truth'
  BY <1>5, TruthSame DEF PlanEffect, provider, Kept, Truth
<1>7. Sound(a)' /\ (cur = s => Fits(a)') /\ Becomes(s, a)
  BY <1>1, <1>2, <1>3, <1>5, Plain, SoundForward, CalmForward, CalmCourse, FitsCalm
     DEF Kept, PlanEffect, Go, control
<1> QED BY <1>1, <1>5, <1>6, <1>7, GoesOn DEF PlanEffect, Go, control

LEMMA ReserveKept == ASSUME Inv, Kept, NEW s \in Slots, Reserve(s) PROVE Kept'
<1> DEFINE on == att[s].on
<1>1. PICK a : /\ Likes(s, a)
               /\ \/ a.at = "au_plan" /\ on < MaxVariants /\ a.on = on + 1
                  \/ a.at = "ret" /\ on = MaxVariants
  BY NextLikes DEF Reserve, Over
<1>2. on \in Variants /\ DOMAIN reservation = Variants /\ Sound(att[s]) /\ IsAttempt(a)
  BY <1>1, Plain DEF Kept, Course
<1>3. /\ reservation' = [reservation EXCEPT ![on] = IF @ = "none" THEN "reserved" ELSE @]
      /\ UNCHANGED <<request, provider, effect, row, asked, hooks, products, job, control>>
  BY DEF Reserve, MoveOn, On
<1>4. MayReserve
  BY <1>2 DEF Reserve, At, Sound, Reserving
<1>5. /\ DOMAIN reservation' = Variants /\ reservation'[on] # "none"
      /\ \A v \in Variants : \/ reservation'[v] = reservation[v]
                             \/ reservation[v] = "none" /\ reservation'[v] # "none"
  <2>1. reservation' = [v \in Variants |->
          IF v = on /\ reservation[v] = "none" THEN "reserved" ELSE reservation[v]]
    BY <1>2, <1>3
  <2> QED BY <1>2, <2>1
<1>6. Calm
  BY <1>3, <1>4, <1>5 DEF Calm, Closed, request, provider, products, control
<1>7. Truth'
  BY <1>3, <1>6, TruthSame DEF provider, Kept, Truth
<1>8. MayReserve' /\ \A v \in Variants : v < on => reservation[v] # "none"
  BY <1>2, <1>4, <1>6, CalmForward DEF Forward, Kept, Reserve, At, Sound
<1>9. \A v \in Variants : v < on => reservation'[v] # "none"
  BY <1>5, <1>8
<1>10. (a.at = "au_plan" \/ a.at = "ret") /\ \A v \in Variants :
         (a.at = "au_plan" /\ v < a.on) \/ a.at = "ret" => reservation'[v] # "none"
  BY <1>1, <1>2, <1>5, <1>9, BeforeNext
<1>11. \A v \in Variants : Closed(v) => Closed(v)'
  BY <1>6 DEF Calm
<1>12. Sound(a)'
  BY <1>1, <1>8, <1>10, <1>11, Plain
     DEF Sound, Reserving, Submitting, Awaiting, Asking, Cancelling
<1>13. cur = s => Fits(a)'
  <2> SUFFICES ASSUME cur = s PROVE Fits(a)'
    OBVIOUS
  <2>1. wf = "authorize" /\ wf' = wf /\ wf \in Stages /\ payload' = payload
    BY <1>3, StageOf DEF Reserve, At, Reserving, control
  <2>2. a.polls = payload.polls
    BY <1>1, BoundAssumption DEF Kept, Turn, Fits, Likes
  <2>3. "au_plan" \in StepsOf(wf)'
    BY <2>1 DEF StepsOf, Preparation, Reserving
  <2> QED BY <1>10, <2>1, <2>2, <2>3 DEF Fits
<1> QED BY <1>1, <1>3, <1>6, <1>7, <1>10, <1>12, <1>13, Plain, GoesOn DEF control

LEMMA RefuseKept == ASSUME Inv, Kept, NEW s \in Slots, Refuse(s) PROVE Kept'
<1> DEFINE at == IF Reserved(s) = {} THEN "ret" ELSE "au_release"
           a == [att[s] EXCEPT !.at = at, !.out = "denied"]
<1>1. att' = [att EXCEPT ![s] = a] /\ at \in {"ret", "au_release"}
  BY DEF Refuse, Inv, Shape
<1> HIDE DEF at
<1>2. IsAttempt(att[s]) /\ Sound(att[s]) /\ att[s].at = "au_reserve"
  BY DEF Inv, Shape, Kept, Refuse, At
<1>3. /\ IsAttempt(a) /\ a.at = at /\ a.out = "denied" /\ a.polls = att[s].polls
      /\ a.got = att[s].got
  BY <1>2 DEF IsAttempt, AttemptFields
<1> HIDE DEF a
<1>4. Sound(a)
  BY <1>1, <1>2, <1>3 DEF Sound, Reserving, Submitting, Awaiting, Asking, Cancelling
<1>5. cur = s => Fits(a)
  <2> SUFFICES ASSUME cur = s PROVE Fits(a)
    OBVIOUS
  <2>1. wf = "authorize" /\ wf \in Stages /\ "au_release" \in StepsOf(wf)
    BY <1>2, StageOf, StepsAre DEF Reserving
  <2>2. a.polls = payload.polls
    BY <1>3, BoundAssumption DEF Kept, Turn, Fits
  <2> QED BY <1>1, <1>3, <2>1, <2>2 DEF Fits
<1> QED BY <1>1, <1>3, <1>4, <1>5, Steps DEF Refuse, Becomes, Nothing, control

LEMMA ReleaseEarlierKept == ASSUME Inv, Kept, NEW s \in Slots, ReleaseEarlier(s) PROVE Kept'
<1>1. PICK v \in Variants :
        /\ ReleaseUnused(v)
        /\ att' = [att EXCEPT ![s].got[v] = "none",
                              ![s].at = IF Reserved(s) = {v} THEN "ret" ELSE @]
  BY DEF ReleaseEarlier, Reserved
<1> DEFINE at == IF Reserved(s) = {v} THEN "ret" ELSE att[s].at
           a == [att[s] EXCEPT !.got[v] = "none", !.at = at]
<1>2. IsAttempt(att[s]) /\ Sound(att[s]) /\ att[s].at = "au_release"
  BY DEF Inv, Shape, Kept, ReleaseEarlier, At
<1>3. att' = [att EXCEPT ![s] = a] /\ at \in {"ret", "au_release"}
  BY <1>1, <1>2 DEF Inv, Shape, IsAttempt, AttemptFields
<1> HIDE DEF at
<1>4. /\ IsAttempt(a) /\ a.at = at /\ a.out = att[s].out /\ a.polls = att[s].polls
      /\ a.got = [att[s].got EXCEPT ![v] = "none"]
  BY <1>2 DEF IsAttempt, AttemptFields
<1> HIDE DEF a
<1>5. Sound(a) /\ a.out = "denied"
  BY <1>2, <1>3, <1>4 DEF Sound, Reserving, Submitting, Awaiting, Asking, Cancelling, Over
<1>6. cur = s => Fits(a)
  <2> SUFFICES ASSUME cur = s PROVE Fits(a)
    OBVIOUS
  <2>1. wf = "authorize" /\ wf \in Stages /\ "au_release" \in StepsOf(wf)
    BY <1>2, StageOf, StepsAre DEF Reserving
  <2>2. a.polls = payload.polls
    BY <1>4, BoundAssumption DEF Kept, Turn, Fits
  <2> QED BY <1>3, <1>4, <1>5, <2>1, <2>2 DEF Fits
<1>7. UNCHANGED <<request, provider, effect, row, asked, hooks, products, job, control>>
  BY DEF ReleaseEarlier
<1>8. DOMAIN reservation' = Variants /\ \A u \in Variants :
        \/ reservation'[u] = reservation[u]
        \/ reservation[u] \notin {"none"} /\ reservation'[u] = "released"
  BY <1>1 DEF ReleaseUnused, Kept, Course
<1>9. Calm
  BY <1>7, <1>8 DEF Calm, Closed, request, provider, products, control
<1>10. Truth'
  BY <1>7, <1>9, TruthSame DEF provider, Kept, Truth
<1>11. PICK b : b = a
  OBVIOUS
<1>12. Becomes(s, b) /\ Sound(b) /\ (cur = s => Fits(b))
  BY <1>3, <1>4, <1>5, <1>6, <1>11 DEF Becomes
<1>13. IsAttempt(b) /\ b.at \in {"ret", "au_release"} /\ wf' = wf /\ cur' = cur
  BY <1>3, <1>4, <1>7, <1>11 DEF control
<1> HIDE <1>11
<1>14. Sound(b)' /\ (cur = s => Fits(b)')
  BY <1>9, <1>12, <1>13, SoundForward, CalmForward, CalmCourse, FitsCalm DEF Kept
<1> QED BY <1>9, <1>10, <1>12, <1>13, <1>14, GoesOn

-----------------------------------------------------------------------------
(* submit_or_reconcile                                                     *)

\* A step of the stage that stays at the same variant
LEMMA SubmittingSound ==
  ASSUME Inv, Kept, NEW s \in Slots, NEW a, Likes(s, a), att[s].at \in Submitting,
         a.at \in Submitting, a.on = att[s].on
  PROVE  Sound(a) /\ (cur = s => Fits(a)) /\ Becomes(s, a)
         /\ a.at \notin {"distribute", "final_gate", "cn_call"}
  BY Plain, StaysFit DEF Sound, Reserving, Submitting, Awaiting, Asking, Cancelling

LEMMA LookKept ==
  ASSUME Inv, Kept, NEW s \in Slots,
         \/ LookUp(s) \/ Review(s) \/ (BeginEffectSubmission(s) /\ ~Claimable(att[s].on))
         \/ (Reconcile(s) /\ remote[att[s].on] # "none")
  PROVE  Kept'
<1> DEFINE on == att[s].on
<1>1. on \in Variants /\ remote[on] # "dead_lettered" /\ (remote[on] \in Over => Closed(on))
  BY DEF Inv, Shape, IsAttempt, Kept, Truth, Live, Over, Closed
<1>2. PICK a : Likes(s, a) /\ a.at \in Submitting /\ a.on = on
  <2>1. \E to \in Submitting : Go(s, to) \/ Learn(s, to, remote[on])
    BY DEF LookUp, Review, BeginEffectSubmission, Reconcile, Submitting, On
  <2> QED BY <1>1, <2>1, GoLikes DEF Over
<1>3. att[s].at \in Submitting
  BY DEF LookUp, Review, BeginEffectSubmission, Reconcile, At, Submitting
<1>4. Nothing /\ wf' = wf /\ cur' = cur /\ payload' = payload
  BY DEF LookUp, Review, BeginEffectSubmission, Reconcile, Nothing, Go, Learn, control, records, On
<1> QED BY <1>2, <1>3, <1>4, SubmittingSound, Steps

LEMMA ClaimKept ==
  ASSUME Inv, Kept, NEW s \in Slots, BeginEffectSubmission(s), Claimable(att[s].on) PROVE Kept'
<1>1. PICK a : Likes(s, a) /\ a.at \in Submitting /\ a.on = att[s].on
  BY GoLikes DEF BeginEffectSubmission, Over, Submitting, On
<1>2. att[s].at \in Submitting
  BY DEF BeginEffectSubmission, At, Submitting
<1>3. /\ effect' = [effect EXCEPT ![att[s].on] = "submitting"] /\ effect[att[s].on] = "planned"
      /\ UNCHANGED <<request, provider, reservation, row, asked, hooks, products, job, control>>
  BY DEF BeginEffectSubmission, Go, On, Claimable
<1>4. DOMAIN effect = Variants /\ att[s].on \in Variants
  BY DEF Inv, Shape, IsAttempt
<1>5. Calm
  BY <1>3, <1>4 DEF Calm, Closed, request, provider, products, control, Kept, Course
<1>6. Truth'
  BY <1>3, <1>5, TruthSame DEF provider, Kept, Truth
<1>7. Sound(a)' /\ (cur = s => Fits(a)') /\ Becomes(s, a)
  BY <1>1, <1>2, <1>3, <1>5, Plain, SubmittingSound, SoundForward, CalmForward, CalmCourse,
     FitsCalm DEF Kept, control
<1> QED BY <1>1, <1>2, <1>3, <1>5, <1>6, <1>7, SubmittingSound, GoesOn DEF control

LEMMA SubmitKept == ASSUME Inv, Kept, NEW s \in Slots, Submit(s) PROVE Kept'
<1> DEFINE on == att[s].on
<1>1. PICK a : Likes(s, a) /\ a.at \in Submitting /\ a.on = on
  BY GoLikes DEF Submit, Over, Submitting
<1>2. att[s].at \in Submitting /\ MaySubmit
  BY DEF Submit, At, Submitting, Kept, Sound
<1>3. /\ creates' = [creates EXCEPT ![on] = @ + 1]
      /\ remote' = [remote EXCEPT ![on] = IF @ = "none" THEN "submitted" ELSE @]
      /\ reported' = reported \cup {<<on, "submitted">>}
      /\ UNCHANGED <<request, records, job, control>>
  BY DEF Submit, Learn, On
<1>4. DOMAIN creates = Variants /\ DOMAIN remote = Variants /\ on \in Variants
  BY DEF Inv, Shape, IsAttempt
<1>5. \A v \in Variants : /\ remote[v] # "none" => remote'[v] = remote[v]
                          /\ remote[v] = "none" => remote'[v] \in {"none", "submitted"}
                          /\ v # on => creates'[v] = creates[v]
  BY <1>3, <1>4
<1>6. Calm
  BY <1>2, <1>3, <1>5 DEF Calm, Closed, Over, request, records, products, control, Kept, Course
<1>7. Truth'
  <2>1. hooks' \subseteq reported'
    BY <1>3 DEF Kept, Truth, records
  <2>2. ASSUME NEW v \in Variants
        PROVE  /\ remote'[v] \in {"none"} \cup Live \cup Over
               /\ creates'[v] = 1 => remote'[v] # "none"
               /\ remote'[v] = "cancelled" => v \in asked'
               /\ row'[v] \in Over => Closed(v)'
    <3>1. v = on => remote'[v] # "none"
      BY <1>3, <1>4
    <3> QED BY <1>3, <1>5, <1>6, <3>1 DEF Kept, Truth, records, Calm, Live, Over
  <2>3. \A v \in Variants : row'[v] = "dead_lettered" => Closed(v)' \/ Exhausted(v)'
    BY <1>3, <1>6, CalmForward DEF Kept, Truth, records, Forward
  <2>4. \A v \in Variants, state \in Live \cup Terminal : <<v, state>> \in reported'
          => state # "dead_lettered" /\ (state \in Over => Closed(v)')
    BY <1>3, <1>6 DEF Kept, Truth, Calm, Over
  <2> QED BY <2>1, <2>2, <2>3, <2>4 DEF Truth
<1>8. Sound(a)' /\ (cur = s => Fits(a)') /\ Becomes(s, a)
  BY <1>1, <1>2, <1>3, <1>6, Plain, SubmittingSound, SoundForward, CalmForward, CalmCourse,
     FitsCalm DEF Kept, control
<1> QED BY <1>1, <1>2, <1>3, <1>6, <1>7, <1>8, SubmittingSound, GoesOn DEF control

LEMMA RecordKept == ASSUME Inv, Kept, NEW s \in Slots, RecordProviderJob(s) PROVE Kept'
<1> DEFINE on == att[s].on
<1>1. PICK a : Likes(s, a) /\ a.at \in Submitting /\ a.on = on
  BY GoLikes DEF RecordProviderJob, Over, Submitting
<1>2. att[s].at \in Submitting
  BY DEF RecordProviderJob, At, Submitting
<1>3. /\ row' = [row EXCEPT ![on] = att[s].got[on]]
      /\ UNCHANGED <<request, provider, effect, reservation, asked, hooks, products, job,
                     control>>
  BY DEF RecordProviderJob, Go, On, Got
<1>4. DOMAIN row = Variants /\ on \in Variants
  BY DEF Inv, Shape, IsAttempt
<1>5. att[s].got[on] # "dead_lettered" /\ (att[s].got[on] \in Over => Closed(on))
  BY <1>4 DEF Kept, Sound
<1>6. Calm
  BY <1>3 DEF Calm, Closed, request, provider, products, control, Kept, Course
<1>7. Truth'
  BY <1>3, <1>4, <1>5, <1>6, TruthMoved DEF provider, Kept, Truth
<1>8. Sound(a)' /\ (cur = s => Fits(a)') /\ Becomes(s, a)
  BY <1>1, <1>2, <1>3, <1>6, Plain, SubmittingSound, SoundForward, CalmForward, CalmCourse,
     FitsCalm DEF Kept, control
<1> QED BY <1>1, <1>2, <1>3, <1>6, <1>7, <1>8, SubmittingSound, GoesOn DEF control

LEMMA CompleteEffectKept == ASSUME Inv, Kept, NEW s \in Slots, CompleteEffect(s) PROVE Kept'
<1> DEFINE on == att[s].on
<1>1. PICK a : /\ Likes(s, a)
               /\ \/ a.at = "sb_look" /\ on < MaxVariants /\ a.on = on + 1
                  \/ a.at = "ret" /\ on = MaxVariants
  BY NextLikes DEF CompleteEffect, Over
<1>2. /\ att[s].at \in Submitting /\ MaySubmit
      /\ \A v \in Variants : v < on => effect[v] = "completed"
  BY DEF CompleteEffect, At, Submitting, Kept, Sound
<1>3. /\ effect' = [effect EXCEPT ![on] = "completed"]
      /\ UNCHANGED <<request, provider, reservation, row, asked, hooks, products, job, control>>
  BY DEF CompleteEffect, NextVariant, MoveOn, On
<1>4. DOMAIN effect = Variants /\ on \in Variants
  BY DEF Inv, Shape, IsAttempt
<1>5. Calm
  BY <1>3, <1>4 DEF Calm, Closed, request, provider, products, control, Kept, Course
<1>6. Truth'
  BY <1>3, <1>5, TruthSame DEF provider, Kept, Truth
<1>7. MaySubmit' /\ \A v \in Variants : v < on \/ v = on => effect'[v] = "completed"
  BY <1>2, <1>3, <1>4, <1>5, CalmForward DEF Forward, Kept
<1>8. (a.at = "sb_look" \/ a.at = "ret") /\ \A v \in Variants :
        (a.at = "sb_look" /\ v < a.on) \/ a.at = "ret" => effect'[v] = "completed"
  BY <1>1, <1>4, <1>7, BeforeNext
<1>9. \A v \in Variants : Closed(v) => Closed(v)'
  BY <1>5 DEF Calm
<1>10. Sound(a)'
  BY <1>1, <1>7, <1>8, <1>9, Plain
     DEF Sound, Reserving, Submitting, Awaiting, Asking, Cancelling
<1>11. cur = s => Fits(a)'
  <2> SUFFICES ASSUME cur = s PROVE Fits(a)'
    OBVIOUS
  <2>1. wf = "submit_or_reconcile" /\ wf' = wf /\ wf \in Stages /\ payload' = payload
    BY <1>2, <1>3, StageOf DEF control
  <2>2. a.polls = payload.polls
    BY <1>1, BoundAssumption DEF Kept, Turn, Fits, Likes
  <2>3. "sb_look" \in StepsOf(wf)'
    BY <2>1 DEF StepsOf, Preparation, Submitting
  <2> QED BY <1>8, <2>1, <2>2, <2>3 DEF Fits
<1> QED BY <1>1, <1>3, <1>5, <1>6, <1>8, <1>10, <1>11, Plain, GoesOn DEF control

LEMMA SubmissionKept ==
  ASSUME Inv, Kept, NEW s \in Slots, SubmitOrReconcile(s) PROVE Kept'
<1>1. CASE Reconcile(s) /\ remote[att[s].on] = "none"
  BY <1>1, NothingLeaves DEF Reconcile, Raise, Nothing, On
<1> QED BY <1>1, LookKept, ClaimKept, SubmitKept, RecordKept, CompleteEffectKept
        DEF SubmitOrReconcile

-----------------------------------------------------------------------------
(* await_provider                                                          *)

\* A step of the stage that stays at the same variant
LEMMA AwaitingSound ==
  ASSUME Inv, Kept, NEW s \in Slots, NEW a, Likes(s, a), att[s].at \in Awaiting,
         a.at \in Awaiting, a.on = att[s].on,
         a.at = "aw_wait" => ~PolledOut(a, a.on),
         a.at = "aw_bury" => Closed(a.on) \/ PolledOut(a, a.on),
         a.at \in {"aw_done", "aw_settle"} => Closed(a.on)
  PROVE  Sound(a) /\ (cur = s => Fits(a)) /\ Becomes(s, a)
         /\ a.at \notin {"distribute", "final_gate", "cn_call"}
<1>1. a.polls = att[s].polls
  BY DEF Likes
<1>2. \A v \in Variants : PolledOut(a, v) <=> PolledOut(att[s], v)
  BY <1>1 DEF PolledOut
<1>3. /\ payload.has = "jobs"
      /\ \A v \in Variants :
           /\ a.polls[v] <= payload.polls[v]
           /\ PolledOut(a, v) => Closed(v) \/ Exhausted(v)
           /\ v < a.on => Closed(v) \/ ~PolledOut(a, v)
  BY <1>1, <1>2, Plain DEF Sound
<1>4. Sound(a)
  BY <1>3, Plain DEF Sound, Reserving, Submitting, Awaiting, Asking, Cancelling
<1> QED BY <1>4, Plain, StaysFit DEF Awaiting

\* On to the next variant, or back to the workflow
LEMMA PassedSound ==
  ASSUME Inv, Kept, NEW s \in Slots, NEW a, Likes(s, a), att[s].at \in Awaiting,
         \/ a.at = "aw_status" /\ att[s].on < MaxVariants /\ a.on = att[s].on + 1
         \/ a.at = "ret" /\ att[s].on = MaxVariants,
         Closed(att[s].on) \/ ~PolledOut(att[s], att[s].on)
  PROVE  Sound(a) /\ (cur = s => Fits(a)) /\ Becomes(s, a)
         /\ a.at \notin {"distribute", "final_gate", "cn_call"}
<1>1. a.polls = att[s].polls
  BY DEF Likes
<1>2. \A v \in Variants : PolledOut(a, v) <=> PolledOut(att[s], v)
  BY <1>1 DEF PolledOut
<1>3. /\ payload.has = "jobs"
      /\ \A v \in Variants :
           /\ a.polls[v] <= payload.polls[v]
           /\ PolledOut(a, v) => Closed(v) \/ Exhausted(v)
           /\ v < att[s].on \/ v = att[s].on => Closed(v) \/ ~PolledOut(a, v)
  BY <1>1, <1>2, Plain DEF Sound
<1>4. \A v \in Variants : (a.at = "aw_status" /\ v < a.on) \/ a.at = "ret"
        => Closed(v) \/ ~PolledOut(a, v)
  BY <1>3, Plain, BeforeNext
<1>5. Sound(a)
  BY <1>3, <1>4, Plain DEF Sound, Reserving, Submitting, Awaiting, Asking, Cancelling
<1>6. cur = s => Fits(a)
  <2> SUFFICES ASSUME cur = s PROVE Fits(a)
    OBVIOUS
  <2>1. wf = "await_provider" /\ wf \in Stages /\ "aw_status" \in StepsOf(wf)
    BY StageOf, StepsAre DEF Awaiting
  <2>2. a.polls = payload.polls
    BY <1>1, BoundAssumption DEF Kept, Turn, Fits
  <2> QED BY <1>4, <2>1, <2>2 DEF Fits
<1> QED BY <1>5, <1>6, Plain

LEMMA PollKept == ASSUME Inv, Kept, NEW s \in Slots, PollStatus(s) PROVE Kept'
<1> DEFINE on == att[s].on
           state == remote[on]
           to == IF state \in Live
                 THEN IF att[s].polls[on] + 1 > MaxPolls THEN "aw_bury" ELSE "aw_wait"
                 ELSE IF state = "completed" THEN "aw_done"
                 ELSE IF att[s].try >= MaxAttempts THEN "aw_bury" ELSE "aw_retry"
<1>1. att[s].at \in Awaiting /\ on \in Variants /\ Sound(att[s])
  BY DEF PollStatus, At, Awaiting, Inv, Shape, IsAttempt, Kept
<1>2. state \in Live \cup Over /\ (state \in Over => Closed(on)) /\ state # "dead_lettered"
  <2>1. creates[on] = 1
    BY <1>1 DEF Inv, Sent, Kept, Course, Sound
  <2> QED BY <1>1, <2>1 DEF Kept, Truth, Closed, Live, Over
<1>3. Learn(s, to, state) /\ Nothing /\ wf' = wf /\ cur' = cur /\ payload' = payload
  BY DEF PollStatus, On, Learn, control, Nothing
<1>4. PICK a : Likes(s, a) /\ a.at = to /\ a.on = on
  BY <1>2, <1>3, GoLikes
<1>5. /\ to = "aw_wait" => ~PolledOut(att[s], on)
      /\ to = "aw_bury" => Closed(on) \/ PolledOut(att[s], on)
      /\ to = "aw_done" => Closed(on)
      /\ to \in {"aw_bury", "aw_wait", "aw_done", "aw_retry"}
  BY <1>2 DEF PolledOut, Live, Over, Closed
<1> HIDE DEF to
<1>6. PolledOut(a, on) <=> PolledOut(att[s], on)
  BY <1>4 DEF Likes, PolledOut
<1>7. a.at \in Awaiting
  BY <1>4, <1>5 DEF Awaiting
<1> QED BY <1>1, <1>3, <1>4, <1>5, <1>6, <1>7, AwaitingSound, Steps

LEMMA ProviderErrorKept == ASSUME Inv, Kept, NEW s \in Slots, ProviderError(s) PROVE Kept'
<1> DEFINE b == [att[s] EXCEPT !.at = "aw_retry"]
<1>1. /\ IsAttempt(att[s]) /\ Sound(att[s]) /\ att[s].at \in Awaiting /\ DOMAIN att = Slots
      /\ att' = [att EXCEPT ![s] = b]
  BY DEF ProviderError, At, Awaiting, Inv, Shape, Kept
<1>2. /\ IsAttempt(b) /\ b.at = "aw_retry" /\ b.on = att[s].on /\ b.polls = att[s].polls
      /\ b.out = att[s].out /\ b.got = att[s].got
  BY <1>1 DEF IsAttempt, AttemptFields
<1> HIDE DEF b
<1>3. PICK a : a = b
  OBVIOUS
<1>4. Likes(s, a) /\ a.at = "aw_retry" /\ a.on = att[s].on
  BY <1>1, <1>2, <1>3 DEF Likes, Becomes, Sound
<1>5. Nothing /\ wf' = wf /\ cur' = cur /\ payload' = payload
  BY DEF ProviderError, Nothing
<1>6. a.at \in Awaiting
  BY <1>4 DEF Awaiting
<1> QED BY <1>1, <1>4, <1>5, <1>6, AwaitingSound, Steps

\* A step that moves the row and raises or goes on
OnlyRow == UNCHANGED <<request, provider, effect, reservation, asked, hooks, products, job>>

LEMMA RowCalm ==
  ASSUME Inv, Kept, OnlyRow, payload' = payload,
         wf' = wf \/ (wf \in BoundedStages /\ wf' = "failed"),
         NEW v \in Variants, NEW state, Transition(v, state) \/ row' = row,
         state \in Over => Closed(v), state = "dead_lettered" => Closed(v) \/ Exhausted(v)
  PROVE  Calm /\ Truth'
<1>1. Calm
  BY DEF OnlyRow, request, provider, products, Calm, Kept, Course, Closed
<1>2. DOMAIN row = Variants
  BY DEF Inv, Shape
<1> QED BY <1>1, <1>2, TruthMoved, TruthSame DEF OnlyRow, provider, Kept, Truth, Transition

LEMMA MoveRowKept ==
  ASSUME Inv, Kept, OnlyRow, NEW s \in Slots, NEW state, NEW goOn, MoveRow(s, state, goOn),
         state \in Over => Closed(att[s].on),
         state = "dead_lettered" => Closed(att[s].on) \/ Exhausted(att[s].on),
         NEW a, goOn => /\ Sound(a) /\ (cur = s => Fits(a)) /\ Becomes(s, a)
                        /\ a.at \notin {"distribute", "final_gate", "cn_call"}
                        /\ UNCHANGED control
  PROVE  Kept'
<1>0. att[s].on \in Variants
  BY DEF Inv, Shape, IsAttempt
<1>1. CASE goOn /\ Transition(att[s].on, state)
  <2>1. Calm /\ Truth' /\ wf' = wf /\ cur' = cur
    BY <1>0, <1>1, RowCalm DEF control
  <2>2. Sound(a)' /\ (cur = s => Fits(a)')
    BY <1>1, <2>1, SoundForward, CalmForward, CalmCourse, FitsCalm DEF Kept, Becomes
  <2> QED BY <1>1, <2>1, <2>2, GoesOn
<1>2. CASE Raise(s) /\ row' = row
  <2>1. RaiseAs(s, FALSE)
    BY <1>2 DEF Raise
  <2>2. Calm /\ Truth'
    BY <1>0, <1>2, <2>1, RaiseLeaves, RowCalm
  <2> QED BY <2>1, <2>2, RaiseLeaves, Leaves
<1> QED BY <1>1, <1>2 DEF MoveRow, On

LEMMA KeepWaitingKept == ASSUME Inv, Kept, NEW s \in Slots, KeepWaiting(s) PROVE Kept'
<1> DEFINE on == att[s].on
<1>1. /\ att[s].at = "aw_wait" /\ OnlyRow /\ on \in Variants /\ Sound(att[s])
      /\ MoveRow(s, att[s].got[on], NextVariant(s, "aw_status"))
  BY DEF KeepWaiting, At, OnlyRow, Got, On, Inv, Shape, IsAttempt, Kept
<1>2. /\ att[s].got[on] # "dead_lettered" /\ (att[s].got[on] \in Over => Closed(on))
      /\ ~PolledOut(att[s], on) /\ att[s].at \in Awaiting
  BY <1>1 DEF Sound, Awaiting
<1>3. ASSUME NextVariant(s, "aw_status")
      PROVE  \E a : /\ Sound(a) /\ (cur = s => Fits(a)) /\ Becomes(s, a)
                    /\ a.at \notin {"distribute", "final_gate", "cn_call"} /\ UNCHANGED control
  <2>0. att[s].got[on] # "dead_lettered" /\ (att[s].got[on] \in Over => Closed(att[s].on))
    BY <1>2
  <2> DEFINE state == att[s].got[on]
  <2> HIDE DEF state
  <2>1. PICK a : /\ Likes(s, a)
                 /\ \/ a.at = "aw_status" /\ att[s].on < MaxVariants /\ a.on = att[s].on + 1
                    \/ a.at = "ret" /\ att[s].on = MaxVariants
    <3>1. state # "dead_lettered" /\ (state \in Over => Closed(att[s].on))
      BY <2>0 DEF state
    <3> QED BY <1>3, <3>1, NextLikes
  <2>2. UNCHANGED control
    BY <1>3 DEF NextVariant, MoveOn
  <2> QED BY <1>2, <2>1, <2>2, PassedSound
<1>4. \E a : NextVariant(s, "aw_status") =>
               /\ Sound(a) /\ (cur = s => Fits(a)) /\ Becomes(s, a)
               /\ a.at \notin {"distribute", "final_gate", "cn_call"} /\ UNCHANGED control
  BY <1>3
<1> QED BY <1>1, <1>2, <1>4, MoveRowKept

LEMMA BuryKept == ASSUME Inv, Kept, NEW s \in Slots, Bury(s) \/ RecordCompletion(s) PROVE Kept'
<1> DEFINE on == att[s].on
<1>1. OnlyRow /\ on \in Variants /\ Sound(att[s])
  BY DEF Bury, RecordCompletion, OnlyRow, Inv, Shape, IsAttempt, Kept
<1>2. CASE Bury(s)
  <2>1. att[s].at = "aw_bury" /\ att[s].at \in Awaiting
    BY <1>2 DEF Bury, At, Awaiting
  <2>2. Closed(on) \/ Exhausted(on)
    BY <1>1, <2>1 DEF Sound
  <2>3. \E a : Go(s, "aw_letter") =>
                 /\ Sound(a) /\ (cur = s => Fits(a)) /\ Becomes(s, a)
                 /\ a.at \notin {"distribute", "final_gate", "cn_call"} /\ UNCHANGED control
    <3>1. CASE Go(s, "aw_letter")
      <4>1. PICK a : Likes(s, a) /\ a.at = "aw_letter" /\ a.on = on
        BY <1>1, <3>1, GoLikes DEF Over
      <4>2. Sound(a) /\ (cur = s => Fits(a)) /\ Becomes(s, a)
            /\ a.at \notin {"distribute", "final_gate", "cn_call"}
        BY <2>1, <4>1, AwaitingSound DEF Awaiting
      <4> QED BY <3>1, <4>2 DEF Go
    <3> QED BY <3>1
  <2>4. MoveRow(s, "dead_lettered", Go(s, "aw_letter"))
    BY <1>2 DEF Bury
  <2> QED BY <1>1, <2>2, <2>3, <2>4, MoveRowKept DEF Over
<1>3. CASE RecordCompletion(s)
  <2>1. att[s].at = "aw_done" /\ att[s].at \in Awaiting
    BY <1>3 DEF RecordCompletion, At, Awaiting
  <2>2. Closed(on)
    BY <1>1, <2>1 DEF Sound
  <2>3. \E a : Go(s, "aw_settle") =>
                 /\ Sound(a) /\ (cur = s => Fits(a)) /\ Becomes(s, a)
                 /\ a.at \notin {"distribute", "final_gate", "cn_call"} /\ UNCHANGED control
    <3>1. CASE Go(s, "aw_settle")
      <4>1. PICK a : Likes(s, a) /\ a.at = "aw_settle" /\ a.on = on
        BY <1>1, <3>1, GoLikes DEF Over
      <4>2. Sound(a) /\ (cur = s => Fits(a)) /\ Becomes(s, a)
            /\ a.at \notin {"distribute", "final_gate", "cn_call"}
        BY <2>1, <2>2, <4>1, AwaitingSound DEF Awaiting
      <4> QED BY <3>1, <4>2 DEF Go
    <3> QED BY <3>1
  <2>4. MoveRow(s, "completed", Go(s, "aw_settle"))
    BY <1>3 DEF RecordCompletion
  <2> QED BY <1>1, <2>2, <2>3, <2>4, MoveRowKept
<1> QED BY <1>2, <1>3

LEMMA MarkRetryKept == ASSUME Inv, Kept, NEW s \in Slots, MarkRetry(s) PROVE Kept'
<1>1. OnlyRow /\ att[s].on \in Variants /\ RaiseAs(s, FALSE)
  BY DEF MarkRetry, OnlyRow, Inv, Shape, IsAttempt, Raise
<1>2. Transition(att[s].on, "running") \/ row' = row
  BY DEF MarkRetry, On
<1>3. "running" \notin Over /\ "running" # "dead_lettered"
  BY DEF Over
<1>4. payload' = payload /\ (wf' = wf \/ (wf \in BoundedStages /\ wf' = "failed"))
  BY <1>1, RaiseLeaves
<1>5. Calm /\ Truth'
  BY <1>1, <1>2, <1>3, <1>4, RowCalm
<1> QED BY <1>1, <1>5, RaiseLeaves, Leaves

\* A step that may settle or release what variant v has reserved
LEMMA ReservationCalm ==
  ASSUME Inv, Kept, NEW v \in Variants, NEW state, state \notin {"none", "reserved"},
         reservation' = [reservation EXCEPT ![v] = state] \/ reservation' = reservation,
         reservation[v] # "none",
         UNCHANGED <<request, provider, effect, row, asked, hooks, products, job>>,
         payload' = payload, wf' = wf \/ (wf \in BoundedStages /\ wf' = "failed")
  PROVE  Calm /\ Truth'
<1>1. Calm
  BY DEF request, provider, products, Calm, Kept, Course, Closed
<1> QED BY <1>1, TruthSame DEF provider, Kept, Truth

LEMMA UsageIs ==
  ASSUME Course, NEW v \in Variants, reservation[v] # "none"
  PROVE  Usage(v) \notin {"none", "reserved"}
  BY OptionAssumption DEF Course, Usage

LEMMA SettleKept == ASSUME Inv, Kept, NEW s \in Slots, Settle(s) PROVE Kept'
<1> DEFINE on == att[s].on
<1>1. /\ att[s].at = "aw_settle" /\ att[s].at \in Awaiting /\ on \in Variants /\ Sound(att[s])
      /\ UNCHANGED <<request, provider, effect, row, asked, hooks, products, job>>
      /\ reservation' = [reservation EXCEPT ![on] = Usage(on)]
  BY DEF Settle, At, On, Awaiting, Inv, Shape, IsAttempt, Kept
<1>2. Closed(on) /\ reservation[on] # "none"
  BY <1>1 DEF Sound, Kept, Course
<1>3. PICK state : state = Usage(on)
  OBVIOUS
<1>4. state \notin {"none", "reserved"}
  BY <1>1, <1>2, <1>3, UsageIs DEF Kept
<1>5. CASE NextVariant(s, "aw_status")
  <2>1. UNCHANGED control
    BY <1>5 DEF NextVariant, MoveOn
  <2>2. Calm /\ Truth'
    BY <1>1, <1>2, <1>3, <1>4, <2>1, ReservationCalm DEF control
  <2>3. PICK a : /\ Sound(a) /\ (cur = s => Fits(a)) /\ Becomes(s, a)
                 /\ a.at \notin {"distribute", "final_gate", "cn_call"}
    BY <1>1, <1>2, <1>5, NextLikes, PassedSound DEF Over
  <2>4. Sound(a)' /\ (cur = s => Fits(a)')
    BY <2>1, <2>2, <2>3, SoundForward, CalmForward, CalmCourse, FitsCalm
       DEF Kept, Becomes, control
  <2> QED BY <2>1, <2>2, <2>3, <2>4, GoesOn DEF control
<1>6. CASE RaiseAs(s, FALSE)
  <2>1. Calm /\ Truth'
    BY <1>1, <1>2, <1>3, <1>4, <1>6, RaiseLeaves, ReservationCalm
  <2> QED BY <1>6, <2>1, RaiseLeaves, Leaves
<1> QED BY <1>5, <1>6 DEF Settle, Raise

LEMMA DeadLetterKept == ASSUME Inv, Kept, NEW s \in Slots, DeadLetter(s) PROVE Kept'
<1>1. att[s].at = "aw_letter" /\ att[s].at \in Awaiting /\ Sound(att[s])
  BY DEF DeadLetter, At, Awaiting, Kept
<1>2. PICK a : Likes(s, a) /\ a.at = "aw_fatal" /\ a.on = att[s].on
  BY GoLikes DEF DeadLetter, Over
<1>3. /\ Sound(a) /\ (cur = s => Fits(a)) /\ Becomes(s, a)
      /\ a.at \notin {"distribute", "final_gate", "cn_call"}
  BY <1>1, <1>2, AwaitingSound DEF Awaiting
<1>4. job # "denied"
  BY <1>1 DEF Sound, Kept, Course
<1>5. UNCHANGED <<request, provider, records, control>> /\ job' = "dead_lettered"
  BY DEF DeadLetter, Go
<1>6. Calm
  BY <1>4, <1>5 DEF Calm, request, provider, records, products, control, Kept, Course, Closed
<1>7. Truth'
  BY <1>5, <1>6, TruthSame DEF provider, records, Kept, Truth
<1>8. Sound(a)' /\ (cur = s => Fits(a)')
  BY <1>3, <1>5, <1>6, SoundForward, CalmForward, CalmCourse, FitsCalm
     DEF Kept, Becomes, control
<1> QED BY <1>3, <1>5, <1>6, <1>7, <1>8, GoesOn DEF control

LEMMA WaitingKept == ASSUME Inv, Kept, NEW s \in Slots, AwaitProvider(s) PROVE Kept'
<1>1. CASE FailWorkflow(s)
  BY <1>1, NothingLeaves DEF FailWorkflow, At, Nothing
<1> QED
  BY <1>1, PollKept, KeepWaitingKept, MarkRetryKept, BuryKept, DeadLetterKept, SettleKept
     DEF AwaitProvider

-----------------------------------------------------------------------------
(* import_validate, distribute, final_gate, complete and denied            *)

\* An attempt that returns is sound wherever it comes from.
LEMMA ReturnSound ==
  ASSUME Inv, Kept, NEW s \in Slots, NEW a, Likes(s, a), a.at \in {"ret", "im_store"}
  PROVE  Sound(a) /\ Becomes(s, a)
  BY Plain DEF Sound, Reserving, Submitting, Awaiting, Asking, Cancelling

LEMMA ImportKept == ASSUME Inv, Kept, NEW s \in Slots, Import(s) PROVE Kept'
<1> DEFINE on == att[s].on
<1>1. att[s].at = "im_store" /\ on \in Variants
  BY DEF Import, At, Inv, Shape, IsAttempt
<1>2. CASE remote[on] = "completed"
  <2>1. /\ NextVariant(s, "im_store") /\ assets' = assets \cup {on}
        /\ UNCHANGED <<request, provider, effect, reservation, row, asked, hooks, distributed,
                       package, job, control>>
    BY <1>2 DEF Import, On, NextVariant, MoveOn
  <2>2. PICK a : /\ Likes(s, a)
                 /\ \/ a.at = "im_store" /\ on < MaxVariants /\ a.on = on + 1
                    \/ a.at = "ret" /\ on = MaxVariants
    BY <2>1, NextLikes DEF Over
  <2>3. Calm
    BY <2>1 DEF Calm, request, provider, control, Kept, Course, Closed
  <2>4. Truth'
    BY <2>1, <2>3, TruthSame DEF provider, Kept, Truth
  <2>5. Sound(a)' /\ Becomes(s, a)
    BY <2>2, <2>3, ReturnSound, SoundForward, CalmForward, CalmCourse DEF Kept, Becomes
  <2>6. cur = s => Fits(a)'
    <3> SUFFICES ASSUME cur = s PROVE Fits(a)'
      OBVIOUS
    <3>1. wf = "import_validate" /\ wf' = wf /\ wf \in Stages /\ payload' = payload
      BY <1>1, <2>1, StageOf DEF control
    <3>2. a.polls = payload.polls /\ \A v \in Variants : v < on => Brought(v)
      BY <1>1, <2>2, BoundAssumption DEF Kept, Turn, Fits, Likes
    <3>3. \A v \in Variants : v < on \/ v = on => Brought(v)'
      BY <1>2, <2>1, <3>2 DEF Brought, provider
    <3>4. \A v \in Variants : (a.at = "im_store" /\ v < a.on) \/ a.at = "ret" => Brought(v)'
      BY <1>1, <2>2, <3>3, BeforeNext
    <3>5. "im_store" \in StepsOf(wf)'
      BY <3>1 DEF StepsOf, Preparation
    <3> QED BY <2>2, <3>1, <3>2, <3>4, <3>5 DEF Fits
  <2> QED BY <2>1, <2>2, <2>3, <2>4, <2>5, <2>6, GoesOn DEF control
<1>3. CASE remote[on] # "completed"
  BY <1>3, NothingLeaves DEF Import, On, Raise, Nothing, records, products
<1> QED BY <1>2, <1>3

LEMMA BuildKept == ASSUME Inv, Kept, NEW s \in Slots, Distribute(s) \/ FinalGate(s) PROVE Kept'
<1>1. Building /\ att[s].at \in {"distribute", "final_gate"}
  BY DEF Distribute, FinalGate, At, Building
<1>2. /\ UNCHANGED <<request, provider, effect, reservation, row, asked, hooks, assets, job>>
      /\ distributed => distributed'
      /\ package => package'
  BY DEF Distribute, FinalGate
<1>3. CASE RaiseAs(s, FALSE)
  <2>1. Calm
    BY <1>1, <1>2, <1>3, RaiseLeaves DEF Calm, request, provider, Kept, Course, Closed
  <2>2. Truth'
    BY <1>2, <2>1, TruthSame DEF provider, Kept, Truth
  <2> QED BY <1>3, <2>1, <2>2, RaiseLeaves, Leaves
<1>4. CASE Go(s, "ret")
  <2>1. PICK a : Likes(s, a) /\ a.at = "ret" /\ a.on = att[s].on
    BY <1>4, GoLikes DEF Over
  <2>2. Calm
    BY <1>1, <1>2, <1>4 DEF Calm, request, provider, Go, control, Kept, Course, Closed
  <2>3. Truth'
    BY <1>2, <2>2, TruthSame DEF provider, Kept, Truth
  <2>4. Sound(a)' /\ Becomes(s, a)
    BY <2>1, <2>2, ReturnSound, SoundForward, CalmForward, CalmCourse DEF Kept, Becomes
  <2>5. cur = s => Fits(a)'
    <3> SUFFICES ASSUME cur = s PROVE Fits(a)'
      OBVIOUS
    <3>1. /\ wf \in {"distribute", "final_gate"} /\ wf' = wf /\ wf \in Stages /\ payload' = payload
          /\ wf = "final_gate" => att[s].at = "final_gate"
      BY <1>1, <1>4, StageOf, StepsAre DEF Go, control
    <3>2. wf = "final_gate" => package' = TRUE
      <4>1. ~Raise(s)
        BY <2>1, IdleApart DEF Likes, Becomes, Raise, RaiseAs, Inv, Shape
      <4> QED BY <3>1, <4>1 DEF Distribute, FinalGate, At
    <3>3. a.polls = payload.polls
      BY <2>1, BoundAssumption DEF Kept, Turn, Fits, Likes
    <3> QED BY <2>1, <3>1, <3>2, <3>3 DEF Fits
  <2> QED BY <1>4, <2>1, <2>2, <2>3, <2>4, <2>5, GoesOn DEF Go, control
<1> QED BY <1>3, <1>4 DEF Distribute, FinalGate, Raise

\* complete, denied and cancel end with the job's state.
LEMMA ConcludeKept ==
  ASSUME Inv, Kept, NEW s \in Slots, Complete(s) \/ Deny(s) \/ Cancel(s) PROVE Kept'
<1>1. /\ Sound(att[s])
      /\ \/ att[s].at = "cp_job" /\ job' = "succeeded" /\ Go(s, "ret")
         \/ att[s].at = "dn_job" /\ job' = "denied" /\ Go(s, "ret")
         \/ att[s].at = "cn_job" /\ job' = "cancelled" /\ Go(s, "ret")
  BY DEF Complete, Deny, Cancel, Conclude, At, Kept
<1>2. UNCHANGED <<request, provider, records, control>>
  BY DEF Complete, Deny, Cancel, Conclude, Go
<1>3. job = "denied" => wf \in {"denied", "closed"}
  BY DEF Kept, Course
<1>4. /\ att[s].at = "cp_job" => job # "denied" /\ (package \/ dryRun)
      /\ att[s].at = "dn_job" => wf = "denied" \/ job = "denied"
      /\ att[s].at = "cn_job" => job # "denied" /\ MayCancel /\ \A v \in Variants : Freed(v)
  BY <1>1, <1>3 DEF Sound, MayCancel, MayConclude, Cancelling
<1>5. PICK a : Likes(s, a) /\ a.at = "ret" /\ a.on = att[s].on
  BY <1>1, GoLikes DEF Over
<1>6. Calm
  BY <1>1, <1>2, <1>4
     DEF Calm, request, provider, records, products, control, Kept, Course, Closed
<1>7. Truth'
  BY <1>2, <1>6, TruthSame DEF provider, records, Kept, Truth
<1>8. Sound(a)' /\ Becomes(s, a)
  BY <1>5, <1>6, ReturnSound, SoundForward, CalmForward, CalmCourse DEF Kept, Becomes
<1>9. cur = s => Fits(a)'
  <2> SUFFICES ASSUME cur = s PROVE Fits(a)'
    OBVIOUS
  <2>1. /\ wf \in {"complete", "denied", "cancel"} /\ wf' = wf /\ wf \in Stages
        /\ payload' = payload /\ (wf = "denied" => att[s].at = "dn_job")
    BY <1>1, <1>2, StageOf DEF control, Cancelling
  <2>2. wf = "denied" => job' = "denied"
    BY <1>1, <2>1
  <2>3. a.polls = payload.polls
    BY <1>5, BoundAssumption DEF Kept, Turn, Fits, Likes
  <2> QED BY <1>5, <2>1, <2>2, <2>3 DEF Fits
<1> QED BY <1>2, <1>5, <1>6, <1>7, <1>8, <1>9, GoesOn DEF control

LEMMA FinishKept == ASSUME Inv, Kept, NEW s \in Slots, Finish(s) PROVE Kept'
  BY ImportKept, BuildKept, ConcludeKept DEF Finish

-----------------------------------------------------------------------------
(* cancel                                                                  *)

\* A step of the stage that stays at the same variant
LEMMA AskingSound ==
  ASSUME Inv, Kept, NEW s \in Slots, NEW a, Likes(s, a), att[s].at \in Asking,
         a.at \in Asking, a.on = att[s].on,
         a.at = "cn_status" => a.on \in asked \/ Closed(a.on),
         a.at = "cn_call" => a.on \in asked,
         a.at \in {"cn_move", "cn_cost"} => Closed(a.on)
  PROVE  Sound(a) /\ (cur = s => Fits(a)) /\ Becomes(s, a)
         /\ a.at \notin {"distribute", "final_gate"}
<1>1. Sound(a)
  BY Plain DEF Sound, Reserving, Submitting, Awaiting, Asking, Cancelling
<1>2. cur = s => Fits(a)
  BY StaysFit DEF Cancelling
<1> QED BY <1>1, <1>2, Plain DEF Asking

LEMMA AskKept == ASSUME Inv, Kept, NEW s \in Slots, AskProvider(s) PROVE Kept'
<1>0. PICK on \in Variants : on = att[s].on
  BY DEF Inv, Shape, IsAttempt
<1>1. att[s].at = "cn_ask" /\ on \in Variants /\ Sound(att[s]) /\ att[s].at \in Asking
  BY <1>0 DEF AskProvider, At, Inv, Shape, IsAttempt, Kept, Asking
<1>2. PICK a : Likes(s, a) /\ a.at = "cn_status" /\ a.on = on
  BY <1>0, GoLikes DEF AskProvider, Over
<1>3. /\ asked' = IF row[on] \in Terminal THEN asked ELSE asked \cup {on}
      /\ UNCHANGED <<request, provider, effect, reservation, row, hooks, products, job, control>>
  BY <1>0 DEF AskProvider, Go, On
<1>4. MayCancel /\ payload.has = "jobs" /\ \A v \in Variants : v < on => Freed(v)
  BY <1>0, <1>1 DEF Sound, Cancelling
<1>5. on \in asked' \/ Closed(on)
  <2>1. ~Exhausted(on)
    BY <1>0, <1>4 DEF Exhausted, MayCancel
  <2>2. row[on] \in Terminal => row[on] \in Over \/ row[on] = "dead_lettered"
    BY <1>0 DEF Terminal, Over
  <2> QED BY <1>0, <1>1, <1>3, <2>1, <2>2 DEF Kept, Truth
<1>6. Calm
  BY <1>0, <1>3 DEF Calm, request, provider, products, control, Kept, Course, Closed
<1>7. Truth'
  BY <1>0, <1>3, <1>6, TruthSame DEF provider, Kept, Truth
<1>8. Forward /\ Course'
  BY <1>0, <1>6, CalmForward, CalmCourse DEF Kept
<1>9. MayCancel' /\ payload'.has = "jobs" /\ \A v \in Variants : v < on => Freed(v)'
  BY <1>0, <1>4, <1>8 DEF Forward, Freed
<1>10. (on \in asked' \/ Closed(on)') /\ \A v \in Variants : Closed(v) => Closed(v)'
  BY <1>0, <1>1, <1>5, <1>8 DEF Forward
<1>11. Sound(a)'
  BY <1>0, <1>2, <1>9, <1>10, Plain
     DEF Sound, Reserving, Submitting, Awaiting, Asking, Cancelling
<1>12. cur = s => Fits(a)'
  <2> SUFFICES ASSUME cur = s PROVE Fits(a)'
    OBVIOUS
  <2>1. Fits(a)
    BY <1>0, <1>1, <1>2, StaysFit DEF Cancelling, Asking
  <2> QED BY <1>0, <1>3, <1>6, <2>1, <1>2, Plain, FitsCalm DEF control
<1> QED BY <1>0, <1>2, <1>3, <1>6, <1>7, <1>11, <1>12, Plain, GoesOn DEF control

LEMMA CancelStatusKept == ASSUME Inv, Kept, NEW s \in Slots, CancelStatus(s) PROVE Kept'
<1> DEFINE on == att[s].on
           to == IF remote[on] \in Live THEN "cn_call" ELSE "cn_move"
<1>1. att[s].at = "cn_status" /\ on \in Variants /\ Sound(att[s]) /\ att[s].at \in Asking
  BY DEF CancelStatus, At, Inv, Shape, IsAttempt, Kept, Asking
<1>2. remote[on] \in Live \cup Over
  <2>1. creates[on] = 1
    BY <1>1 DEF Inv, Sent, Kept, Course, Sound
  <2> QED BY <1>1, <2>1 DEF Kept, Truth
<1>3. Learn(s, to, remote[on]) /\ Nothing /\ wf' = wf /\ cur' = cur /\ payload' = payload
  BY DEF CancelStatus, On, Learn, control, Nothing
<1>4. PICK a : Likes(s, a) /\ a.at = to /\ a.on = on
  BY <1>2, <1>3, GoLikes DEF Live, Over, Closed
<1>5. /\ to = "cn_call" => on \in asked /\ remote[on] # "completed"
      /\ to = "cn_move" => Closed(on)
      /\ to \in {"cn_call", "cn_move"}
  BY <1>1, <1>2 DEF Sound, Closed, Live, Over
<1>6. a.at = "cn_call" => ~Building
  BY <1>1, <1>4, <1>5 DEF Kept, Delivery, Whole, Brought
<1> HIDE DEF to
<1>7. a.at \in Asking
  BY <1>4, <1>5 DEF Asking
<1> QED BY <1>1, <1>3, <1>4, <1>5, <1>6, <1>7, AskingSound, Steps

LEMMA CancelRemoteKept == ASSUME Inv, Kept, NEW s \in Slots, CancelRemote(s) PROVE Kept'
<1>0. PICK on \in Variants : on = att[s].on
  BY DEF Inv, Shape, IsAttempt
<1> DEFINE b == [att[s] EXCEPT !.at = "cn_move", !.got[on] = "cancelled"]
<1>1. att[s].at = "cn_call" /\ on \in Variants /\ Sound(att[s]) /\ IsAttempt(att[s])
  BY <1>0 DEF CancelRemote, At, Inv, Shape, IsAttempt, Kept
<1>2. /\ remote' = [remote EXCEPT ![on] = "cancelled"] /\ att' = [att EXCEPT ![s] = b]
      /\ reported' = reported \cup {<<on, "cancelled">>}
      /\ UNCHANGED <<request, creates, records, job, control>>
  BY <1>0 DEF CancelRemote, Learn, On, Inv, Shape
<1>3. /\ IsAttempt(b) /\ b.at = "cn_move" /\ b.on = on /\ b.polls = att[s].polls
      /\ b.got = [att[s].got EXCEPT ![on] = "cancelled"]
  BY <1>0, <1>1 DEF IsAttempt, AttemptFields
<1> HIDE DEF b
<1>4. PICK a : a = b
  OBVIOUS
<1>5. /\ MayCancel /\ on \in asked /\ payload.has = "jobs"
      /\ \A v \in Variants : v < on => Freed(v)
  BY <1>0, <1>1 DEF Sound, Asking, Cancelling
<1>6. ~Building
  BY <1>0, <1>1 DEF Kept, Delivery
<1>7. /\ remote'[on] = "cancelled" /\ Closed(on)'
      /\ \A v \in Variants : v # on => remote'[v] = remote[v]
  BY <1>0, <1>1, <1>2 DEF Inv, Shape, Closed, Over
<1>8. Calm
  BY <1>0, <1>2, <1>5, <1>6, <1>7
     DEF Calm, request, records, products, control, Kept, Course, Closed
<1>9. Forward /\ Course'
  BY <1>0, <1>8, CalmForward, CalmCourse DEF Kept
<1>10. Truth'
  <2>1. hooks' \subseteq reported'
    BY <1>0, <1>2 DEF Kept, Truth, records
  <2>2. ASSUME NEW v \in Variants
        PROVE  /\ remote'[v] \in {"none"} \cup Live \cup Over
               /\ creates'[v] = 1 => remote'[v] # "none"
               /\ remote'[v] = "cancelled" => v \in asked'
    BY <1>0, <1>2, <1>5, <1>7 DEF Kept, Truth, records, Over
  <2>3. \A v \in Variants : /\ row'[v] \in Over => Closed(v)'
                            /\ row'[v] = "dead_lettered" => Closed(v)' \/ Exhausted(v)'
    BY <1>0, <1>2, <1>9 DEF Kept, Truth, records, Forward
  <2>4. \A v \in Variants, state \in Live \cup Terminal : <<v, state>> \in reported'
          => state # "dead_lettered" /\ (state \in Over => Closed(v)')
    BY <1>0, <1>2, <1>7, <1>9 DEF Kept, Truth, Forward
  <2> QED BY <1>0, <2>1, <2>2, <2>3, <2>4 DEF Truth
<1>11. MayCancel' /\ payload'.has = "jobs" /\ \A v \in Variants : v < on => Freed(v)'
  BY <1>0, <1>5, <1>9 DEF Forward, Freed
<1>12. a.polls \in [Variants -> Nat] /\ DOMAIN a.got = Variants
       /\ \A v \in Variants : a.got[v] # "dead_lettered" /\ (a.got[v] \in Over => Closed(v)')
  BY <1>0, <1>1, <1>3, <1>4, <1>7, <1>9 DEF Sound, Forward
<1>13. Sound(a)'
  BY <1>0, <1>3, <1>4, <1>7, <1>11, <1>12
     DEF Sound, Reserving, Submitting, Awaiting, Asking, Cancelling
<1>14. Becomes(s, a) /\ a.at = "cn_move" /\ IsAttempt(a)
  BY <1>0, <1>2, <1>3, <1>4 DEF Becomes
<1>15. cur = s => Fits(a)'
  <2> SUFFICES ASSUME cur = s PROVE Fits(a)'
    OBVIOUS
  <2>1. wf = "cancel" /\ wf \in Stages /\ a.polls = payload.polls /\ "cn_move" \in StepsOf(wf)
    BY <1>0, <1>1, <1>3, <1>4, StageOf, StepsAre, BoundAssumption
       DEF Cancelling, Asking, Kept, Turn, Fits
  <2>2. Fits(a)
    BY <1>0, <1>14, <2>1 DEF Fits
  <2> QED BY <1>0, <1>2, <1>8, <1>14, <2>2, FitsCalm DEF control
<1> QED BY <1>0, <1>2, <1>8, <1>10, <1>13, <1>14, <1>15, GoesOn DEF control

LEMMA RecordCancelledKept == ASSUME Inv, Kept, NEW s \in Slots, RecordCancelled(s) PROVE Kept'
<1> DEFINE on == att[s].on
<1>1. /\ att[s].at = "cn_move" /\ OnlyRow /\ on \in Variants /\ Sound(att[s])
      /\ MoveRow(s, att[s].got[on], Go(s, "cn_cost")) /\ att[s].at \in Asking
  BY DEF RecordCancelled, At, OnlyRow, Got, On, Inv, Shape, IsAttempt, Kept, Asking
<1>2. /\ att[s].got[on] # "dead_lettered" /\ (att[s].got[on] \in Over => Closed(on))
      /\ Closed(on)
  BY <1>1 DEF Sound
<1>3. \E a : Go(s, "cn_cost") =>
               /\ Sound(a) /\ (cur = s => Fits(a)) /\ Becomes(s, a)
               /\ a.at \notin {"distribute", "final_gate", "cn_call"} /\ UNCHANGED control
  <2>1. CASE Go(s, "cn_cost")
    <3>1. PICK a : Likes(s, a) /\ a.at = "cn_cost" /\ a.on = on
      BY <1>1, <2>1, GoLikes DEF Over
    <3>2. Sound(a) /\ (cur = s => Fits(a)) /\ Becomes(s, a)
      BY <1>1, <1>2, <3>1, AskingSound DEF Asking
    <3> QED BY <2>1, <3>1, <3>2 DEF Go
  <2> QED BY <2>1
<1> QED BY <1>1, <1>2, <1>3, MoveRowKept

\* On to the next variant, or to the job, when variant on is seen to
LEMMA CancelNextKept ==
  ASSUME Inv, Kept, NEW s \in Slots, NEW on \in Variants, on = att[s].on,
         NEW first \in {"cn_ask", "cn_release"}, NEW a, Likes(s, a),
         att[s].at \in Cancelling, Sound(att[s]),
         \/ a.at = first /\ on < MaxVariants /\ a.on = on + 1
         \/ a.at = "cn_job" /\ on = MaxVariants /\ a.on = on,
         first = "cn_ask" => payload.has = "jobs",
         first = "cn_release" => payload.has = "reservations",
         Calm, Truth', UNCHANGED control, Freed(on)'
  PROVE  Kept'
<1>1. Forward /\ Course'
  BY CalmForward, CalmCourse DEF Kept
<1>2. MayCancel' /\ payload' = payload /\ \A v \in Variants : v < on => Freed(v)'
  BY <1>1 DEF Forward, Freed, Sound, control
<1>3. \A v \in Variants : (a.at = "cn_job" \/ v < a.on) => Freed(v)'
  BY <1>2, Plain, BeforeNext
<1>4. \A v \in Variants : Closed(v) => Closed(v)'
  BY <1>1 DEF Forward
<1>5. Sound(a)'
  BY <1>2, <1>3, <1>4, Plain DEF Sound, Reserving, Submitting, Awaiting, Asking, Cancelling
<1>6. cur = s => Fits(a)'
  <2> SUFFICES ASSUME cur = s PROVE Fits(a)'
    OBVIOUS
  <2>1. Fits(a)
    BY StaysFit DEF Cancelling, Asking
  <2> QED BY <2>1, Plain, FitsCalm DEF control
<1> QED BY <1>5, <1>6, Plain, GoesOn DEF control

LEMMA SettleCancelledKept ==
  ASSUME Inv, Kept, NEW s \in Slots, SettleCancelled(s) PROVE Kept'
<1>0. PICK on \in Variants : on = att[s].on
  BY DEF Inv, Shape, IsAttempt
<1>1. /\ att[s].at = "cn_cost" /\ att[s].at \in Cancelling /\ on \in Variants /\ Sound(att[s])
      /\ UNCHANGED <<request, provider, effect, row, asked, hooks, products, job>>
      /\ reservation' = [reservation EXCEPT ![on] = Usage(on)]
  BY <1>0 DEF SettleCancelled, At, On, Cancelling, Asking, Inv, Shape, IsAttempt, Kept
<1>2. Closed(on) /\ payload.has = "jobs" /\ reservation[on] # "none"
  BY <1>0, <1>1 DEF Sound, Kept, Course, Asking
<1>3. PICK state : state = Usage(on)
  OBVIOUS
<1>4. state \notin {"none", "reserved"}
  BY <1>0, <1>1, <1>2, <1>3, UsageIs DEF Kept
<1>5. CASE CancelNext(s, "cn_ask")
  <2>1. UNCHANGED control
    BY <1>0, <1>5 DEF CancelNext
  <2>2. Calm /\ Truth'
    BY <1>0, <1>1, <1>2, <1>3, <1>4, <2>1, ReservationCalm DEF control
  <2>3. PICK a : /\ Likes(s, a)
                 /\ \/ a.at = "cn_ask" /\ on < MaxVariants /\ a.on = on + 1
                    \/ a.at = "cn_job" /\ on = MaxVariants
                 /\ a.at = "cn_job" => a.on = on
    BY <1>0, <1>5, CancelLikes
  <2>4. Freed(on)'
    BY <1>0, <1>1, <1>2, <1>3, <1>4, <2>1 DEF Freed, control, provider, Closed, Kept, Course
  <2> QED BY <1>0, <1>1, <1>2, <2>1, <2>2, <2>3, <2>4, CancelNextKept
<1>6. CASE RaiseAs(s, FALSE)
  <2>1. Calm /\ Truth'
    BY <1>0, <1>1, <1>2, <1>3, <1>4, <1>6, RaiseLeaves, ReservationCalm
  <2> QED BY <1>0, <1>6, <2>1, RaiseLeaves, Leaves
<1> QED BY <1>0, <1>5, <1>6 DEF SettleCancelled, Raise

LEMMA ReleaseCancelledKept ==
  ASSUME Inv, Kept, NEW s \in Slots, ReleaseCancelled(s) PROVE Kept'
<1>0. PICK on \in Variants : on = att[s].on
  BY DEF Inv, Shape, IsAttempt
<1>1. /\ att[s].at = "cn_release" /\ att[s].at \in Cancelling /\ on \in Variants
      /\ Sound(att[s]) /\ CancelNext(s, "cn_release")
      /\ UNCHANGED <<request, provider, effect, row, asked, hooks, products, job, control>>
      /\ ReleaseUnused(on)
  BY <1>0 DEF ReleaseCancelled, CancelNext, At, On, Cancelling, Inv, Shape, IsAttempt, Kept
<1>2. payload.has = "reservations" /\ reservation[on] # "none" /\ DOMAIN reservation = Variants
  BY <1>0, <1>1 DEF Sound, Kept, Course
<1>3. PICK state : /\ reservation' = [reservation EXCEPT ![on] = state]
                   /\ state \notin {"none", "reserved"}
  <2>1. PICK st : st = IF reservation[on] \in {"reserved", "pending_actual"} THEN "released"
                       ELSE reservation[on]
    OBVIOUS
  <2>2. reservation' = [reservation EXCEPT ![on] = st]
    BY <1>1, <1>2, <2>1 DEF ReleaseUnused
  <2>3. st \notin {"none", "reserved"}
    BY <1>2, <2>1
  <2> QED BY <2>2, <2>3
<1>4. Calm /\ Truth'
  BY <1>0, <1>1, <1>2, <1>3, ReservationCalm DEF control
<1>5. PICK a : /\ Likes(s, a)
               /\ \/ a.at = "cn_release" /\ on < MaxVariants /\ a.on = on + 1
                  \/ a.at = "cn_job" /\ on = MaxVariants
               /\ a.at = "cn_job" => a.on = on
  BY <1>0, <1>1, CancelLikes
<1>6. Freed(on)'
  BY <1>0, <1>1, <1>2, <1>3 DEF Freed, control
<1> QED BY <1>0, <1>1, <1>2, <1>4, <1>5, <1>6, CancelNextKept

LEMMA CancellingKept == ASSUME Inv, Kept, NEW s \in Slots, CancelProduction(s) PROVE Kept'
  BY AskKept, CancelStatusKept, CancelRemoteKept, RecordCancelledKept, SettleCancelledKept,
     ReleaseCancelledKept, ConcludeKept DEF CancelProduction

-----------------------------------------------------------------------------
(* Attempts begin, and return                                              *)

LEMMA DispatchKept == ASSUME Inv, Kept, NEW s \in Slots, Dispatch(s) PROVE Kept'
<1> DEFINE b == [Idle EXCEPT !.at = Entry(wf), !.try = tries', !.polls = payload.polls,
                             !.out = IF permitted THEN "ok" ELSE "denied"]
<1>1. wf \in Stages /\ att' = [att EXCEPT ![s] = b] /\ cur' = s
  BY DEF Dispatch
<1>2. /\ IsAttempt(b) /\ b.at = Entry(wf) /\ b.on = 1 /\ b.polls = payload.polls
      /\ b.got = [v \in Variants |-> "none"]
      /\ b.out = IF permitted THEN "ok" ELSE "denied"
  BY VariantsGoOn DEF Idle, IsAttempt, AttemptFields
<1> HIDE DEF b
<1>3. PICK a : a = b
  OBVIOUS
<1>4. /\ Becomes(s, a) /\ IsAttempt(a) /\ a.polls = payload.polls
      /\ a.on = 1 /\ 1 \in Variants /\ \A v \in Variants : ~(v < a.on)
  BY <1>1, <1>2, <1>3, VariantsGoOn DEF Becomes, Variants
<1>5. /\ a.polls \in [Variants -> Nat] /\ DOMAIN a.got = Variants
      /\ \A v \in Variants : a.got[v] # "dead_lettered" /\ a.got[v] \notin Over
  BY <1>2, <1>3, <1>4 DEF Kept, Course, Over
<1>6. /\ a.at \in StepsOf(wf) \cup {"ret"}
      /\ a.at = "ret" => dryRun \/ (wf = "authorize" /\ a.out = "denied")
      /\ a.at = "ret" => wf \notin TerminalStages
      /\ a.at \in {"prepare", "au_plan", "sb_look", "aw_status", "im_store", "distribute",
                   "final_gate", "cp_job", "dn_job", "cn_job", "cn_ask", "cn_release", "ret"}
      /\ a.at = "cn_ask" => payload.has = "jobs" /\ ~dryRun
      /\ a.at = "cn_release" => payload.has \notin {"nothing", "jobs"} /\ ~dryRun
      /\ a.at = "cn_job" => payload.has = "nothing" \/ dryRun
      /\ dryRun => a.at \notin {"au_plan", "sb_look", "aw_status", "im_store", "distribute",
                                "final_gate"}
  BY <1>1, <1>2, <1>3
     DEF Entry, FirstStep, StepsOf, Stages, BoundedStages, TerminalStages, Preparation,
         Reserving, Submitting, Awaiting, Cancelling, Asking
<1>7. /\ a.at = "au_plan" => wf = "authorize"
      /\ a.at = "sb_look" => wf = "submit_or_reconcile"
      /\ a.at = "aw_status" => wf = "await_provider"
      /\ a.at \in {"distribute", "final_gate"} => wf \in {"distribute", "final_gate"}
      /\ a.at = "cp_job" => wf = "complete"
      /\ a.at = "dn_job" => wf = "denied"
      /\ a.at \in {"cn_job", "cn_ask", "cn_release"} => wf = "cancel"
  BY <1>1, <1>6
     DEF StepsOf, Stages, BoundedStages, TerminalStages, Preparation, Reserving, Submitting,
         Awaiting, Cancelling, Asking
<1>8. /\ payload.has \in {"nothing", "reservations", "jobs"}
      /\ dryRun => payload.has = "nothing"
      /\ wf = "await_provider" => payload.has = "jobs" /\ ~dryRun
      /\ wf = "complete" => package \/ dryRun
      /\ payload.polls \in [Variants -> Nat]
  BY DEF Kept, Course
<1>9. /\ a.at = "au_plan" => MayReserve
      /\ a.at = "sb_look" => MaySubmit
      /\ a.at = "cp_job" => MayConclude
      /\ a.at \in {"cn_job", "cn_ask", "cn_release"} => MayCancel
  BY <1>6, <1>7 DEF MayReserve, MaySubmit, MayCancel, MayConclude
<1>10. a.at = "aw_status" =>
         \A v \in Variants : a.polls[v] <= payload.polls[v] /\ (PolledOut(a, v) => Exhausted(v))
  BY <1>4, <1>7, <1>8 DEF PolledOut, Exhausted
<1>11. a.at = "cn_job" => \A v \in Variants : Freed(v)
  BY <1>6, <1>8 DEF Freed
<1>12. Sound(a)
  BY <1>4, <1>5, <1>6, <1>7, <1>8, <1>9, <1>10, <1>11
     DEF Sound, Reserving, Submitting, Awaiting, Asking, Cancelling
<1>13. Fits(a)
  <2>1. a.at = "ret" => wf \notin {"await_provider", "denied"}
    BY <1>6, <1>8 DEF TerminalStages
  <2>2. a.at = "ret" /\ wf = "authorize" => dryRun \/ a.out # "ok"
    BY <1>6
  <2>3. a.at = "ret" /\ wf # "authorize" => dryRun
    BY <1>6
  <2> QED BY <1>1, <1>4, <1>6, <2>1, <2>2, <2>3 DEF Fits
<1>14. Nothing /\ wf' = wf /\ payload' = payload
  BY DEF Dispatch, Nothing
<1>15. Calm /\ Truth' /\ Course' /\ Forward
  BY <1>14, NothingCalm, CalmCourse, CalmForward DEF Kept
<1>16. Sound(a)' /\ Fits(a)'
  BY <1>4, <1>12, <1>13, <1>14, <1>15, SoundForward, FitsCalm DEF Kept
<1>17. Turn'
  BY <1>1, <1>2, <1>3, <1>16 DEF Turn, Inv, Shape
<1>18. Delivery'
  <2>1. ASSUME a.at \in {"distribute", "final_gate"}, NEW t \in Slots, att[t].at = "cn_call"
        PROVE  FALSE
    <3>1. MayCancel
      BY <2>1 DEF Kept, Sound, Cancelling, Asking
    <3> QED BY <1>7, <2>1, <3>1 DEF MayCancel
  <2>2. a.at \in {"distribute", "final_gate"} => Whole /\ ~MayCancel
    BY <1>6, <1>7 DEF Kept, Delivery, MayCancel
  <2> QED BY <1>4, <1>6, <1>15, <2>1, <2>2, DeliveryCalm
<1> QED BY <1>4, <1>15, <1>16, <1>17, <1>18, Assemble

LEMMA ReturnedKept == ASSUME Inv, Kept, NEW s \in Slots, Return(s), cur = s PROVE Kept'
<1> DEFINE a == att[s]
<1>1. /\ att' = [att EXCEPT ![s] = Idle] /\ cur' = NoSlot /\ a.at = "ret" /\ Fits(a)
      /\ payload' = Handed(s) /\ wf' = Decision(wf, a.out, Reached(s), cancelReq)
      /\ UNCHANGED <<request, provider, records, job>>
  BY BoundAssumption DEF Return, Kept, Turn
<1>2. wf \in Stages /\ a.polls = payload.polls /\ a.polls \in [Variants -> Nat]
  BY <1>1 DEF Fits, Kept, Sound
<1>3. /\ payload'.has = IF wf = "authorize" /\ a.out = "ok" /\ ~dryRun THEN "reservations"
                        ELSE IF wf = "submit_or_reconcile" /\ ~dryRun THEN "jobs"
                        ELSE payload.has
      /\ payload'.polls \in [Variants -> Nat]
      /\ \A v \in Variants : payload.polls[v] <= payload'.polls[v]
  BY <1>1, <1>2 DEF Handed
<1>4. /\ wf \in Preparation => wf' \in Preparation \cup {"authorize", "cancel"}
      /\ wf = "authorize" =>
           IF a.out = "ok" THEN wf' \in {"submit_or_reconcile", "cancel"} ELSE wf' = "denied"
      /\ wf = "submit_or_reconcile" =>
           wf' \in {"import_validate", "cancel"} \/ (wf' = "await_provider" /\ ~dryRun)
      /\ wf = "await_provider" => wf' \in {"await_provider", "import_validate", "cancel"}
      /\ wf = "import_validate" => wf' \in {"distribute", "cancel"}
      /\ wf = "distribute" => wf' \in {"final_gate", "cancel"}
      /\ wf = "final_gate" => wf' = "complete"
      /\ wf \in TerminalStages => wf' = "closed"
  <2>1. wf = "submit_or_reconcile" /\ dryRun => Reached(s) \notin Live
    BY DEF Reached, Live
  <2> QED BY <1>1, <1>2, <2>1
          DEF Decision, Onward, Following, TerminalStages, Preparation
<1>5. \/ wf \in Preparation
      \/ wf \in {"authorize", "submit_or_reconcile", "await_provider", "import_validate",
                 "distribute", "final_gate", "complete", "denied", "cancel"}
  BY <1>2 DEF Stages, BoundedStages, TerminalStages
<1>6. /\ Preparation \cap {"authorize", "submit_or_reconcile", "await_provider",
                           "import_validate", "distribute", "final_gate", "complete",
                           "denied", "cancel", "closed", "failed"} = {}
      /\ TerminalStages = {"complete", "denied", "cancel"}
      /\ Preparation \subseteq Stages
      /\ {"authorize", "submit_or_reconcile", "await_provider", "import_validate",
          "distribute", "final_gate", "complete", "denied", "cancel"} \subseteq Stages
      /\ Ended = {"closed", "failed"}
  BY DEF Preparation, TerminalStages, Stages, BoundedStages, Ended
<1>7. UNCHANGED <<dryRun, cost, remote, creates, reported, effect, reservation, row, asked,
                  hooks, assets, distributed, package, job>>
  BY <1>1 DEF request, provider, records, products
<1>8. /\ wf = "authorize" /\ ~dryRun /\ a.out = "ok"
           => \A v \in Variants : reservation[v] # "none"
      /\ wf = "submit_or_reconcile" /\ ~dryRun => \A v \in Variants : effect[v] = "completed"
      /\ wf = "await_provider" => \A v \in Variants : Closed(v) \/ ~PolledOut(a, v)
      /\ wf = "import_validate" /\ ~dryRun => \A v \in Variants : Brought(v)
      /\ wf = "final_gate" => package \/ dryRun
      /\ wf = "denied" => job = "denied"
  BY <1>1 DEF Fits
<1> HIDE DEF a
<1>9. /\ payload.has \in {"nothing", "reservations", "jobs"}
      /\ dryRun \/ wf \in Preparation \cup {"authorize", "denied"} => payload.has = "nothing"
      /\ wf = "submit_or_reconcile" => dryRun \/ payload.has = "reservations"
      /\ wf \in {"await_provider", "import_validate", "distribute", "final_gate", "complete"}
           => dryRun \/ payload.has = "jobs"
      /\ wf = "await_provider" => ~dryRun
      /\ job = "denied" => wf = "denied"
      /\ job = "cancelled" => wf = "cancel"
  BY <1>2, <1>5, <1>6 DEF Kept, Course, MayCancel
<1>10. /\ MayReserve => MayReserve'
       /\ MaySubmit => MaySubmit'
       /\ MayCancel => MayCancel' /\ payload'.has = payload.has
       /\ MayConclude => MayConclude'
  <2>1. MayReserve => MayReserve'
    BY <1>3, <1>4, <1>5, <1>6, <1>7, <1>8, <1>9 DEF MayReserve
  <2>2. MaySubmit => MaySubmit'
    BY <1>3, <1>4, <1>5, <1>6, <1>7, <1>9 DEF MaySubmit
  <2>3. MayCancel => MayCancel' /\ payload'.has = payload.has
    BY <1>3, <1>4, <1>5, <1>6, <1>7, <1>9 DEF MayCancel
  <2>4. MayConclude => MayConclude'
    BY <1>3, <1>4, <1>5, <1>6, <1>7, <1>9 DEF MayConclude
  <2> QED BY <2>1, <2>2, <2>3, <2>4
<1>11. \A v \in Variants : Exhausted(v) => Closed(v)
  BY <1>2, <1>5, <1>6, <1>8 DEF Exhausted, PolledOut
<1>12. Forward
  <2>1. payload.has = "jobs" => payload'.has = "jobs"
    BY <1>3, <1>9
  <2>2. wf = "denied" \/ job = "denied" => job' = "denied"
    BY <1>7, <1>8, <1>9
  <2>3. \A v \in Variants :
          /\ Closed(v) => Closed(v)'
          /\ Exhausted(v) => Closed(v)'
          /\ payload.polls[v] <= payload'.polls[v]
    BY <1>3, <1>7, <1>11 DEF Closed
  <2>4. /\ dryRun' = dryRun /\ (package => package') /\ asked \subseteq asked'
        /\ \A v \in Variants :
             /\ reservation[v] # "none" => reservation'[v] # "none"
             /\ reservation[v] \notin {"none", "reserved"}
                  => reservation'[v] \notin {"none", "reserved"}
             /\ effect[v] = "completed" => effect'[v] = "completed"
    BY <1>7
  <2> QED BY <1>10, <2>1, <2>2, <2>3, <2>4 DEF Forward
<1>13. Truth'
  BY <1>7, <1>11 DEF Kept, Truth, Closed
<1>14. Course'
  <2>1. wf' \in Stages \cup Ended
    BY <1>4, <1>5, <1>6
  <2>2. dryRun' \/ wf' \in Preparation \cup {"authorize", "denied"} => payload'.has = "nothing"
    BY <1>3, <1>4, <1>5, <1>6, <1>7, <1>9
  <2>3. /\ wf' = "submit_or_reconcile" => dryRun' \/ payload'.has = "reservations"
        /\ wf' \in {"await_provider", "import_validate", "distribute", "final_gate", "complete"}
             => dryRun' \/ payload'.has = "jobs"
        /\ wf' = "await_provider" => ~dryRun'
    BY <1>3, <1>4, <1>5, <1>6, <1>7, <1>9
  <2>4. /\ payload'.has # "nothing" => \A v \in Variants : reservation'[v] # "none"
        /\ payload'.has = "jobs" => \A v \in Variants : effect'[v] = "completed"
    BY <1>3, <1>7, <1>8 DEF Kept, Course
  <2>5. \A v \in Variants : /\ reservation'[v] # "none" => MayReserve'
                            /\ creates'[v] = 1 => MaySubmit'
    BY <1>7, <1>10 DEF Kept, Course
  <2>6. wf' = "complete" \/ job' = "succeeded" => package' \/ dryRun'
    BY <1>4, <1>5, <1>6, <1>7, <1>8 DEF Kept, Course
  <2>7. job' = "denied" => wf' \in {"denied", "closed"} /\ payload'.has = "nothing"
    BY <1>3, <1>4, <1>6, <1>7, <1>9
  <2>8. job' = "cancelled" => MayCancel' /\ \A v \in Variants : Freed(v)'
    BY <1>7, <1>10 DEF Kept, Course, Freed, Closed
  <2>9. /\ cost' \in Costs /\ dryRun' \in BOOLEAN /\ DOMAIN reservation' = Variants
        /\ payload'.has \in {"nothing", "reservations", "jobs"}
        /\ payload'.polls \in [Variants -> Nat]
    BY <1>3, <1>7, <1>9 DEF Kept, Course
  <2> QED BY <2>1, <2>2, <2>3, <2>4, <2>5, <2>6, <2>7, <2>8, <2>9 DEF Course
<1>15. Delivery'
  <2>1. att'[s].at = "idle" /\ \A t \in Slots \ {s} : att'[t] = att[t]
    BY <1>1, IdleApart DEF Inv, Shape
  <2>2. Building' => Building
    BY <1>7, <2>1 DEF Building
  <2>3. Whole => Whole'
    BY <1>7, <1>10, <1>12 DEF Whole, Brought, Forward
  <2>4. wf' \in {"distribute", "final_gate", "complete"} /\ ~dryRun' => Whole'
    <3>1. wf = "import_validate" /\ ~dryRun => Whole
      BY <1>8, <1>9 DEF Whole
    <3> QED BY <1>4, <1>5, <1>6, <1>7, <2>3, <3>1 DEF Kept, Delivery
  <2> QED BY <2>1, <2>2, <2>3, <2>4 DEF Kept, Delivery
<1>16. Becomes(s, Idle) /\ Turn'
  BY <1>1, IdleApart DEF Becomes, Turn
<1> QED BY <1>12, <1>13, <1>14, <1>15, <1>16, Assemble, IdleSound

LEMMA ReturnKept == ASSUME Inv, Kept, NEW s \in Slots, Return(s) PROVE Kept'
<1>1. CASE cur # s
  <2>1. Nothing /\ UNCHANGED <<cur, payload, wf>> /\ att' = [att EXCEPT ![s] = Idle]
    BY <1>1 DEF Return, Nothing
  <2> QED BY <1>1, <2>1, NothingCalm, Leaves
<1> QED BY <1>1, ReturnedKept

-----------------------------------------------------------------------------
(* What no attempt does                                                    *)

\* Attempts stay, and the awaited one may be given up.
LEMMA Stand ==
  ASSUME Inv, Kept, att' = att, Calm, Truth', cur' = NoSlot \/ (cur' = cur /\ wf' = wf)
  PROVE  Kept'
<1>1. Forward /\ Course'
  BY CalmForward, CalmCourse DEF Kept
<1>2. ASSUME NEW t \in Slots PROVE Sound(att[t])'
  <2>1. PICK u : u = att[t]
    OBVIOUS
  <2>2. u = att'[t] /\ Sound(u)'
    BY <1>1, <2>1, SoundForward DEF Kept, Inv, Shape
  <2> QED BY <2>2
<1>3. Turn'
  <2>1. PICK u : u = att[cur]
    OBVIOUS
  <2>2. CASE cur' # NoSlot
    <3>1. IsAttempt(u) /\ Fits(u) /\ u = att'[cur'] /\ cur' \in Slots
      BY <2>1, <2>2 DEF Kept, Turn, Inv, Shape
    <3>2. Fits(u)'
      BY <2>2, <3>1, FitsCalm
    <3> QED BY <3>1, <3>2 DEF Turn
  <2> QED BY <2>2 DEF Turn
<1>4. Delivery'
  <2>1. Building' => Building
    <3>1. (\E t \in Slots : att'[t].at \in {"distribute", "final_gate"}) => Building
      BY DEF Building
    <3> QED BY <3>1 DEF Building, Calm
  <2>2. Building \/ ~MayCancel => (Whole => Whole')
    BY DEF Whole, Brought, Calm
  <2>3. Building' => Whole' /\ \A t \in Slots : att'[t].at # "cn_call"
    BY <2>1, <2>2 DEF Delivery, Kept
  <2>4. wf' \in {"distribute", "final_gate", "complete"} /\ ~dryRun' => Whole'
    BY <2>2 DEF Delivery, Kept, Calm, MayCancel
  <2> QED BY <2>3, <2>4 DEF Delivery
<1> QED BY <1>1, <1>2, <1>3, <1>4 DEF Kept

LEMMA QuietKept ==
  ASSUME Inv, Kept, RequestCancellation \/ TimeOut \/ UNCHANGED vars PROVE Kept'
<1>1. /\ att' = att /\ payload' = payload /\ Nothing
      /\ cur' = NoSlot \/ (cur' = cur /\ wf' = wf)
      /\ wf' = wf \/ (wf \in BoundedStages /\ wf' = "failed")
  BY DEF RequestCancellation, TimeOut, Lose, vars, control, Nothing
<1> QED BY <1>1, NothingCalm, Stand

LEMMA ProviderKept ==
  ASSUME Inv, Kept, NEW v \in Variants, NEW state \in Live \cup Terminal,
         Advance(v) \/ ReceiveWebhook(v, state) \/ ApplyWebhook(v, state)
  PROVE  Kept'
<1>1. CASE Advance(v)
  <2>1. PICK st \in {"running", "completed", "failed"} :
          /\ remote[v] \in Live /\ remote' = [remote EXCEPT ![v] = st]
          /\ reported' = reported \cup {<<v, st>>}
          /\ UNCHANGED <<request, creates, records, job, control, att>>
    BY <1>1 DEF Advance
  <2>2. DOMAIN remote = Variants /\ Live \cap Over = {} /\ st \in Live \cup Over
        /\ st # "cancelled" /\ st # "dead_lettered" /\ "none" \notin Live \cup Over
    BY DEF Inv, Shape, Live, Over
  <2>3. Calm
    BY <2>1, <2>2 DEF Calm, request, records, products, control, Kept, Course, Closed, Over, Live
  <2>4. Forward
    BY <2>3, CalmForward DEF Kept
  <2>5. /\ remote'[v] = st /\ (st \in Over => Closed(v)')
        /\ \A u \in Variants : u # v => remote'[u] = remote[u]
    BY <2>1, <2>2 DEF Closed
  <2>6. Truth'
    <3>1. hooks' \subseteq reported'
      BY <2>1 DEF Kept, Truth, records
    <3>2. ASSUME NEW u \in Variants
          PROVE  /\ remote'[u] \in {"none"} \cup Live \cup Over
                 /\ creates'[u] = 1 => remote'[u] # "none"
                 /\ remote'[u] = "cancelled" => u \in asked'
      BY <2>1, <2>2, <2>5 DEF Kept, Truth, records
    <3>3. \A u \in Variants : /\ row'[u] \in Over => Closed(u)'
                              /\ row'[u] = "dead_lettered" => Closed(u)' \/ Exhausted(u)'
      BY <2>1, <2>4 DEF Kept, Truth, records, Forward
    <3>4. \A u \in Variants, x \in Live \cup Terminal : <<u, x>> \in reported'
            => x # "dead_lettered" /\ (x \in Over => Closed(u)')
      BY <2>1, <2>2, <2>4, <2>5 DEF Kept, Truth, Forward
    <3> QED BY <3>1, <3>2, <3>3, <3>4 DEF Truth
  <2> QED BY <2>1, <2>3, <2>6, Stand DEF control
<1>2. CASE ReceiveWebhook(v, state)
  <2>1. /\ UNCHANGED <<request, provider, effect, reservation, row, asked, products, job,
                       control, att>>
        /\ hooks' \subseteq reported
    BY <1>2 DEF ReceiveWebhook, Kept, Truth
  <2>2. Calm
    BY <2>1 DEF Calm, request, provider, products, control, Kept, Course, Closed
  <2> QED BY <2>1, <2>2, TruthSame, Stand DEF provider, control, Kept
<1>3. CASE ApplyWebhook(v, state)
  <2>1. /\ UNCHANGED <<request, provider, effect, reservation, asked, products, job,
                       control, att>>
        /\ hooks' \subseteq reported /\ <<v, state>> \in reported
        /\ Transition(v, state) \/ row' = row
    BY <1>3 DEF ApplyWebhook, Kept, Truth
  <2>2. state # "dead_lettered" /\ (state \in Over => Closed(v)) /\ DOMAIN row = Variants
    BY <2>1 DEF Kept, Truth, Inv, Shape
  <2>3. Calm
    BY <2>1 DEF Calm, request, provider, products, control, Kept, Course, Closed
  <2>4. Truth'
    BY <2>1, <2>2, <2>3, TruthSame, TruthMoved DEF provider, Kept, Transition
  <2> QED BY <2>1, <2>3, <2>4, Stand DEF control
<1> QED BY <1>1, <1>2, <1>3

LEMMA KeptInit == Init => Kept
<1> SUFFICES ASSUME Init PROVE Kept
  OBVIOUS
<1>1. /\ \A s \in Slots : att[s] = Idle
      /\ Idle.at = "idle" /\ Idle.polls = [v \in Variants |-> 0]
      /\ Idle.got = [v \in Variants |-> "none"]
  BY DEF Init, Idle
<1>2. Sound(Idle)
  BY <1>1 DEF Sound, Over, Reserving, Submitting, Awaiting, Asking, Cancelling
<1>3. Turn /\ ~Building
  BY <1>1 DEF Init, Turn, Building
<1>4. Truth
  BY DEF Init, Truth, Over, Closed
<1>5. /\ payload.has = "nothing" /\ payload.polls = [v \in Variants |-> 0]
      /\ wf = "load_brief" /\ job = "running"
  BY DEF Init
<1>6. wf \in Stages /\ wf \in Preparation
  BY <1>5 DEF Stages, BoundedStages, Preparation
<1>7. Course
  BY <1>5, <1>6, OptionAssumption DEF Init, Course
<1>8. Delivery
  BY <1>3, <1>5 DEF Delivery
<1> QED BY <1>1, <1>2, <1>3, <1>4, <1>7, <1>8 DEF Kept

LEMMA KeptNext == Inv /\ Kept /\ [Next]_vars => Kept'
<1> SUFFICES ASSUME Inv, Kept, [Next]_vars PROVE Kept'
  OBVIOUS
<1>1. CASE RequestCancellation \/ TimeOut \/ UNCHANGED vars
  BY <1>1, QuietKept
<1>2. ASSUME NEW s \in Slots, Dispatch(s) \/ ProviderError(s) \/ AttemptStep(s) PROVE Kept'
  <2>1. CASE Authorize(s)
    BY <2>1, PlanKept, ReserveKept, RefuseKept, ReleaseEarlierKept DEF Authorize
  <2> QED BY <1>2, <2>1, DispatchKept, ProviderErrorKept, PrepareKept, SubmissionKept,
             WaitingKept, FinishKept, CancellingKept, ReturnKept DEF AttemptStep
<1>3. ASSUME NEW s \in Slots, Fail(s) PROVE Kept'
  BY <1>3, NothingLeaves DEF Fail, Nothing
<1>4. ASSUME NEW v \in Variants,
             \/ Advance(v)
             \/ \E state \in Live \cup Terminal :
                  ReceiveWebhook(v, state) \/ ApplyWebhook(v, state)
      PROVE  Kept'
  BY <1>4, ProviderKept DEF Live
<1> QED BY <1>1, <1>2, <1>3, <1>4 DEF Next

\* Of every production, whatever late attempts still do: rows tell no more than has
\* happened at the provider, the payload no more than was recorded, and a stage
\* returns only with what holds for every variant.
THEOREM CourseIsKept == Spec => []Kept
  BY InvInit, InvNext, KeptInit, KeptNext, PTL DEF Spec

-----------------------------------------------------------------------------
(* The properties                                                          *)

\* A package stands for every variant: submitted once, on record, completed by the
\* provider and imported (import_validate loops over the variants, and what is
\* completed there no late cancellation takes back).
THEOREM PackagesAreWhole == Spec => []PackageIsWhole
<1>1. Inv /\ Kept => PackageIsWhole
  <2> SUFFICES ASSUME Inv, Kept, package, NEW v \in Variants
               PROVE  /\ creates[v] = 1 /\ effect[v] = "completed"
                      /\ remote[v] = "completed" /\ v \in assets
    BY DEF PackageIsWhole
  <2>1. Whole
    BY DEF Kept, Delivery, Building
  <2>2. effect[v] = "completed"
    BY <2>1 DEF Whole, Kept, Course
  <2> QED BY <2>1, <2>2 DEF Whole, Brought, Inv, Sent
<1> QED BY <1>1, Invariance, CourseIsKept, PTL

\* A cancelled production leaves no job running at the provider and no reservation
\* held, though its stages may be retried, and answer late (cancel releases what was
\* reserved, or asks, cancels and settles what was submitted).
THEOREM CancellationCleansUp == Spec => []CancelledLeavesNothing
<1>1. Inv /\ Kept => CancelledLeavesNothing
  <2> SUFFICES ASSUME Inv, Kept, job = "cancelled", NEW v \in Variants
               PROVE  remote[v] \notin Live /\ reservation[v] # "reserved"
    BY DEF CancelledLeavesNothing
  <2>1. MayCancel /\ Freed(v)
    BY DEF Kept, Course
  <2>2. payload.has # "jobs" => ~MaySubmit
    BY <2>1 DEF MayCancel, MaySubmit
  <2>3. payload.has = "nothing" => ~MayReserve
    BY <2>1 DEF MayCancel, MayReserve, Kept, Course
  <2>4. remote[v] \notin Live
    <3>1. remote[v] # "none" => creates[v] = 1
      BY DEF Inv, Sent
    <3> QED BY <2>1, <2>2, <3>1 DEF Freed, Closed, Over, Live, Kept, Course
  <2>5. reservation[v] # "reserved"
    BY <2>1, <2>3 DEF Freed, Kept, Course
  <2> QED BY <2>4, <2>5
<1> QED BY <1>1, Invariance, CourseIsKept, PTL

\* The provider is told to cancel only after the request to do so is on record: a row
\* that was dead-lettered while the job was still running never meets a cancellation.
THEOREM CancellationsAreRecorded == Spec => []CancellationIsOnRecord
<1>1. Kept => CancellationIsOnRecord
  BY DEF Kept, Truth, CancellationIsOnRecord
<1> QED BY <1>1, CourseIsKept, PTL

-----------------------------------------------------------------------------
(* What the job's state tells                                              *)

\* Once the package is built, or about to be, the workflow is past where a
\* cancellation is looked at.
Finished ==
  package \/ (\E s \in Slots : att[s].at = "final_gate") =>
    /\ wf \in {"final_gate", "complete", "closed", "failed"} /\ job # "cancelled"
    /\ \A s \in Slots : att[s].at \notin Cancelling

\* Attempts do not overlap: with one slot an attempt is one of the stage the workflow is
\* at, and no attempt of await_provider gets past a row that is dead-lettered.
Deadly == {"aw_letter", "aw_fatal"}
Waits(a) ==
  /\ a.at \notin {"idle", "ret"} => wf = "failed" \/ (wf \in Stages /\ a.at \in StepsOf(wf))
  /\ a.at \in Awaiting => ~package /\ \A v \in Variants : v < a.on => row[v] # "dead_lettered"
  /\ a.at = "aw_settle" => row[a.on] # "dead_lettered"
  /\ a.at \in Deadly => row[a.on] = "dead_lettered"
  /\ a.at = "ret" /\ wf = "await_provider" => \A v \in Variants : row[v] # "dead_lettered"
  /\ job = "dead_lettered" => a.at \in Awaiting \cup {"idle", "ret"}
Alone ==
  /\ \A s \in Slots : Waits(att[s])
  /\ job = "dead_lettered" =>
       /\ ~package /\ wf \in {"await_provider", "failed"}
       /\ \E v \in Variants : row[v] = "dead_lettered"

\* The steps that a stage takes one after the other
Groups == {Reserving, Submitting, Awaiting, {"im_store"}, Cancelling}

\* An attempt goes on within its stage, or is through with it.
Goes(s) ==
  /\ wf' = wf
  /\ \E a : /\ Becomes(s, a)
            /\ a.at = "ret" \/ \E G \in Groups : att[s].at \in G /\ a.at \in G

\* What the steps of attempts have in common: they go on or raise; the package comes
\* from final_gate, and the job's state from the last step of its stage.
Moves(s) ==
  /\ Goes(s) \/ \E fatal \in BOOLEAN : RaiseAs(s, fatal)
  /\ att[s].at \notin {"idle", "ret"}
  /\ package' = package \/ att[s].at = "final_gate"
  /\ \/ job' = job
     \/ att[s].at = "cn_job" /\ job' = "cancelled"
     \/ att[s].at = "aw_letter" /\ job' = "dead_lettered"
     \/ job' \in {"succeeded", "denied"}

LEMMA GoesOnward ==
  ASSUME Shape, NEW s \in Slots, NEW G \in Groups, att[s].at \in G, NEW to \in G, NEW state,
         \/ Go(s, to) \/ Learn(s, to, state) \/ MoveOn(s, to, state) \/ NextVariant(s, to)
         \/ (CancelNext(s, to) /\ "cn_job" \in G)
  PROVE  Goes(s)
<1>1. wf' = wf
  BY DEF Go, Learn, MoveOn, NextVariant, CancelNext, control
<1>2. PICK a : Becomes(s, a) /\ a.at \in G \cup {"ret"}
  BY GoBecomes, NextBecomes DEF NextVariant
<1> QED BY <1>1, <1>2 DEF Goes

LEMMA GoesBack == ASSUME Shape, NEW s \in Slots, Go(s, "ret") PROVE Goes(s)
  BY GoBecomes DEF Goes, Go, control

LEMMA GroupsAre ==
  /\ Reserving \in Groups /\ Submitting \in Groups /\ Awaiting \in Groups
  /\ Cancelling \in Groups /\ {"im_store"} \in Groups
  BY DEF Groups

LEMMA AuthorizeMoves ==
  ASSUME Inv, NEW s \in Slots, Prepare(s) \/ Authorize(s) PROVE Moves(s)
<1>0. Shape /\ att[s].on \in Variants /\ DOMAIN att = Slots
  BY DEF Inv, Shape, IsAttempt
<1>1. CASE Prepare(s)
  BY <1>0, <1>1, GoesBack DEF Prepare, At, Raise, Moves, records, products
<1>2. CASE PlanEffect(s) \/ Reserve(s)
  <2>1. Goes(s)
    BY <1>0, <1>2, GoesOnward, GroupsAre DEF PlanEffect, Reserve, At, Reserving
  <2> QED BY <1>2, <2>1 DEF PlanEffect, Reserve, At, Moves, products
<1>3. CASE Refuse(s)
  <2> DEFINE at == IF Reserved(s) = {} THEN "ret" ELSE "au_release"
             a == [att[s] EXCEPT !.at = at, !.out = "denied"]
  <2>1. att' = [att EXCEPT ![s] = a] /\ at \in {"ret", "au_release"}
    BY <1>0, <1>3 DEF Refuse
  <2> HIDE DEF at
  <2>2. IsAttempt(a) /\ a.at = at
    BY <1>0 DEF Shape, IsAttempt, AttemptFields
  <2> HIDE DEF a
  <2>3. Goes(s)
    BY <1>3, <2>1, <2>2, GroupsAre DEF Goes, Becomes, Refuse, At, Reserving, control
  <2> QED BY <1>3, <2>3 DEF Refuse, At, Moves, records, products
<1>4. CASE ReleaseEarlier(s)
  <2>1. PICK v \in Variants :
          att' = [att EXCEPT ![s].got[v] = "none",
                             ![s].at = IF Reserved(s) = {v} THEN "ret" ELSE @]
    BY <1>4 DEF ReleaseEarlier, Reserved
  <2> DEFINE at == IF Reserved(s) = {v} THEN "ret" ELSE att[s].at
             a == [att[s] EXCEPT !.got[v] = "none", !.at = at]
  <2>2. att' = [att EXCEPT ![s] = a] /\ at \in {"ret", att[s].at}
    BY <1>0, <2>1 DEF Shape, IsAttempt, AttemptFields
  <2> HIDE DEF at
  <2>3. IsAttempt(a) /\ a.at = at
    BY <1>0 DEF Shape, IsAttempt, AttemptFields
  <2> HIDE DEF a
  <2>4. Goes(s)
    BY <1>4, <2>2, <2>3, GroupsAre DEF Goes, Becomes, ReleaseEarlier, At, Reserving, control
  <2> QED BY <1>4, <2>4 DEF ReleaseEarlier, At, Moves, products
<1> QED BY <1>1, <1>2, <1>3, <1>4 DEF Authorize

LEMMA SubmissionMoves ==
  ASSUME Inv, NEW s \in Slots, SubmitOrReconcile(s) PROVE Moves(s)
<1>0. Shape
  BY DEF Inv
<1>1. att[s].at \in Submitting /\ package' = package /\ job' = job
  BY DEF SubmitOrReconcile, LookUp, Review, BeginEffectSubmission, Submit, Reconcile,
         RecordProviderJob, CompleteEffect, At, Submitting, records, products
<1>2. CASE Goes(s)
  BY <1>1, <1>2 DEF Moves, Submitting
<1>3. CASE Raise(s)
  BY <1>1, <1>3 DEF Moves, Submitting, Raise
<1>4. \/ \E to \in Submitting : \E state :
           Go(s, to) \/ Learn(s, to, state) \/ NextVariant(s, to)
      \/ Raise(s)
  <2>1. CASE LookUp(s) \/ BeginEffectSubmission(s)
    BY <2>1 DEF LookUp, BeginEffectSubmission, Submitting
  <2>2. CASE Review(s) \/ Submit(s) \/ Reconcile(s)
    BY <2>2 DEF Review, Submit, Reconcile, Submitting
  <2>3. CASE RecordProviderJob(s) \/ CompleteEffect(s)
    BY <2>3 DEF RecordProviderJob, CompleteEffect, Submitting
  <2> QED BY <2>1, <2>2, <2>3 DEF SubmitOrReconcile
<1> QED BY <1>0, <1>1, <1>2, <1>3, <1>4, GoesOnward, GroupsAre

LEMMA FinishMoves ==
  ASSUME Inv, NEW s \in Slots, Finish(s) PROVE Moves(s)
<1>0. Shape
  BY DEF Inv
<1>1. CASE Import(s)
  <2>1. att[s].at = "im_store" /\ package' = package /\ job' = job
    BY <1>1 DEF Import, At
  <2>2. NextVariant(s, "im_store") \/ Raise(s)
    BY <1>1 DEF Import
  <2>3. NextVariant(s, "im_store") => Goes(s)
    BY <1>0, <2>1, GoesOnward, GroupsAre
  <2> QED BY <2>1, <2>2, <2>3 DEF Moves, Raise
<1>2. CASE Distribute(s) \/ FinalGate(s)
  BY <1>0, <1>2, GoesBack DEF Distribute, FinalGate, At, Moves, Raise
<1>3. CASE Complete(s) \/ Deny(s)
  BY <1>0, <1>3, GoesBack DEF Complete, Deny, Conclude, At, Moves, records, products
<1> QED BY <1>1, <1>2, <1>3 DEF Finish

LEMMA CancellingMoves ==
  ASSUME Inv, NEW s \in Slots, CancelProduction(s) PROVE Moves(s)
<1>0. Shape /\ "cn_job" \in Cancelling
  BY DEF Inv, Cancelling
<1>1. CASE Cancel(s)
  BY <1>0, <1>1, GoesBack DEF Cancel, Conclude, At, Moves, records, products
<1>2. CASE ~Cancel(s)
  <2>1. att[s].at \in Cancelling /\ package' = package /\ job' = job
    BY <1>2 DEF CancelProduction, AskProvider, CancelStatus, CancelRemote, RecordCancelled,
           SettleCancelled, ReleaseCancelled, At, Cancelling, Asking, records, products
  <2>2. \/ \E to \in Cancelling : \E state :
             Go(s, to) \/ Learn(s, to, state) \/ CancelNext(s, to)
        \/ Raise(s)
    <3>1. CASE AskProvider(s) \/ CancelStatus(s) \/ CancelRemote(s)
      BY <3>1 DEF AskProvider, CancelStatus, CancelRemote, Cancelling, Asking
    <3>2. CASE RecordCancelled(s)
      BY <3>2 DEF RecordCancelled, MoveRow, Cancelling, Asking
    <3>3. CASE SettleCancelled(s) \/ ReleaseCancelled(s)
      BY <3>3 DEF SettleCancelled, ReleaseCancelled, Cancelling, Asking
    <3> QED BY <1>2, <3>1, <3>2, <3>3 DEF CancelProduction
  <2>3. Raise(s) \/ Goes(s)
    BY <1>0, <2>1, <2>2, GoesOnward, GroupsAre
  <2> QED BY <2>1, <2>3 DEF Moves, Raise, Cancelling, Asking
<1> QED BY <1>1, <1>2

LEMMA WaitingMoves ==
  ASSUME Inv, NEW s \in Slots, AwaitProvider(s) \/ ProviderError(s) PROVE Moves(s)
<1>0. Shape
  BY DEF Inv
<1>1. att[s].at \in Awaiting /\ package' = package
      /\ (job' = job \/ (att[s].at = "aw_letter" /\ job' = "dead_lettered"))
  BY DEF AwaitProvider, PollStatus, KeepWaiting, MarkRetry, Bury, DeadLetter, FailWorkflow,
         RecordCompletion, Settle, ProviderError, At, Awaiting, records, products
<1>2. CASE ProviderError(s)
  <2> DEFINE b == [att[s] EXCEPT !.at = "aw_retry"]
  <2>1. att' = [att EXCEPT ![s] = b] /\ IsAttempt(b) /\ b.at = "aw_retry"
    BY <1>0, <1>2 DEF ProviderError, Shape, IsAttempt, AttemptFields
  <2> HIDE DEF b
  <2>2. Goes(s)
    BY <1>1, <1>2, <2>1, GroupsAre DEF Goes, Becomes, ProviderError, Awaiting
  <2> QED BY <1>1, <2>2 DEF Moves, Awaiting
<1>3. CASE AwaitProvider(s)
  <2>1. \/ \E to \in Awaiting : \E state :
             Go(s, to) \/ Learn(s, to, state) \/ NextVariant(s, to)
        \/ \E fatal \in BOOLEAN : RaiseAs(s, fatal)
    <3>1. CASE PollStatus(s)
      BY <3>1 DEF PollStatus, Awaiting
    <3>2. CASE KeepWaiting(s) \/ Bury(s) \/ RecordCompletion(s)
      BY <3>2 DEF KeepWaiting, Bury, RecordCompletion, MoveRow, Raise, Awaiting
    <3>3. CASE MarkRetry(s) \/ FailWorkflow(s)
      BY <3>3 DEF MarkRetry, FailWorkflow, Raise
    <3>4. CASE DeadLetter(s) \/ Settle(s)
      BY <3>4 DEF DeadLetter, Settle, Raise, Awaiting
    <3> QED BY <1>3, <3>1, <3>2, <3>3, <3>4 DEF AwaitProvider
  <2>2. Goes(s) \/ \E fatal \in BOOLEAN : RaiseAs(s, fatal)
    BY <1>0, <1>1, <2>1, GoesOnward, GroupsAre
  <2> QED BY <1>1, <2>2 DEF Moves, Awaiting
<1> QED BY <1>2, <1>3

LEMMA StepMoves ==
  ASSUME Inv, NEW s \in Slots, AttemptStep(s) \/ ProviderError(s) PROVE Moves(s) \/ Return(s)
  BY AuthorizeMoves, SubmissionMoves, FinishMoves, CancellingMoves, WaitingMoves DEF AttemptStep

-----------------------------------------------------------------------------
(* A package is not taken back, whatever overlaps                          *)

LEMMA FinishedInit == Init => Finished
  BY DEF Init, Idle, Finished

\* The stage is another one only when an attempt of it returned, or its error ended it.
LEMMA StageStays ==
  ASSUME NEW s \in Slots, Moves(s) \/ Fail(s) PROVE wf' \in {wf, "failed"}
  BY DEF Moves, Goes, Fail, RaiseAs, Lose

LEMMA MovesFinished ==
  ASSUME Inv, Kept, Finished, NEW s \in Slots, Moves(s) PROVE Finished'
<1>1. PICK a : att' = [att EXCEPT ![s] = a] /\ \/ a.at \in {"idle", "ret"}
                                               \/ \E G \in Groups : att[s].at \in G /\ a.at \in G
  BY IdleApart DEF Moves, Goes, Becomes, RaiseAs
<1>2. att'[s] = a /\ \A t \in Slots \ {s} : att'[t] = att[t]
  BY <1>1 DEF Inv, Shape
<1>3. /\ a.at \in Cancelling => att[s].at \in Cancelling
      /\ a.at # "final_gate"
  BY <1>1 DEF Groups, Reserving, Submitting, Awaiting, Cancelling, Asking
<1>4. wf' \in {wf, "failed"}
  BY StageStays
<1>5. job' = "cancelled" => job = "cancelled" \/ att[s].at \in Cancelling
  BY DEF Moves, Cancelling
<1>6. package' = package \/ att[s].at = "final_gate"
  BY DEF Moves
<1> QED BY <1>2, <1>3, <1>4, <1>5, <1>6 DEF Finished

LEMMA DispatchFinished ==
  ASSUME Inv, Kept, Finished, NEW s \in Slots, Dispatch(s) PROVE Finished'
<1> DEFINE a == [Idle EXCEPT !.at = Entry(wf), !.try = tries', !.polls = payload.polls,
                             !.out = IF permitted THEN "ok" ELSE "denied"]
<1>1. wf \in Stages /\ att' = [att EXCEPT ![s] = a] /\ a.at = Entry(wf)
      /\ UNCHANGED <<package, job, wf>>
  BY DEF Dispatch, Idle, records, products
<1> HIDE DEF a
<1>2. att'[s] = a /\ \A t \in Slots \ {s} : att'[t] = att[t]
  BY <1>1 DEF Inv, Shape
<1>3. /\ a.at = "final_gate" => wf = "final_gate"
      /\ a.at \in Cancelling => wf = "cancel"
  BY <1>1 DEF Entry, FirstStep, Stages, BoundedStages, TerminalStages, Preparation, Cancelling,
              Asking
<1>4. wf = "final_gate" => job # "cancelled" /\ \A t \in Slots : att[t].at \notin Cancelling
  BY DEF Kept, Sound, Course, MayCancel
<1> QED BY <1>1, <1>2, <1>3, <1>4 DEF Finished, Cancelling

LEMMA ReturnFinished ==
  ASSUME Inv, Kept, Finished, NEW s \in Slots, Return(s) PROVE Finished'
<1>1. /\ att'[s] = Idle /\ \A t \in Slots \ {s} : att'[t] = att[t]
      /\ UNCHANGED <<package, job>>
      /\ wf' = wf \/ (wf \in Stages /\ wf' = Decision(wf, att[s].out, Reached(s), cancelReq))
  BY StageOf DEF Return, Inv, Shape, records, products
<1>2. Idle.at \notin Cancelling \cup {"final_gate"}
  BY IdleApart DEF Cancelling, Asking
<1>3. wf \in {"final_gate", "complete"} /\ wf' # wf => wf' \in {"complete", "closed"}
  BY <1>1 DEF Decision, Onward, Following, TerminalStages
<1>4. "closed" \notin Stages /\ "failed" \notin Stages
  BY DEF Stages, BoundedStages, TerminalStages, Preparation
<1> QED BY <1>1, <1>2, <1>3, <1>4 DEF Finished

LEMMA FinishedNext == Inv /\ Kept /\ Finished /\ [Next]_vars => Finished'
<1> SUFFICES ASSUME Inv, Kept, Finished, [Next]_vars PROVE Finished'
  OBVIOUS
<1>1. CASE RequestCancellation \/ TimeOut \/ UNCHANGED vars
  BY <1>1 DEF RequestCancellation, TimeOut, Lose, vars, control, records, products, Finished
<1>2. ASSUME NEW s \in Slots, Dispatch(s) \/ ProviderError(s) \/ AttemptStep(s) PROVE Finished'
  BY <1>2, DispatchFinished, StepMoves, MovesFinished, ReturnFinished
<1>3. ASSUME NEW s \in Slots, Fail(s) PROVE Finished'
  <2>1. /\ att'[s] = Idle /\ \A t \in Slots \ {s} : att'[t] = att[t]
        /\ UNCHANGED <<package, job>> /\ wf' \in {wf, "failed"}
    BY <1>3, StageStays DEF Fail, RaiseAs, Inv, Shape, records, products
  <2>2. Idle.at \notin Cancelling \cup {"final_gate"}
    BY IdleApart DEF Cancelling, Asking
  <2> QED BY <2>1, <2>2 DEF Finished
<1>4. ASSUME NEW v \in Variants,
             \/ Advance(v)
             \/ \E state \in Live \cup Terminal :
                  ReceiveWebhook(v, state) \/ ApplyWebhook(v, state)
      PROVE  Finished'
  BY <1>4 DEF Advance, ReceiveWebhook, ApplyWebhook, records, products, control, Finished
<1> QED BY <1>1, <1>2, <1>3, <1>4 DEF Next

\* What the job's state says of a package and of what was submitted, however attempts
\* overlap
VerdictIsTruthful ==
  /\ job = "succeeded" => package \/ dryRun
  /\ job = "denied" \/ dryRun => \A v \in Variants : creates[v] = 0
  /\ job \in {"denied", "cancelled"} => ~package

LEMMA VerdictIs == Inv /\ Kept /\ Finished => VerdictIsTruthful
<1> SUFFICES ASSUME Inv, Kept, Finished PROVE VerdictIsTruthful
  OBVIOUS
<1>1. job = "succeeded" => package \/ dryRun
  BY DEF Kept, Course
<1>2. job = "denied" \/ dryRun => ~MaySubmit
  BY DEF Kept, Course, MaySubmit
<1>3. \A v \in Variants : creates[v] = 1 => MaySubmit
  BY DEF Kept, Course
<1>4. \A v \in Variants : creates[v] \in {0, 1}
  BY DEF Inv, Shape
<1>5. job = "denied" => ~package
  BY DEF Kept, Course, Delivery, Building, Whole
<1>6. job = "cancelled" => ~package
  BY DEF Finished
<1> QED BY <1>1, <1>2, <1>3, <1>4, <1>5, <1>6 DEF VerdictIsTruthful

\* A success has its package, a denied or dry run has submitted nothing, and a denied or
\* cancelled one has no package, however its attempts overlap: final_gate is where
\* cancellations are looked at for the last time.
THEOREM VerdictsAreTruthful == Spec => []VerdictIsTruthful
  BY Invariance, CourseIsKept, InvInit, InvNext, KeptInit, KeptNext, FinishedInit, FinishedNext,
     VerdictIs, PTL DEF Spec

-----------------------------------------------------------------------------
(* Attempts that do not overlap                                            *)

\* Attempts of one production follow one another.
OneAtATime == \A s, t \in Slots : s = t

LEMMA AloneInit == Init => Alone
<1> SUFFICES ASSUME Init PROVE Alone
  OBVIOUS
<1>1. \A s \in Slots : Waits(att[s])
  BY DEF Init, Idle, Waits, Awaiting, Deadly
<1> QED BY <1>1 DEF Init, Alone

\* A step that dead-letters no job and changes no row leaves the attempt it makes to
\* be looked at.
LEMMA AloneBecomes ==
  ASSUME Inv, Alone, OneAtATime, NEW s \in Slots, NEW a, att' = [att EXCEPT ![s] = a], Waits(a)',
         job' = "dead_lettered" =>
           /\ ~package' /\ wf' \in {"await_provider", "failed"}
           /\ \E v \in Variants : row'[v] = "dead_lettered"
  PROVE  Alone'
<1>1. \A t \in Slots : att'[t] = a
  BY DEF OneAtATime, Inv, Shape
<1>2. \A t \in Slots : Waits(att[t])'
  <2> SUFFICES ASSUME NEW t \in Slots PROVE Waits(att[t])'
    OBVIOUS
  <2>1. PICK u : u = att'[t]
    OBVIOUS
  <2>2. Waits(u)'
    BY <1>1, <2>1
  <2> QED BY <2>1, <2>2
<1> QED BY <1>2 DEF Alone

LEMMA IdleAlone ==
  ASSUME Inv, Alone, OneAtATime, NEW s \in Slots, att' = [att EXCEPT ![s] = Idle],
         package' = package, job' = job, wf' \in {wf, "failed"},
         \A v \in Variants : row[v] = "dead_lettered" => row'[v] = "dead_lettered"
  PROVE  Alone'
<1>1. PICK a : a = Idle
  OBVIOUS
<1>2. a.at = "idle"
  BY <1>1, IdleApart
<1>3. Waits(a)'
  BY <1>2 DEF Waits, Awaiting, Deadly
<1> QED BY <1>1, <1>3, AloneBecomes DEF Alone

\* Steps of the other stages
LEMMA ElsewhereAlone ==
  ASSUME Inv, Kept, Alone, OneAtATime, NEW s \in Slots, Moves(s), att[s].at \notin Awaiting
  PROVE  Alone'
<1>1. job # "dead_lettered" /\ job' # "dead_lettered"
  BY DEF Alone, Waits, Moves, Awaiting
<1>2. PICK a : /\ att' = [att EXCEPT ![s] = a]
               /\ \/ a.at = "idle"
                  \/ a.at = "ret" /\ wf' = wf
                  \/ wf' = wf /\ \E G \in Groups : att[s].at \in G /\ a.at \in G
  BY IdleApart DEF Moves, Goes, Becomes, RaiseAs
<1>3. wf = "failed" \/ (wf \in Stages /\ att[s].at \in StepsOf(wf))
  BY DEF Alone, Waits, Moves
<1>4. a.at \notin Awaiting
  BY <1>2 DEF Groups, Reserving, Submitting, Awaiting, Cancelling, Asking
<1>5. a.at \notin {"idle", "ret"} => wf' = wf /\ (wf = "failed" \/ a.at \in StepsOf(wf))
  BY <1>2, <1>3
     DEF Groups, StepsOf, Stages, BoundedStages, TerminalStages, Preparation, Reserving,
         Submitting, Awaiting, Cancelling, Asking
<1>6. a.at = "ret" => wf' # "await_provider"
  BY <1>2, <1>3, StepsAre DEF Moves, Groups, Reserving, Submitting, Cancelling, Asking, Awaiting
<1>7. Waits(a)'
  BY <1>1, <1>3, <1>4, <1>5, <1>6 DEF Waits, Awaiting, Deadly, StepsOf
<1> QED BY <1>1, <1>2, <1>7, AloneBecomes

LEMMA DispatchAlone ==
  ASSUME Inv, Kept, Finished, Alone, OneAtATime, NEW s \in Slots, Dispatch(s) PROVE Alone'
<1> DEFINE b == [Idle EXCEPT !.at = Entry(wf), !.try = tries', !.polls = payload.polls,
                             !.out = IF permitted THEN "ok" ELSE "denied"]
<1>1. wf \in Stages /\ att' = [att EXCEPT ![s] = b] /\ b.at = Entry(wf) /\ b.on = 1
      /\ UNCHANGED <<package, job, wf, row>>
  BY DEF Dispatch, Idle, records, products
<1> HIDE DEF b
<1>2. PICK a : a = b
  OBVIOUS
<1>3. a.at \in StepsOf(wf) \cup {"ret"} /\ \A v \in Variants : ~(v < a.on)
  BY <1>1, <1>2
     DEF Entry, FirstStep, StepsOf, Stages, BoundedStages, TerminalStages, Preparation,
         Reserving, Submitting, Awaiting, Cancelling, Asking, Variants
<1>4. /\ wf = "await_provider" => a.at = "aw_status" /\ ~package
      /\ a.at \in Awaiting => wf = "await_provider"
  <2>1. wf = "await_provider" => ~dryRun /\ ~package
    BY DEF Kept, Course, Finished
  <2> QED BY <1>1, <1>2, <2>1
          DEF Entry, FirstStep, Stages, BoundedStages, TerminalStages, Preparation, Awaiting
<1>5. job = "dead_lettered" => wf = "await_provider"
  BY <1>1 DEF Alone, Stages, BoundedStages, TerminalStages, Preparation
<1>6. Waits(a)'
  BY <1>1, <1>3, <1>4, <1>5 DEF Waits, Awaiting, Deadly, StepsOf
<1> QED BY <1>1, <1>2, <1>6, AloneBecomes DEF Alone

LEMMA ReturnAlone ==
  ASSUME Inv, Kept, Alone, OneAtATime, NEW s \in Slots, Return(s) PROVE Alone'
<1>1. /\ att' = [att EXCEPT ![s] = Idle] /\ UNCHANGED <<package, job, row>>
      /\ wf' = wf \/ cur = s
  BY DEF Return, records, products
<1>2. CASE wf' = wf
  BY <1>1, <1>2, IdleAlone
<1>3. CASE cur = s
  <2>1. wf \in Stages
    BY <1>3, StageOf
  <2>2. wf = "await_provider" => \A v \in Variants : row[v] # "dead_lettered"
    BY DEF Alone, Waits, Return
  <2>3. job # "dead_lettered"
    BY <2>1, <2>2 DEF Alone, Stages, BoundedStages, TerminalStages, Preparation
  <2>4. PICK a : a = Idle
    OBVIOUS
  <2>5. a.at = "idle"
    BY <2>4, IdleApart
  <2>6. Waits(a)'
    BY <2>5 DEF Waits, Awaiting, Deadly
  <2> QED BY <1>1, <2>3, <2>4, <2>6, AloneBecomes
<1> QED BY <1>1, <1>2, <1>3

\* An attempt of await_provider goes on.
LEMMA AwaitingAlone ==
  ASSUME Inv, Alone, OneAtATime, NEW s \in Slots, NEW a, Becomes(s, a),
         att[s].at \in Awaiting, a.at \in Awaiting, wf' = wf, package' = package,
         \A v \in Variants : v < a.on => row'[v] # "dead_lettered",
         a.at = "aw_settle" => row'[a.on] # "dead_lettered",
         a.at \in Deadly => row'[a.on] = "dead_lettered",
         job' = job \/ a.at = "aw_fatal",
         \A v \in Variants : row[v] = "dead_lettered" => row'[v] = "dead_lettered"
  PROVE  Alone'
<1>1. ~package /\ (wf = "failed" \/ wf = "await_provider")
  <2>1. wf = "failed" \/ (wf \in Stages /\ att[s].at \in StepsOf(wf))
    BY DEF Alone, Waits, Awaiting
  <2> QED
    BY <2>1 DEF Alone, Waits, StepsOf, Stages, BoundedStages, TerminalStages, Preparation,
                Reserving, Submitting, Awaiting, Cancelling, Asking
<1>2. wf' = "failed" \/ (wf' \in Stages /\ a.at \in StepsOf(wf)')
  BY <1>1, StepsAre DEF Stages, BoundedStages, StepsOf
<1>3. Waits(a)'
  BY <1>1, <1>2 DEF Waits, Awaiting, StepsOf
<1>4. a.on \in Variants
  BY DEF Becomes, IsAttempt
<1> QED BY <1>1, <1>3, <1>4, AloneBecomes DEF Becomes, Alone, Deadly

\* ... to the next variant, past a row that is not dead-lettered, or returns.
LEMMA PassingAlone ==
  ASSUME Inv, Kept, Alone, OneAtATime, NEW s \in Slots, NEW state,
         att[s].at \in Awaiting, NextVariant(s, "aw_status"),
         package' = package, job' = job, row'[att[s].on] # "dead_lettered",
         \A v \in Variants : row[v] = "dead_lettered" <=> row'[v] = "dead_lettered"
  PROVE  Alone'
<1> DEFINE on == att[s].on
<1>1. PICK a : /\ Likes(s, a)
               /\ \/ a.at = "aw_status" /\ on < MaxVariants /\ a.on = on + 1
                  \/ a.at = "ret" /\ on = MaxVariants
  BY NextLikes DEF Over
<1>2. Becomes(s, a) /\ on \in Variants /\ wf' = wf
  BY <1>1, Plain DEF NextVariant, MoveOn, control
<1>3. \A v \in Variants : v < on \/ v = on => row'[v] # "dead_lettered"
  BY DEF Alone, Waits
<1>4. CASE a.at = "aw_status"
  <2>1. \A v \in Variants : v < a.on => row'[v] # "dead_lettered"
    BY <1>1, <1>2, <1>3, <1>4, BeforeNext
  <2> QED BY <1>2, <1>4, <2>1, AwaitingAlone DEF Awaiting, Deadly
<1>5. CASE a.at = "ret"
  <2>1. \A v \in Variants : row'[v] # "dead_lettered"
    BY <1>1, <1>2, <1>3, <1>5, BeforeNext
  <2>2. job' # "dead_lettered"
    BY <2>1 DEF Alone
  <2>3. Waits(a)'
    BY <1>5, <2>1, <2>2 DEF Waits, Awaiting, Deadly
  <2> QED BY <1>2, <2>2, <2>3, AloneBecomes DEF Becomes
<1> QED BY <1>1, <1>4, <1>5

LEMMA TransitionIs ==
  ASSUME Inv, NEW v \in Variants, NEW state, Transition(v, state)
  PROVE  /\ row'[v] = state /\ \A u \in Variants \ {v} : row'[u] = row[u]
         /\ row[v] = "dead_lettered" => state = "dead_lettered"
  BY DEF Inv, Shape, Transition, CanMove, Transitions

LEMMA WaitingAlone ==
  ASSUME Inv, Kept, Alone, OneAtATime, NEW s \in Slots, AwaitProvider(s) \/ ProviderError(s)
  PROVE  Alone'
<1> DEFINE on == att[s].on
<1>0. /\ att[s].at \in Awaiting /\ on \in Variants /\ package' = package
      /\ \A v \in Variants : v < on => row[v] # "dead_lettered"
  BY DEF AwaitProvider, PollStatus, KeepWaiting, MarkRetry, Bury, DeadLetter, FailWorkflow,
         RecordCompletion, Settle, ProviderError, At, Awaiting, records, products, Alone,
         Waits, Inv, Shape, IsAttempt
<1>1. CASE Raise(s) /\ row' = row /\ job' = job
  BY <1>0, <1>1, IdleAlone DEF Raise, RaiseAs, Lose
<1>2. CASE PollStatus(s) \/ ProviderError(s)
  <2>1. PICK a : /\ Becomes(s, a) /\ a.on = on
                 /\ a.at \in {"aw_bury", "aw_wait", "aw_done", "aw_retry"}
    <3>1. CASE PollStatus(s)
      BY <3>1, GoBecomes DEF PollStatus, Inv
    <3>2. CASE ProviderError(s)
      <4> DEFINE b == [att[s] EXCEPT !.at = "aw_retry"]
      <4>1. att' = [att EXCEPT ![s] = b] /\ IsAttempt(b) /\ b.at = "aw_retry" /\ b.on = on
        BY <3>2 DEF ProviderError, Inv, Shape, IsAttempt, AttemptFields
      <4> HIDE DEF b
      <4> QED BY <4>1 DEF Becomes
    <3> QED BY <1>2, <3>1, <3>2
  <2>2. wf' = wf /\ job' = job /\ row' = row
    BY <1>2 DEF PollStatus, ProviderError, Learn, control, records
  <2> QED BY <1>0, <2>1, <2>2, AwaitingAlone DEF Awaiting, Deadly
<1>3. CASE KeepWaiting(s)
  <2>1. job' = job /\ MoveRow(s, Got(s), NextVariant(s, "aw_status"))
    BY <1>3 DEF KeepWaiting
  <2>2. Got(s) # "dead_lettered"
    BY <1>0 DEF Got, On, Kept, Sound
  <2>3. CASE Transition(on, Got(s)) /\ NextVariant(s, "aw_status")
    BY <1>0, <2>1, <2>2, <2>3, TransitionIs, PassingAlone
  <2> QED BY <1>1, <2>1, <2>3 DEF MoveRow, On
<1>4. CASE MarkRetry(s)
  <2>1. Transition(on, "running") \/ row' = row
    BY <1>4 DEF MarkRetry, On
  <2>2. \A v \in Variants : row[v] = "dead_lettered" => row'[v] = "dead_lettered"
    BY <1>0, <2>1, TransitionIs
  <2> QED BY <1>0, <1>4, <2>2, IdleAlone DEF MarkRetry, Raise, RaiseAs, Lose
<1>5. CASE Bury(s)
  <2>1. job' = job /\ MoveRow(s, "dead_lettered", Go(s, "aw_letter"))
    BY <1>5 DEF Bury
  <2>2. CASE Transition(on, "dead_lettered") /\ Go(s, "aw_letter")
    <3>1. PICK a : Becomes(s, a) /\ a.on = on /\ a.at = "aw_letter"
      BY <2>2, GoBecomes DEF Inv
    <3>2. wf' = wf
      BY <2>2 DEF Go, control
    <3>3. row'[on] = "dead_lettered" /\ \A v \in Variants : v < on => row'[v] # "dead_lettered"
      BY <1>0, <2>2, TransitionIs DEF Variants
    <3> QED BY <1>0, <2>1, <2>2, <3>1, <3>2, <3>3, TransitionIs, AwaitingAlone DEF Awaiting
  <2> QED BY <1>1, <2>1, <2>2 DEF MoveRow, On
<1>6. CASE RecordCompletion(s)
  <2>1. job' = job /\ MoveRow(s, "completed", Go(s, "aw_settle"))
    BY <1>6 DEF RecordCompletion
  <2>2. CASE Transition(on, "completed") /\ Go(s, "aw_settle")
    <3>1. PICK a : Becomes(s, a) /\ a.on = on /\ a.at = "aw_settle"
      BY <2>2, GoBecomes DEF Inv
    <3>2. wf' = wf
      BY <2>2 DEF Go, control
    <3>3. row'[on] = "completed" /\ \A v \in Variants : v < on => row'[v] # "dead_lettered"
      BY <1>0, <2>2, TransitionIs DEF Variants
    <3> QED BY <1>0, <2>1, <2>2, <3>1, <3>2, <3>3, TransitionIs, AwaitingAlone
            DEF Awaiting, Deadly
  <2> QED BY <1>1, <2>1, <2>2 DEF MoveRow, On
<1>7. CASE DeadLetter(s)
  <2>1. PICK a : Becomes(s, a) /\ a.on = on /\ a.at = "aw_fatal"
    BY <1>7, GoBecomes DEF DeadLetter, Inv
  <2>2. wf' = wf /\ row' = row /\ row[on] = "dead_lettered"
    BY <1>7 DEF DeadLetter, At, Go, control, records, Alone, Waits, Deadly
  <2> QED BY <1>0, <2>1, <2>2, AwaitingAlone DEF Awaiting
<1>8. CASE FailWorkflow(s)
  BY <1>0, <1>8, IdleAlone DEF FailWorkflow, RaiseAs, Lose, records
<1>9. CASE Settle(s)
  <2>1. /\ row' = row /\ job' = job /\ row[on] # "dead_lettered"
        /\ NextVariant(s, "aw_status") \/ Raise(s)
    BY <1>9 DEF Settle, At, Alone, Waits
  <2> QED BY <1>0, <1>1, <2>1, PassingAlone
<1> QED BY <1>2, <1>3, <1>4, <1>5, <1>6, <1>7, <1>8, <1>9 DEF AwaitProvider

LEMMA OutsideAlone ==
  ASSUME Inv, Kept, Alone, OneAtATime, att' = att,
         package' = package, job' = job, wf' \in {wf, "failed"},
         \A v \in Variants : row[v] = "dead_lettered" <=> row'[v] = "dead_lettered"
  PROVE  Alone'
<1>1. ASSUME NEW s \in Slots PROVE Waits(att[s])'
  <2>1. PICK a : a = att[s]
    OBVIOUS
  <2>2. Waits(a) /\ (a.on \in Variants)
    BY <2>1 DEF Alone, Inv, Shape, IsAttempt
  <2>3. a.at = "ret" /\ wf' = "await_provider" => wf = "await_provider"
    OBVIOUS
  <2>4. a.at \notin {"idle", "ret"} => wf' = "failed" \/ (wf' \in Stages /\ a.at \in StepsOf(wf)')
    BY <2>2 DEF Waits, StepsOf
  <2>5. Waits(a)'
    BY <2>2, <2>3, <2>4 DEF Waits
  <2> QED BY <2>1, <2>5
<1> QED BY <1>1 DEF Alone

LEMMA AloneNext == OneAtATime /\ Inv /\ Kept /\ Finished /\ Alone /\ [Next]_vars => Alone'
<1> SUFFICES ASSUME OneAtATime, Inv, Kept, Finished, Alone, [Next]_vars PROVE Alone'
  OBVIOUS
<1>1. CASE RequestCancellation \/ TimeOut \/ UNCHANGED vars
  BY <1>1, OutsideAlone
     DEF RequestCancellation, TimeOut, Lose, vars, control, records, products
<1>2. ASSUME NEW s \in Slots, Dispatch(s) \/ ProviderError(s) \/ AttemptStep(s) PROVE Alone'
  <2>1. CASE Moves(s) /\ att[s].at \in Awaiting
    <3>1. AwaitProvider(s) \/ ProviderError(s)
      BY <1>2, <2>1
         DEF Dispatch, AttemptStep, Prepare, Authorize, PlanEffect, Reserve, Refuse,
             ReleaseEarlier, SubmitOrReconcile, LookUp, Review, BeginEffectSubmission, Submit,
             Reconcile, RecordProviderJob, CompleteEffect, Finish, Import, Distribute, FinalGate,
             Complete, Deny, Conclude, CancelProduction, AskProvider, CancelStatus,
             CancelRemote, RecordCancelled, SettleCancelled, ReleaseCancelled, Cancel, Return,
             At, Awaiting
    <3> QED BY <3>1, WaitingAlone
  <2> QED BY <1>2, <2>1, StepMoves, ElsewhereAlone, DispatchAlone, ReturnAlone
<1>3. ASSUME NEW s \in Slots, Fail(s) PROVE Alone'
  BY <1>3, StageStays, IdleAlone DEF Fail, RaiseAs, records, products
<1>4. ASSUME NEW v \in Variants, Advance(v) PROVE Alone'
  BY <1>4, OutsideAlone DEF Advance, records, products, control
<1>5. ASSUME NEW v \in Variants, NEW state \in Live \cup Terminal,
             ReceiveWebhook(v, state) \/ ApplyWebhook(v, state)
      PROVE  Alone'
  <2>1. row' = row \/ (Transition(v, state) /\ state # "dead_lettered")
    BY <1>5 DEF ReceiveWebhook, ApplyWebhook, Kept, Truth
  <2>2. \A u \in Variants : row[u] = "dead_lettered" <=> row'[u] = "dead_lettered"
    BY <2>1, TransitionIs
  <2> QED BY <1>5, <2>2, OutsideAlone DEF ReceiveWebhook, ApplyWebhook, products, control
<1> QED BY <1>1, <1>2, <1>3, <1>4, <1>5 DEF Next

\* While attempts do not overlap a dead-lettered production has no package either: an
\* attempt of await_provider gets past no dead-lettered row, and the stage never returns.
THEOREM JobStatesAreTruthful ==
  ASSUME OneAtATime PROVE Spec => []JobStateIsTruthful
<1>1. Inv /\ Kept /\ Finished /\ Alone => JobStateIsTruthful
  <2>1. Alone /\ VerdictIsTruthful => JobStateIsTruthful
    BY DEF Alone, VerdictIsTruthful, JobStateIsTruthful
  <2> QED BY <2>1, VerdictIs
<1>2. Inv /\ Kept /\ Finished /\ Alone /\ [Next]_vars => Alone'
  BY AloneNext
<1> QED BY <1>1, <1>2, Invariance, CourseIsKept, InvInit, InvNext, KeptInit, KeptNext,
           FinishedInit, FinishedNext, AloneInit, PTL DEF Spec

=============================================================================
