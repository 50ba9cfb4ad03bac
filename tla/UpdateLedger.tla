---------------------------- MODULE UpdateLedger ----------------------------
(***************************************************************************)
(* What the update notifier promises to its callers: one record, changed   *)
(* by one operation at a time, each computed from the record the previous  *)
(* one left.  check-update.mjs keeps no such record: it keeps directories  *)
(* written by processes that crash, stall and overtake each other.  The    *)
(* module UpdateNotifier is shown to implement this one.                   *)
(***************************************************************************)
EXTENDS UpdateState

CONSTANT Times          \* the times a check may start at

VARIABLE ledger

Check == \E d \in Digests, t \in Times, delay \in SuccessDelays :
           ledger' = AfterCheck(ledger, d, t, delay)

FailedCheck == \E t \in Times : ledger' = AfterFailedCheck(ledger, t, FALSE)

Acknowledge == \E d \in ledger.offered \cup ledger.acknowledged :
                 ledger' = AfterAcknowledgement(ledger, d)

Next == Check \/ FailedCheck \/ Acknowledge

\* The directory may hold what earlier calls have left.
Spec == Readable(ledger) /\ [][Next]_ledger
=============================================================================
