--------------------------- MODULE AtMostOnceEffect ---------------------------
(***************************************************************************)
(* What Salience promises of one external effect, whatever happens to the  *)
(* executions that work on it: it is planned before the provider is        *)
(* called, claimed by one caller, sent at most once, and recorded as       *)
(* completed only after it was sent.  A claim that is never sent, or a     *)
(* send that is never recorded, is left for an operator to reconcile.      *)
(***************************************************************************)
EXTENDS Naturals

VARIABLES
  status,  \* the effect: none, planned, submitting, completed
  sends    \* the provider calls that create something

Init == status = "none" /\ sends = 0

Plan   == status = "none"                     /\ status' = "planned"    /\ UNCHANGED sends
Claim  == status = "planned"                  /\ status' = "submitting" /\ UNCHANGED sends
Send   == status = "submitting" /\ sends = 0  /\ sends' = 1             /\ UNCHANGED status
Record == status = "submitting" /\ sends = 1  /\ status' = "completed"  /\ UNCHANGED sends

Next == Plan \/ Claim \/ Send \/ Record

Spec == Init /\ [][Next]_<<status, sends>>

=============================================================================
