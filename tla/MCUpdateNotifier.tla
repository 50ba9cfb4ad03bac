-------------------------- MODULE MCUpdateNotifier --------------------------
(* Model values for the update notifier.  The directory starts as an        *)
(* earlier call left it: generation 1 committed with a candidate on offer   *)
(* and its claim still in place, or reserved by a call that then crashed,   *)
(* which is the one crash of such an execution.                             *)
EXTENDS UpdateNotifier, TLC

CONSTANTS d1, d2

MCVersionOf == d1 :> 2 @@ d2 :> 3

AfterOneCheck == AfterCheck(EmptyState, d1, 1, 1)

\* The first operation got as far as k, with its record, claim and crashes.
Used(k, s, c, n) ==
  /\ kind = [g \in Gens |-> IF g = 1 THEN k ELSE "none"]
  /\ stale = [g \in Gens |-> FALSE]
  /\ content = [g \in Gens |-> IF g = 1 THEN s ELSE EmptyState]
  /\ claim = c
  /\ retired = {}
  /\ pc = [p \in Procs |-> "idle"]
  /\ gen = [p \in Procs |-> 0]
  /\ todo = [p \in Procs |-> {}]
  /\ mem = [p \in Procs |-> NoMem]
  /\ told = {}
  /\ crashes = n

UsedInit == Used("committed", AfterOneCheck, 1, 0) \/ Used("reserved", EmptyState, 0, 1)

MCSpec == UsedInit /\ [][Next]_vars /\ \A p \in Procs : WF_vars(Step(p))
=============================================================================
