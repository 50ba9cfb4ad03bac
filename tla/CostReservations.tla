--------------------------- MODULE CostReservations ---------------------------
(***************************************************************************)
(* CostReservationRepository (src/salience/governance/cost_repository.py): *)
(* the reservations made on ONE budget, and how they are settled.          *)
(*                                                                         *)
(* A reserve is a READ COMMITTED transaction that locks the budget row and *)
(* then computes what is committed with two statements.  Each statement    *)
(* has a snapshot of its own, and settle, mark_pending_actual and          *)
(* release_unused lock only their reservation row, so any of them may      *)
(* commit between the two.  Each of the three works under that row lock    *)
(* from its first statement to its commit and is one step.                 *)
(*                                                                         *)
(* creative_job_effects.state and publication_plans.state are copies of    *)
(* the status written in the same transactions; they are left out.         *)
(***************************************************************************)
EXTENDS Naturals

CONSTANTS
  Keys,        \* reservation keys: one for each external effect
  Clients,     \* reserve transactions that can be open at once
  Limit,       \* budgets.limit_amount
  Estimates,   \* amounts a reserve may ask for
  Actuals,     \* amounts a provider may report
  Amounts,     \* every amount a row of a key may stand at
  SumOf(_),    \* PostgreSQL's sum() over a column, as a function of the keys
  NoClient     \* the budget row is not locked

ASSUME AmountAssumption ==
  /\ Limit \in Nat /\ Amounts \subseteq Nat
  /\ Estimates \subseteq Amounts /\ Actuals \subseteq Amounts /\ 0 \in Amounts
ASSUME ClientAssumption == NoClient \notin Clients

\* What is used of sum(): it starts at zero and follows the change of one row.
ASSUME SumAssumption ==
  /\ SumOf([k \in Keys |-> 0]) = 0
  /\ \A f \in [Keys -> Amounts] :
       /\ SumOf(f) \in Nat
       /\ \A k \in Keys, v \in Amounts : SumOf([f EXCEPT ![k] = v]) + f[k] = SumOf(f) + v

VARIABLES
  active,      \* budgets.status is active
  lock,        \* the transaction that holds the budget row FOR UPDATE
  pc,          \* where each transaction is
  want,        \* the key and estimate it was called with
  committed,   \* what it has added up so far
  status,      \* budget_reservations.status of each key, or none
  amount,      \* its reserved_amount, which is the estimate
  actual,      \* sum of actual_amount over its settlement entries
  entries      \* how many cost_ledger_entries of each kind it has

reservations == <<status, amount, actual, entries>>
vars == <<active, lock, pc, want, committed, reservations>>

Statuses == {"none", "reserved", "pending_actual", "settled", "released",
             "overage_pending_approval"}
Settled  == {"settled", "overage_pending_approval"}
Kinds    == {"estimated", "settlement", "released"}

\* The columns the two statements of _committed_micros add up.
Counted == {"reserved", "pending_actual", "overage_pending_approval"}
Open    == [k \in Keys |-> IF status[k] \in Counted THEN amount[k] ELSE 0]

Init ==
  /\ active = TRUE /\ lock = NoClient
  /\ pc = [c \in Clients |-> "idle"]
  /\ want = [c \in Clients |-> [key |-> NoClient, estimate |-> 0]]
  /\ committed = [c \in Clients |-> 0]
  /\ status = [k \in Keys |-> "none"]
  /\ amount = [k \in Keys |-> 0] /\ actual = [k \in Keys |-> 0]
  /\ entries = [k \in Keys |-> [n \in Kinds |-> 0]]

\* An operator closes or reopens the budget.
SetActive ==
  /\ active' = ~active
  /\ UNCHANGED <<lock, pc, want, committed, reservations>>

-----------------------------------------------------------------------------
(* reserve_for_effect and reserve_for_publication_effect                   *)

LockableAnyway == TRUE                                                   \* mutant
Lockable == lock = NoClient

\* SELECT ... FROM budgets FOR UPDATE, and no reservation has the key yet.  For a
\* stored key, or a closed budget, the call returns or raises and writes nothing.
LockBudget(c, k, e) ==
  /\ pc[c] = "idle" /\ Lockable /\ active /\ status[k] = "none"
  /\ lock' = c
  /\ pc' = [pc EXCEPT ![c] = "locked"]
  /\ want' = [want EXCEPT ![c] = [key |-> k, estimate |-> e]]
  /\ UNCHANGED <<active, committed, reservations>>

SumReserved(c) ==
  /\ pc[c] = "locked"
  /\ pc' = [pc EXCEPT ![c] = "reserved_read"]
  /\ committed' = [committed EXCEPT ![c] = SumOf(Open)]
  /\ UNCHANGED <<active, lock, want, reservations>>

SumSettled(c) ==
  /\ pc[c] = "reserved_read"
  /\ pc' = [pc EXCEPT ![c] = "settled_read"]
  /\ committed' = [committed EXCEPT ![c] = @ + SumOf(actual)]
  /\ UNCHANGED <<active, lock, want, reservations>>

\* The transaction ends, and with it the row lock and what it knew.
End(c) ==
  /\ lock' = NoClient
  /\ pc' = [pc EXCEPT ![c] = "idle"]
  /\ want' = [want EXCEPT ![c] = [key |-> NoClient, estimate |-> 0]]
  /\ committed' = [committed EXCEPT ![c] = 0]

Fits(c) == committed[c] + want[c].estimate <= Limit

InsertReservation(c) ==
  LET k == want[c].key IN
  /\ pc[c] = "settled_read" /\ Fits(c)
  /\ status' = [status EXCEPT ![k] = "reserved"]
  /\ amount' = [amount EXCEPT ![k] = want[c].estimate]
  /\ entries' = [entries EXCEPT ![k]["estimated"] = @ + 1]
  /\ End(c)
  /\ UNCHANGED <<active, actual>>

\* BudgetExceeded, an effect of another job, or a lost connection.
RollBack(c) ==
  /\ pc[c] # "idle"
  /\ End(c)
  /\ UNCHANGED <<active, reservations>>

-----------------------------------------------------------------------------
(* record_actual_usage and release_unused                                  *)

\* record_actual_usage without an amount.
MarkPendingActual(k) ==
  /\ status[k] \in {"reserved", "pending_actual"}
  /\ status' = [status EXCEPT ![k] = "pending_actual"]
  /\ UNCHANGED <<active, lock, pc, want, committed, amount, actual, entries>>

UnsettledReservedRow(k) == status[k] \notin {"none", "released"}         \* mutant
Unsettled(k) == entries[k]["settlement"] = 0 /\ status[k] \notin {"none", "released"}

\* record_actual_usage with an amount.  A settled reservation answers with what it
\* has, or raises when the amount differs; a released one raises.
Settle(k, a) ==
  /\ Unsettled(k)
  /\ status' = [status EXCEPT ![k] = IF a > amount[k] THEN "overage_pending_approval"
                                                      ELSE "settled"]
  /\ actual' = [actual EXCEPT ![k] = @ + a]
  /\ entries' = [entries EXCEPT ![k]["settlement"] = @ + 1]
  /\ UNCHANGED <<active, lock, pc, want, committed, amount>>

Releasable == {"reserved", "pending_actual"}

ReleaseUnused(k) ==
  /\ status[k] \in Releasable
  /\ status' = [status EXCEPT ![k] = "released"]
  /\ entries' = [entries EXCEPT ![k]["released"] = @ + 1]
  /\ UNCHANGED <<active, lock, pc, want, committed, amount, actual>>

Next ==
  \/ SetActive
  \/ \E c \in Clients :
       \/ \E k \in Keys, e \in Estimates : LockBudget(c, k, e)
       \/ SumReserved(c) \/ SumSettled(c) \/ InsertReservation(c) \/ RollBack(c)
  \/ \E k \in Keys :
       \/ MarkPendingActual(k) \/ ReleaseUnused(k) \/ \E a \in Actuals : Settle(k, a)

Spec == Init /\ [][Next]_vars

-----------------------------------------------------------------------------
(* Properties                                                              *)

\* Every row and every transaction keeps its type.
TypeOK ==
  /\ active \in BOOLEAN /\ lock \in Clients \cup {NoClient}
  /\ pc \in [Clients -> {"idle", "locked", "reserved_read", "settled_read"}]
  /\ want \in [Clients -> [key : Keys \cup {NoClient}, estimate : Amounts]]
  /\ committed \in [Clients -> Nat]
  /\ status \in [Keys -> Statuses]
  /\ amount \in [Keys -> Amounts] /\ actual \in [Keys -> Amounts]
  /\ entries \in [Keys -> [Kinds -> Nat]]

\* What a key holds of the budget: its reserved amount while its cost is open or
\* over, its actual cost once settled within the reservation.
Held == [k \in Keys |-> IF status[k] \in Counted THEN amount[k]
                        ELSE IF status[k] = "settled" THEN actual[k] ELSE 0]

\* "reservation would exceed the available budget" is raised in time: whatever
\* settles, is released or marked between the two statements, reservations of
\* concurrent executions together never hold more than the limit.
NeverOvercommitted == SumOf(Held) <= Limit

\* The ledger tells the reservation's story: one estimate, at most one settlement,
\* a release exactly when released, an overage exactly when more was spent.
LedgerTellsStatus ==
  \A k \in Keys :
    /\ entries[k]["estimated"] = (IF status[k] = "none" THEN 0 ELSE 1)
    /\ entries[k]["settlement"] = (IF status[k] \in Settled THEN 1 ELSE 0)
    /\ entries[k]["released"] = (IF status[k] = "released" THEN 1 ELSE 0)
    /\ status[k] \in Settled =>
         (status[k] = "overage_pending_approval" <=> actual[k] > amount[k])
    /\ status[k] \notin Settled => actual[k] = 0

\* Settled, over and released are final, and a settled cost never changes.
ClosedStaysClosed ==
  [][\A k \in Keys : status[k] \in Settled \cup {"released"} =>
       /\ status'[k] = status[k]
       /\ actual'[k] = actual[k] /\ amount'[k] = amount[k]]_vars

=============================================================================
