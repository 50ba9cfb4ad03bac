------------------------ MODULE CostReservationsProofs ------------------------
(***************************************************************************)
(* What the row locks of CostReservations guarantee, for every budget,     *)
(* every set of keys and amounts and any number of concurrent              *)
(* transactions.  Sums are compared one changed row at a time: every step  *)
(* changes the rows of at most one key, and SumAssumption says what that   *)
(* does to a sum.                                                          *)
(***************************************************************************)
EXTENDS CostReservations, TLAPS

USE AmountAssumption, ClientAssumption

\* What is held was counted: by the ledger as a whole, and by every transaction
\* that has read its sums, even when other rows have changed since.
Counting ==
  /\ SumOf(Held) <= SumOf(Open) + SumOf(actual)
  /\ \A c \in Clients :
       /\ pc[c] = "reserved_read" => SumOf(Held) <= committed[c] + SumOf(actual)
       /\ pc[c] = "settled_read" => SumOf(Held) <= committed[c]

\* The budget row is locked by the one transaction that is open, and nobody else
\* can insert the key it found unused.
Locking ==
  \A c \in Clients : pc[c] # "idle" =>
    /\ lock = c
    /\ want[c].key \in Keys /\ status[want[c].key] = "none"

IInv == TypeOK /\ LedgerTellsStatus /\ Locking /\ Counting /\ NeverOvercommitted

-----------------------------------------------------------------------------
(* Sums                                                                    *)

\* One changed row changes the sum by the difference.
LEMMA SumChange ==
  ASSUME NEW f \in [Keys -> Amounts], NEW k \in Keys, NEW v \in Amounts
  PROVE  /\ SumOf(f) \in Nat
         /\ SumOf([f EXCEPT ![k] = v]) \in Nat
         /\ SumOf([f EXCEPT ![k] = v]) = SumOf(f) + v - f[k]
<1>1. [f EXCEPT ![k] = v] \in [Keys -> Amounts]
  OBVIOUS
<1>2. /\ SumOf(f) \in Nat /\ SumOf([f EXCEPT ![k] = v]) \in Nat
      /\ SumOf([f EXCEPT ![k] = v]) + f[k] = SumOf(f) + v
  BY <1>1, SumAssumption
<1>3. f[k] \in Nat /\ v \in Nat
  OBVIOUS
<1> QED
  BY <1>2, <1>3

\* The columns that are added up, and their sums, are amounts.
LEMMA Columns ==
  ASSUME TypeOK
  PROVE  /\ Open \in [Keys -> Amounts] /\ Held \in [Keys -> Amounts]
         /\ SumOf(Open) \in Nat /\ SumOf(Held) \in Nat /\ SumOf(actual) \in Nat
<1>1. Open \in [Keys -> Amounts] /\ Held \in [Keys -> Amounts]
  BY DEF TypeOK, Open, Held
<1>2. actual \in [Keys -> Amounts]
  BY DEF TypeOK
<1> QED
  BY <1>1, <1>2, SumAssumption

-----------------------------------------------------------------------------
(* Types and the ledger                                                    *)

LEMMA InitIInv == Init => IInv
<1> SUFFICES ASSUME Init PROVE IInv
  OBVIOUS
<1>1. TypeOK
  BY DEF Init, TypeOK, Statuses, Kinds
<1>2. LedgerTellsStatus /\ Locking
  BY DEF Init, LedgerTellsStatus, Locking, Settled, Kinds
<1>3. Open = [k \in Keys |-> 0] /\ Held = [k \in Keys |-> 0] /\ actual = [k \in Keys |-> 0]
  BY DEF Init, Open, Held, Counted
<1>4. SumOf(Open) = 0 /\ SumOf(Held) = 0 /\ SumOf(actual) = 0
  BY <1>3, SumAssumption
<1>5. Counting /\ NeverOvercommitted
  BY <1>4 DEF Init, Counting, NeverOvercommitted
<1> QED
  BY <1>1, <1>2, <1>5 DEF IInv

\* A settlement is the first one of its key: its entries and its actual were none.
LEMMA SettleIsFirst ==
  ASSUME TypeOK, LedgerTellsStatus, NEW k \in Keys, Unsettled(k)
  PROVE  status[k] \in {"reserved", "pending_actual"} /\ actual[k] = 0
BY DEF TypeOK, LedgerTellsStatus, Unsettled, Statuses, Settled

LEMMA StepTypeOK ==
  ASSUME TypeOK, LedgerTellsStatus, Locking, [Next]_vars
  PROVE  TypeOK'
<1> USE DEF TypeOK, Statuses, Kinds
<1>1. ASSUME SetActive PROVE TypeOK'
  BY <1>1 DEF SetActive, reservations
<1>2. ASSUME NEW c \in Clients, NEW k \in Keys, NEW e \in Estimates, LockBudget(c, k, e)
      PROVE TypeOK'
  BY <1>2 DEF LockBudget, reservations
<1>3. ASSUME NEW c \in Clients, SumReserved(c) PROVE TypeOK'
  BY <1>3, Columns DEF SumReserved, reservations
<1>4. ASSUME NEW c \in Clients, SumSettled(c) PROVE TypeOK'
  BY <1>4, Columns DEF SumSettled, reservations
<1>5. ASSUME NEW c \in Clients, InsertReservation(c) PROVE TypeOK'
  <2>1. want[c].key \in Keys /\ want[c].estimate \in Amounts
    BY <1>5 DEF Locking, InsertReservation
  <2> QED
    BY <1>5, <2>1 DEF InsertReservation, End
<1>6. ASSUME NEW c \in Clients, RollBack(c) PROVE TypeOK'
  BY <1>6 DEF RollBack, End, reservations
<1>7. ASSUME NEW k \in Keys, MarkPendingActual(k) PROVE TypeOK'
  BY <1>7 DEF MarkPendingActual
<1>8. ASSUME NEW k \in Keys, ReleaseUnused(k) PROVE TypeOK'
  BY <1>8 DEF ReleaseUnused
<1>9. ASSUME NEW k \in Keys, NEW a \in Actuals, Settle(k, a) PROVE TypeOK'
  <2>1. actual[k] + a \in Amounts
    BY <1>9, SettleIsFirst DEF Settle
  <2> QED
    BY <1>9, <2>1 DEF Settle
<1>10. CASE UNCHANGED vars
  BY <1>10 DEF vars, reservations
<1> QED
  BY <1>1, <1>2, <1>3, <1>4, <1>5, <1>6, <1>7, <1>8, <1>9, <1>10 DEF Next

LEMMA StepLedger ==
  ASSUME TypeOK, LedgerTellsStatus, Locking, [Next]_vars
  PROVE  LedgerTellsStatus'
<1> USE DEF TypeOK, LedgerTellsStatus, Settled, Kinds
<1>1. CASE UNCHANGED reservations
  BY <1>1 DEF reservations
<1>2. ASSUME NEW c \in Clients, InsertReservation(c) PROVE LedgerTellsStatus'
  <2>1. want[c].key \in Keys /\ status[want[c].key] = "none"
    BY <1>2 DEF Locking, InsertReservation
  <2> QED
    BY <1>2, <2>1 DEF InsertReservation, End
<1>3. ASSUME NEW k \in Keys, MarkPendingActual(k) PROVE LedgerTellsStatus'
  BY <1>3 DEF MarkPendingActual
<1>4. ASSUME NEW k \in Keys, ReleaseUnused(k) PROVE LedgerTellsStatus'
  BY <1>4 DEF ReleaseUnused, Releasable
<1>5. ASSUME NEW k \in Keys, NEW a \in Actuals, Settle(k, a) PROVE LedgerTellsStatus'
  BY <1>5, SettleIsFirst DEF Settle
<1> QED
  BY <1>1, <1>2, <1>3, <1>4, <1>5
  DEF Next, SetActive, LockBudget, SumReserved, SumSettled, RollBack, vars, reservations

\* Only the transaction that holds the budget row can be under way.
LEMMA StepLocking ==
  ASSUME TypeOK, LedgerTellsStatus, Locking, [Next]_vars
  PROVE  Locking'
<1> USE DEF TypeOK, Locking
<1>1. ASSUME NEW c \in Clients, NEW k \in Keys, NEW e \in Estimates, LockBudget(c, k, e)
      PROVE Locking'
  BY <1>1 DEF LockBudget, Lockable, reservations
<1>2. ASSUME NEW c \in Clients, SumReserved(c) \/ SumSettled(c) PROVE Locking'
  BY <1>2 DEF SumReserved, SumSettled, reservations
<1>3. ASSUME NEW c \in Clients, InsertReservation(c) \/ RollBack(c) PROVE Locking'
  BY <1>3 DEF InsertReservation, RollBack, End, reservations
<1>4. ASSUME NEW k \in Keys, MarkPendingActual(k) PROVE Locking'
  BY <1>4 DEF MarkPendingActual
<1>5. ASSUME NEW k \in Keys, ReleaseUnused(k) PROVE Locking'
  BY <1>5 DEF ReleaseUnused, Releasable
<1>6. ASSUME NEW k \in Keys, NEW a \in Actuals, Settle(k, a) PROVE Locking'
  BY <1>6 DEF Settle, Unsettled
<1>7. CASE SetActive \/ UNCHANGED vars
  BY <1>7 DEF SetActive, vars, reservations
<1> QED
  BY <1>1, <1>2, <1>3, <1>4, <1>5, <1>6, <1>7 DEF Next

-----------------------------------------------------------------------------
(* Money                                                                   *)

\* Key k's row changes: it holds h, counts as o and has cost a.  It holds no more
\* than before, and what it no longer counts as open is in its actual cost.
RowChange(k, h, o, a) ==
  /\ h \in Amounts /\ o \in Amounts /\ a \in Amounts
  /\ Held' = [Held EXCEPT ![k] = h] /\ Open' = [Open EXCEPT ![k] = o]
  /\ actual' = [actual EXCEPT ![k] = a]
  /\ h <= Held[k] /\ actual[k] <= a
  /\ h - Held[k] <= o - Open[k] + a - actual[k]
  /\ UNCHANGED <<pc, committed>>

LEMMA StepHeld ==
  ASSUME TypeOK, LedgerTellsStatus, Locking, Counting, NeverOvercommitted, [Next]_vars
  PROVE  Counting' /\ NeverOvercommitted'
<1> USE DEF Counting, NeverOvercommitted
<1>t. /\ Open \in [Keys -> Amounts] /\ Held \in [Keys -> Amounts] /\ actual \in [Keys -> Amounts]
      /\ SumOf(Open) \in Nat /\ SumOf(Held) \in Nat /\ SumOf(actual) \in Nat
      /\ committed \in [Clients -> Nat]
      /\ pc \in [Clients -> {"idle", "locked", "reserved_read", "settled_read"}]
  BY Columns DEF TypeOK
\* Steps that touch no row.
<1>1. CASE UNCHANGED <<reservations, pc, committed>>
  <2>1. Open' = Open /\ Held' = Held /\ actual' = actual /\ pc' = pc /\ committed' = committed
    BY <1>1 DEF reservations, Open, Held
  <2> QED
    BY <2>1, <1>t
<1>2. ASSUME NEW c \in Clients, UNCHANGED reservations,
             \/ \E k \in Keys, e \in Estimates : LockBudget(c, k, e)
             \/ SumReserved(c) \/ SumSettled(c) \/ RollBack(c)
      PROVE  Counting' /\ NeverOvercommitted'
  <2>1. Open' = Open /\ Held' = Held /\ actual' = actual
    BY <1>2 DEF reservations, Open, Held
  <2>2. /\ SumOf(Held') <= Limit
        /\ SumOf(Held') <= SumOf(Open') + SumOf(actual')
    BY <2>1
  <2>3. ASSUME NEW d \in Clients, d # c
        PROVE  pc'[d] = pc[d] /\ committed'[d] = committed[d]
    BY <1>2, <2>3, <1>t DEF LockBudget, SumReserved, SumSettled, RollBack, End
  <2>4. pc'[c] = "reserved_read" => SumOf(Held') <= committed'[c] + SumOf(actual')
    BY <1>2, <2>1, <1>t DEF LockBudget, SumReserved, SumSettled, RollBack, End
  <2>5. pc'[c] = "settled_read" => SumOf(Held') <= committed'[c]
    BY <1>2, <2>1, <1>t DEF LockBudget, SumReserved, SumSettled, RollBack, End
  <2> QED
    BY <2>1, <2>2, <2>3, <2>4, <2>5
\* A row that stops holding more than before: what was read still covers it.
<1>3. ASSUME NEW k \in Keys, NEW h, NEW o, NEW a, RowChange(k, h, o, a)
      PROVE  Counting' /\ NeverOvercommitted'
  <2>1. /\ SumOf(Held') \in Nat /\ SumOf(Held') = SumOf(Held) + h - Held[k]
        /\ SumOf(Open') \in Nat /\ SumOf(Open') = SumOf(Open) + o - Open[k]
        /\ SumOf(actual') \in Nat /\ SumOf(actual') = SumOf(actual) + a - actual[k]
    BY <1>3, <1>t, SumChange DEF RowChange
  <2>2. /\ h \in Nat /\ o \in Nat /\ a \in Nat
        /\ Held[k] \in Nat /\ Open[k] \in Nat /\ actual[k] \in Nat
    BY <1>3, <1>t DEF RowChange
  <2>3. SumOf(Held') <= SumOf(Held) /\ SumOf(actual) <= SumOf(actual')
    BY <1>3, <1>t, <2>1, <2>2 DEF RowChange
  <2>4. SumOf(Held') <= SumOf(Open') + SumOf(actual')
    BY <1>3, <1>t, <2>1, <2>2 DEF RowChange
  <2>5. SumOf(Held') <= Limit
    BY <1>t, <2>1, <2>3
  <2>6. ASSUME NEW d \in Clients
        PROVE  /\ pc'[d] = "reserved_read" => SumOf(Held') <= committed'[d] + SumOf(actual')
               /\ pc'[d] = "settled_read" => SumOf(Held') <= committed'[d]
    <3>1. pc'[d] = pc[d] /\ committed'[d] = committed[d] /\ committed[d] \in Nat
      BY <1>3, <1>t DEF RowChange
    <3> QED
      BY <1>t, <2>1, <2>3, <3>1
  <2> QED
    BY <2>4, <2>5, <2>6
<1>4. ASSUME NEW k \in Keys, MarkPendingActual(k)
      PROVE  Counting' /\ NeverOvercommitted'
  <2>1. Held' = [Held EXCEPT ![k] = Held[k]] /\ Open' = [Open EXCEPT ![k] = Open[k]]
    BY <1>4 DEF MarkPendingActual, Held, Open, Counted, TypeOK
  <2>2. actual' = [actual EXCEPT ![k] = actual[k]] /\ UNCHANGED <<pc, committed>>
    BY <1>4, <1>t DEF MarkPendingActual
  <2>3. /\ Held[k] \in Amounts /\ Open[k] \in Amounts /\ actual[k] \in Amounts
        /\ Held[k] \in Nat /\ Open[k] \in Nat /\ actual[k] \in Nat
    BY <1>t
  <2>4. RowChange(k, Held[k], Open[k], actual[k])
    BY <2>1, <2>2, <2>3 DEF RowChange
  <2> QED
    BY <1>3, <2>4
<1>5. ASSUME NEW k \in Keys, ReleaseUnused(k)
      PROVE  Counting' /\ NeverOvercommitted'
  <2>1. Held' = [Held EXCEPT ![k] = 0] /\ Open' = [Open EXCEPT ![k] = 0]
    BY <1>5 DEF ReleaseUnused, Releasable, Held, Open, Counted, TypeOK
  <2>2. Held[k] = Open[k]
    BY <1>5 DEF ReleaseUnused, Releasable, Held, Open, Counted
  <2>3. actual' = [actual EXCEPT ![k] = actual[k]] /\ UNCHANGED <<pc, committed>>
    BY <1>5, <1>t DEF ReleaseUnused
  <2>4. /\ Open[k] \in Amounts /\ actual[k] \in Amounts
        /\ Open[k] \in Nat /\ actual[k] \in Nat /\ Held[k] \in Nat
    BY <1>t
  <2>5. RowChange(k, 0, 0, actual[k])
    BY <2>1, <2>2, <2>3, <2>4 DEF RowChange
  <2> QED
    BY <1>3, <2>5
<1>6. ASSUME NEW k \in Keys, NEW a \in Actuals, Settle(k, a)
      PROVE  Counting' /\ NeverOvercommitted'
  <2>1. status[k] \in {"reserved", "pending_actual"} /\ actual[k] = 0
    BY <1>6, SettleIsFirst DEF Settle
  <2>2. Held[k] = amount[k] /\ Open[k] = amount[k] /\ amount[k] \in Amounts /\ amount[k] \in Nat
        /\ a \in Amounts /\ a \in Nat
    BY <2>1 DEF Held, Open, Counted, TypeOK
  <2>3. actual' = [actual EXCEPT ![k] = a] /\ UNCHANGED <<pc, committed, amount>>
    <3>1. actual' = [actual EXCEPT ![k] = actual[k] + a] /\ UNCHANGED <<pc, committed, amount>>
      BY <1>6 DEF Settle
    <3>2. actual[k] + a = a
      BY <2>1, <2>2
    <3> QED
      BY <3>1, <3>2
  <2>4. CASE a > amount[k]
    <3>1. status' = [status EXCEPT ![k] = "overage_pending_approval"]
      BY <1>6, <2>4 DEF Settle
    <3>2. Held' = [Held EXCEPT ![k] = amount[k]] /\ Open' = [Open EXCEPT ![k] = amount[k]]
      BY <3>1, <2>1, <2>3, <2>2 DEF Held, Open, Counted, TypeOK
    <3>3. RowChange(k, amount[k], amount[k], a)
      BY <2>1, <2>2, <2>3, <3>2 DEF RowChange
    <3> QED
      BY <1>3, <3>3
  <2>5. CASE a <= amount[k]
    <3>0. ~(a > amount[k])
      BY <2>2, <2>5
    <3>1. status' = [status EXCEPT ![k] = "settled"]
      BY <1>6, <3>0 DEF Settle
    <3>2. Held' = [Held EXCEPT ![k] = a] /\ Open' = [Open EXCEPT ![k] = 0]
      BY <3>1, <2>1, <2>3, <2>2 DEF Held, Open, Counted, TypeOK
    <3>3. RowChange(k, a, 0, a)
      BY <2>1, <2>2, <2>3, <2>5, <3>2 DEF RowChange
    <3> QED
      BY <1>3, <3>3
  <2> QED
    BY <2>2, <2>4, <2>5
\* The holder of the lock inserts what fits over what it has counted.
<1>7. ASSUME NEW c \in Clients, InsertReservation(c)
      PROVE  Counting' /\ NeverOvercommitted'
  <2> DEFINE k == want[c].key
             e == want[c].estimate
  <2>1. /\ k \in Keys /\ status[k] = "none" /\ e \in Amounts /\ e \in Nat
        /\ committed[c] + e <= Limit /\ SumOf(Held) <= committed[c] /\ committed[c] \in Nat
    BY <1>7, <1>t DEF InsertReservation, Locking, TypeOK, Fits
  <2>2. Held[k] = 0 /\ Open[k] = 0
    BY <2>1 DEF Held, Open, Counted
  <2>3. Held' = [Held EXCEPT ![k] = e] /\ Open' = [Open EXCEPT ![k] = e] /\ actual' = actual
    BY <1>7, <2>1 DEF InsertReservation, Held, Open, Counted, TypeOK
  <2>4. /\ SumOf(Held') \in Nat /\ SumOf(Held') = SumOf(Held) + e
        /\ SumOf(Open') \in Nat /\ SumOf(Open') = SumOf(Open) + e
    <3> HIDE DEF k, e
    <3>1. /\ SumOf([Held EXCEPT ![k] = e]) = SumOf(Held) + e - Held[k]
          /\ SumOf([Open EXCEPT ![k] = e]) = SumOf(Open) + e - Open[k]
      BY <1>t, <2>1, SumChange
    <3> QED
      BY <1>t, <2>1, <2>2, <2>3, <3>1
  <2>5. SumOf(Held') <= SumOf(Open') + SumOf(actual') /\ SumOf(Held') <= Limit
    BY <1>t, <2>1, <2>3, <2>4
  <2>6. \A d \in Clients : pc'[d] = "idle"
    BY <1>7, <1>t DEF InsertReservation, End, Locking
  <2> QED
    BY <2>5, <2>6
<1> QED
  BY <1>1, <1>2, <1>4, <1>5, <1>6, <1>7
  DEF Next, SetActive, LockBudget, SumReserved, SumSettled, RollBack, vars

-----------------------------------------------------------------------------
(* The theorems                                                            *)

LEMMA Inductive == Spec => []IInv
<1>1. IInv /\ [Next]_vars => IInv'
  BY StepTypeOK, StepLedger, StepLocking, StepHeld DEF IInv
<1> QED
  BY InitIInv, <1>1, PTL DEF Spec

\* Types of the budget, its reservations and the open transactions.
THEOREM BudgetTypeCorrect == Spec => []TypeOK
<1>1. IInv => TypeOK
  BY DEF IInv
<1> QED
  BY Inductive, <1>1, PTL

\* However many executions reserve at once and whatever settles between their
\* two sums, the budget's limit is never exceeded by what is held.
THEOREM BudgetNeverOvercommitted == Spec => []NeverOvercommitted
<1>1. IInv => NeverOvercommitted
  BY DEF IInv
<1> QED
  BY Inductive, <1>1, PTL

\* A reservation has one estimate and at most one settlement or release, and the
\* status that its ledger entries tell.
THEOREM LedgerIsTruthful == Spec => []LedgerTellsStatus
<1>1. IInv => LedgerTellsStatus
  BY DEF IInv
<1> QED
  BY Inductive, <1>1, PTL

\* Settled, over and released reservations are never changed again.
THEOREM ClosedForGood == Spec => ClosedStaysClosed
<1> DEFINE Stays == \A k \in Keys : status[k] \in Settled \cup {"released"} =>
                      /\ status'[k] = status[k]
                      /\ actual'[k] = actual[k] /\ amount'[k] = amount[k]
<1>1. IInv /\ [Next]_vars => [Stays]_vars
  <2> SUFFICES ASSUME IInv, Next, NEW k \in Keys, status[k] \in Settled \cup {"released"}
               PROVE  /\ status'[k] = status[k]
                      /\ actual'[k] = actual[k] /\ amount'[k] = amount[k]
    BY DEF Stays
  <2> USE DEF IInv, TypeOK, Settled
  <2>1. CASE UNCHANGED reservations
    BY <2>1 DEF reservations
  <2>2. ASSUME NEW c \in Clients, InsertReservation(c)
        PROVE  /\ status'[k] = status[k]
               /\ actual'[k] = actual[k] /\ amount'[k] = amount[k]
    BY <2>2 DEF InsertReservation, Locking
  <2>3. ASSUME NEW j \in Keys, MarkPendingActual(j) \/ ReleaseUnused(j)
        PROVE  /\ status'[k] = status[k]
               /\ actual'[k] = actual[k] /\ amount'[k] = amount[k]
    BY <2>3 DEF MarkPendingActual, ReleaseUnused, Releasable
  <2>4. ASSUME NEW j \in Keys, NEW a \in Actuals, Settle(j, a)
        PROVE  /\ status'[k] = status[k]
               /\ actual'[k] = actual[k] /\ amount'[k] = amount[k]
    BY <2>4, SettleIsFirst DEF Settle
  <2> QED
    BY <2>1, <2>2, <2>3, <2>4
    DEF Next, SetActive, LockBudget, SumReserved, SumSettled, RollBack, reservations
<1> QED
  BY Inductive, <1>1, PTL DEF Spec, ClosedStaysClosed, Stays

=============================================================================
