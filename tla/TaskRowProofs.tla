---------------------------- MODULE TaskRowProofs ----------------------------
(***************************************************************************)
(* What the statements of TaskRow make of a row: a row.  Both the queue    *)
(* and the run lifecycle build their type correctness on these lemmas.     *)
(***************************************************************************)
EXTENDS TaskRow, TLAPS

USE DEF NoLease, NoResult

----------------------------------------------------------------------------
\* Every SET clause of queue/store.py writes a row.
LEMMA RowWrites ==
    ASSUME NEW r \in Rows
    PROVE  /\ NewRow \in Rows
           /\ \A l \in Nat : Leased(r, l) \in Rows
           /\ Started(r) \in Rows
           /\ Extended(r) \in Rows
           /\ \A a \in Nat : Succeeded(r, a) \in Rows
           /\ \A q \in Reasons : Failed(r, q) \in Rows
           /\ Requeued(r) \in Rows
           /\ Recovered(r) \in Rows
           /\ Cancelled(r) \in Rows
           /\ [r EXCEPT !.expiry = "past"] \in Rows
<1> USE DEF Rows, Statuses, Reasons
<1>1. NewRow \in Rows
  BY DEF NewRow, NoRow
<1>2. ASSUME NEW l \in Nat PROVE Leased(r, l) \in Rows
  <2>1. r.attempt + 1 \in Nat
    OBVIOUS
  <2> QED
    BY <2>1, Zenon DEF Leased
<1>3. Started(r) \in Rows /\ Extended(r) \in Rows /\ Cancelled(r) \in Rows
  BY DEF Started, Extended, Cancelled
<1>4. ASSUME NEW a \in Nat PROVE Succeeded(r, a) \in Rows
  BY DEF Succeeded
<1>5. ASSUME NEW q \in Reasons PROVE Failed(r, q) \in Rows
  BY DEF Failed
<1>6. Requeued(r) \in Rows
  BY DEF Requeued
<1>7. Recovered(r) \in Rows
  BY <1>6 DEF Recovered
<1>8. [r EXCEPT !.expiry = "past"] \in Rows
  OBVIOUS
<1> HIDE DEF Rows, Statuses, Reasons
<1> QED
  BY <1>1, <1>2, <1>3, <1>4, <1>5, <1>6, <1>7, <1>8

\* So does fail, whether it requeues the task or not.
LEMMA FailedOrRequeuedWrites ==
    ASSUME NEW r \in Rows, NEW q \in Reasons, NEW retry \in BOOLEAN
    PROVE  FailedOrRequeued(r, q, retry) \in Rows
<1>1. Failed(r, q) \in Rows /\ Requeued(Failed(r, q)) \in Rows
  BY RowWrites
<1> QED
  BY <1>1 DEF FailedOrRequeued
=============================================================================
