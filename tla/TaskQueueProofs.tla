--------------------------- MODULE TaskQueueProofs ---------------------------
(***************************************************************************)
(* Theorems about TaskQueue, for any tasks, workers, attempts and mishaps: *)
(* its invariants, its action properties, and that it implements           *)
(* TaskContract.                                                           *)
(*                                                                         *)
(* Type correctness is inductive as it stands.  The safety invariants are  *)
(* not: why a result can only be the newest attempt's rests on the lease   *)
(* numbers, which the invariant Inv spells out.                            *)
(***************************************************************************)
EXTENDS TaskQueue, TaskRowProofs

USE DEF NoLease, NoResult

----------------------------------------------------------------------------
(* The slots an action writes are slots.                                   *)

\* What a slot may be written as: a slot that works has a task.
Slots == {s \in WorkerStates : s.pc # "idle" => s.task \in Tasks}

LEMMA SlotWrites ==
    ASSUME NEW s \in Slots
    PROVE  /\ Idle \in Slots
           /\ [Idle EXCEPT !.stopping = s.stopping] \in Slots
           /\ [Idle EXCEPT !.stopping = TRUE] \in Slots
           /\ [s EXCEPT !.stopping = TRUE] \in Slots
           /\ \A b \in BOOLEAN : [s EXCEPT !.beating = b] \in Slots
           /\ s.pc # "idle" =>
                \A pc \in PCs : /\ [s EXCEPT !.pc = pc] \in Slots
                                /\ [s EXCEPT !.pc = pc, !.beating = TRUE] \in Slots
BY DEF Slots, WorkerStates, PCs, Idle, NoTask

\* TypeOK is what Slots and Rows say, variable by variable.
LEMMA TypeByVariable ==
    TypeOK => /\ row \in [Tasks -> Rows]
              /\ issued \in [Tasks -> Nat]
              /\ worker \in [Workers -> Slots]
              /\ told \in [Tasks -> SUBSET Nat]
              /\ mishaps \in 0 .. MaxMishaps
BY DEF TypeOK, Slots

LEMMA TypeOfNextState ==
    ASSUME row' \in [Tasks -> Rows],
           issued' \in [Tasks -> Nat],
           worker' \in [Workers -> Slots],
           told' \in [Tasks -> SUBSET Nat],
           mishaps' \in 0 .. MaxMishaps
    PROVE  TypeOK'
BY DEF TypeOK, Slots

LEMMA MishapWrites ==
    ASSUME mishaps \in 0 .. MaxMishaps, Mishap
    PROVE  mishaps' \in 0 .. MaxMishaps
BY MaxMishapsAssumption DEF Mishap

----------------------------------------------------------------------------
(* One lemma per action: it preserves TypeOK.                              *)

LEMMA TypeEnqueue ==
    ASSUME TypeOK, NEW t \in Tasks, Enqueue(t)
    PROVE  TypeOK'
BY TypeByVariable, TypeOfNextState, RowWrites DEF Enqueue, SetRow

LEMMA TypeClaimRow ==
    ASSUME TypeOK, NEW t \in Tasks, ClaimRow(t)
    PROVE  /\ row' \in [Tasks -> Rows]
           /\ issued' \in [Tasks -> Nat]
<1>1. row \in [Tasks -> Rows] /\ issued \in [Tasks -> Nat]
  BY TypeByVariable
<1>2. NewLease(t) \in Nat
  BY <1>1 DEF NewLease
<1>3. Leased(row[t], NewLease(t)) \in Rows
  BY <1>1, <1>2, RowWrites
<1> QED
  BY <1>1, <1>3 DEF ClaimRow, SetRow

LEMMA TypeClaim ==
    ASSUME TypeOK, NEW w \in Workers, NEW t \in Tasks, Claim(w, t)
    PROVE  TypeOK'
<1> DEFINE s == [Idle EXCEPT !.pc = "claimed", !.task = t,
                             !.lease = NewLease(t),
                             !.attempt = row[t].attempt + 1]
<1>1. row[t].attempt + 1 \in Nat /\ NewLease(t) \in Nat
  BY TypeByVariable DEF NewLease, Rows
<1>2. s \in Slots
  BY <1>1, Zenon DEF Slots, WorkerStates, PCs, Idle, NoTask
<1>3. worker' \in [Workers -> Slots]
  BY <1>2, TypeByVariable DEF Claim, Become
<1>4. row' \in [Tasks -> Rows] /\ issued' \in [Tasks -> Nat]
  BY TypeClaimRow DEF Claim
<1> QED
  BY <1>3, <1>4, TypeByVariable, TypeOfNextState DEF Claim

LEMMA TypeClaimReplyLost ==
    ASSUME TypeOK, NEW t \in Tasks, ClaimReplyLost(t)
    PROVE  TypeOK'
BY TypeClaimRow, TypeByVariable, TypeOfNextState, MishapWrites
   DEF ClaimReplyLost

\* What the actions of a slot have in common: it is written as a slot, and
\* the row of its task as a row.
LEMMA SlotStep ==
    ASSUME TypeOK, NEW w \in Workers
    PROVE  /\ worker[w] \in Slots
           /\ \A s \in Slots : Become(w, s) => worker' \in [Workers -> Slots]
           /\ Return(w) => worker' \in [Workers -> Slots]
           /\ ~At(w, "idle") =>
                /\ worker[w].task \in Tasks
                /\ row[worker[w].task] \in Rows
                /\ worker[w].attempt \in Nat
                /\ \A pc \in PCs : GoTo(w, pc) => worker' \in [Workers -> Slots]
           /\ \A t \in Tasks, r \in Rows : SetRow(t, r) => row' \in [Tasks -> Rows]
<1>1. row \in [Tasks -> Rows] /\ worker \in [Workers -> Slots]
  BY TypeByVariable
<1>2. worker[w] \in Slots
  BY <1>1
<1>3. \A s \in Slots : Become(w, s) => worker' \in [Workers -> Slots]
  BY <1>1 DEF Become
<1>4. Return(w) => worker' \in [Workers -> Slots]
  BY <1>2, <1>3, SlotWrites DEF Return
<1>5. ASSUME ~At(w, "idle")
      PROVE  /\ worker[w].task \in Tasks
             /\ row[worker[w].task] \in Rows
             /\ worker[w].attempt \in Nat
             /\ \A pc \in PCs : GoTo(w, pc) => worker' \in [Workers -> Slots]
  <2>1. worker[w].task \in Tasks /\ worker[w].attempt \in Nat
    BY <1>2, <1>5 DEF At, Slots, WorkerStates
  <2>2. \A pc \in PCs : [worker[w] EXCEPT !.pc = pc] \in Slots
    BY <1>2, <1>5, SlotWrites DEF At
  <2> QED
    BY <1>1, <1>3, <2>1, <2>2 DEF GoTo
<1>6. \A t \in Tasks, r \in Rows : SetRow(t, r) => row' \in [Tasks -> Rows]
  BY <1>1 DEF SetRow
<1> QED
  BY <1>2, <1>3, <1>4, <1>5, <1>6

LEMMA TypeStart ==
    ASSUME TypeOK, NEW w \in Workers, Start(w)
    PROVE  TypeOK'
<1> DEFINE s == worker[w]
<1>1. ~At(w, "idle")
  BY DEF Start, At
<1>2. [s EXCEPT !.pc = "executing", !.beating = TRUE] \in Slots
  BY <1>1, SlotStep, SlotWrites DEF At, PCs
<1>3. worker' \in [Workers -> Slots]
  BY <1>2, SlotStep DEF Start
<1>4. row' \in [Tasks -> Rows]
  BY <1>1, SlotStep, RowWrites, TypeByVariable DEF Start
<1> QED
  BY <1>3, <1>4, TypeByVariable, TypeOfNextState DEF Start

LEMMA TypeStartReplyLost ==
    ASSUME TypeOK, NEW w \in Workers, StartReplyLost(w)
    PROVE  TypeOK'
<1>1. ~At(w, "idle")
  BY DEF StartReplyLost, At
<1>2. row' \in [Tasks -> Rows]
  BY <1>1, SlotStep, RowWrites, TypeByVariable DEF StartReplyLost
<1> QED
  BY <1>2, SlotStep, MishapWrites, TypeByVariable, TypeOfNextState
     DEF StartReplyLost

LEMMA TypeFinish ==
    ASSUME TypeOK, NEW w \in Workers, Finish(w)
    PROVE  TypeOK'
<1>1. ~At(w, "idle")
  BY DEF Finish, At
<1>2. worker' \in [Workers -> Slots]
  BY <1>1, SlotStep DEF Finish, PCs
<1> QED
  BY <1>2, TypeByVariable, TypeOfNextState DEF Finish

LEMMA TypeSucceed ==
    ASSUME TypeOK, NEW w \in Workers, Succeed(w)
    PROVE  TypeOK'
<1>1. ~At(w, "idle")
  BY DEF Succeed, At
<1>2. worker' \in [Workers -> Slots]
  BY <1>1, SlotStep DEF Succeed, PCs
<1>3. row' \in [Tasks -> Rows]
  BY <1>1, SlotStep, RowWrites, TypeByVariable DEF Succeed
<1>4. told' \in [Tasks -> SUBSET Nat]
  <2>1. worker[w].task \in Tasks /\ worker[w].attempt \in Nat
    BY <1>1, SlotStep
  <2> QED
    BY <2>1, TypeByVariable DEF Succeed
<1> QED
  BY <1>2, <1>3, <1>4, TypeByVariable, TypeOfNextState DEF Succeed

LEMMA TypeSucceedReplyLost ==
    ASSUME TypeOK, NEW w \in Workers, SucceedReplyLost(w)
    PROVE  TypeOK'
<1>1. ~At(w, "idle")
  BY DEF SucceedReplyLost, At
<1>2. worker' \in [Workers -> Slots]
  BY <1>1, SlotStep DEF SucceedReplyLost, PCs
<1>3. row' \in [Tasks -> Rows]
  BY <1>1, SlotStep, RowWrites, TypeByVariable DEF SucceedReplyLost
<1> QED
  BY <1>2, <1>3, MishapWrites, TypeByVariable, TypeOfNextState
     DEF SucceedReplyLost

LEMMA TypeFailWith ==
    ASSUME TypeOK, NEW w \in Workers, ~At(w, "idle"),
           NEW q \in Reasons, NEW retry \in BOOLEAN, FailWith(w, q, retry)
    PROVE  row' \in [Tasks -> Rows]
<1>1. worker[w].task \in Tasks /\ row[worker[w].task] \in Rows
  BY SlotStep
<1>2. FailedOrRequeued(row[worker[w].task], q, retry) \in Rows
  BY <1>1, FailedOrRequeuedWrites
<1> QED
  BY <1>1, <1>2, SlotStep DEF FailWith

LEMMA TypeFail ==
    ASSUME TypeOK, NEW w \in Workers, Fail(w)
    PROVE  TypeOK'
<1>1. ~At(w, "idle") /\ "error" \in Reasons /\ FailWith(w, "error", TRUE)
  BY DEF Fail, At, Reasons
<1>2. row' \in [Tasks -> Rows]
  BY <1>1, TypeFailWith
<1>3. worker' \in [Workers -> Slots]
  BY SlotStep DEF Fail
<1> QED
  BY <1>1, <1>2, <1>3, TypeByVariable, TypeOfNextState DEF FailWith

LEMMA TypeDefer ==
    ASSUME TypeOK, NEW w \in Workers, Defer(w)
    PROVE  TypeOK'
<1>1. ~At(w, "idle") /\ "waiting" \in Reasons /\ FailWith(w, "waiting", FALSE)
  BY DEF Defer, At, Reasons
<1>2. row' \in [Tasks -> Rows]
  BY <1>1, TypeFailWith
<1>3. worker' \in [Workers -> Slots]
  BY <1>1, SlotStep DEF Defer, PCs
<1> QED
  BY <1>1, <1>2, <1>3, TypeByVariable, TypeOfNextState DEF FailWith

LEMMA TypeFailLost ==
    ASSUME TypeOK, NEW w \in Workers, FailLost(w)
    PROVE  TypeOK'
BY SlotStep, MishapWrites, TypeByVariable, TypeOfNextState DEF FailLost

LEMMA TypeHeartbeat ==
    ASSUME TypeOK, NEW w \in Workers, Heartbeat(w)
    PROVE  TypeOK'
<1> DEFINE s == worker[w]
<1>1. StateRefuses(row[s.task], s.lease) \in BOOLEAN
  BY DEF StateRefuses
<1>2. [s EXCEPT !.beating = StateRefuses(row[s.task], s.lease)] \in Slots
  BY <1>1, SlotStep, SlotWrites
<1>3. worker' \in [Workers -> Slots]
  BY <1>2, SlotStep, TypeByVariable DEF Heartbeat
<1>4. row' \in [Tasks -> Rows]
  <2>1. CASE s.task \in Tasks
    BY <2>1, SlotStep, RowWrites, TypeByVariable DEF Heartbeat
  <2>2. CASE s.task \notin Tasks
    BY <2>2, TypeByVariable DEF Heartbeat, SetRow
  <2> QED
    BY <2>1, <2>2
<1> QED
  BY <1>3, <1>4, TypeByVariable, TypeOfNextState DEF Heartbeat

LEMMA TypeShutdown ==
    ASSUME TypeOK, NEW w \in Workers, Shutdown(w)
    PROVE  TypeOK'
<1>1. ~At(w, "idle")
  BY DEF Shutdown, At
<1>2. worker' \in [Workers -> Slots]
  BY SlotStep, SlotWrites DEF Shutdown
<1>3. row' \in [Tasks -> Rows]
  BY <1>1, SlotStep, RowWrites DEF Shutdown
<1> QED
  BY <1>2, <1>3, MishapWrites, TypeByVariable, TypeOfNextState DEF Shutdown

LEMMA TypeRestart ==
    ASSUME TypeOK, NEW w \in Workers, Restart(w)
    PROVE  TypeOK'
BY SlotStep, SlotWrites, TypeByVariable, TypeOfNextState DEF Restart

LEMMA TypeCrash ==
    ASSUME TypeOK, NEW w \in Workers, Crash(w)
    PROVE  TypeOK'
BY SlotStep, SlotWrites, MishapWrites, TypeByVariable, TypeOfNextState
   DEF Crash

LEMMA TypePassExpiry ==
    ASSUME TypeOK, NEW t \in Tasks, PassExpiry(t)
    PROVE  row' \in [Tasks -> Rows]
<1>1. row \in [Tasks -> Rows] /\ [row[t] EXCEPT !.expiry = "past"] \in Rows
  BY TypeByVariable, RowWrites
<1> QED
  BY <1>1 DEF PassExpiry, SetRow

LEMMA TypeLapse ==
    ASSUME TypeOK, NEW t \in Tasks, Lapse(t) \/ LapseUnderOwner(t)
    PROVE  TypeOK'
<1>1. PassExpiry(t)
  BY DEF Lapse, LapseUnderOwner
<1>2. row' \in [Tasks -> Rows]
  BY <1>1, TypePassExpiry
<1>3. mishaps' \in 0 .. MaxMishaps
  BY TypeByVariable, MishapWrites DEF Lapse, LapseUnderOwner
<1> QED
  BY <1>1, <1>2, <1>3, TypeByVariable, TypeOfNextState DEF PassExpiry

LEMMA TypeRecoverExpired ==
    ASSUME TypeOK, RecoverExpired
    PROVE  TypeOK'
<1>1. row' \in [Tasks -> Rows]
  BY TypeByVariable, RowWrites DEF RecoverExpired
<1> QED
  BY <1>1, TypeByVariable, TypeOfNextState DEF RecoverExpired

LEMMA TypeRequeue ==
    ASSUME TypeOK, NEW t \in Tasks, Requeue(t)
    PROVE  TypeOK'
BY TypeByVariable, RowWrites, MishapWrites, TypeOfNextState
   DEF Requeue, SetRow

LEMMA TypeCancel ==
    ASSUME TypeOK, NEW t \in Tasks, Cancel(t)
    PROVE  TypeOK'
BY TypeByVariable, RowWrites, TypeOfNextState DEF Cancel, SetRow

LEMMA TypeInit == Init => TypeOK
<1> SUFFICES ASSUME Init PROVE TypeOK
  OBVIOUS
<1>1. NoRow \in Rows
  BY DEF NoRow, Rows, Statuses, Reasons
<1>2. Idle \in WorkerStates /\ Idle.pc = "idle"
  BY DEF Idle, WorkerStates, PCs
<1>3. 0 \in 0 .. MaxMishaps
  BY MaxMishapsAssumption
<1> QED
  BY <1>1, <1>2, <1>3 DEF Init, TypeOK

LEMMA TypeStep == TypeOK /\ [Next]_vars => TypeOK'
<1> SUFFICES ASSUME TypeOK, [Next]_vars PROVE TypeOK'
  OBVIOUS
<1>1. ASSUME NEW w \in Workers, WorkerStep(w) PROVE TypeOK'
  BY <1>1, TypeStart, TypeFinish, TypeSucceed, TypeDefer, TypeFail,
     TypeRestart, TypeClaim DEF WorkerStep
<1>2. ASSUME NEW w \in Workers, WorkerMishap(w) PROVE TypeOK'
  BY <1>2, TypeStartReplyLost, TypeSucceedReplyLost, TypeFailLost,
     TypeShutdown, TypeCrash DEF WorkerMishap
<1>3. ASSUME NEW w \in Workers, Heartbeat(w) PROVE TypeOK'
  BY <1>3, TypeHeartbeat
<1>4. ASSUME NEW t \in Tasks,
             \/ Enqueue(t) \/ ClaimReplyLost(t) \/ Lapse(t)
             \/ LapseUnderOwner(t) \/ Requeue(t) \/ Cancel(t)
      PROVE  TypeOK'
  BY <1>4, TypeEnqueue, TypeClaimReplyLost, TypeLapse, TypeRequeue, TypeCancel
<1>5. CASE RecoverExpired
  BY <1>5, TypeRecoverExpired
<1>6. CASE UNCHANGED vars
  BY <1>6 DEF TypeOK, vars
<1> QED
  BY <1>1, <1>2, <1>3, <1>4, <1>5, <1>6 DEF Next

\* The queue's variables keep their types: in particular a slot that works
\* always has a task, and the bound on mishaps is kept.
THEOREM TypeCorrect == Spec => []TypeOK
<1> QED
  BY TypeInit, TypeStep, PTL DEF Spec

----------------------------------------------------------------------------
(* The inductive invariant.  What no single guard says, and every guard    *)
(* relies on: the lease number, the attempt number and the count of leases *)
(* drawn move together, so that whoever presents the row's lease number is *)
(* its newest claimant.                                                    *)

RowInv(r, n) ==
    /\ r.attempt = n
    /\ r.lease \in {NoLease, n}
    /\ r.status = "ABSENT" => n = 0
    /\ r.status \in {"ABSENT", "PENDING"} => r.lease = NoLease
    /\ r.lease = NoLease => r.expiry = "null"
    /\ r.status \in InFlight => r.lease = n /\ n > 0 /\ r.expiry # "null"
    /\ r.status = "SUCCEEDED" => r.result = n /\ n > 0
    /\ r.status # "SUCCEEDED" => r.result = NoResult

RowsInv == \A t \in Tasks : RowInv(row[t], issued[t])

\* A slot that works holds one of the leases drawn for its task, under the
\* number of the attempt it executes, and no two hold the same.
SlotInv(s) == /\ s.pc # "idle" => /\ s.lease = s.attempt
                                  /\ s.lease > 0
                                  /\ s.lease <= issued[s.task]
              /\ s.beating => s.pc # "idle"

SameLease(s, q) == /\ s.pc # "idle" /\ q.pc # "idle"
                   /\ s.task = q.task /\ s.lease = q.lease

SlotsInv == /\ \A w \in Workers : SlotInv(worker[w])
            /\ \A v, w \in Workers : SameLease(worker[v], worker[w]) => v = w

Inv == TypeOK /\ RowsInv /\ SlotsInv /\ ToldSuccessStands

\* q is a row that may stand where r stood: it is in order, a success that
\* was accepted is still there, and a lease that has expired still has.
Follows(q, r, n) == /\ RowInv(q, n)
                    /\ r.status = "SUCCEEDED" =>
                           q.status = "SUCCEEDED" /\ q.result = r.result
                    /\ r.expiry = "past" /\ q.lease = r.lease =>
                           q.expiry = "past"

RowsFollow == \A t \in Tasks : Follows(row'[t], row[t], issued'[t])

----------------------------------------------------------------------------
(* The statements keep a row in order.                                     *)

LEMMA RowFollows ==
    ASSUME NEW r \in Rows, NEW n \in Nat, RowInv(r, n)
    PROVE  /\ Follows(r, r, n)
           /\ r.status = "ABSENT" => Follows(NewRow, r, n)
           /\ Claimable(r) => Follows(Leased(r, n + 1), r, n + 1)
           /\ \A l \in Nat : CanStart(r, l) => Follows(Started(r), r, n)
           /\ \A l \in Nat : CanBeat(r, l) => Follows(Extended(r), r, n)
           /\ \A l \in Nat : l > 0 /\ CanSettle(r, l) => Follows(Succeeded(r, l), r, n)
           /\ r.status # "SUCCEEDED" =>
                /\ \A q \in Reasons : Follows(Failed(r, q), r, n)
                /\ Follows(Requeued(r), r, n)
                /\ Follows(Cancelled(r), r, n)
           /\ LeaseLapsed(r) => Follows(Recovered(r), r, n)
           /\ r.expiry = "live" => Follows([r EXCEPT !.expiry = "past"], r, n)
<1> USE DEF Follows, RowInv, Rows, InFlight
<1>1. Follows(r, r, n)
  OBVIOUS
<1>2. r.status = "ABSENT" => Follows(NewRow, r, n)
  BY DEF NewRow, NoRow
<1>3. Claimable(r) => Follows(Leased(r, n + 1), r, n + 1)
  BY DEF Claimable, Leased
<1>4. ASSUME NEW l \in Nat, CanStart(r, l) PROVE Follows(Started(r), r, n)
  BY <1>4 DEF CanStart, HoldsLease, Started
<1>5. ASSUME NEW l \in Nat, CanBeat(r, l) PROVE Follows(Extended(r), r, n)
  BY <1>5 DEF CanBeat, HoldsLease, Extended
<1>6. ASSUME NEW l \in Nat, l > 0, CanSettle(r, l)
      PROVE  Follows(Succeeded(r, l), r, n)
  BY <1>6 DEF CanSettle, HoldsLease, Succeeded
<1>7. ASSUME r.status # "SUCCEEDED", NEW q \in Reasons
      PROVE  Follows(Failed(r, q), r, n)
  BY <1>7 DEF Failed
<1>8. ASSUME r.status # "SUCCEEDED" PROVE Follows(Requeued(r), r, n)
  BY <1>8 DEF Requeued
<1>9. ASSUME r.status # "SUCCEEDED" PROVE Follows(Cancelled(r), r, n)
  BY <1>9 DEF Cancelled
<1>10. ASSUME LeaseLapsed(r) PROVE Follows(Recovered(r), r, n)
  BY <1>10 DEF LeaseLapsed, Recovered, Requeued
<1>11. r.expiry = "live" => Follows([r EXCEPT !.expiry = "past"], r, n)
  OBVIOUS
<1> HIDE DEF Follows, RowInv, Rows, InFlight
<1> QED
  BY <1>1, <1>2, <1>3, <1>4, <1>5, <1>6, <1>7, <1>8, <1>9, <1>10, <1>11

LEMMA FailedOrRequeuedFollows ==
    ASSUME NEW r \in Rows, NEW n \in Nat, RowInv(r, n), r.status # "SUCCEEDED",
           NEW q \in Reasons, NEW retry \in BOOLEAN
    PROVE  Follows(FailedOrRequeued(r, q, retry), r, n)
<1>1. Failed(r, q) \in Rows /\ Failed(r, q).status = "FAILED"
  BY RowWrites DEF Failed, Rows
<1>2. Follows(Failed(r, q), r, n) /\ RowInv(Failed(r, q), n)
  BY RowFollows DEF Follows
<1>3. Follows(Requeued(Failed(r, q)), Failed(r, q), n)
  BY <1>1, <1>2, RowFollows
<1>4. Failed(r, q).expiry = r.expiry /\ Failed(r, q).lease = r.lease
  BY DEF Failed, Rows
<1>5. Follows(Requeued(Failed(r, q)), r, n)
  BY <1>3, <1>4 DEF Follows
<1> QED
  BY <1>2, <1>5 DEF FailedOrRequeued

----------------------------------------------------------------------------
(* What the actions have in common.                                        *)

LEMMA RowStep ==
    ASSUME Inv, NEW t \in Tasks, NEW q, SetRow(t, q), issued' = issued,
           Follows(q, row[t], issued[t])
    PROVE  /\ RowsFollow
           /\ told' = told => ToldSuccessStands'
<1>1. row' = [row EXCEPT ![t] = q] /\ row \in [Tasks -> Rows]
  BY TypeByVariable DEF SetRow, Inv
<1>2. ASSUME NEW u \in Tasks PROVE Follows(row'[u], row[u], issued[u])
  <2>1. CASE u = t
    BY <1>1, <2>1
  <2>2. CASE u # t
    BY <1>1, <2>2 DEF Inv, RowsInv, Follows
  <2> QED
    BY <2>1, <2>2
<1>3. RowsFollow
  BY <1>2 DEF RowsFollow
<1>4. ASSUME told' = told PROVE ToldSuccessStands'
  BY <1>2, <1>4 DEF Inv, ToldSuccessStands, Follows
<1> QED
  BY <1>3, <1>4

LEMMA RowKept ==
    ASSUME Inv, UNCHANGED <<row, issued, told>>
    PROVE  RowsFollow /\ ToldSuccessStands'
BY DEF Inv, RowsInv, RowsFollow, Follows, ToldSuccessStands

LEMMA SlotKept ==
    ASSUME Inv, UNCHANGED <<worker, issued>>
    PROVE  SlotsInv'
BY DEF Inv, SlotsInv, SlotInv

\* A slot goes on with its task, or is free.
GoesOn(q, s) == /\ q.beating => q.pc # "idle"
                /\ q.pc # "idle" => /\ s.pc # "idle"
                                    /\ q.task = s.task
                                    /\ q.lease = s.lease
                                    /\ q.attempt = s.attempt

LEMMA SlotGoesOn ==
    ASSUME Inv, NEW w \in Workers, NEW q, Become(w, q), issued' = issued,
           GoesOn(q, worker[w])
    PROVE  SlotsInv'
<1>1. worker' = [worker EXCEPT ![w] = q] /\ worker \in [Workers -> Slots]
  BY TypeByVariable DEF Become, Inv
<1>2. \A v \in Workers : GoesOn(worker'[v], worker[v])
  BY <1>1 DEF GoesOn, Inv, SlotsInv, SlotInv
<1>3. \A v \in Workers : SlotInv(worker[v])
  BY DEF Inv, SlotsInv
<1>4. ASSUME NEW v \in Workers PROVE SlotInv(worker[v])'
  BY <1>2, <1>3 DEF GoesOn, SlotInv
<1>5. ASSUME NEW u \in Workers, NEW v \in Workers,
             SameLease(worker[u], worker[v])'
      PROVE  u = v
  <2>1. SameLease(worker[u], worker[v])
    BY <1>2, <1>5 DEF GoesOn, SameLease
  <2> QED
    BY <2>1 DEF Inv, SlotsInv
<1> QED
  BY <1>4, <1>5 DEF SlotsInv

LEMMA SlotReturns ==
    ASSUME Inv, NEW w \in Workers, Return(w), issued' = issued
    PROVE  SlotsInv'
<1>1. GoesOn([Idle EXCEPT !.stopping = worker[w].stopping], worker[w])
  BY DEF GoesOn, Idle
<1> QED
  BY <1>1, SlotGoesOn DEF Return

LEMMA SlotGoesTo ==
    ASSUME Inv, NEW w \in Workers, NEW pc \in PCs, pc # "idle",
           GoTo(w, pc), ~At(w, "idle"), issued' = issued
    PROVE  SlotsInv'
<1>1. worker[w] \in WorkerStates
  BY DEF Inv, TypeOK
<1>2. GoesOn([worker[w] EXCEPT !.pc = pc], worker[w])
  BY <1>1 DEF GoesOn, At, WorkerStates
<1> QED
  BY <1>2, SlotGoesOn DEF GoTo

\* A slot that works, its task and that task's row are in order.
LEMMA WorkingSlot ==
    ASSUME Inv, NEW w \in Workers, ~At(w, "idle")
    PROVE  LET s == worker[w]  IN
           /\ s \in WorkerStates /\ s.task \in Tasks /\ s.lease \in Nat
           /\ s.lease > 0 /\ s.lease = s.attempt
           /\ row[s.task] \in Rows /\ issued[s.task] \in Nat
           /\ RowInv(row[s.task], issued[s.task])
BY DEF Inv, TypeOK, SlotsInv, SlotInv, RowsInv, At, WorkerStates

----------------------------------------------------------------------------
(* One lemma per action: it preserves the rest of Inv.                     *)

Kept == RowsFollow /\ SlotsInv' /\ ToldSuccessStands'

LEMMA InvEnqueue ==
    ASSUME Inv, NEW t \in Tasks, Enqueue(t)
    PROVE  Kept
<1>1. row[t] \in Rows /\ issued[t] \in Nat /\ RowInv(row[t], issued[t])
  BY DEF Inv, TypeOK, RowsInv
<1> QED
  BY <1>1, RowFollows, RowStep, SlotKept DEF Enqueue, Kept

LEMMA InvClaimRow ==
    ASSUME Inv, NEW t \in Tasks, ClaimRow(t), told' = told
    PROVE  RowsFollow /\ ToldSuccessStands'
<1>1. /\ row \in [Tasks -> Rows] /\ issued \in [Tasks -> Nat]
      /\ RowInv(row[t], issued[t])
  BY DEF Inv, TypeOK, RowsInv
<1>2. /\ row' = [row EXCEPT ![t] = Leased(row[t], issued[t] + 1)]
      /\ issued' = [issued EXCEPT ![t] = issued[t] + 1]
  BY DEF ClaimRow, SetRow, NewLease
<1>3. Follows(row'[t], row[t], issued'[t])
  <2>1. row'[t] = Leased(row[t], issued[t] + 1) /\ issued'[t] = issued[t] + 1
    BY <1>1, <1>2
  <2>2. Follows(Leased(row[t], issued[t] + 1), row[t], issued[t] + 1)
    BY <1>1, RowFollows DEF ClaimRow
  <2> QED
    BY <2>1, <2>2
<1>4. \A u \in Tasks \ {t} : row'[u] = row[u] /\ issued'[u] = issued[u]
  BY <1>1, <1>2
<1>5. RowsFollow
  BY <1>3, <1>4 DEF Inv, RowsInv, RowsFollow, Follows
<1>6. ToldSuccessStands'
  BY <1>3, <1>4 DEF Inv, ToldSuccessStands, Follows
<1> QED
  BY <1>5, <1>6

\* Drawing a lease leaves the slots in order.
LEMMA SlotsAfterClaim ==
    ASSUME Inv, NEW t \in Tasks, issued' = [issued EXCEPT ![t] = @ + 1],
           NEW w \in Workers, SlotInv(worker[w])
    PROVE  SlotInv(worker[w])' \/ worker'[w] # worker[w]
<1>1. issued \in [Tasks -> Nat] /\ worker[w] \in Slots
  BY TypeByVariable DEF Inv
<1>2. worker[w].pc # "idle" =>
        /\ worker[w].lease \in Nat
        /\ issued[worker[w].task] \in Nat
        /\ issued'[worker[w].task] \in Nat
        /\ issued[worker[w].task] <= issued'[worker[w].task]
  BY <1>1 DEF Slots, WorkerStates
<1> QED
  BY <1>2 DEF SlotInv

LEMMA InvClaim ==
    ASSUME Inv, NEW w \in Workers, NEW t \in Tasks, Claim(w, t)
    PROVE  Kept
<1> DEFINE n == issued[t] + 1
           s == [Idle EXCEPT !.pc = "claimed", !.task = t, !.lease = n,
                             !.attempt = row[t].attempt + 1]
<1>1. /\ worker \in [Workers -> Slots] /\ issued \in [Tasks -> Nat]
      /\ row[t].attempt = issued[t]
  BY TypeByVariable DEF Inv, RowsInv, RowInv
<1>2. /\ worker' = [worker EXCEPT ![w] = s]
      /\ issued' = [issued EXCEPT ![t] = n]
  BY DEF Claim, Become, ClaimRow, NewLease
<1>3. /\ s.pc = "claimed" /\ s.task = t /\ s.lease = n /\ s.attempt = n
      /\ s.beating = FALSE
  BY <1>1 DEF Idle
<1>4. \A v \in Workers \ {w} : worker'[v] = worker[v]
  BY <1>1, <1>2
<1>5. worker'[w] = s /\ issued'[t] = n /\ n \in Nat /\ n > 0
  BY <1>1, <1>2
<1> HIDE DEF s, n
<1>6. ASSUME NEW v \in Workers PROVE SlotInv(worker[v])'
  <2>1. CASE v = w
    BY <1>3, <1>5, <2>1 DEF SlotInv
  <2>2. CASE v # w
    <3>1. SlotInv(worker[v])
      BY DEF Inv, SlotsInv
    <3> QED
      BY <2>2, <3>1, <1>4, SlotsAfterClaim DEF Claim, ClaimRow
  <2> QED
    BY <2>1, <2>2
<1>7. ASSUME NEW v \in Workers \ {w}
      PROVE  ~SameLease(worker[v], worker[w])' /\ ~SameLease(worker[w], worker[v])'
  <2>1. worker[v].pc # "idle" /\ worker[v].task = t =>
            worker[v].lease <= issued[t]
    BY DEF Inv, SlotsInv, SlotInv
  <2>2. worker[v].pc # "idle" /\ worker[v].task = t => worker[v].lease # n
    BY <1>1, <2>1 DEF n, Slots, WorkerStates
  <2> QED
    BY <1>3, <1>4, <1>5, <2>2 DEF SameLease
<1>8. ASSUME NEW u \in Workers, NEW v \in Workers,
             SameLease(worker[u], worker[v])'
      PROVE  u = v
  <2>1. CASE u # w /\ v # w
    <3>1. SameLease(worker[u], worker[v])
      BY <1>4, <1>8, <2>1 DEF SameLease
    <3> QED
      BY <3>1 DEF Inv, SlotsInv
  <2>2. CASE u = w \/ v = w
    BY <1>7, <1>8, <2>2
  <2> QED
    BY <2>1, <2>2
<1> QED
  BY <1>6, <1>8, InvClaimRow DEF SlotsInv, Kept, Claim

LEMMA InvClaimReplyLost ==
    ASSUME Inv, NEW t \in Tasks, ClaimReplyLost(t)
    PROVE  Kept
<1>1. worker' = worker /\ issued' = [issued EXCEPT ![t] = @ + 1]
  BY DEF ClaimReplyLost, ClaimRow, NewLease
<1>2. \A w \in Workers : SlotInv(worker[w])'
  BY <1>1, SlotsAfterClaim DEF Inv, SlotsInv
<1>3. SlotsInv'
  BY <1>1, <1>2 DEF Inv, SlotsInv, SameLease
<1> QED
  BY <1>3, InvClaimRow DEF ClaimReplyLost, Kept

LEMMA InvStart ==
    ASSUME Inv, NEW w \in Workers, Start(w) \/ StartReplyLost(w)
    PROVE  Kept
<1> DEFINE s == worker[w]
<1>1. ~At(w, "idle") /\ issued' = issued /\ told' = told
  BY DEF Start, StartReplyLost, At
<1>2. GoesOn([s EXCEPT !.pc = "executing", !.beating = TRUE], s)
  BY <1>1, WorkingSlot DEF GoesOn, At, WorkerStates
<1>3. SlotsInv'
  BY <1>1, <1>2, SlotGoesOn, SlotReturns DEF Start, StartReplyLost
<1>4. RowsFollow /\ ToldSuccessStands'
  <2>1. CASE CanStart(row[s.task], s.lease) /\ SetRow(s.task, Started(row[s.task]))
    BY <1>1, <2>1, WorkingSlot, RowFollows, RowStep
  <2>2. CASE UNCHANGED row
    BY <1>1, <2>2, RowKept
  <2> QED
    BY <2>1, <2>2 DEF Start, StartReplyLost
<1> QED
  BY <1>3, <1>4 DEF Kept

LEMMA InvFinish ==
    ASSUME Inv, NEW w \in Workers, Finish(w)
    PROVE  Kept
<1>1. ~At(w, "idle")
  BY DEF Finish, At
<1>2. SlotsInv'
  BY <1>1, SlotGoesTo DEF Finish, PCs
<1> QED
  BY <1>2, RowKept DEF Finish, Kept

LEMMA InvSucceed ==
    ASSUME Inv, NEW w \in Workers, Succeed(w)
    PROVE  Kept
<1> DEFINE s == worker[w]
           r == row[s.task]
<1>1. ~At(w, "idle") /\ issued' = issued
  BY DEF Succeed, At
<1>2. SlotsInv'
  BY <1>1, SlotReturns, SlotGoesTo DEF Succeed, PCs
<1>3. CASE r.status # "SUCCEEDED" /\ CanSettle(r, s.lease)
  <2>1. /\ SetRow(s.task, Succeeded(r, s.lease)) /\ s.task \in Tasks
        /\ told' = [told EXCEPT ![s.task] = @ \cup {s.lease}]
    BY <1>1, <1>3, WorkingSlot DEF Succeed
  <2>2. Follows(Succeeded(r, s.lease), r, issued[s.task])
    BY <1>1, <1>3, WorkingSlot, RowFollows
  <2>3. RowsFollow
    BY <1>1, <2>1, <2>2, RowStep
  <2>4. told \in [Tasks -> SUBSET Nat] /\ row \in [Tasks -> Rows]
    BY TypeByVariable DEF Inv
  <2>5. row'[s.task].status = "SUCCEEDED" /\ row'[s.task].result = s.lease
    BY <2>1, <2>4 DEF SetRow, Succeeded, Rows
  <2>6. told[s.task] = {}
    BY <1>3, <2>1 DEF Inv, ToldSuccessStands
  <2>7. \A t \in Tasks \ {s.task} : row'[t] = row[t] /\ told'[t] = told[t]
    BY <2>1, <2>4 DEF SetRow
  <2>8. told'[s.task] = {s.lease}
    BY <2>1, <2>4, <2>6
  <2>9. ToldSuccessStands'
    BY <2>5, <2>7, <2>8 DEF Inv, ToldSuccessStands
  <2> QED
    BY <1>2, <2>3, <2>9 DEF Kept
<1>4. CASE ~(r.status # "SUCCEEDED" /\ CanSettle(r, s.lease))
  <2>1. UNCHANGED <<row, told>>
    BY <1>4 DEF Succeed
  <2> QED
    BY <1>1, <1>2, <2>1, RowKept DEF Kept
<1> QED
  BY <1>3, <1>4

LEMMA InvSucceedReplyLost ==
    ASSUME Inv, NEW w \in Workers, SucceedReplyLost(w)
    PROVE  Kept
<1> DEFINE s == worker[w]
           r == row[s.task]
<1>1. ~At(w, "idle") /\ issued' = issued /\ told' = told
  BY DEF SucceedReplyLost, At
<1>2. SlotsInv'
  BY <1>1, SlotGoesTo DEF SucceedReplyLost, PCs
<1>3. CASE CanSettle(r, s.lease) /\ SetRow(s.task, Succeeded(r, s.attempt))
  <2>1. s.attempt = s.lease
    BY <1>1, WorkingSlot
  <2>2. Follows(Succeeded(r, s.attempt), r, issued[s.task])
    BY <1>1, <1>3, <2>1, WorkingSlot, RowFollows
  <2> QED
    BY <1>1, <1>2, <1>3, <2>2, WorkingSlot, RowStep DEF Kept
<1>4. CASE UNCHANGED row
  BY <1>1, <1>2, <1>4, RowKept DEF Kept
<1> QED
  BY <1>3, <1>4 DEF SucceedReplyLost

LEMMA InvFailWith ==
    ASSUME Inv, NEW w \in Workers, ~At(w, "idle"),
           NEW q \in Reasons, NEW retry \in BOOLEAN, FailWith(w, q, retry)
    PROVE  RowsFollow /\ ToldSuccessStands'
<1> DEFINE s == worker[w]
           r == row[s.task]
<1>1. /\ r \in Rows /\ issued[s.task] \in Nat /\ s.task \in Tasks
      /\ RowInv(r, issued[s.task])
  BY WorkingSlot
<1>2. CASE r.status # "SUCCEEDED" /\ CanSettle(r, s.lease)
  BY <1>1, <1>2, FailedOrRequeuedFollows, RowStep DEF FailWith
<1>3. CASE ~(r.status # "SUCCEEDED" /\ CanSettle(r, s.lease))
  BY <1>1, <1>3, RowFollows, RowStep DEF FailWith
<1> QED
  BY <1>2, <1>3

LEMMA InvFail ==
    ASSUME Inv, NEW w \in Workers, Fail(w) \/ Defer(w)
    PROVE  Kept
<1>1. ~At(w, "idle") /\ "error" \in Reasons /\ "waiting" \in Reasons
  BY DEF Fail, Defer, At, Reasons
<1>2. FailWith(w, "error", TRUE) \/ FailWith(w, "waiting", FALSE)
  BY DEF Fail, Defer
<1>3. RowsFollow /\ ToldSuccessStands' /\ issued' = issued
  BY <1>1, <1>2, InvFailWith DEF FailWith
<1>4. SlotsInv'
  BY <1>1, <1>3, SlotReturns, SlotGoesTo DEF Fail, Defer, PCs
<1> QED
  BY <1>3, <1>4 DEF Kept

LEMMA InvFailLost ==
    ASSUME Inv, NEW w \in Workers, FailLost(w)
    PROVE  Kept
BY SlotReturns, RowKept DEF FailLost, Kept

LEMMA InvHeartbeat ==
    ASSUME Inv, NEW w \in Workers, Heartbeat(w)
    PROVE  Kept
<1> DEFINE s == worker[w]
           b == StateRefuses(row[s.task], s.lease)
<1>1. ~At(w, "idle") /\ issued' = issued /\ told' = told
  BY DEF Heartbeat, Inv, SlotsInv, SlotInv, At
<1>2. CASE CanBeat(row[s.task], s.lease)
  <2>1. Follows(Extended(row[s.task]), row[s.task], issued[s.task])
    BY <1>1, <1>2, WorkingSlot, RowFollows
  <2> QED
    BY <1>1, <1>2, <2>1, WorkingSlot, RowStep, SlotKept DEF Heartbeat, Kept
<1>3. CASE ~CanBeat(row[s.task], s.lease)
  <2>1. GoesOn([s EXCEPT !.beating = b], s)
    BY <1>1, WorkingSlot DEF GoesOn, At, WorkerStates
  <2>2. Become(w, [s EXCEPT !.beating = b]) /\ row' = row
    BY <1>3 DEF Heartbeat
  <2> QED
    BY <1>1, <2>1, <2>2, SlotGoesOn, RowKept DEF Kept
<1> QED
  BY <1>2, <1>3

LEMMA InvShutdown ==
    ASSUME Inv, NEW w \in Workers, Shutdown(w)
    PROVE  Kept
<1> DEFINE s == worker[w]
           r == row[s.task]
<1>1. ~At(w, "idle") /\ issued' = issued /\ told' = told
  BY DEF Shutdown, At
<1>2. /\ GoesOn([Idle EXCEPT !.stopping = TRUE], s)
      /\ GoesOn([s EXCEPT !.stopping = TRUE], s)
  BY <1>1, WorkingSlot DEF GoesOn, Idle, At, WorkerStates
<1>3. SlotsInv'
  BY <1>1, <1>2, SlotGoesOn DEF Shutdown
<1>4. CASE CanRelease(r, s.lease)
  <2>1. r.status # "SUCCEEDED"
    BY <1>4 DEF CanRelease, InFlight
  <2>2. Follows(Requeued(r), r, issued[s.task])
    BY <1>1, <2>1, WorkingSlot, RowFollows
  <2> QED
    BY <1>1, <1>3, <1>4, <2>2, WorkingSlot, RowStep DEF Shutdown, Kept
<1>5. CASE ~CanRelease(r, s.lease)
  <2>1. Follows(r, r, issued[s.task])
    BY <1>1, WorkingSlot, RowFollows
  <2> QED
    BY <1>1, <1>3, <1>5, <2>1, WorkingSlot, RowStep DEF Shutdown, Kept
<1> QED
  BY <1>4, <1>5

LEMMA InvFree ==
    ASSUME Inv, NEW w \in Workers, Restart(w) \/ Crash(w)
    PROVE  Kept
<1>1. GoesOn(Idle, worker[w])
  BY DEF GoesOn, Idle
<1>2. SlotsInv'
  BY <1>1, SlotReturns, SlotGoesOn DEF Restart, Crash
<1> QED
  BY <1>2, RowKept DEF Restart, Crash, Kept

\* The clock, an operator's requeue and an operator's cancel write one row.
LEMMA InvRowOnly ==
    ASSUME Inv, NEW t \in Tasks,
           Lapse(t) \/ LapseUnderOwner(t) \/ Requeue(t) \/ Cancel(t)
    PROVE  Kept
<1>1. row[t] \in Rows /\ issued[t] \in Nat /\ RowInv(row[t], issued[t])
  BY DEF Inv, TypeOK, RowsInv
<1>2. UNCHANGED <<issued, worker, told>>
  BY DEF Lapse, LapseUnderOwner, PassExpiry, Requeue, Cancel
<1>3. \E q : SetRow(t, q) /\ Follows(q, row[t], issued[t])
  <2>1. CASE PassExpiry(t)
    BY <1>1, <2>1, RowFollows DEF PassExpiry
  <2>2. CASE Requeue(t)
    BY <1>1, <2>2, RowFollows DEF Requeue
  <2>3. CASE Cancel(t)
    BY <1>1, <2>3, RowFollows DEF Cancel, Cancellable
  <2> QED
    BY <2>1, <2>2, <2>3 DEF Lapse, LapseUnderOwner
<1> QED
  BY <1>2, <1>3, RowStep, SlotKept DEF Kept

LEMMA InvRecoverExpired ==
    ASSUME Inv, RecoverExpired
    PROVE  Kept
<1>1. ASSUME NEW t \in Tasks PROVE Follows(row'[t], row[t], issued[t])
  <2>1. row[t] \in Rows /\ issued[t] \in Nat /\ RowInv(row[t], issued[t])
    BY DEF Inv, TypeOK, RowsInv
  <2> QED
    BY <2>1, RowFollows DEF RecoverExpired
<1>2. RowsFollow /\ ToldSuccessStands'
  BY <1>1 DEF RecoverExpired, RowsFollow, Follows, Inv, ToldSuccessStands
<1> QED
  BY <1>2, SlotKept DEF RecoverExpired, Kept

----------------------------------------------------------------------------
(* The invariant and what follows from it.                                 *)

LEMMA InvInit == Init => Inv
<1> SUFFICES ASSUME Init PROVE Inv
  OBVIOUS
<1>1. TypeOK
  BY TypeInit
<1>2. RowsInv
  BY DEF Init, RowsInv, RowInv, NoRow, InFlight
<1>3. SlotsInv
  BY DEF Init, SlotsInv, SlotInv, SameLease, Idle
<1>4. ToldSuccessStands
  BY DEF Init, ToldSuccessStands
<1> QED
  BY <1>1, <1>2, <1>3, <1>4 DEF Inv

LEMMA KeptStep == Inv /\ [Next]_vars => Kept
<1> SUFFICES ASSUME Inv, [Next]_vars PROVE Kept
  OBVIOUS
<1>1. ASSUME NEW w \in Workers, WorkerStep(w) PROVE Kept
  BY <1>1, InvStart, InvFinish, InvSucceed, InvFail, InvFree, InvClaim
     DEF WorkerStep
<1>2. ASSUME NEW w \in Workers, WorkerMishap(w) PROVE Kept
  BY <1>2, InvStart, InvSucceedReplyLost, InvFailLost, InvShutdown, InvFree
     DEF WorkerMishap
<1>3. ASSUME NEW w \in Workers, Heartbeat(w) PROVE Kept
  BY <1>3, InvHeartbeat
<1>4. ASSUME NEW t \in Tasks,
             \/ Enqueue(t) \/ ClaimReplyLost(t) \/ Lapse(t)
             \/ LapseUnderOwner(t) \/ Requeue(t) \/ Cancel(t)
      PROVE  Kept
  BY <1>4, InvEnqueue, InvClaimReplyLost, InvRowOnly
<1>5. CASE RecoverExpired
  BY <1>5, InvRecoverExpired
<1>6. CASE UNCHANGED vars
  BY <1>6, RowKept, SlotKept DEF vars, Kept
<1> QED
  BY <1>1, <1>2, <1>3, <1>4, <1>5, <1>6 DEF Next

LEMMA InvStep == Inv /\ [Next]_vars => Inv'
<1> SUFFICES ASSUME Inv, [Next]_vars PROVE Inv'
  OBVIOUS
<1>1. TypeOK' /\ Kept
  BY TypeStep, KeptStep DEF Inv
<1>2. RowsInv'
  BY <1>1 DEF Kept, RowsFollow, Follows, RowsInv
<1> QED
  BY <1>1, <1>2 DEF Inv, Kept

LEMMA InvCorrect == Spec => []Inv
<1> QED
  BY InvInit, InvStep, PTL DEF Spec

\* The result of a completed task is its newest attempt's, whatever was
\* claimed, lost, recovered or released on the way (store.succeed).
THEOREM ResultCorrect == Spec => []ResultOfNewestAttempt
<1>1. Inv => ResultOfNewestAttempt
  BY DEF Inv, TypeOK, RowsInv, RowInv, ResultOfNewestAttempt
<1> QED
  BY <1>1, InvCorrect, PTL

\* A task in flight always carries the lease and the expiry by which it can
\* be recovered, and a queued one carries no lease (claim, release, requeue).
THEOREM RecoverableCorrect == Spec => []RecoverableInFlight
<1>1. Inv => RecoverableInFlight
  BY DEF Inv, RowsInv, RowInv, RecoverableInFlight
<1> QED
  BY <1>1, InvCorrect, PTL

\* At most one slot can still write a given task (the lease guards).
THEOREM OneWriterCorrect == Spec => []OneWriter
<1>1. Inv => OneWriter
  BY DEF Inv, SlotsInv, SameLease, OneWriter, Authorised, Owns
<1> QED
  BY <1>1, InvCorrect, PTL

\* A success that a worker was told of is never taken back.
THEOREM ToldSuccessCorrect == Spec => []ToldSuccessStands
<1>1. Inv => ToldSuccessStands
  BY DEF Inv
<1> QED
  BY <1>1, InvCorrect, PTL

\* A lease that has expired stays expired: no late heartbeat, and no step at
\* all, makes it valid again (heartbeat's guard, 26A-11).
THEOREM ExpiryIsFinalCorrect == Spec => ExpiryIsFinal
<1>1. Inv /\ [Next]_vars =>
        [\A t \in Tasks :
            row[t].expiry = "past" /\ row'[t].lease = row[t].lease
            => row'[t].expiry = "past"]_vars
  BY KeptStep DEF Kept, RowsFollow, Follows
<1> QED
  BY <1>1, InvCorrect, PTL DEF Spec, ExpiryIsFinal

----------------------------------------------------------------------------
(* A live lease is honoured.                                               *)

LiveInFlight(r) == r.status \in InFlight /\ r.expiry = "live"

\* A step that takes a live lease off task t is its owner's.
HonouredFor(t) ==
    LiveInFlight(row[t]) /\ row'[t].lease # row[t].lease
        => \E w \in Workers : Owns(w, t) /\ worker'[w] # worker[w]

Honoured == \A t \in Tasks : HonouredFor(t)

\* The statements that keep the lease, and those that ask for it to be over.
LEMMA LeaseKept ==
    ASSUME NEW r \in Rows
    PROVE  /\ Started(r).lease = r.lease
           /\ Extended(r).lease = r.lease
           /\ \A a : Succeeded(r, a).lease = r.lease
           /\ Cancelled(r).lease = r.lease
           /\ [r EXCEPT !.expiry = "past"].lease = r.lease
           /\ LiveInFlight(r) => /\ ~Claimable(r) /\ ~LeaseLapsed(r)
                                 /\ r.status # "FAILED" /\ r.status # "ABSENT"
BY DEF Started, Extended, Succeeded, Cancelled, LiveInFlight, Claimable,
       LeaseLapsed, InFlight, Rows

\* A step that writes one row honours the lease of every other.
LEMMA OneRowHonoured ==
    ASSUME TypeOK, NEW t \in Tasks, NEW q, SetRow(t, q),
           q.lease = row[t].lease \/ HonouredFor(t)
    PROVE  Honoured
BY DEF TypeOK, SetRow, Honoured, HonouredFor

LEMMA NoRowHonoured ==
    ASSUME UNCHANGED row
    PROVE  Honoured
BY DEF Honoured, HonouredFor

LEMMA HonouredByTable ==
    ASSUME TypeOK, NEW t \in Tasks,
           \/ Enqueue(t) \/ ClaimRow(t) \/ Lapse(t)
           \/ LapseUnderOwner(t) \/ Requeue(t) \/ Cancel(t)
    PROVE  Honoured
<1>1. row[t] \in Rows
  BY DEF TypeOK
<1>2. CASE Enqueue(t)
  <2>1. LiveInFlight(row[t]) => SetRow(t, row[t])
    BY <1>1, <1>2, LeaseKept DEF Enqueue
  <2>2. HonouredFor(t)
    BY <2>1 DEF HonouredFor, SetRow, TypeOK
  <2> QED
    BY <1>2, <2>2, OneRowHonoured DEF Enqueue
<1>3. CASE ClaimRow(t)
  BY <1>1, <1>3, LeaseKept, OneRowHonoured DEF ClaimRow, HonouredFor
<1>4. CASE Lapse(t) \/ LapseUnderOwner(t)
  BY <1>1, <1>4, LeaseKept, OneRowHonoured DEF Lapse, LapseUnderOwner, PassExpiry
<1>5. CASE Requeue(t)
  BY <1>1, <1>5, LeaseKept, OneRowHonoured DEF Requeue, HonouredFor
<1>6. CASE Cancel(t)
  BY <1>1, <1>6, LeaseKept, OneRowHonoured DEF Cancel
<1> QED
  BY <1>2, <1>3, <1>4, <1>5, <1>6

\* A slot that presents the row's lease and moves on is the owner that moves.
LEMMA HonouredByOwner ==
    ASSUME TypeOK, NEW w \in Workers, ~At(w, "idle"), worker'[w] # worker[w],
           NEW q, SetRow(worker[w].task, q),
           \/ HoldsLease(row[worker[w].task], worker[w].lease)
           \/ q.lease = row[worker[w].task].lease
    PROVE  Honoured
<1>1. worker[w].task \in Tasks
  BY DEF TypeOK, At
<1>2. q.lease = row[worker[w].task].lease \/ HonouredFor(worker[w].task)
  BY <1>1 DEF HonouredFor, HoldsLease, Owns, At
<1> QED
  BY <1>1, <1>2, OneRowHonoured

LEMMA SlotMoves ==
    ASSUME TypeOK, NEW w \in Workers, ~At(w, "idle")
    PROVE  /\ Return(w) => worker'[w] # worker[w]
           /\ \A pc \in PCs : GoTo(w, pc) /\ ~At(w, pc) => worker'[w] # worker[w]
BY DEF TypeOK, Return, GoTo, Become, At, Idle, WorkerStates

LEMMA HonouredByFail ==
    ASSUME TypeOK, NEW w \in Workers, Fail(w) \/ Defer(w)
    PROVE  Honoured
<1> DEFINE r == row[worker[w].task]
           l == worker[w].lease
<1>1. ~At(w, "idle") /\ worker'[w] # worker[w]
  BY SlotMoves DEF Fail, Defer, At, PCs
<1>2. \E q : /\ SetRow(worker[w].task, q)
             /\ CanSettle(r, l) \/ q = r
  BY DEF Fail, Defer, FailWith
<1> QED
  BY <1>1, <1>2, HonouredByOwner DEF CanSettle

LEMMA HonouredByShutdown ==
    ASSUME TypeOK, NEW w \in Workers, Shutdown(w)
    PROVE  Honoured
<1> DEFINE r == row[worker[w].task]
           l == worker[w].lease
<1>1. ~At(w, "idle")
  BY DEF Shutdown, At
<1>2. worker'[w] # worker[w]
  BY DEF Shutdown, Become, TypeOK, Idle, WorkerStates
<1>3. \E q : /\ SetRow(worker[w].task, q)
             /\ CanRelease(r, l) \/ q = r
  BY DEF Shutdown
<1> QED
  BY <1>1, <1>2, <1>3, HonouredByOwner DEF CanRelease

LEMMA HonouredBySlot ==
    ASSUME TypeOK, NEW w \in Workers,
           \/ Start(w) \/ StartReplyLost(w) \/ Succeed(w)
           \/ SucceedReplyLost(w) \/ Heartbeat(w)
    PROVE  Honoured
<1> DEFINE t == worker[w].task
           r == row[t]
<1>1. CASE UNCHANGED row
  BY <1>1, NoRowHonoured
<1>2. CASE /\ t \in Tasks
           /\ \/ SetRow(t, Started(r))
              \/ SetRow(t, Succeeded(r, worker[w].attempt))
              \/ SetRow(t, Extended(r))
  <2>1. r \in Rows
    BY <1>2 DEF TypeOK
  <2> QED
    BY <1>2, <2>1, LeaseKept, OneRowHonoured
<1>3. CASE t \notin Tasks
  BY <1>3, NoRowHonoured
     DEF Start, StartReplyLost, Succeed, SucceedReplyLost, Heartbeat, SetRow,
         TypeOK
<1> QED
  BY <1>1, <1>2, <1>3
     DEF Start, StartReplyLost, Succeed, SucceedReplyLost, Heartbeat

LEMMA HonouredByRecovery ==
    ASSUME TypeOK, RecoverExpired
    PROVE  Honoured
BY LeaseKept DEF RecoverExpired, TypeOK, Honoured, HonouredFor

LEMMA HonouredStep == TypeOK /\ [Next]_vars => Honoured
<1> SUFFICES ASSUME TypeOK, [Next]_vars PROVE Honoured
  OBVIOUS
<1>1. ASSUME NEW w \in Workers, WorkerStep(w) PROVE Honoured
  BY <1>1, HonouredBySlot, HonouredByFail, HonouredByTable, NoRowHonoured
     DEF WorkerStep, Finish, Restart, Claim
<1>2. ASSUME NEW w \in Workers, WorkerMishap(w) PROVE Honoured
  BY <1>2, HonouredBySlot, HonouredByShutdown, NoRowHonoured
     DEF WorkerMishap, FailLost, Crash
<1>3. ASSUME NEW w \in Workers, Heartbeat(w) PROVE Honoured
  BY <1>3, HonouredBySlot
<1>4. ASSUME NEW t \in Tasks,
             \/ Enqueue(t) \/ ClaimReplyLost(t) \/ Lapse(t)
             \/ LapseUnderOwner(t) \/ Requeue(t) \/ Cancel(t)
      PROVE  Honoured
  BY <1>4, HonouredByTable DEF ClaimReplyLost
<1>5. CASE RecoverExpired
  BY <1>5, HonouredByRecovery
<1>6. CASE UNCHANGED vars
  BY <1>6, NoRowHonoured DEF vars
<1> QED
  BY <1>1, <1>2, <1>3, <1>4, <1>5, <1>6 DEF Next

\* Nobody but its owner ends an unexpired lease: neither claim, nor recovery,
\* nor an operator takes a task from a worker that keeps its heartbeat up.
THEOREM LiveLeaseHonouredCorrect == Spec => LiveLeaseHonoured
<1>1. TypeOK /\ [Next]_vars =>
        [\A t \in Tasks :
            /\ row[t].status \in InFlight /\ row[t].expiry = "live"
            /\ row'[t].lease # row[t].lease
            => \E w \in Workers : Owns(w, t) /\ worker'[w] # worker[w]]_vars
  BY HonouredStep DEF Honoured, HonouredFor, LiveInFlight
<1> QED
  BY <1>1, TypeCorrect, PTL DEF Spec, LiveLeaseHonoured

----------------------------------------------------------------------------
(***************************************************************************)
(* The queue implements its contract, for any tasks, workers, attempts and *)
(* mishaps: seen through the refinement mapping of TaskQueue, every step   *)
(* of it hands one task out, accepts one result of the newest attempt,     *)
(* abandons one task, or leaves the contract's variables alone.            *)
(***************************************************************************)

PhaseOf(r) == CASE r.status = "SUCCEEDED" -> "done"
                [] r.status = "CANCELLED" -> "cancelled"
                [] OTHER -> "open"

\* q in the place of r: the contract sees nothing, or one of its steps.
Unseen(q, r) == /\ PhaseOf(q) = PhaseOf(r)
                /\ q.attempt = r.attempt /\ q.result = r.result
HandedOut(q, r) == /\ PhaseOf(r) = "open" /\ PhaseOf(q) = "open"
                   /\ q.attempt = r.attempt + 1 /\ q.result = r.result
Accepted(q, r) == /\ PhaseOf(r) = "open" /\ PhaseOf(q) = "done"
                  /\ r.attempt > 0
                  /\ q.attempt = r.attempt /\ q.result = r.attempt
Abandoned(q, r) == /\ PhaseOf(r) = "open" /\ PhaseOf(q) = "cancelled"
                   /\ q.attempt = r.attempt /\ q.result = r.result

Agrees(q, r) == \/ Unseen(q, r) \/ HandedOut(q, r)
                \/ Accepted(q, r) \/ Abandoned(q, r)

----------------------------------------------------------------------------
(* What each statement looks like to the contract.                         *)

LEMMA StatementsAgree ==
    ASSUME NEW r \in Rows, NEW n \in Nat, RowInv(r, n)
    PROVE  /\ Unseen(r, r)
           /\ r.status = "ABSENT" => Unseen(NewRow, r)
           /\ \A l \in Nat : Claimable(r) => HandedOut(Leased(r, l), r)
           /\ \A l \in Nat : CanStart(r, l) => Unseen(Started(r), r)
           /\ \A l \in Nat : CanBeat(r, l) => Unseen(Extended(r), r)
           /\ \A l \in Nat :
                l > 0 /\ CanSettle(r, l) => Accepted(Succeeded(r, l), r)
           /\ \A l \in Nat, q \in Reasons, retry \in BOOLEAN :
                CanSettle(r, l) => Unseen(FailedOrRequeued(r, q, retry), r)
           /\ \A l \in Nat : CanRelease(r, l) => Unseen(Requeued(r), r)
           /\ r.status = "FAILED" => Unseen(Requeued(r), r)
           /\ LeaseLapsed(r) => Unseen(Recovered(r), r)
           /\ r.status \in Cancellable => Abandoned(Cancelled(r), r)
           /\ Unseen([r EXCEPT !.expiry = "past"], r)
<1> USE DEF Rows, InFlight, PhaseOf, Unseen, HoldsLease
<1>1. Unseen(r, r) /\ Unseen([r EXCEPT !.expiry = "past"], r)
  OBVIOUS
<1>2. r.status = "ABSENT" => Unseen(NewRow, r)
  BY DEF NewRow, NoRow, RowInv
<1>3. ASSUME NEW l \in Nat, Claimable(r) PROVE HandedOut(Leased(r, l), r)
  BY <1>3 DEF Claimable, Leased, HandedOut
<1>4. ASSUME NEW l \in Nat, CanStart(r, l) PROVE Unseen(Started(r), r)
  BY <1>4 DEF CanStart, Started
<1>5. ASSUME NEW l \in Nat, CanBeat(r, l) PROVE Unseen(Extended(r), r)
  BY <1>5 DEF CanBeat, Extended
<1>6. ASSUME NEW l \in Nat, l > 0, CanSettle(r, l)
      PROVE  Accepted(Succeeded(r, l), r)
  BY <1>6 DEF CanSettle, Succeeded, Accepted, RowInv
<1>7. ASSUME NEW l \in Nat, NEW q \in Reasons, NEW retry \in BOOLEAN,
             CanSettle(r, l)
      PROVE  Unseen(FailedOrRequeued(r, q, retry), r)
  BY <1>7 DEF CanSettle, FailedOrRequeued, Failed, Requeued
<1>8. ASSUME NEW l \in Nat, CanRelease(r, l) PROVE Unseen(Requeued(r), r)
  BY <1>8 DEF CanRelease, Requeued
<1>9. r.status = "FAILED" => Unseen(Requeued(r), r)
  BY DEF Requeued
<1>10. LeaseLapsed(r) => Unseen(Recovered(r), r)
  BY DEF LeaseLapsed, Recovered, Requeued
<1>11. r.status \in Cancellable => Abandoned(Cancelled(r), r)
  BY DEF Cancellable, Cancelled, Abandoned
<1> HIDE DEF Rows, InFlight, PhaseOf, Unseen, HoldsLease
<1> QED
  BY <1>1, <1>2, <1>3, <1>4, <1>5, <1>6, <1>7, <1>8, <1>9, <1>10, <1>11

----------------------------------------------------------------------------
(* The queue writes one row a step that the contract can see, if any.      *)

OneRowAgrees == \E t \in Tasks : \E q : SetRow(t, q) /\ Agrees(q, row[t])
NoneSeen == /\ DOMAIN row' = Tasks
            /\ \A t \in Tasks : Unseen(row'[t], row[t])
Implements == OneRowAgrees \/ NoneSeen

LEMMA OrderedRow ==
    ASSUME Inv, NEW t \in Tasks
    PROVE  /\ row[t] \in Rows /\ issued[t] \in Nat
           /\ RowInv(row[t], issued[t]) /\ Unseen(row[t], row[t])
BY StatementsAgree DEF Inv, TypeOK, RowsInv

LEMMA RowUnchanged ==
    ASSUME Inv, UNCHANGED row
    PROVE  Implements
BY OrderedRow DEF Implements, NoneSeen, Inv, TypeOK

LEMMA TableImplements ==
    ASSUME Inv, NEW t \in Tasks,
           \/ Enqueue(t) \/ ClaimRow(t) \/ Lapse(t)
           \/ LapseUnderOwner(t) \/ Requeue(t) \/ Cancel(t)
    PROVE  Implements
<1>1. /\ row[t] \in Rows /\ issued[t] \in Nat /\ NewLease(t) \in Nat
      /\ RowInv(row[t], issued[t]) /\ Unseen(row[t], row[t])
  BY OrderedRow DEF NewLease
<1>2. CASE Enqueue(t)
  BY <1>1, <1>2, StatementsAgree DEF Enqueue, Implements, OneRowAgrees, Agrees
<1>3. CASE ClaimRow(t)
  BY <1>1, <1>3, StatementsAgree DEF ClaimRow, Implements, OneRowAgrees, Agrees
<1>4. CASE Lapse(t) \/ LapseUnderOwner(t)
  BY <1>1, <1>4, StatementsAgree
     DEF Lapse, LapseUnderOwner, PassExpiry, Implements, OneRowAgrees, Agrees
<1>5. CASE Requeue(t)
  BY <1>1, <1>5, StatementsAgree DEF Requeue, Implements, OneRowAgrees, Agrees
<1>6. CASE Cancel(t)
  BY <1>1, <1>6, StatementsAgree DEF Cancel, Implements, OneRowAgrees, Agrees
<1> QED
  BY <1>2, <1>3, <1>4, <1>5, <1>6

LEMMA SlotImplements ==
    ASSUME Inv, NEW w \in Workers,
           \/ Start(w) \/ StartReplyLost(w) \/ Succeed(w)
           \/ SucceedReplyLost(w) \/ Heartbeat(w) \/ Fail(w) \/ Defer(w)
           \/ Shutdown(w)
    PROVE  Implements
<1> DEFINE s == worker[w]
           r == row[s.task]
<1>1. ~At(w, "idle")
  BY DEF Start, StartReplyLost, Succeed, SucceedReplyLost, Heartbeat, Fail,
         Defer, Shutdown, At, Inv, SlotsInv, SlotInv
<1>2. /\ s.task \in Tasks /\ s.lease \in Nat /\ s.lease > 0
      /\ s.lease = s.attempt
      /\ r \in Rows /\ issued[s.task] \in Nat /\ RowInv(r, issued[s.task])
      /\ Unseen(r, r)
  BY <1>1, WorkingSlot, OrderedRow
<1>3. CASE UNCHANGED row
  BY <1>3, RowUnchanged
<1>4. CASE CanStart(r, s.lease) /\ SetRow(s.task, Started(r))
  BY <1>2, <1>4, StatementsAgree DEF Implements, OneRowAgrees, Agrees
<1>5. CASE CanSettle(r, s.lease) /\ SetRow(s.task, Succeeded(r, s.attempt))
  BY <1>2, <1>5, StatementsAgree DEF Implements, OneRowAgrees, Agrees
<1>6. CASE CanBeat(r, s.lease) /\ SetRow(s.task, Extended(r))
  BY <1>2, <1>6, StatementsAgree DEF Implements, OneRowAgrees, Agrees
<1>7. CASE Fail(w) \/ Defer(w)
  <2>1. \E q \in Reasons, retry \in BOOLEAN :
            /\ FailWith(w, q, retry)
    BY <1>7 DEF Fail, Defer, Reasons
  <2>2. CASE r.status # "SUCCEEDED" /\ CanSettle(r, s.lease)
    BY <1>2, <2>1, <2>2, StatementsAgree
       DEF FailWith, Implements, OneRowAgrees, Agrees
  <2>3. CASE ~(r.status # "SUCCEEDED" /\ CanSettle(r, s.lease))
    BY <1>2, <2>1, <2>3 DEF FailWith, Implements, OneRowAgrees, Agrees
  <2> QED
    BY <2>2, <2>3
<1>8. CASE Shutdown(w)
  BY <1>2, <1>8, StatementsAgree DEF Shutdown, Implements, OneRowAgrees, Agrees
<1> QED
  BY <1>3, <1>4, <1>5, <1>6, <1>7, <1>8
     DEF Start, StartReplyLost, Succeed, SucceedReplyLost, Heartbeat

LEMMA RecoveryImplements ==
    ASSUME Inv, RecoverExpired
    PROVE  Implements
<1>1. ASSUME NEW t \in Tasks PROVE Unseen(row'[t], row[t])
  BY OrderedRow, StatementsAgree DEF RecoverExpired
<1> QED
  BY <1>1 DEF RecoverExpired, Implements, NoneSeen

LEMMA ImplementsStep == Inv /\ [Next]_vars => Implements
<1> SUFFICES ASSUME Inv, [Next]_vars PROVE Implements
  OBVIOUS
<1>1. ASSUME NEW w \in Workers, WorkerStep(w) PROVE Implements
  BY <1>1, SlotImplements, TableImplements, RowUnchanged
     DEF WorkerStep, Finish, Restart, Claim
<1>2. ASSUME NEW w \in Workers, WorkerMishap(w) PROVE Implements
  BY <1>2, SlotImplements, RowUnchanged DEF WorkerMishap, FailLost, Crash
<1>3. ASSUME NEW w \in Workers, Heartbeat(w) PROVE Implements
  BY <1>3, SlotImplements
<1>4. ASSUME NEW t \in Tasks,
             \/ Enqueue(t) \/ ClaimReplyLost(t) \/ Lapse(t)
             \/ LapseUnderOwner(t) \/ Requeue(t) \/ Cancel(t)
      PROVE  Implements
  BY <1>4, TableImplements DEF ClaimReplyLost
<1>5. CASE RecoverExpired
  BY <1>5, RecoveryImplements
<1>6. CASE UNCHANGED vars
  BY <1>6, RowUnchanged DEF vars
<1> QED
  BY <1>1, <1>2, <1>3, <1>4, <1>5, <1>6 DEF Next

----------------------------------------------------------------------------
(* The contract's variables, and the theorem.                              *)

phaseOf    == [t \in Tasks |-> PhaseOf(row[t])]
attemptsOf == [t \in Tasks |-> row[t].attempt]
acceptedOf == [t \in Tasks |-> row[t].result]

\* Reading the contract's actions in these terms is expanding definitions.
LEMMA ContractActions ==
    ASSUME NEW t \in Tasks
    PROVE  /\ Contract!HandOut(t) <=>
                /\ phaseOf[t] = "open"
                /\ attemptsOf' = [attemptsOf EXCEPT ![t] = @ + 1]
                /\ phaseOf' = phaseOf /\ acceptedOf' = acceptedOf
           /\ Contract!Accept(t) <=>
                /\ phaseOf[t] = "open" /\ attemptsOf[t] > 0
                /\ phaseOf' = [phaseOf EXCEPT ![t] = "done"]
                /\ acceptedOf' = [acceptedOf EXCEPT ![t] = attemptsOf[t]]
                /\ attemptsOf' = attemptsOf
           /\ Contract!Abandon(t) <=>
                /\ phaseOf[t] = "open"
                /\ phaseOf' = [phaseOf EXCEPT ![t] = "cancelled"]
                /\ attemptsOf' = attemptsOf /\ acceptedOf' = acceptedOf
BY DEF Contract!HandOut, Contract!Accept, Contract!Abandon,
       phaseOf, attemptsOf, acceptedOf, PhaseOf

\* A function that differs from f at t only is f EXCEPT at t.
LEMMA DiffersAt ==
    ASSUME NEW S, NEW t \in S, NEW f, NEW g, NEW x,
           f = [u \in S |-> f[u]], g = [u \in S |-> g[u]],
           g[t] = x, \A u \in S \ {t} : g[u] = f[u]
    PROVE  g = [f EXCEPT ![t] = x]
OBVIOUS

LEMMA ContractInit == Init => Contract!Init
<1> SUFFICES ASSUME Init PROVE Contract!Init
  OBVIOUS
<1>1. \A t \in Tasks : /\ row[t].status = "ABSENT"
                       /\ row[t].attempt = 0 /\ row[t].result = 0
  BY DEF Init, NoRow, NoResult
<1> QED
  BY <1>1 DEF Contract!Init

LEMMA ContractStep == Inv /\ Implements => [Contract!Next]_(Contract!vars)
<1> SUFFICES ASSUME Inv, Implements PROVE [Contract!Next]_(Contract!vars)
  OBVIOUS
<1>1. row \in [Tasks -> Rows]
  BY DEF Inv, TypeOK
<1>2. CASE NoneSeen
  BY <1>2 DEF NoneSeen, Unseen, PhaseOf, Contract!vars
<1>3. CASE OneRowAgrees
  <2>0. PICK t \in Tasks : \E q : SetRow(t, q) /\ Agrees(q, row[t])
    BY <1>3 DEF OneRowAgrees
  <2>1. PICK q : SetRow(t, q) /\ Agrees(q, row[t])
    BY <2>0
  <2>2. row' = [row EXCEPT ![t] = q] /\ row'[t] = q
    BY <1>1, <2>1 DEF SetRow
  <2>3. \A u \in Tasks \ {t} : row'[u] = row[u]
    BY <1>1, <2>2
  <2>4. CASE Unseen(q, row[t])
    BY <2>2, <2>3, <2>4 DEF Unseen, PhaseOf, Contract!vars
  <2>5. /\ phaseOf[t] = PhaseOf(row[t]) /\ attemptsOf[t] = row[t].attempt
        /\ acceptedOf[t] = row[t].result
        /\ phaseOf' = [phaseOf EXCEPT ![t] = PhaseOf(q)]
        /\ attemptsOf' = [attemptsOf EXCEPT ![t] = q.attempt]
        /\ acceptedOf' = [acceptedOf EXCEPT ![t] = q.result]
    <3>1. /\ phaseOf' = [u \in Tasks |-> PhaseOf(row'[u])]
          /\ attemptsOf' = [u \in Tasks |-> row'[u].attempt]
          /\ acceptedOf' = [u \in Tasks |-> row'[u].result]
      BY DEF phaseOf, attemptsOf, acceptedOf, PhaseOf
    <3>2. /\ phaseOf = [u \in Tasks |-> phaseOf[u]]
          /\ attemptsOf = [u \in Tasks |-> attemptsOf[u]]
          /\ acceptedOf = [u \in Tasks |-> acceptedOf[u]]
          /\ phaseOf' = [u \in Tasks |-> phaseOf'[u]]
          /\ attemptsOf' = [u \in Tasks |-> attemptsOf'[u]]
          /\ acceptedOf' = [u \in Tasks |-> acceptedOf'[u]]
      BY <3>1 DEF phaseOf, attemptsOf, acceptedOf
    <3>3. /\ phaseOf'[t] = PhaseOf(q)
          /\ attemptsOf'[t] = q.attempt
          /\ acceptedOf'[t] = q.result
      BY <2>2, <3>1
    <3>4. \A u \in Tasks \ {t} : /\ phaseOf'[u] = phaseOf[u]
                                /\ attemptsOf'[u] = attemptsOf[u]
                                /\ acceptedOf'[u] = acceptedOf[u]
      BY <2>3, <3>1 DEF phaseOf, attemptsOf, acceptedOf
    <3>5. phaseOf' = [phaseOf EXCEPT ![t] = PhaseOf(q)]
      BY <3>2, <3>3, <3>4, DiffersAt
    <3>6. attemptsOf' = [attemptsOf EXCEPT ![t] = q.attempt]
      BY <3>2, <3>3, <3>4, DiffersAt
    <3>7. acceptedOf' = [acceptedOf EXCEPT ![t] = q.result]
      BY <3>2, <3>3, <3>4, DiffersAt
    <3> QED
      BY <3>5, <3>6, <3>7 DEF phaseOf, attemptsOf, acceptedOf
  <2>6. /\ phaseOf = [phaseOf EXCEPT ![t] = phaseOf[t]]
        /\ attemptsOf = [attemptsOf EXCEPT ![t] = attemptsOf[t]]
        /\ acceptedOf = [acceptedOf EXCEPT ![t] = acceptedOf[t]]
    BY DEF phaseOf, attemptsOf, acceptedOf
  <2>7. HandedOut(q, row[t]) => Contract!HandOut(t)
    BY <2>5, <2>6, ContractActions DEF HandedOut
  <2>8. Accepted(q, row[t]) => Contract!Accept(t)
    BY <2>5, <2>6, ContractActions DEF Accepted
  <2>9. Abandoned(q, row[t]) => Contract!Abandon(t)
    BY <2>5, <2>6, ContractActions DEF Abandoned
  <2> QED
    BY <2>1, <2>4, <2>7, <2>8, <2>9 DEF Agrees, Contract!Next
<1> QED
  BY <1>2, <1>3 DEF Implements

\* The queue implements the contract of DISTRIBUTED_TASK_EXECUTION.md: tasks
\* are handed out until they are over, one result is accepted, and it is the
\* newest attempt's, whoever crashed or came too late on the way.
THEOREM ContractKept == Spec => KeepsContract
<1>1. Init => Contract!Init
  BY ContractInit
<1>2. Inv /\ [Next]_vars => [Contract!Next]_(Contract!vars)
  BY ImplementsStep, ContractStep
<1> QED
  BY <1>1, <1>2, InvCorrect, PTL DEF Spec, KeepsContract, Contract!Spec
=============================================================================
