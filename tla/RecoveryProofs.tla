--------------------------- MODULE RecoveryProofs ---------------------------
(***************************************************************************)
(* Theorems about Recovery and the RunControl under it, for any workers,   *)
(* operators, reconcilers, budget and bounds: type correctness, and that   *)
(* run and task never disagree about success.                              *)
(*                                                                         *)
(* Agreement is not inductive by itself: a reconciler acts on the pair it  *)
(* read earlier, so that what it read has to agree as well.                *)
(***************************************************************************)
EXTENDS Recovery, TaskRowProofs

USE DEF NoLease, NoResult

----------------------------------------------------------------------------
(* The invariant, and the steps that leave success where it is.            *)

ScansAgree == \A c \in Reconcilers :
    reconciler[c].seen.run = "SUCCEEDED" <=> reconciler[c].seen.status = "SUCCEEDED"

RecoveryInv == RecoveryTypeOK /\ SuccessAgrees /\ ScansAgree

\* Row t in the place of r: neither a success gained nor one lost.
RowStays(t, r) == /\ t \in Rows
                  /\ t.status = "SUCCEEDED" <=> r.status = "SUCCEEDED"

\* State s in the place of r, likewise.
RunStays(s, r) == /\ s \in RunStates \cup {"NONE"}
                  /\ s = "SUCCEEDED" <=> r = "SUCCEEDED"

Pairs(s, t) == /\ s \in RunStates \cup {"NONE"} /\ t \in Rows
               /\ s = "SUCCEEDED" <=> t.status = "SUCCEEDED"

PairStays == RunStays(run', run) /\ RowStays(task', task)

LEMMA PairKept ==
    ASSUME TypeOK, SuccessAgrees, PairStays
    PROVE  Pairs(run', task')
BY DEF TypeOK, SuccessAgrees, PairStays, RunStays, RowStays, Pairs

----------------------------------------------------------------------------
(* What each statement does to the success of a row, and of a run.         *)

\* A row that is not a success is made one by Succeeded alone.
LEMMA OpenRowStays ==
    ASSUME NEW r \in Rows, r.status # "SUCCEEDED"
    PROVE  /\ RowStays(NewRow, r)
           /\ \A l \in Nat : RowStays(Leased(r, l), r)
           /\ RowStays(Started(r), r) /\ RowStays(Extended(r), r)
           /\ RowStays(Requeued(r), r) /\ RowStays(Recovered(r), r)
           /\ RowStays(Cancelled(r), r)
           /\ \A q \in Reasons :
                /\ RowStays(Failed(r, q), r)
                /\ RowStays(Requeued(Failed(r, q)), r)
                /\ RowStays([Failed(r, q) EXCEPT !.result = NoResult], r)
                /\ RowStays([Cancelled(r) EXCEPT !.reason = q], r)
<1>1. /\ NewRow.status = "PENDING"
      /\ \A l \in Nat : Leased(r, l).status = "LEASED"
      /\ Started(r).status = "RUNNING" /\ Extended(r).status = r.status
      /\ Requeued(r).status = "PENDING" /\ Recovered(r).status = "PENDING"
      /\ Cancelled(r).status = "CANCELLED"
  BY DEF NewRow, NoRow, Leased, Started, Extended, Requeued, Recovered,
         Cancelled, Rows
<1>2. ASSUME NEW q \in Reasons
      PROVE  /\ RowStays(Failed(r, q), r)
             /\ RowStays(Requeued(Failed(r, q)), r)
             /\ RowStays([Failed(r, q) EXCEPT !.result = NoResult], r)
             /\ RowStays([Cancelled(r) EXCEPT !.reason = q], r)
  <2>1. /\ Failed(r, q) \in Rows /\ Requeued(Failed(r, q)) \in Rows
        /\ Cancelled(r) \in Rows
    BY RowWrites
  <2>2. /\ Failed(r, q).status = "FAILED"
        /\ Requeued(Failed(r, q)).status = "PENDING"
    BY DEF Failed, Requeued, Rows
  <2>3. /\ [Failed(r, q) EXCEPT !.result = NoResult] \in Rows
        /\ [Failed(r, q) EXCEPT !.result = NoResult].status = "FAILED"
    BY <2>1, <2>2 DEF Rows
  <2>4. /\ [Cancelled(r) EXCEPT !.reason = q] \in Rows
        /\ [Cancelled(r) EXCEPT !.reason = q].status = "CANCELLED"
    BY <1>1, <2>1 DEF Rows
  <2> QED
    BY <2>1, <2>2, <2>3, <2>4 DEF RowStays
<1> QED
  BY <1>1, <1>2, RowWrites DEF RowStays

\* These leave any row's success alone.
LEMMA AnyRowStays ==
    ASSUME NEW r \in Rows
    PROVE  /\ RowStays(r, r)
           /\ RowStays([r EXCEPT !.expiry = "past"], r)
           /\ RowStays(RecoveredIn(r), r)
           /\ \A q \in Reasons : RowStays(CancelledIn(r, q), r)
           /\ \A p, q \in Reasons :
                r.status # "SUCCEEDED" =>
                  RowStays(CancelledIn(Failed(r, p), q), r)
<1>1. RowStays(r, r) /\ RowStays([r EXCEPT !.expiry = "past"], r)
  BY RowWrites DEF RowStays, Rows
<1>2. RowStays(RecoveredIn(r), r)
  BY <1>1, OpenRowStays DEF RecoveredIn, LeaseLapsed, InFlight
<1>3. ASSUME NEW t \in Rows, NEW q \in Reasons
      PROVE  RowStays(CancelledIn(t, q), t)
  <2>1. t.status \in Cancellable => t.status # "SUCCEEDED"
    BY DEF Cancellable
  <2>2. RowStays(t, t)
    BY DEF RowStays
  <2> QED
    BY <2>1, <2>2, OpenRowStays DEF CancelledIn
<1>4. ASSUME NEW p \in Reasons, NEW q \in Reasons, r.status # "SUCCEEDED"
      PROVE  RowStays(CancelledIn(Failed(r, p), q), r)
  <2>1. RowStays(Failed(r, p), r)
    BY <1>4, OpenRowStays
  <2>2. RowStays(CancelledIn(Failed(r, p), q), Failed(r, p))
    BY <1>3, <2>1 DEF RowStays
  <2> QED
    BY <2>1, <2>2 DEF RowStays
<1> QED
  BY <1>1, <1>2, <1>3, <1>4

\* So does a compare-and-set from a state that is not over to any but success.
LEMMA CasStays ==
    ASSUME NEW r \in RunStates \cup {"NONE"},
           NEW from \in SUBSET NonTerminal, NEW to \in RunStates \ {"SUCCEEDED"}
    PROVE  RunStays(Cas(r, from, to), r)
BY DEF RunStays, Cas, RunStates, NonTerminal

----------------------------------------------------------------------------
(* What the slots, operators and counters may be written as.               *)

LEMMA SlotWrites ==
    ASSUME NEW s \in WorkerStates
    PROVE  /\ IdleWorker \in WorkerStates
           /\ \A pc \in WorkerPCs :
                /\ [s EXCEPT !.pc = pc] \in WorkerStates
                /\ [s EXCEPT !.pc = pc, !.beating = TRUE] \in WorkerStates
                /\ \A b \in Beginnings :
                     [s EXCEPT !.pc = pc, !.began = b] \in WorkerStates
           /\ \A b \in BOOLEAN : [s EXCEPT !.beating = b] \in WorkerStates
BY DEF WorkerStates, WorkerPCs, Beginnings, IdleWorker

LEMMA SlotStep ==
    ASSUME TypeOK, NEW w \in Workers
    PROVE  /\ worker[w] \in WorkerStates
           /\ \A s \in WorkerStates :
                Become(w, s) => worker' \in [Workers -> WorkerStates]
           /\ Return(w) => worker' \in [Workers -> WorkerStates]
           /\ \A pc \in WorkerPCs :
                GoTo(w, pc) => worker' \in [Workers -> WorkerStates]
<1>1. worker \in [Workers -> WorkerStates]
  BY DEF TypeOK
<1>2. \A s \in WorkerStates : Become(w, s) => worker' \in [Workers -> WorkerStates]
  BY <1>1 DEF Become
<1> QED
  BY <1>1, <1>2, SlotWrites DEF Return, GoTo

LEMMA OperatorWrites ==
    ASSUME TypeOK, NEW o \in Operators, NEW pc \in OperatorPCs, OpGoTo(o, pc)
    PROVE  operator' \in [Operators -> OperatorPCs]
BY DEF TypeOK, OpGoTo

LEMMA MishapWrites ==
    ASSUME TypeOK, Mishap
    PROVE  mishaps' \in 0 .. MaxMishaps
BY MishapsAssumption DEF TypeOK, Mishap

LEMMA SpendWrites ==
    ASSUME TypeOK, Spend
    PROVE  over' \in BOOLEAN
BY DEF TypeOK, Spend

\* The names of the code are in the sets they are drawn from.
LEMMA Names ==
    /\ {"idle", "claimed", "gate", "give back", "expire", "budget stop",
        "start", "started", "executing", "succeeding", "accept",
        "over budget", "deferring", "failing"} \subseteq WorkerPCs
    /\ {"not begun", "lease lapsed", "in time", "late"} \subseteq Beginnings
    /\ {"idle", "budget", "gate", "requeue", "reject"} \subseteq OperatorPCs
    /\ {"none", "lease_expired", "error", "waiting", "deadline",
        "superseded", "budget", "run_terminal"} \subseteq Reasons
    /\ RunTerminal \subseteq RunStates /\ NonTerminal \subseteq RunStates
    /\ {"QUEUED", "RUNNING", "WAITING_HUMAN", "CANCEL_REQUESTED"} \subseteq NonTerminal
    /\ {"FAILED", "TIMED_OUT", "CANCELLED", "QUEUED", "RUNNING", "WAITING_HUMAN",
        "CANCEL_REQUESTED"} \subseteq RunStates \ {"SUCCEEDED"}
BY DEF WorkerPCs, Beginnings, OperatorPCs, Reasons, RunStates, RunTerminal,
       NonTerminal

\* What has to hold of the variables a step writes.
LEMMA NextState ==
    ASSUME Pairs(run', task'), issued' \in Nat, overdue' \in BOOLEAN,
           over' \in BOOLEAN, worker' \in [Workers -> WorkerStates],
           operator' \in [Operators -> OperatorPCs],
           mishaps' \in 0 .. MaxMishaps
    PROVE  TypeOK' /\ SuccessAgrees'
BY DEF Pairs, TypeOK, SuccessAgrees

\* And how the variables stand before it.
LEMMA ThisState ==
    ASSUME TypeOK, SuccessAgrees
    PROVE  /\ run \in RunStates \cup {"NONE"} /\ task \in Rows
           /\ run = "SUCCEEDED" <=> task.status = "SUCCEEDED"
           /\ issued \in Nat /\ overdue \in BOOLEAN /\ over \in BOOLEAN
           /\ worker \in [Workers -> WorkerStates]
           /\ operator \in [Operators -> OperatorPCs]
           /\ mishaps \in 0 .. MaxMishaps
           /\ RunStays(run, run) /\ RowStays(task, task)
           /\ UNCHANGED <<run, task>> => Pairs(run', task')
BY DEF TypeOK, SuccessAgrees, RunStays, RowStays, Pairs

----------------------------------------------------------------------------
(* Submission, and the gates before the start: one lemma per action.       *)

LEMMA KeptInsertRun ==
    ASSUME TypeOK, SuccessAgrees, InsertRun
    PROVE  TypeOK' /\ SuccessAgrees'
<1>1. RunStays(run', run) /\ RowStays(task', task)
  BY ThisState, Names DEF InsertRun, RunStays
<1> QED
  BY <1>1, PairKept, ThisState, NextState DEF InsertRun, PairStays

LEMMA KeptEnqueueTask ==
    ASSUME TypeOK, SuccessAgrees, EnqueueTask
    PROVE  TypeOK' /\ SuccessAgrees'
<1>1. RunStays(run', run) /\ RowStays(task', task)
  BY ThisState, OpenRowStays DEF EnqueueTask
<1> QED
  BY <1>1, PairKept, ThisState, NextState DEF EnqueueTask, PairStays

LEMMA KeptDeadlinePasses ==
    ASSUME TypeOK, SuccessAgrees, DeadlinePasses
    PROVE  TypeOK' /\ SuccessAgrees'
BY ThisState, NextState DEF DeadlinePasses

LEMMA KeptClaimTask ==
    ASSUME TypeOK, SuccessAgrees, NEW w \in Workers, ClaimTask(w)
    PROVE  TypeOK' /\ SuccessAgrees'
<1> DEFINE s == [IdleWorker EXCEPT !.pc = "claimed", !.lease = issued + 1,
                                   !.attempt = task.attempt + 1]
<1>1. issued + 1 \in Nat /\ task.attempt + 1 \in Nat
  BY ThisState DEF Rows
<1>2. s \in WorkerStates
  BY <1>1, Zenon DEF WorkerStates, WorkerPCs, Beginnings, IdleWorker
<1>3. worker' \in [Workers -> WorkerStates]
  BY <1>2, SlotStep DEF ClaimTask
<1>4. task.status # "SUCCEEDED"
  BY DEF ClaimTask, Claimable, InFlight
<1>5. RunStays(run', run) /\ RowStays(task', task)
  BY <1>1, <1>4, ThisState, OpenRowStays DEF ClaimTask
<1> QED
  BY <1>1, <1>3, <1>5, PairKept, ThisState, NextState DEF ClaimTask, PairStays

LEMMA KeptGates ==
    ASSUME TypeOK, SuccessAgrees, NEW w \in Workers,
           PreStart(w) \/ PreStartGate(w) \/ Finish(w)
    PROVE  TypeOK' /\ SuccessAgrees'
<1>1. worker' \in [Workers -> WorkerStates]
  BY SlotStep, Names DEF PreStart, PreStartGate, Finish
<1> QED
  BY <1>1, ThisState, NextState DEF PreStart, PreStartGate, Finish

LEMMA KeptGiveBack ==
    ASSUME TypeOK, SuccessAgrees, NEW w \in Workers, GiveBack(w)
    PROVE  TypeOK' /\ SuccessAgrees'
<1>1. CanRelease(task, worker[w].lease) => task.status # "SUCCEEDED"
  BY DEF CanRelease, InFlight
<1>2. RunStays(run', run) /\ RowStays(task', task)
  BY <1>1, ThisState, OpenRowStays DEF GiveBack
<1> QED
  BY <1>2, SlotStep, PairKept, ThisState, NextState DEF GiveBack, PairStays

LEMMA ExpiryStays ==
    ASSUME TypeOK, SuccessAgrees, ExpireInTx
    PROVE  PairStays
<1>1. RunStays(run', run)
  BY ThisState, CasStays, Names DEF ExpireInTx, RunCas
<1>2. RowStays(task', task)
  BY ThisState, AnyRowStays, Names DEF ExpireInTx
<1> QED
  BY <1>1, <1>2 DEF PairStays

LEMMA KeptExpireBeforeStart ==
    ASSUME TypeOK, SuccessAgrees, NEW w \in Workers, ExpireBeforeStart(w)
    PROVE  TypeOK' /\ SuccessAgrees'
<1>1. Pairs(run', task')
  BY ExpiryStays, PairKept DEF ExpireBeforeStart
<1> QED
  BY <1>1, SlotStep, ThisState, NextState DEF ExpireBeforeStart

LEMMA KeptBudgetStop ==
    ASSUME TypeOK, SuccessAgrees, NEW w \in Workers, BudgetStop(w)
    PROVE  TypeOK' /\ SuccessAgrees'
<1>1. RunStays(run', run)
  BY ThisState, CasStays, Names DEF BudgetStop, RunCas
<1>2. RowStays(task', task)
  BY ThisState, AnyRowStays, Names DEF BudgetStop
<1> QED
  BY <1>1, <1>2, SlotStep, PairKept, ThisState, NextState
     DEF BudgetStop, PairStays

LEMMA KeptStartTask ==
    ASSUME TypeOK, SuccessAgrees, NEW w \in Workers, StartTask(w)
    PROVE  TypeOK' /\ SuccessAgrees'
<1>1. CanStart(task, worker[w].lease) => task.status # "SUCCEEDED"
  BY DEF CanStart
<1>2. RunStays(run', run) /\ RowStays(task', task)
  BY <1>1, ThisState, OpenRowStays DEF StartTask
<1>3. worker' \in [Workers -> WorkerStates]
  BY SlotStep, Names DEF StartTask
<1> QED
  BY <1>2, <1>3, PairKept, ThisState, NextState DEF StartTask, PairStays

LEMMA KeptOnStarted ==
    ASSUME TypeOK, SuccessAgrees, NEW w \in Workers, OnStarted(w)
    PROVE  TypeOK' /\ SuccessAgrees'
<1>1. RunStays(run', run)
  BY ThisState, CasStays, Names DEF OnStarted, RunCas
<1>2. worker' \in [Workers -> WorkerStates]
  BY SlotStep, SlotWrites, Names DEF OnStarted
<1> QED
  BY <1>1, <1>2, PairKept, ThisState, NextState DEF OnStarted, PairStays

LEMMA KeptHeartbeat ==
    ASSUME TypeOK, SuccessAgrees, NEW w \in Workers, Heartbeat(w)
    PROVE  TypeOK' /\ SuccessAgrees'
<1>1. CanBeat(task, worker[w].lease) => task.status # "SUCCEEDED"
  BY DEF CanBeat, InFlight
<1>2. RunStays(run', run) /\ RowStays(task', task)
  BY <1>1, ThisState, OpenRowStays DEF Heartbeat
<1>3. StateRefuses(task, worker[w].lease) \in BOOLEAN
  BY DEF StateRefuses
<1>4. worker' \in [Workers -> WorkerStates]
  BY <1>3, SlotStep, SlotWrites, ThisState DEF Heartbeat
<1> QED
  BY <1>2, <1>4, PairKept, ThisState, NextState DEF Heartbeat, PairStays

----------------------------------------------------------------------------
(* The settles.                                                            *)

LEMMA KeptReadAndCharge ==
    ASSUME TypeOK, SuccessAgrees, NEW w \in Workers, ReadAndCharge(w)
    PROVE  TypeOK' /\ SuccessAgrees'
<1>1. over' \in BOOLEAN
  BY SpendWrites, ThisState DEF ReadAndCharge
<1>2. worker' \in [Workers -> WorkerStates]
  <2> DEFINE pc == IF over' THEN "over budget" ELSE "accept"
             began == IF ~HoldsLease(task, worker[w].lease) THEN "lease lapsed"
                      ELSE IF overdue THEN "late" ELSE "in time"
  <2>1. pc \in WorkerPCs /\ began \in Beginnings
    BY Names
  <2>2. [worker[w] EXCEPT !.pc = pc, !.began = began] \in WorkerStates
    BY <2>1, SlotStep, SlotWrites
  <2> QED
    BY <2>2, SlotStep DEF ReadAndCharge
<1> QED
  BY <1>1, <1>2, ThisState, NextState DEF ReadAndCharge

\* The two successes are written together, or not at all.
LEMMA AcceptPairs ==
    ASSUME TypeOK, SuccessAgrees, NEW w \in Workers,
           CanAccept(w), AcceptWrites(w)
    PROVE  Pairs(run', task')
<1> DEFINE done == Succeeded(task, worker[w].attempt)
<1>1. task.status # "SUCCEEDED" /\ run # "SUCCEEDED"
  BY ThisState DEF CanAccept
<1>2. worker[w].attempt \in Nat
  BY SlotStep DEF WorkerStates
<1>3. done \in Rows /\ done.status = "SUCCEEDED"
  BY <1>2, ThisState, RowWrites DEF Succeeded, Rows
<1>4. ASSUME NEW q \in Reasons
      PROVE  RowStays([Failed(done, q) EXCEPT !.result = NoResult], task)
  <2>1. Failed(done, q) \in Rows /\ Failed(done, q).status = "FAILED"
    BY <1>3, RowWrites DEF Failed, Rows
  <2>2. /\ [Failed(done, q) EXCEPT !.result = NoResult] \in Rows
        /\ [Failed(done, q) EXCEPT !.result = NoResult].status = "FAILED"
    BY <2>1 DEF Rows
  <2> QED
    BY <1>1, <2>2 DEF RowStays
<1>5. CASE task' = done /\ run' = "SUCCEEDED"
  BY <1>3, <1>5 DEF Pairs, RunStates, RunTerminal
<1>6. CASE /\ task' = [Failed(done, "deadline") EXCEPT !.result = NoResult]
           /\ RunCas(NonTerminal, "TIMED_OUT")
  <2>1. RunStays(run', run)
    BY <1>6, ThisState, CasStays, Names DEF RunCas
  <2>2. RowStays(task', task)
    BY <1>4, <1>6, Names
  <2> QED
    BY <2>1, <2>2, PairKept DEF PairStays
<1>7. CASE /\ task' = [Failed(done, "superseded") EXCEPT !.result = NoResult]
           /\ UNCHANGED run
  BY <1>4, <1>7, Names, ThisState, PairKept DEF PairStays
<1> QED
  BY <1>5, <1>6, <1>7 DEF AcceptWrites

LEMMA KeptSettleSuccess ==
    ASSUME TypeOK, SuccessAgrees, NEW w \in Workers, SettleSuccess(w)
    PROVE  TypeOK' /\ SuccessAgrees'
<1>1. Pairs(run', task')
  BY AcceptPairs, ThisState DEF SettleSuccess
<1> QED
  BY <1>1, SlotStep, ThisState, NextState DEF SettleSuccess

LEMMA KeptSettleSuccessLost ==
    ASSUME TypeOK, SuccessAgrees, NEW w \in Workers, SettleSuccessLost(w)
    PROVE  TypeOK' /\ SuccessAgrees'
<1>1. Pairs(run', task')
  BY AcceptPairs, ThisState DEF SettleSuccessLost
<1>2. worker' \in [Workers -> WorkerStates]
  BY SlotStep, SlotWrites, Names DEF SettleSuccessLost
<1> QED
  BY <1>1, <1>2, MishapWrites, ThisState, NextState DEF SettleSuccessLost

LEMMA KeptSettleOverBudget ==
    ASSUME TypeOK, SuccessAgrees, NEW w \in Workers, SettleOverBudget(w)
    PROVE  TypeOK' /\ SuccessAgrees'
<1>1. RunStays(run', run)
  BY ThisState, CasStays, Names DEF SettleOverBudget, RunCas
<1>2. RowStays(task', task)
  BY ThisState, OpenRowStays, Names DEF SettleOverBudget
<1> QED
  BY <1>1, <1>2, SlotStep, PairKept, ThisState, NextState
     DEF SettleOverBudget, PairStays

LEMMA KeptSettleDefer ==
    ASSUME TypeOK, SuccessAgrees, NEW w \in Workers, SettleDefer(w)
    PROVE  TypeOK' /\ SuccessAgrees'
<1>1. CanSettle(task, worker[w].lease) => task.status # "SUCCEEDED"
  BY DEF CanSettle
<1>2. {"QUEUED", "RUNNING", "WAITING_HUMAN"} \in SUBSET NonTerminal
  BY Names
<1>3. RunStays(run', run)
  BY <1>2, ThisState, CasStays, Names DEF SettleDefer, RunCas
<1>4. RowStays(task', task)
  BY <1>1, ThisState, OpenRowStays, Names DEF SettleDefer
<1>5. over' \in BOOLEAN
  BY SpendWrites, ThisState DEF SettleDefer
<1> QED
  BY <1>3, <1>4, <1>5, SlotStep, PairKept, ThisState, NextState
     DEF SettleDefer, PairStays

LEMMA KeptChargeOnly ==
    ASSUME TypeOK, SuccessAgrees, NEW w \in Workers,
           SettleDeferLost(w) \/ SettleFailureLost(w)
    PROVE  TypeOK' /\ SuccessAgrees'
<1>1. over' \in BOOLEAN /\ mishaps' \in 0 .. MaxMishaps
  BY SpendWrites, MishapWrites DEF SettleDeferLost, SettleFailureLost
<1>2. worker' \in [Workers -> WorkerStates]
  BY SlotStep, Names DEF SettleDeferLost, SettleFailureLost
<1> QED
  BY <1>1, <1>2, ThisState, NextState DEF SettleDeferLost, SettleFailureLost

LEMMA KeptSettleFailure ==
    ASSUME TypeOK, SuccessAgrees, NEW w \in Workers, SettleFailure(w)
    PROVE  TypeOK' /\ SuccessAgrees'
<1>1. CASE task.status # "SUCCEEDED" /\ CanSettle(task, worker[w].lease)
  <2>1. over' \in BOOLEAN
    BY <1>1, SpendWrites DEF SettleFailure
  <2>2. \/ task' = Requeued(Failed(task, "error"))
        \/ task' = Failed(task, "error")
        \/ task' = CancelledIn(Failed(task, "error"), "deadline")
    BY <1>1 DEF SettleFailure
  <2>3. \/ UNCHANGED run
        \/ RunCas(NonTerminal, "FAILED")
        \/ RunCas(NonTerminal, "TIMED_OUT")
    BY <1>1 DEF SettleFailure
  <2>4. RowStays(task', task)
    BY <1>1, <2>2, ThisState, OpenRowStays, AnyRowStays, Names
  <2>5. RunStays(run', run)
    BY <2>3, ThisState, CasStays, Names DEF RunCas
  <2> QED
    BY <2>1, <2>4, <2>5, SlotStep, PairKept, ThisState, NextState
       DEF SettleFailure, PairStays
<1>2. CASE ~(task.status # "SUCCEEDED" /\ CanSettle(task, worker[w].lease))
  <2>1. UNCHANGED <<run, task, over>>
    BY <1>2 DEF SettleFailure
  <2> QED
    BY <2>1, SlotStep, ThisState, NextState DEF SettleFailure
<1> QED
  BY <1>1, <1>2

----------------------------------------------------------------------------
(* Faults and operators.                                                   *)

LEMMA KeptCrash ==
    ASSUME TypeOK, SuccessAgrees, NEW w \in Workers, Crash(w)
    PROVE  TypeOK' /\ SuccessAgrees'
BY SlotStep, MishapWrites, ThisState, NextState DEF Crash

LEMMA KeptLapse ==
    ASSUME TypeOK, SuccessAgrees, Lapse \/ LapseUnderOwner
    PROVE  TypeOK' /\ SuccessAgrees'
<1>1. PassExpiry /\ mishaps' \in 0 .. MaxMishaps
  BY MishapWrites, ThisState DEF Lapse, LapseUnderOwner
<1>2. RunStays(run', run) /\ RowStays(task', task)
  BY <1>1, ThisState, AnyRowStays DEF PassExpiry
<1> QED
  BY <1>1, <1>2, PairKept, ThisState, NextState DEF PassExpiry, PairStays

LEMMA KeptRequestCancel ==
    ASSUME TypeOK, SuccessAgrees, RequestCancel
    PROVE  TypeOK' /\ SuccessAgrees'
<1>1. RunStays(run', run)
  BY Names DEF RequestCancel, RunStays
<1> QED
  BY <1>1, PairKept, ThisState, NextState DEF RequestCancel, PairStays

\* A run synced to a task that is over already is a success only if that is.
LEMMA KeptHardCancel ==
    ASSUME TypeOK, SuccessAgrees, HardCancel
    PROVE  TypeOK' /\ SuccessAgrees'
<1>1. CASE task.status \in Cancellable
  <2>1. task.status # "SUCCEEDED"
    BY <1>1 DEF Cancellable
  <2>2. RowStays(task', task)
    BY <1>1, <2>1, ThisState, OpenRowStays DEF HardCancel
  <2>3. RunStays(run', run)
    BY <1>1, ThisState, CasStays, Names DEF HardCancel, RunCas
  <2> QED
    BY <2>2, <2>3, PairKept, ThisState, NextState DEF HardCancel, PairStays
<1>2. CASE task.status \notin Cancellable
  <2>1. task.status \in {"SUCCEEDED", "CANCELLED"}
    BY <1>2, ThisState DEF HardCancel, Rows, Statuses, Cancellable
  <2>2. RunStays(run', run)
    BY <1>2, <2>1, ThisState DEF HardCancel, RunCas, Cas, RunStays, RunStates,
                                 RunTerminal, NonTerminal
  <2> QED
    BY <1>2, <2>2, PairKept, ThisState, NextState DEF HardCancel, PairStays
<1> QED
  BY <1>1, <1>2

LEMMA KeptOperator ==
    ASSUME TypeOK, SuccessAgrees, NEW o \in Operators, OperatorStep(o)
    PROVE  TypeOK' /\ SuccessAgrees'
<1>1. ASSUME BeginApprove(o) \/ BeginReject(o) \/ ApproveBudget(o)
      PROVE  TypeOK' /\ SuccessAgrees'
  BY <1>1, OperatorWrites, ThisState, NextState, Names
     DEF BeginApprove, BeginReject, ReadTask, ApproveBudget
<1>2. ASSUME ApproveGate(o) PROVE TypeOK' /\ SuccessAgrees'
  <2>1. RunStays(run', run)
    BY <1>2, ThisState, CasStays, Names DEF ApproveGate, RunCas, RunStays
  <2>2. operator' \in [Operators -> OperatorPCs]
    BY <1>2, OperatorWrites, Names DEF ApproveGate
  <2> QED
    BY <1>2, <2>1, <2>2, PairKept, ThisState, NextState
       DEF ApproveGate, PairStays
<1>3. ASSUME ApproveRequeue(o) PROVE TypeOK' /\ SuccessAgrees'
  <2>1. RowStays(task', task)
    BY <1>3, ThisState, OpenRowStays DEF ApproveRequeue
  <2>2. operator' \in [Operators -> OperatorPCs]
    BY <1>3, OperatorWrites, Names DEF ApproveRequeue
  <2> QED
    BY <1>3, <2>1, <2>2, PairKept, ThisState, NextState
       DEF ApproveRequeue, PairStays
<1>4. ASSUME RejectCancel(o) PROVE TypeOK' /\ SuccessAgrees'
  <2>1. task.status \in Cancellable => task.status # "SUCCEEDED"
    BY DEF Cancellable
  <2>2. RowStays(task', task)
    BY <1>4, <2>1, ThisState, OpenRowStays DEF RejectCancel
  <2>3. operator' \in [Operators -> OperatorPCs]
    BY <1>4, OperatorWrites, Names DEF RejectCancel
  <2> QED
    BY <1>4, <2>2, <2>3, PairKept, ThisState, NextState
       DEF RejectCancel, PairStays
<1>5. ASSUME OperatorCrash(o) PROVE TypeOK' /\ SuccessAgrees'
  BY <1>5, OperatorWrites, MishapWrites, ThisState, NextState, Names
     DEF OperatorCrash
<1> QED
  BY <1>1, <1>2, <1>3, <1>4, <1>5 DEF OperatorStep

LEMMA KeptNext ==
    ASSUME TypeOK, SuccessAgrees, Next
    PROVE  TypeOK' /\ SuccessAgrees'
<1>1. ASSUME NEW w \in Workers, ExecutionStep(w)
      PROVE  TypeOK' /\ SuccessAgrees'
  BY <1>1, KeptGates, KeptGiveBack, KeptExpireBeforeStart, KeptBudgetStop,
     KeptStartTask, KeptOnStarted, KeptReadAndCharge, KeptSettleSuccess,
     KeptSettleOverBudget, KeptSettleDefer, KeptSettleFailure
     DEF ExecutionStep
<1>2. ASSUME NEW w \in Workers, WorkerMishap(w)
      PROVE  TypeOK' /\ SuccessAgrees'
  BY <1>2, KeptSettleSuccessLost, KeptChargeOnly, KeptCrash DEF WorkerMishap
<1> QED
  BY <1>1, <1>2, KeptInsertRun, KeptEnqueueTask, KeptDeadlinePasses,
     KeptClaimTask, KeptHeartbeat, KeptLapse, KeptRequestCancel,
     KeptHardCancel, KeptOperator DEF Next

----------------------------------------------------------------------------
(* The reconciler's pass.                                                  *)

Passes == [pc : ReconcilerPCs, seen : Scans]

LEMMA PassWrites ==
    ASSUME RecoveryInv, NEW c \in Reconcilers, NEW pc \in ReconcilerPCs,
           NEW seen \in Scans, RecGoTo(c, pc, seen),
           seen.run = "SUCCEEDED" <=> seen.status = "SUCCEEDED"
    PROVE  reconciler' \in [Reconcilers -> Passes] /\ ScansAgree'
<1>1. reconciler \in [Reconcilers -> Passes]
  BY DEF RecoveryInv, RecoveryTypeOK, Passes
<1>2. [pc |-> pc, seen |-> seen] \in Passes
  BY DEF Passes
<1>3. reconciler' = [reconciler EXCEPT ![c] = [pc |-> pc, seen |-> seen]]
  BY DEF RecGoTo
<1>4. reconciler' \in [Reconcilers -> Passes]
  BY <1>1, <1>2, <1>3
<1>5. \A d \in Reconcilers :
         reconciler'[d].seen = IF d = c THEN seen ELSE reconciler[d].seen
  BY <1>1, <1>3
<1> QED
  BY <1>4, <1>5 DEF RecoveryInv, ScansAgree

LEMMA ScanNames ==
    /\ {"idle", "select overdue", "expire", "scan", "reconcile"}
         \subseteq ReconcilerPCs
    /\ NoScan \in Scans
    /\ NoScan.run # "SUCCEEDED" /\ NoScan.status # "SUCCEEDED"
BY DEF ReconcilerPCs, NoScan, Scans

\* What is to be shown of a step of a pass.
LEMMA PassState ==
    ASSUME RecoveryInv, Pairs(run', task'),
           UNCHANGED <<issued, overdue, over, worker, operator>>,
           mishaps' \in 0 .. MaxMishaps,
           reconciler' \in [Reconcilers -> Passes], ScansAgree'
    PROVE  RecoveryInv'
<1>1. TypeOK' /\ SuccessAgrees'
  BY ThisState, NextState DEF RecoveryInv, RecoveryTypeOK
<1> QED
  BY <1>1 DEF RecoveryInv, RecoveryTypeOK, Passes

LEMMA KeptRecoverExpired ==
    ASSUME RecoveryInv, NEW c \in Reconcilers, RecoverExpired(c)
    PROVE  RecoveryInv'
<1>1. TypeOK /\ SuccessAgrees
  BY DEF RecoveryInv, RecoveryTypeOK
<1>2. Pairs(run', task')
  BY <1>1, ThisState, AnyRowStays, PairKept DEF RecoverExpired, PairStays
<1> QED
  BY <1>1, <1>2, PassWrites, ScanNames, PassState, ThisState DEF RecoverExpired

LEMMA KeptSelectOverdue ==
    ASSUME RecoveryInv, NEW c \in Reconcilers, SelectOverdue(c)
    PROVE  RecoveryInv'
<1>1. TypeOK /\ SuccessAgrees
  BY DEF RecoveryInv, RecoveryTypeOK
<1> QED
  BY <1>1, PassWrites, ScanNames, PassState, ThisState DEF SelectOverdue, vars

LEMMA KeptExpireOverdue ==
    ASSUME RecoveryInv, NEW c \in Reconcilers, ExpireOverdue(c)
    PROVE  RecoveryInv'
<1>1. TypeOK /\ SuccessAgrees
  BY DEF RecoveryInv, RecoveryTypeOK
<1>2. Pairs(run', task')
  BY <1>1, ExpiryStays, PairKept DEF ExpireOverdue
<1> QED
  BY <1>1, <1>2, PassWrites, ScanNames, PassState, ThisState DEF ExpireOverdue

\* Run and task are read by one statement: the pair agrees as they do.
LEMMA KeptScan ==
    ASSUME RecoveryInv, NEW c \in Reconcilers, Scan(c)
    PROVE  RecoveryInv'
<1>1. TypeOK /\ SuccessAgrees
  BY DEF RecoveryInv, RecoveryTypeOK
<1>2. /\ Pair(run, task) \in Scans
      /\ Pair(run, task).run = run /\ Pair(run, task).status = task.status
  BY <1>1, ThisState DEF Pair, Scans, Rows
<1>3. reconciler' \in [Reconcilers -> Passes] /\ ScansAgree'
  BY <1>1, <1>2, ThisState, PassWrites, ScanNames DEF Scan
<1> QED
  BY <1>1, <1>3, PassState, ThisState DEF Scan, vars

\* However old the pair: nothing is made a success, and no success unmade.
LEMMA KeptReconcile ==
    ASSUME RecoveryInv, NEW c \in Reconcilers, Reconcile(c)
    PROVE  RecoveryInv'
<1> DEFINE seen == reconciler[c].seen
<1>1. TypeOK /\ SuccessAgrees
  BY DEF RecoveryInv, RecoveryTypeOK
<1>2. seen.run = "SUCCEEDED" <=> seen.status = "SUCCEEDED"
  BY DEF RecoveryInv, ScansAgree
<1>3. RunStays(run', run)
  <2>1. CASE RunFollows(seen)
    <3>1. seen.status \in {"FAILED", "CANCELLED"}
      BY <1>2, <2>1 DEF RunFollows, NonTerminal
    <3>2. RunTarget(seen) \in RunStates \ {"SUCCEEDED"}
      BY <3>1, Names DEF RunTarget
    <3> QED
      BY <1>1, <2>1, <3>2, ThisState, CasStays DEF Reconcile, ReconciledRun
  <2>2. CASE ~RunFollows(seen)
    BY <1>1, <2>2, ThisState DEF Reconcile, ReconciledRun
  <2> QED
    BY <2>1, <2>2
<1>4. RowStays(task', task)
  BY <1>1, ThisState, OpenRowStays, Names DEF Reconcile, ReconciledTask
<1>5. Pairs(run', task')
  BY <1>1, <1>3, <1>4, PairKept DEF PairStays
<1> QED
  BY <1>1, <1>5, PassWrites, ScanNames, PassState, ThisState DEF Reconcile

LEMMA KeptPassAborted ==
    ASSUME RecoveryInv, NEW c \in Reconcilers, PassAborted(c)
    PROVE  RecoveryInv'
<1>1. TypeOK /\ SuccessAgrees
  BY DEF RecoveryInv, RecoveryTypeOK
<1> QED
  BY <1>1, PassWrites, ScanNames, PassState, ThisState, MishapWrites
     DEF PassAborted

----------------------------------------------------------------------------
(* The theorems.                                                           *)

LEMMA RecoveryInvInit == RecoveryInit => RecoveryInv
<1> SUFFICES ASSUME RecoveryInit PROVE RecoveryInv
  OBVIOUS
<1>1. NoRow \in Rows /\ NoRow.status = "ABSENT"
  BY DEF NoRow, Rows, Statuses, Reasons
<1>2. IdleWorker \in WorkerStates
  BY Names DEF IdleWorker, WorkerStates
<1>3. /\ worker \in [Workers -> WorkerStates]
      /\ operator \in [Operators -> OperatorPCs]
  BY <1>2, Names DEF RecoveryInit, Init
<1>4. mishaps \in 0 .. MaxMishaps
  BY MishapsAssumption DEF RecoveryInit, Init
<1>5. TypeOK /\ SuccessAgrees
  BY <1>1, <1>3, <1>4 DEF RecoveryInit, Init, TypeOK, SuccessAgrees
<1>6. reconciler = [c \in Reconcilers |-> Resting]
  BY DEF RecoveryInit
<1>7. Resting \in [pc : ReconcilerPCs, seen : Scans] /\ Resting.seen = NoScan
  BY ScanNames DEF Resting
<1> QED
  BY <1>5, <1>6, <1>7, ScanNames DEF RecoveryInv, RecoveryTypeOK, ScansAgree

LEMMA RecoveryInvStep == RecoveryInv /\ [RecoveryNext]_recoveryVars => RecoveryInv'
<1> SUFFICES ASSUME RecoveryInv, [RecoveryNext]_recoveryVars
             PROVE  RecoveryInv'
  OBVIOUS
<1>1. CASE Next /\ UNCHANGED reconciler
  BY <1>1, KeptNext DEF RecoveryInv, RecoveryTypeOK, ScansAgree
<1>2. ASSUME NEW c \in Reconcilers, PassStep(c) \/ PassAborted(c)
      PROVE  RecoveryInv'
  BY <1>2, KeptRecoverExpired, KeptSelectOverdue, KeptExpireOverdue, KeptScan,
     KeptReconcile, KeptPassAborted DEF PassStep
<1>3. CASE UNCHANGED recoveryVars
  BY <1>3 DEF recoveryVars, vars, RecoveryInv, RecoveryTypeOK, TypeOK,
              SuccessAgrees, ScansAgree
<1> QED
  BY <1>1, <1>2, <1>3 DEF RecoveryNext

\* Every reachable state, that of a pass with its old pair included, satisfies
\* the invariant.
THEOREM RecoveryInvCorrect == RecoverySpec => []RecoveryInv
BY RecoveryInvInit, RecoveryInvStep, PTL DEF RecoverySpec

\* Run, task, slots, operators and scans are always what they should be.
THEOREM RecoveryTypeCorrect == RecoverySpec => []RecoveryTypeOK
<1>1. RecoveryInv => RecoveryTypeOK
  BY DEF RecoveryInv
<1> QED
  BY <1>1, RecoveryInvCorrect, PTL

\* The pairs recovery calls INCONSISTENT are impossible: in no interleaving
\* of settles, cancels, approvals, expiries and stale reconciliations is one
\* of run and task a success without the other.
THEOREM SuccessAgreesCorrect == RecoverySpec => []SuccessAgrees
<1>1. RecoveryInv => SuccessAgrees
  BY DEF RecoveryInv
<1> QED
  BY <1>1, RecoveryInvCorrect, PTL
=============================================================================
