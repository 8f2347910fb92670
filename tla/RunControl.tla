----------------------------- MODULE RunControl -----------------------------
(***************************************************************************)
(* One managed agent run: its row of agent_runs (runtime/queue/            *)
(* run_control.py), the queue task that carries it out, the workers that   *)
(* execute that task (AgentTaskWorker of agent_runtime.py) and the people  *)
(* who cancel, approve or reject it (QueueOps of ops.py).                  *)
(*                                                                         *)
(* Every statement of the code is keyed by one run_id or one task_id, and  *)
(* a run has one task (task_id is UNIQUE in agent_runs), so that runs do   *)
(* not touch one another and one of them stands for all.                   *)
(*                                                                         *)
(* An action is one transaction, or one read, of one actor.  What an actor *)
(* read earlier is in its state, and may be stale when it acts.            *)
(***************************************************************************)
EXTENDS TaskRow

CONSTANTS Workers,      \* execution slots of AgentTaskWorkers
          Operators,    \* callers of QueueOps
          Budgeted,     \* a hard RunBudget is attached to the run
          MaxClaims,    \* bound: claims of the task
          MaxMishaps    \* bound: crashes, lost replies, missed heartbeats

ASSUME MaxClaimsAssumption == MaxClaims \in Nat
ASSUME BudgetedAssumption == Budgeted \in BOOLEAN
ASSUME MishapsAssumption == MaxMishaps \in Nat

VARIABLES run,        \* agent_runs.state, "NONE" before the insert
          task,       \* the run's row of queue_tasks
          issued,     \* leases drawn so far for the task
          overdue,    \* the database clock is past deadline_at
          over,       \* the run's settled usage is beyond a hard limit
          worker,     \* what each slot is doing, under which lease
          operator,   \* where each operator's approve or reject stands
          mishaps     \* how much of MaxMishaps is spent

vars == <<run, task, issued, overdue, over, worker, operator, mishaps>>

RunTerminal == {"SUCCEEDED", "FAILED", "TIMED_OUT", "CANCELLED"}
NonTerminal == {"QUEUED", "RUNNING", "WAITING_HUMAN", "CANCEL_REQUESTED"}
RunStates == RunTerminal \cup NonTerminal

\* The table RUN_TRANSITIONS.
RunTransitions ==
    [QUEUED           |-> {"RUNNING", "CANCEL_REQUESTED", "TIMED_OUT",
                           "CANCELLED"},
     RUNNING          |-> {"WAITING_HUMAN", "SUCCEEDED", "FAILED", "TIMED_OUT",
                           "CANCEL_REQUESTED", "CANCELLED"},
     WAITING_HUMAN    |-> {"RUNNING", "TIMED_OUT", "CANCEL_REQUESTED",
                           "CANCELLED"},
     CANCEL_REQUESTED |-> {"CANCELLED", "TIMED_OUT"},
     SUCCEEDED        |-> {},
     FAILED           |-> {},
     TIMED_OUT        |-> {},
     CANCELLED        |-> {}]

\* Where a slot is in AgentTaskWorker._execute.
WorkerPCs == {"idle", "claimed", "gate", "give back", "expire", "budget stop",
              "start", "started", "executing", "succeeding", "accept",
              "over budget", "deferring", "failing"}
\* now() is when a transaction began.  settle_success compares it with the
\* lease's expiry and the run's deadline after calls that take their time,
\* so that what it compares is as of its beginning.
Beginnings == {"not begun", "lease lapsed", "in time", "late"}
WorkerStates == [pc : WorkerPCs, lease : Nat, attempt : Nat, beating : BOOLEAN,
                 began : Beginnings]
IdleWorker == [pc |-> "idle", lease |-> NoLease, attempt |-> 0,
               beating |-> FALSE, began |-> "not begun"]

\* Where an operator is in approve_and_resume or reject.
OperatorPCs == {"idle", "budget", "gate", "requeue", "reject"}

TypeOK ==
    /\ run \in RunStates \cup {"NONE"}
    /\ task \in Rows
    /\ issued \in Nat
    /\ overdue \in BOOLEAN
    /\ over \in BOOLEAN
    /\ worker \in [Workers -> WorkerStates]
    /\ operator \in [Operators -> OperatorPCs]
    /\ mishaps \in 0 .. MaxMishaps

----------------------------------------------------------------------------
(* The parts transactions share.                                           *)

At(w, pc) == worker[w].pc = pc
Become(w, state) == worker' = [worker EXCEPT ![w] = state]
GoTo(w, pc) == Become(w, [worker[w] EXCEPT !.pc = pc])
Return(w) == Become(w, IdleWorker)

OpAt(o, pc) == operator[o] = pc
OpGoTo(o, pc) == operator' = [operator EXCEPT ![o] = pc]

Mishap == mishaps < MaxMishaps /\ mishaps' = mishaps + 1

\* UPDATE agent_runs SET state = to WHERE state IN from: the state after it.
Cas(r, from, to) == IF r \in from THEN to ELSE r
RunCas(from, to) == run' = Cas(run, from, to)

\* UPDATE queue_tasks SET status = 'CANCELLED' WHERE status IN (...).
CancelledIn(t, reason) ==
    IF t.status \in Cancellable
    THEN [Cancelled(t) EXCEPT !.reason = reason] ELSE t

\* _expire_in_tx: task and run in one transaction, each guarded by its own
\* state only.
ExpireInTx == /\ task' = CancelledIn(task, "deadline")
              /\ RunCas(NonTerminal, "TIMED_OUT")

\* RunBudget.settle adds this attempt's usage, in a transaction of its own;
\* only growth matters to the gates, and usage never shrinks.
Spend == over' \in (IF Budgeted THEN {over, TRUE} ELSE {FALSE})

TaskWaiting == task.status = "FAILED" /\ task.reason = "waiting"

----------------------------------------------------------------------------
(* Submission, and the clock.                                              *)

Init == /\ run = "NONE"
        /\ task = NoRow
        /\ issued = 0
        /\ overdue = FALSE
        /\ over = FALSE
        /\ worker = [w \in Workers |-> IdleWorker]
        /\ operator = [o \in Operators |-> "idle"]
        /\ mishaps = 0

\* submit_run, first transaction: the run row with its absolute deadline.
InsertRun ==
    /\ run = "NONE"
    /\ run' = "QUEUED"
    /\ UNCHANGED <<task, issued, overdue, over, worker, operator, mishaps>>

\* submit_run, second transaction.  The submitter may die before it; a
\* repeated submit_run finds the run and still enqueues the task.
EnqueueTask ==
    /\ run # "NONE"
    /\ task.status = "ABSENT"
    /\ task' = NewRow
    /\ UNCHANGED <<run, issued, overdue, over, worker, operator, mishaps>>

DeadlinePasses ==
    /\ run # "NONE" /\ ~overdue
    /\ overdue' = TRUE
    /\ UNCHANGED <<run, task, issued, over, worker, operator, mishaps>>

----------------------------------------------------------------------------
(* A worker's execution: AgentTaskWorker._execute under run control.       *)

ClaimTask(w) ==
    /\ At(w, "idle")
    /\ Claimable(task)
    /\ issued < MaxClaims
    /\ issued' = issued + 1
    /\ task' = Leased(task, issued + 1)
    /\ Become(w, [IdleWorker EXCEPT !.pc = "claimed", !.lease = issued + 1,
                                    !.attempt = task.attempt + 1])
    /\ UNCHANGED <<run, overdue, over, operator, mishaps>>

\* pre_start reads the run row ...
PreStart(w) ==
    /\ At(w, "claimed")
    /\ GoTo(w, IF run \in RunTerminal THEN "give back" ELSE "gate")
    /\ UNCHANGED <<run, task, issued, overdue, over, operator, mishaps>>

\* ... then compares its deadline with the clock, then checks the budget.
PreStartGate(w) ==
    /\ At(w, "gate")
    /\ GoTo(w, IF overdue THEN "expire"
               ELSE IF over THEN "budget stop" ELSE "start")
    /\ UNCHANGED <<run, task, issued, overdue, over, operator, mishaps>>

\* The run is over: store.release, which puts the task back in the queue.
GiveBack(w) ==
    /\ At(w, "give back")
    /\ task' = IF CanRelease(task, worker[w].lease) THEN Requeued(task) ELSE task
    /\ Return(w)
    /\ UNCHANGED <<run, issued, overdue, over, operator, mishaps>>

ExpireBeforeStart(w) ==
    /\ At(w, "expire")
    /\ ExpireInTx
    /\ Return(w)
    /\ UNCHANGED <<issued, overdue, over, operator, mishaps>>

\* _budget_stop.
BudgetStop(w) ==
    /\ At(w, "budget stop")
    /\ task' = CancelledIn(task, "budget")
    /\ RunCas(NonTerminal, "FAILED")
    /\ Return(w)
    /\ UNCHANGED <<issued, overdue, over, operator, mishaps>>

StartTask(w) ==
    /\ At(w, "start")
    /\ IF CanStart(task, worker[w].lease)
       THEN task' = Started(task) /\ GoTo(w, "started")
       ELSE Return(w) /\ UNCHANGED task
    /\ UNCHANGED <<run, issued, overdue, over, operator, mishaps>>

\* Mutant: the start does not ask whether the run is over.
OnStartedAnyway(w) ==
    /\ At(w, "started")
    /\ RunCas(RunStates, "RUNNING")
    /\ Become(w, [worker[w] EXCEPT !.pc = "executing", !.beating = TRUE])
    /\ UNCHANGED <<task, issued, overdue, over, operator, mishaps>>

\* on_started: a miss is tolerated.
OnStarted(w) ==
    /\ At(w, "started")
    /\ RunCas({"QUEUED", "RUNNING"}, "RUNNING")
    /\ Become(w, [worker[w] EXCEPT !.pc = "executing", !.beating = TRUE])
    /\ UNCHANGED <<task, issued, overdue, over, operator, mishaps>>

\* The executor returns a report or {"__defer__": stage}, or raises.
Finish(w) ==
    /\ At(w, "executing")
    /\ \E pc \in {"succeeding", "deferring", "failing"} : GoTo(w, pc)
    /\ UNCHANGED <<run, task, issued, overdue, over, operator, mishaps>>

\* The heartbeat thread extends the lease, or learns it is lost and ends; an
\* IllegalTransition it takes for a transient error.
Heartbeat(w) ==
    LET s == worker[w]  IN
    /\ s.beating
    /\ IF CanBeat(task, s.lease)
       THEN task' = Extended(task) /\ UNCHANGED worker
       ELSE /\ Become(w, [s EXCEPT !.beating = StateRefuses(task, s.lease)])
            /\ UNCHANGED task
    /\ UNCHANGED <<run, issued, overdue, over, operator, mishaps>>

----------------------------------------------------------------------------
(* The settles.                                                            *)

\* settle_success reads the task's status, then settles and checks the
\* budget over connections of their own: what it holds is no lock.
ReadAndCharge(w) ==
    LET s == worker[w]  IN
    /\ At(w, "succeeding")
    /\ IF task.status # "RUNNING"
       THEN Return(w) /\ UNCHANGED over
       ELSE /\ Spend
            /\ Become(w, [s EXCEPT
                  !.pc = IF over' THEN "over budget" ELSE "accept",
                  !.began = IF ~HoldsLease(task, s.lease) THEN "lease lapsed"
                            ELSE IF overdue THEN "late" ELSE "in time"])
    /\ UNCHANGED <<run, task, issued, overdue, operator, mishaps>>

\* The lease was unexpired when the settle began, and nobody took it since.
CanAccept(w) == /\ worker[w].began # "lease lapsed"
                /\ task.status = "RUNNING"
                /\ task.lease = worker[w].lease

\* Mutant: past the deadline the run is timed out, the task's success stays.
AcceptWritesKeepingSuccess(w) ==
    LET done == Succeeded(task, worker[w].attempt)
        late == worker[w].began = "late"  IN
    IF run \in {"QUEUED", "RUNNING", "CANCEL_REQUESTED"} /\ ~late
    THEN task' = done /\ run' = "SUCCEEDED"
    ELSE IF late
    THEN task' = done /\ RunCas(NonTerminal, "TIMED_OUT")
    ELSE /\ task' = [Failed(done, "superseded") EXCEPT !.result = NoResult]
         /\ UNCHANGED run

\* The task's success and the run's, in one transaction; where the run
\* refuses, the success is turned into a failure in that transaction.
AcceptWrites(w) ==
    LET done == Succeeded(task, worker[w].attempt)
        late == worker[w].began = "late"  IN
    IF run \in {"QUEUED", "RUNNING", "CANCEL_REQUESTED"} /\ ~late
    THEN task' = done /\ run' = "SUCCEEDED"
    ELSE IF late
    THEN /\ task' = [Failed(done, "deadline") EXCEPT !.result = NoResult]
         /\ RunCas(NonTerminal, "TIMED_OUT")
    ELSE /\ task' = [Failed(done, "superseded") EXCEPT !.result = NoResult]
         /\ UNCHANGED run

SettleSuccess(w) ==
    /\ At(w, "accept")
    /\ IF CanAccept(w) THEN AcceptWrites(w) ELSE UNCHANGED <<run, task>>
    /\ Return(w)
    /\ UNCHANGED <<issued, overdue, over, operator, mishaps>>

\* The connection is lost around the commit: a plain exception, which the
\* worker answers with settle_failure.
SettleSuccessLost(w) ==
    /\ Mishap
    /\ \/ At(w, "accept") /\ CanAccept(w) /\ AcceptWrites(w)
       \/ worker[w].pc \in {"accept", "over budget"} /\ UNCHANGED <<run, task>>
    /\ Become(w, [worker[w] EXCEPT !.pc = "failing", !.began = "not begun"])
    /\ UNCHANGED <<issued, overdue, over, operator>>

\* The completion is over budget: the statement asks for the lease but not
\* for its expiry, and the run fails whether or not it matched.
SettleOverBudget(w) ==
    /\ At(w, "over budget")
    /\ task' = IF task.lease = worker[w].lease /\ task.status = "RUNNING"
               THEN [Failed(task, "budget") EXCEPT !.result = NoResult]
               ELSE task
    /\ RunCas(NonTerminal, "FAILED")
    /\ Return(w)
    /\ UNCHANGED <<issued, overdue, over, operator, mishaps>>

\* settle_defer: a pause at a human gate.
SettleDefer(w) ==
    /\ At(w, "deferring")
    /\ IF CanSettle(task, worker[w].lease)
       THEN /\ task' = Failed(task, "waiting")
            /\ RunCas({"QUEUED", "RUNNING", "WAITING_HUMAN"}, "WAITING_HUMAN")
            /\ Spend
       ELSE UNCHANGED <<run, task, over>>
    /\ Return(w)
    /\ UNCHANGED <<issued, overdue, operator, mishaps>>

\* The charge is made, the deferral is not, and settle_failure follows.
SettleDeferLost(w) ==
    /\ At(w, "deferring")
    /\ Mishap
    /\ CanSettle(task, worker[w].lease)
    /\ Spend
    /\ GoTo(w, "failing")
    /\ UNCHANGED <<run, task, issued, overdue, operator>>

\* settle_failure.  The retry's budget check counts one attempt more, so it
\* may refuse before the run is over budget.
SettleFailure(w) ==
    /\ At(w, "failing")
    /\ IF task.status # "SUCCEEDED" /\ CanSettle(task, worker[w].lease)
       THEN /\ Spend
            /\ \E stop \in (IF Budgeted THEN {over', TRUE} ELSE {FALSE}) :
                  LET retry == ~stop /\ ~overdue /\ task.attempt < MaxAttempts
                  IN  IF retry
                      THEN task' = Requeued(Failed(task, "error"))
                           /\ UNCHANGED run
                      ELSE IF stop
                      THEN /\ task' = Failed(task, "error")
                           /\ RunCas(NonTerminal, "FAILED")
                      ELSE IF overdue
                      THEN /\ task' = CancelledIn(Failed(task, "error"),
                                                  "deadline")
                           /\ RunCas(NonTerminal, "TIMED_OUT")
                      ELSE /\ task' = Failed(task, "error")
                           /\ RunCas(NonTerminal, "FAILED")
       ELSE UNCHANGED <<run, task, over>>
    /\ Return(w)
    /\ UNCHANGED <<issued, overdue, operator, mishaps>>

\* The charge is made, the failure is not: RECOVERY_REQUIRED.
SettleFailureLost(w) ==
    /\ At(w, "failing")
    /\ Mishap
    /\ CanSettle(task, worker[w].lease)
    /\ Spend
    /\ Return(w)
    /\ UNCHANGED <<run, task, issued, overdue, operator>>

----------------------------------------------------------------------------
(* Faults.                                                                 *)

\* The worker dies, or gives up with RECOVERY_REQUIRED.
Crash(w) ==
    /\ ~At(w, "idle")
    /\ Mishap
    /\ Return(w)
    /\ UNCHANGED <<run, task, issued, overdue, over, operator>>

Owned == \E w \in Workers : ~At(w, "idle") /\ worker[w].lease = task.lease

PassExpiry == /\ task.expiry = "live"
              /\ task' = [task EXCEPT !.expiry = "past"]
              /\ UNCHANGED <<run, issued, overdue, over, worker, operator>>

Lapse == ~Owned /\ PassExpiry /\ UNCHANGED mishaps
LapseUnderOwner == Owned /\ Mishap /\ PassExpiry

----------------------------------------------------------------------------
(* Operators.                                                              *)

RequestCancel ==
    /\ run \in {"QUEUED", "RUNNING", "WAITING_HUMAN"}
    /\ run' = "CANCEL_REQUESTED"
    /\ UNCHANGED <<task, issued, overdue, over, worker, operator, mishaps>>

\* QueueOps.cancel refuses an unknown task; cancel_run writes task and run in
\* one transaction, and syncs the run to a task that was over already.
HardCancel ==
    /\ task.status # "ABSENT"
    /\ task' = IF task.status \in Cancellable THEN Cancelled(task) ELSE task
    /\ RunCas(NonTerminal, IF task.status \in Cancellable THEN "CANCELLED"
                                                        ELSE task.status)
    /\ UNCHANGED <<issued, overdue, over, worker, operator, mishaps>>

\* approve_and_resume and reject both begin by reading the task.
ReadTask(o, next) ==
    /\ OpAt(o, "idle")
    /\ TaskWaiting
    /\ OpGoTo(o, next)
    /\ UNCHANGED <<run, task, issued, overdue, over, worker, mishaps>>

BeginApprove(o) == ReadTask(o, "budget")
BeginReject(o) == ReadTask(o, "reject")

\* approve_resume_gate: the budget first, in a transaction of its own; then
\* the run leaves WAITING_HUMAN, before its task leaves FAILED.  A run past
\* its deadline is timed out here, and its task left alone.
ApproveBudget(o) ==
    /\ OpAt(o, "budget")
    /\ OpGoTo(o, IF over THEN "idle" ELSE "gate")
    /\ UNCHANGED <<run, task, issued, overdue, over, worker, mishaps>>

ApproveGate(o) ==
    /\ OpAt(o, "gate")
    /\ IF run = "WAITING_HUMAN" /\ ~overdue
       THEN run' = "RUNNING" /\ OpGoTo(o, "requeue")
       ELSE /\ OpGoTo(o, "idle")
            /\ IF overdue THEN RunCas(NonTerminal, "TIMED_OUT")
                          ELSE UNCHANGED run
    /\ UNCHANGED <<task, issued, overdue, over, worker, mishaps>>

\* Mutant: the requeue does not ask for FAILED.
ApproveRequeueAny(o) ==
    /\ OpAt(o, "requeue")
    /\ task' = Requeued(task)
    /\ OpGoTo(o, "idle")
    /\ UNCHANGED <<run, issued, overdue, over, worker, mishaps>>

\* store.requeue asks for FAILED, whatever it has failed for since.
ApproveRequeue(o) ==
    /\ OpAt(o, "requeue")
    /\ task' = IF task.status = "FAILED" THEN Requeued(task) ELSE task
    /\ OpGoTo(o, "idle")
    /\ UNCHANGED <<run, issued, overdue, over, worker, mishaps>>

\* reject cancels the task and does not touch the run.
RejectCancel(o) ==
    /\ OpAt(o, "reject")
    /\ task' = IF task.status \in Cancellable THEN Cancelled(task) ELSE task
    /\ OpGoTo(o, "idle")
    /\ UNCHANGED <<run, issued, overdue, over, worker, mishaps>>

OperatorCrash(o) ==
    /\ ~OpAt(o, "idle")
    /\ Mishap
    /\ OpGoTo(o, "idle")
    /\ UNCHANGED <<run, task, issued, overdue, over, worker>>

----------------------------------------------------------------------------
ExecutionStep(w) ==
    \/ PreStart(w) \/ PreStartGate(w) \/ GiveBack(w) \/ ExpireBeforeStart(w)
    \/ BudgetStop(w) \/ StartTask(w) \/ OnStarted(w) \/ Finish(w)
    \/ ReadAndCharge(w) \/ SettleSuccess(w) \/ SettleOverBudget(w)
    \/ SettleDefer(w) \/ SettleFailure(w)

WorkerMishap(w) == \/ SettleSuccessLost(w) \/ SettleDeferLost(w)
                   \/ SettleFailureLost(w) \/ Crash(w)

OperatorStep(o) == \/ BeginApprove(o) \/ ApproveBudget(o) \/ ApproveGate(o)
                   \/ ApproveRequeue(o) \/ BeginReject(o) \/ RejectCancel(o)
                   \/ OperatorCrash(o)

Next == \/ InsertRun \/ EnqueueTask \/ DeadlinePasses
        \/ \E w \in Workers : \/ ClaimTask(w) \/ ExecutionStep(w)
                              \/ WorkerMishap(w) \/ Heartbeat(w)
        \/ Lapse \/ LapseUnderOwner
        \/ RequestCancel \/ HardCancel
        \/ \E o \in Operators : OperatorStep(o)

Spec == Init /\ [][Next]_vars
=============================================================================
