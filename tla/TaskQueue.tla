----------------------------- MODULE TaskQueue -----------------------------
(***************************************************************************)
(* The PostgreSQL task queue (runtime/queue/store.py) and the workers that *)
(* claim from it (TaskWorker of runtime/queue/worker.py, and the defer of  *)
(* AgentTaskWorker for a task without a managed run), one action per       *)
(* transaction or worker step.                                             *)
(*                                                                         *)
(* A worker acts on the row it was handed by claim(), never on the row as  *)
(* it is: between two of its steps the lease may lapse, another worker may *)
(* claim the task, an operator may cancel it.  A worker may die anywhere,  *)
(* and a commit may be lost on the way back, or not have happened at all.  *)
(***************************************************************************)
EXTENDS TaskRow

CONSTANTS Tasks,        \* task ids
          Workers,      \* execution slots: callers of TaskWorker.run_once
          MaxMishaps    \* bound: crashes, lost replies, missed heartbeats,
                        \* shutdowns and operator requeues of a behaviour

VARIABLES row,       \* the table queue_tasks
          issued,    \* leases drawn so far for each task
          worker,    \* what each slot is doing, on which task and lease
          told,      \* attempts whose worker was told "SUCCEEDED"
          mishaps    \* how much of MaxMishaps is spent

vars == <<row, issued, worker, told, mishaps>>

NoTask == "no task"
ASSUME NoTaskAssumption == NoTask \notin Tasks
ASSUME MaxMishapsAssumption == MaxMishaps \in Nat

PCs == {"idle", "claimed", "executing", "succeeding", "deferring", "failing"}

\* beating: the heartbeat thread runs; stopping: request_stop was called.
WorkerStates == [pc : PCs, task : Tasks \cup {NoTask}, lease : Nat,
                 attempt : Nat, beating : BOOLEAN, stopping : BOOLEAN]

Idle == [pc |-> "idle", task |-> NoTask, lease |-> NoLease, attempt |-> 0,
         beating |-> FALSE, stopping |-> FALSE]

TypeOK ==
    /\ row \in [Tasks -> Rows]
    /\ issued \in [Tasks -> Nat]
    /\ worker \in [Workers -> WorkerStates]
    /\ \A w \in Workers : worker[w].pc # "idle" => worker[w].task \in Tasks
    /\ told \in [Tasks -> SUBSET Nat]
    /\ mishaps \in 0 .. MaxMishaps

----------------------------------------------------------------------------
(* State predicates and the parts actions share.                           *)

At(w, pc) == worker[w].pc = pc

\* Slot w works on task t under the lease the row carries.
Owns(w, t) == /\ worker[w].pc # "idle"
              /\ worker[w].task = t
              /\ worker[w].lease = row[t].lease

\* Slot w could still settle task t: its lease is the row's and unexpired.
Authorised(w, t) == Owns(w, t) /\ row[t].expiry = "live"

Settled(t) == row[t].status \in {"SUCCEEDED", "FAILED", "CANCELLED"}

Become(w, state) == worker' = [worker EXCEPT ![w] = state]
GoTo(w, pc) == Become(w, [worker[w] EXCEPT !.pc = pc])

\* run_once returns: the slot is free, its heartbeat thread joined.
Return(w) == Become(w, [Idle EXCEPT !.stopping = worker[w].stopping])

SetRow(t, r) == row' = [row EXCEPT ![t] = r]

Mishap == mishaps < MaxMishaps /\ mishaps' = mishaps + 1

----------------------------------------------------------------------------
Init == /\ row = [t \in Tasks |-> NoRow]
        /\ issued = [t \in Tasks |-> 0]
        /\ worker = [w \in Workers |-> Idle]
        /\ told = [t \in Tasks |-> {}]
        /\ mishaps = 0

\* INSERT ... ON CONFLICT (task_id) DO NOTHING.
Enqueue(t) ==
    /\ SetRow(t, IF row[t].status = "ABSENT" THEN NewRow ELSE row[t])
    /\ UNCHANGED <<issued, worker, told, mishaps>>

\* model.new_lease_id: a lease id never used before.
\* Mutant: an id derived from the task is the same for every lease.
NewLeaseOfTask(t) == 1
NewLease(t) == issued[t] + 1

\* The claim statement.  SKIP LOCKED passes over a row another transaction
\* holds, so that any claimable row may be the one it returns.
ClaimRow(t) == /\ Claimable(row[t])
               /\ issued' = [issued EXCEPT ![t] = @ + 1]
               /\ SetRow(t, Leased(row[t], NewLease(t)))

Claim(w, t) ==
    /\ At(w, "idle") /\ ~worker[w].stopping
    /\ ClaimRow(t)
    /\ Become(w, [Idle EXCEPT !.pc = "claimed", !.task = t,
                              !.lease = NewLease(t),
                              !.attempt = row[t].attempt + 1])
    /\ UNCHANGED <<told, mishaps>>

\* The claim commits and its reply is lost: QueueError, nobody has the task.
ClaimReplyLost(t) ==
    /\ Mishap
    /\ ClaimRow(t)
    /\ UNCHANGED <<worker, told>>

----------------------------------------------------------------------------
(* One execution of TaskWorker._execute.                                   *)

\* Any refusal of start() means RECOVERY_REQUIRED: the slot gives up.
Start(w) ==
    LET s == worker[w]  IN
    /\ At(w, "claimed")
    /\ IF CanStart(row[s.task], s.lease)
       THEN /\ SetRow(s.task, Started(row[s.task]))
            /\ Become(w, [s EXCEPT !.pc = "executing", !.beating = TRUE])
       ELSE Return(w) /\ UNCHANGED row
    /\ UNCHANGED <<issued, told, mishaps>>

\* OutcomeUnknown: the slot gives up whether or not the write was made.
StartReplyLost(w) ==
    LET s == worker[w]  IN
    /\ At(w, "claimed")
    /\ Mishap
    /\ \/ CanStart(row[s.task], s.lease) /\ SetRow(s.task, Started(row[s.task]))
       \/ UNCHANGED row
    /\ Return(w)
    /\ UNCHANGED <<issued, told>>

\* The executor returns a result or {"__defer__": stage}, or raises.
Finish(w) ==
    /\ At(w, "executing")
    /\ \E pc \in {"succeeding", "deferring", "failing"} : GoTo(w, pc)
    /\ UNCHANGED <<row, issued, told, mishaps>>

\* store.succeed: DUPLICATE_SUCCESS, SUCCEEDED, or refused.  An
\* IllegalTransition falls through to the generic handler, which calls fail.
Succeed(w) ==
    LET s == worker[w]
        r == row[s.task]  IN
    /\ At(w, "succeeding")
    /\ IF r.status # "SUCCEEDED" /\ CanSettle(r, s.lease)
       THEN /\ SetRow(s.task, Succeeded(r, s.attempt))
            /\ told' = [told EXCEPT ![s.task] = @ \cup {s.attempt}]
            /\ Return(w)
       ELSE /\ IF r.status # "SUCCEEDED" /\ StateRefuses(r, s.lease)
               THEN GoTo(w, "failing")
               ELSE Return(w)
            /\ UNCHANGED <<row, told>>
    /\ UNCHANGED <<issued, mishaps>>

\* succeed() does not wrap its errors: a connection lost around the commit
\* is a plain exception, and the worker goes on to fail() the task.
SucceedReplyLost(w) ==
    LET s == worker[w]
        r == row[s.task]  IN
    /\ At(w, "succeeding")
    /\ Mishap
    /\ \/ CanSettle(r, s.lease) /\ SetRow(s.task, Succeeded(r, s.attempt))
       \/ UNCHANGED row
    /\ GoTo(w, "failing")
    /\ UNCHANGED <<issued, told>>

\* store.fail: DUPLICATE_SUCCESS, FAILED, requeued, or refused.
FailWith(w, reason, retry) ==
    LET s == worker[w]
        r == row[s.task]  IN
    /\ SetRow(s.task, IF r.status # "SUCCEEDED" /\ CanSettle(r, s.lease)
                      THEN FailedOrRequeued(r, reason, retry)
                      ELSE r)
    /\ UNCHANGED <<issued, told, mishaps>>

Fail(w) == At(w, "failing") /\ FailWith(w, "error", TRUE) /\ Return(w)

\* The pause at a human gate is a failure without retry; like succeed, it
\* falls through to the generic handler on an IllegalTransition.
Defer(w) ==
    LET s == worker[w]
        r == row[s.task]  IN
    /\ At(w, "deferring")
    /\ FailWith(w, "waiting", FALSE)
    /\ IF /\ r.status # "SUCCEEDED" /\ ~CanSettle(r, s.lease)
          /\ StateRefuses(r, s.lease)
       THEN GoTo(w, "failing")
       ELSE Return(w)

\* The settle of a failure is lost before it is made: RECOVERY_REQUIRED.
FailLost(w) ==
    /\ At(w, "failing")
    /\ Mishap
    /\ Return(w)
    /\ UNCHANGED <<row, issued, told>>

\* The heartbeat thread extends the lease, or learns it is lost and ends; an
\* IllegalTransition it takes for a transient error.
Heartbeat(w) ==
    LET s == worker[w]  IN
    /\ s.beating
    /\ IF CanBeat(row[s.task], s.lease)
       THEN SetRow(s.task, Extended(row[s.task])) /\ UNCHANGED worker
       ELSE /\ Become(w, [s EXCEPT !.beating = StateRefuses(row[s.task], s.lease)])
            /\ UNCHANGED row
    /\ UNCHANGED <<issued, told, mishaps>>

\* shutdown_and_release: no further claims, and the task is handed back at
\* once.  A thread already executing it runs on to its settle.
Shutdown(w) ==
    LET s == worker[w]  IN
    /\ s.pc \in {"claimed", "executing"} /\ ~s.stopping
    /\ Mishap
    /\ SetRow(s.task, IF CanRelease(row[s.task], s.lease)
                      THEN Requeued(row[s.task]) ELSE row[s.task])
    /\ Become(w, IF s.pc = "claimed" THEN [Idle EXCEPT !.stopping = TRUE]
                                     ELSE [s EXCEPT !.stopping = TRUE])
    /\ UNCHANGED <<issued, told>>

\* A new instance takes the place of one that stopped.
Restart(w) ==
    /\ At(w, "idle") /\ worker[w].stopping
    /\ Become(w, Idle)
    /\ UNCHANGED <<row, issued, told, mishaps>>

Crash(w) ==
    /\ ~At(w, "idle")
    /\ Mishap
    /\ Become(w, Idle)
    /\ UNCHANGED <<row, issued, told>>

----------------------------------------------------------------------------
(* The database clock, recovery and the operator.                          *)

PassExpiry(t) == /\ row[t].expiry = "live"
                 /\ SetRow(t, [row[t] EXCEPT !.expiry = "past"])
                 /\ UNCHANGED <<issued, worker, told>>

\* Nobody extends the lease any more.
Lapse(t) == /\ ~ \E w \in Workers : Owns(w, t)
            /\ PassExpiry(t)
            /\ UNCHANGED mishaps

\* The owner is alive and too late: a stall, or the database out of reach.
LapseUnderOwner(t) == /\ \E w \in Workers : Owns(w, t)
                      /\ Mishap
                      /\ PassExpiry(t)

\* One statement over the whole table.
RecoverExpired ==
    /\ \E t \in Tasks : LeaseLapsed(row[t])
    /\ row' = [t \in Tasks |-> IF LeaseLapsed(row[t]) THEN Recovered(row[t])
                                                      ELSE row[t]]
    /\ UNCHANGED <<issued, worker, told, mishaps>>

\* Mutant: status = 'FAILED' is forgotten.
RequeueAny(t) == /\ row[t].status # "ABSENT"
                 /\ Mishap
                 /\ SetRow(t, Requeued(row[t]))
                 /\ UNCHANGED <<issued, worker, told>>

Requeue(t) == /\ row[t].status = "FAILED"
              /\ Mishap
              /\ SetRow(t, Requeued(row[t]))
              /\ UNCHANGED <<issued, worker, told>>

Cancel(t) == /\ row[t].status \in Cancellable
             /\ SetRow(t, Cancelled(row[t]))
             /\ UNCHANGED <<issued, worker, told, mishaps>>

----------------------------------------------------------------------------
WorkerStep(w) == \/ Start(w) \/ Finish(w) \/ Succeed(w) \/ Defer(w) \/ Fail(w)
                 \/ Restart(w) \/ \E t \in Tasks : Claim(w, t)

WorkerMishap(w) == \/ StartReplyLost(w) \/ SucceedReplyLost(w) \/ FailLost(w)
                   \/ Shutdown(w) \/ Crash(w)

Next == \/ \E w \in Workers : WorkerStep(w) \/ WorkerMishap(w) \/ Heartbeat(w)
        \/ \E t \in Tasks : \/ Enqueue(t) \/ ClaimReplyLost(t)
                            \/ Lapse(t) \/ LapseUnderOwner(t)
                            \/ Requeue(t) \/ Cancel(t)
        \/ RecoverExpired

Spec == Init /\ [][Next]_vars

\* Workers poll (run_until_empty), executors return, time passes.  Nobody
\* need call recover_expired, requeue or cancel.
Fairness == /\ \A w \in Workers : WF_vars(WorkerStep(w))
            /\ \A t \in Tasks : WF_vars(Lapse(t))

FairSpec == Spec /\ Fairness

----------------------------------------------------------------------------
(* Properties.                                                             *)

\* The result a SUCCEEDED row holds was produced by the newest attempt: a
\* worker overtaken by a later claim never gets its result in (succeed's
\* lease guard, against claim, recovery and release in any order).
ResultOfNewestAttempt ==
    \A t \in Tasks :
        IF row[t].status = "SUCCEEDED"
        THEN row[t].result = row[t].attempt /\ row[t].attempt > 0
        ELSE row[t].result = NoResult

\* A row in flight carries a lease and an expiry.  Were the expiry NULL,
\* neither claim nor recover_expired would ever match the row, and a task
\* whose worker died would be stuck; nor does a queued row keep a lease, or
\* its former owner could still act on it.
RecoverableInFlight ==
    \A t \in Tasks :
        /\ row[t].status \in InFlight => /\ row[t].lease = issued[t]
                                         /\ row[t].expiry # "null"
        /\ row[t].status = "PENDING" => row[t].lease = NoLease

\* However claims, expiries and recoveries interleave, at most one slot can
\* still write a given task.
OneWriter ==
    \A t \in Tasks : \A v, w \in Workers :
        Authorised(v, t) /\ Authorised(w, t) => v = w

\* Once a worker was told SUCCEEDED, that very result is what the table
\* holds, for good: not a later attempt's, and not lost to a cancel.
ToldSuccessStands ==
    \A t \in Tasks : \A a \in told[t] :
        row[t].status = "SUCCEEDED" /\ row[t].result = a

\* An unexpired lease of a task in flight ends only in a step of the worker
\* that holds it: no claim and no recovery takes it away.
LiveLeaseHonoured ==
    [][\A t \in Tasks :
          /\ row[t].status \in InFlight /\ row[t].expiry = "live"
          /\ row'[t].lease # row[t].lease
          => \E w \in Workers : Owns(w, t) /\ worker'[w] # worker[w]]_vars

\* A lease that has expired stays expired (26A-11): a late heartbeat cannot
\* take back a task that is already open to the next claim.
ExpiryIsFinal ==
    [][\A t \in Tasks :
          row[t].expiry = "past" /\ row'[t].lease = row[t].lease
          => row'[t].expiry = "past"]_vars

\* The queue keeps the contract: at-least-once execution, one accepted
\* result, terminal for good.
Contract == INSTANCE TaskContract WITH
    phase <- [t \in Tasks |-> CASE row[t].status = "SUCCEEDED" -> "done"
                                [] row[t].status = "CANCELLED" -> "cancelled"
                                [] OTHER -> "open"],
    attempts <- [t \in Tasks |-> row[t].attempt],
    accepted <- [t \in Tasks |-> row[t].result]
KeepsContract == Contract!Spec

\* A task in the queue is eventually settled ("a task is never silently
\* lost"), whoever dies on the way and though nobody runs the recovery.
EveryTaskSettles ==
    \A t \in Tasks :
        row[t].status \in InFlight \cup {"PENDING"} ~> Settled(t)

\* model.py: "from -> {allowed to}; enforced by TaskQueueStore
\* compare-and-set".
TransitionTableHolds ==
    [][\A t \in Tasks :
          row[t].status \in DOMAIN Transitions /\ row'[t].status # row[t].status
          => row'[t].status \in Transitions[row[t].status]]_vars
=============================================================================
