------------------------------ MODULE Recovery ------------------------------
(***************************************************************************)
(* RecoveryController.reconcile_once (runtime/queue/recovery.py) beside    *)
(* the live system of RunControl: it recovers expired leases, expires      *)
(* overdue runs, then reads run and task together and acts on what it      *)
(* read.  Every one of these is a transaction of its own, so that workers  *)
(* and operators move between any two of them.                             *)
(***************************************************************************)
EXTENDS RunControl

CONSTANT Reconcilers    \* callers of reconcile_once

VARIABLE reconciler     \* how far each pass is, and the row it read

recoveryVars == <<vars, reconciler>>

ReconcilerPCs == {"idle", "select overdue", "expire", "scan", "reconcile"}

\* What the scan's SELECT returns for the run: no row, or the pair.
NoScan == [run |-> "NONE", status |-> "ABSENT", waiting |-> FALSE]
Scans == [run : RunStates \cup {"NONE"}, status : Statuses \cup {"ABSENT"},
          waiting : BOOLEAN]
Pair(r, t) == [run |-> r, status |-> t.status, waiting |-> t.reason = "waiting"]
Resting == [pc |-> "idle", seen |-> NoScan]

RecoveryTypeOK ==
    /\ TypeOK
    /\ reconciler \in [Reconcilers -> [pc : ReconcilerPCs, seen : Scans]]

----------------------------------------------------------------------------
(* The classification, a function of the pair that was read.               *)

\* Mutant: a run follows its task while that is in flight, too.
RunFollowsAlways(seen) == seen.run \in NonTerminal

\* A run that is not over follows its task, which is over or waiting.
RunFollows(seen) ==
    seen.run \in NonTerminal /\ seen.status \in {"SUCCEEDED", "FAILED", "CANCELLED"}

RunTarget(seen) ==
    IF seen.status = "FAILED" /\ seen.waiting THEN "WAITING_HUMAN"
                                              ELSE seen.status

\* Mutants: the task that executes, or the task that waits, is forgotten.
TaskFollowsUnlessRunning(seen) ==
    /\ seen.run \in RunTerminal \ {"SUCCEEDED"}
    /\ seen.status \in {"PENDING", "LEASED", "FAILED"}
TaskFollowsUnlessQueued(seen) ==
    /\ seen.run \in RunTerminal \ {"SUCCEEDED"}
    /\ seen.status \in {"LEASED", "RUNNING", "FAILED"}

\* A run that is over, unless it succeeded, takes its open task with it.
TaskFollows(seen) ==
    /\ seen.run \in RunTerminal \ {"SUCCEEDED"}
    /\ seen.status \in {"PENDING", "LEASED", "RUNNING", "FAILED"}

\* _classify_and_reconcile, on the row read by the scan: what it makes of a
\* run state r and a task row t.
ReconciledRun(seen, r) ==
    IF RunFollows(seen) THEN Cas(r, NonTerminal, RunTarget(seen)) ELSE r

ReconciledTask(seen, t) ==
    IF TaskFollows(seen) /\ t.status \in {"PENDING", "LEASED", "RUNNING", "FAILED"}
    THEN [Cancelled(t) EXCEPT !.reason = "run_terminal"]
    ELSE t

----------------------------------------------------------------------------
RecAt(c, pc) == reconciler[c].pc = pc
RecGoTo(c, pc, seen) ==
    reconciler' = [reconciler EXCEPT ![c] = [pc |-> pc, seen |-> seen]]

RecoveredIn(t) == IF LeaseLapsed(t) THEN Recovered(t) ELSE t

RecoverExpired(c) ==
    /\ RecAt(c, "idle")
    /\ task' = RecoveredIn(task)
    /\ RecGoTo(c, "select overdue", NoScan)
    /\ UNCHANGED <<run, issued, overdue, over, worker, operator, mishaps>>

\* Mutant: runs that wait for a human are not looked at.
SelectOverdueActive(c) ==
    /\ RecAt(c, "select overdue")
    /\ RecGoTo(c, IF run \in {"QUEUED", "RUNNING"} /\ overdue
                  THEN "expire" ELSE "scan", NoScan)
    /\ UNCHANGED vars

\* expire_overdue selects first, and expires row by row afterwards.
SelectOverdue(c) ==
    /\ RecAt(c, "select overdue")
    /\ RecGoTo(c, IF run \in NonTerminal /\ overdue THEN "expire" ELSE "scan",
               NoScan)
    /\ UNCHANGED vars

ExpireOverdue(c) ==
    /\ RecAt(c, "expire")
    /\ ExpireInTx
    /\ RecGoTo(c, "scan", NoScan)
    /\ UNCHANGED <<issued, overdue, over, worker, operator, mishaps>>

\* The inner join returns no row for a run whose task was never enqueued.
Scan(c) ==
    /\ RecAt(c, "scan")
    /\ IF run = "NONE" \/ task.status = "ABSENT"
       THEN RecGoTo(c, "idle", NoScan)
       ELSE RecGoTo(c, "reconcile", Pair(run, task))
    /\ UNCHANGED vars

Reconcile(c) ==
    /\ RecAt(c, "reconcile")
    /\ run' = ReconciledRun(reconciler[c].seen, run)
    /\ task' = ReconciledTask(reconciler[c].seen, task)
    /\ RecGoTo(c, "idle", NoScan)
    /\ UNCHANGED <<issued, overdue, over, worker, operator, mishaps>>

\* A database failure propagates, or the process dies: the pass ends here.
PassAborted(c) ==
    /\ ~RecAt(c, "idle")
    /\ Mishap
    /\ RecGoTo(c, "idle", NoScan)
    /\ UNCHANGED <<run, task, issued, overdue, over, worker, operator>>

----------------------------------------------------------------------------
RecoveryInit == Init /\ reconciler = [c \in Reconcilers |-> Resting]

PassStep(c) == \/ RecoverExpired(c) \/ SelectOverdue(c) \/ ExpireOverdue(c)
               \/ Scan(c) \/ Reconcile(c)

RecoveryNext == \/ Next /\ UNCHANGED reconciler
                \/ \E c \in Reconcilers : PassStep(c) \/ PassAborted(c)

RecoverySpec == RecoveryInit /\ [][RecoveryNext]_recoveryVars

\* The clock runs, and whoever calls reconcile_once keeps calling it ("any DB
\* failure propagates ... re-running is idempotent").  Nothing is asked of
\* workers, submitters or operators.
RecoveryFairness == /\ WF_recoveryVars(DeadlinePasses /\ UNCHANGED reconciler)
                    /\ \A c \in Reconcilers : WF_recoveryVars(PassStep(c))

FairRecoverySpec == RecoverySpec /\ RecoveryFairness

----------------------------------------------------------------------------
(* Properties.                                                             *)

\* Run and task never disagree about success: either both hold it or
\* neither does, through every settle, cancel, expiry and stale scan (the
\* pairs recovery calls INCONSISTENT, "impossible via API").
SuccessAgrees == run = "SUCCEEDED" <=> task.status = "SUCCEEDED"

\* The run keeps the contract: one outcome for good, a success only for a
\* completion presented in time and with its result, a timeout only after
\* the deadline.
RunPromise == INSTANCE RunContract WITH
    outcome <- IF run \in RunTerminal THEN run ELSE "open",
    late <- overdue,
    offered <- \E w \in Workers : At(w, "accept") /\ worker[w].began = "in time",
    result <- task.result
KeepsRunContract == RunPromise!Spec

\* Under run control the task still keeps the queue's contract.
TaskPromise == INSTANCE TaskContract WITH
    Tasks <- {"the task"},
    phase <- [t \in {"the task"} |->
                CASE task.status = "SUCCEEDED" -> "done"
                  [] task.status = "CANCELLED" -> "cancelled"
                  [] OTHER -> "open"],
    attempts <- [t \in {"the task"} |-> task.attempt],
    accepted <- [t \in {"the task"} |-> task.result]
KeepsTaskContract == TaskPromise!Spec

\* One pass with nobody in its way leaves no contradiction, whatever state
\* the crashes and races before it left: a run that is over has no open
\* task but a FAILED one, and a task that is over has no open run.
OnePassReconciles ==
    LET r1 == IF overdue THEN Cas(run, NonTerminal, "TIMED_OUT") ELSE run
        t1 == IF run \in NonTerminal /\ overdue
              THEN CancelledIn(RecoveredIn(task), "deadline")
              ELSE RecoveredIn(task)
        r2 == ReconciledRun(Pair(r1, t1), r1)
        t2 == ReconciledTask(Pair(r1, t1), t1)
    IN  run # "NONE" /\ task.status # "ABSENT" =>
            /\ r2 \in RunTerminal => t2.status \in TaskTerminal \cup {"FAILED"}
            /\ t2.status \in TaskTerminal => r2 \in RunTerminal
            /\ ~LeaseLapsed(t2)

\* No run outlives its deadline for ever, though no worker, submitter or
\* operator ever moves again.
DeadlineEndsRun == run # "NONE" ~> run \in RunTerminal

\* The task of a run that is over is closed too: it does not stay claimable,
\* to be claimed and handed back for ever.
TaskEndsWithRun ==
    run \in RunTerminal /\ task.status # "ABSENT" ~> task.status \in TaskTerminal

\* RUN_TRANSITIONS, "the run state machine".
RunTableHolds ==
    [][/\ run \in RunStates
       /\ run' # run
       => run' \in RunTransitions[run]]_recoveryVars

\* run_control.py:334 on the branch that throws a completed result away:
\* "run already terminal (cancel raced in)".
SupersededByTerminalRun ==
    [][task'.reason = "superseded" /\ task.reason # "superseded"
       => run \in RunTerminal]_recoveryVars

\* run_control.py:33, the one-transaction rule: "every transition that changes
\* a run's terminal fate writes run + task in the SAME PostgreSQL transaction
\* (both CAS, affected-rows checked)": a step that ends the run leaves its
\* task ended too.
OneTransactionRule ==
    [][/\ run \notin RunTerminal
       /\ run' \in RunTerminal
       => task'.status \in TaskTerminal \cup {"FAILED", "ABSENT"}]_recoveryVars
=============================================================================
