----------------------------- MODULE Replanning -----------------------------
(***************************************************************************)
(* run(), dynamic replanning and the approval gateway of the harness, with *)
(* ApprovalManager of runtime/approval: a project that met a dead end asks *)
(* the planner for another graph, the policy lets it in or asks a human,   *)
(* and resume_approval activates what the human approved.                  *)
(*                                                                         *)
(* The human answers in another process, at any time.  Retry commands come *)
(* while no run is under way: the process that carries them out loads and  *)
(* saves the whole project.                                                *)
(***************************************************************************)
EXTENDS Scheduler

CONSTANTS MaxReplans, \* replans a project may attempt
          MaxRetries  \* bound: RETRY_TASK commands

\* run() makes at most five scheduling rounds, one for each accepted replan.
ASSUME MaxReplansAssumption == MaxReplans \in 0..4
ASSUME MaxRetriesAssumption == MaxRetries \in Nat

VARIABLES status,    \* project.status
          revision,  \* current_graph_revision
          revisions, \* graph_revisions: [rev, graph, st, auto]
          replans,   \* the replan records: [st, approval]
          approvals, \* approvals.jsonl: [st, rev, graph]
          proposal,  \* the candidate graph of the replan under way
          resuming,  \* the approval resume_approval works on
          retries    \* how much of MaxRetries is spent

revVars == <<revision, revisions>>
planVars == <<status, revVars, replans, approvals, proposal, resuming, retries>>
vars == <<schedVars, planVars>>

NoApproval == 0
NoGraph == 0

ApprovalStatuses == {"PENDING", "WAITING_HUMAN", "APPROVED", "REJECTED",
                     "EXPIRED", "RESUMED"}

Init ==
    /\ SchedInit
    /\ status = "pending"
    /\ revision = 1
    /\ revisions = <<[rev |-> 1, graph |-> 1, st |-> "active", auto |-> TRUE]>>
    /\ replans = <<>>
    /\ approvals = <<>>
    /\ proposal = NoGraph
    /\ resuming = NoApproval
    /\ retries = 0

LastReplan(st) == [replans EXCEPT ![Len(replans)].st = st]

-----------------------------------------------------------------------------
(***************************************************************************)
(* Entering a run.                                                         *)
(***************************************************************************)

\* _recover_interrupted_replans: what the last process left in progress is
\* failed.
RecoveredReplans ==
    [i \in DOMAIN replans |-> IF replans[i].st = "in_progress"
                              THEN [replans[i] EXCEPT !.st = "failed"]
                              ELSE replans[i]]

\* run() up to and with _recover_interrupted_replans.
Run ==
    /\ pc \in {"off", "run"}
    /\ pc' = "sync"
    /\ mem' = disk
    /\ status' = "running"
    /\ replans' = RecoveredReplans
    /\ UNCHANGED <<tasks, graph, disk, roundVars, faultVars, revVars,
                   approvals, proposal, resuming, retries>>

Denied == {i \in DOMAIN approvals : approvals[i].st \in {"REJECTED", "EXPIRED"}}

\* _sync_resolved_approvals: replans are found by approval, revisions by
\* their number.
Sync ==
    /\ pc = "sync"
    /\ pc' = "gate"
    /\ replans' = [k \in DOMAIN replans |->
                      IF replans[k].st = "waiting_approval"
                         /\ replans[k].approval \in Denied
                      THEN [replans[k] EXCEPT !.st = "rejected"]
                      ELSE replans[k]]
    /\ revisions' = [k \in DOMAIN revisions |->
                        IF revisions[k].st = "pending_approval"
                           /\ \E i \in Denied : approvals[i].rev = revisions[k].rev
                        THEN [revisions[k] EXCEPT !.st = "rejected"]
                        ELSE revisions[k]]
    /\ UNCHANGED <<tasks, graph, disk, mem, roundVars, faultVars, status,
                   revision, approvals, proposal, resuming, retries>>

\* Mutant: an approved request no longer holds the project up.
WaitingForDecision ==
    {i \in DOMAIN approvals : approvals[i].st = "WAITING_HUMAN"}

\* _waiting_approvals.
Waiting ==
    {i \in DOMAIN approvals : approvals[i].st \in {"WAITING_HUMAN", "APPROVED"}}

\* A waiting approval: nothing is executed.
GateCloses ==
    /\ pc = "gate"
    /\ Waiting # {}
    /\ status' = "waiting_approval"
    /\ pc' = "off"
    /\ UNCHANGED <<tasks, graph, disk, mem, roundVars, faultVars, revVars,
                   replans, approvals, proposal, resuming, retries>>

GateOpens ==
    /\ pc = "gate"
    /\ Waiting = {}
    /\ tasks' = Recovered
    /\ pc' = "plan"
    /\ UNCHANGED <<graph, disk, mem, roundVars, faultVars, planVars>>

-----------------------------------------------------------------------------
(***************************************************************************)
(* Replanning at the barrier.                                              *)
(***************************************************************************)

\* Mutant: attempts that failed are not counted.
TriggerUncounted ==
    /\ Cardinality({k \in DOMAIN replans : replans[k].st # "failed"}) < MaxReplans
    /\ \A k \in DOMAIN replans : replans[k].st # "rejected"
    /\ \A t \in Tasks : tasks[t] # "RUNNING"
    /\ \/ \E t \in Tasks : tasks[t] = "BLOCKED"
       \/ \E t, u \in TasksOf(graph) : tasks[t] = "NEEDS_REVIEW" /\ t \in Needs(u)

\* _evaluate_replan_trigger.
Trigger ==
    /\ Len(replans) < MaxReplans
    /\ \A k \in DOMAIN replans : replans[k].st # "rejected"
    /\ \A t \in Tasks : tasks[t] # "RUNNING"
    /\ \/ \E t \in Tasks : tasks[t] = "BLOCKED"
       \/ \E t, u \in TasksOf(graph) : tasks[t] = "NEEDS_REVIEW" /\ t \in Needs(u)

\* _run_replan: the record is saved before the planner is asked.
StartReplan ==
    /\ pc = "trigger"
    /\ Trigger
    /\ replans' = Append(replans, [st |-> "in_progress", approval |-> NoApproval])
    /\ pc' = "planner"
    /\ UNCHANGED <<tasks, graph, disk, mem, roundVars, faultVars, status,
                   revVars, approvals, proposal, resuming, retries>>

NoReplan ==
    /\ pc = "trigger"
    /\ ~Trigger
    /\ pc' = "finish"
    /\ UNCHANGED <<tasks, graph, disk, mem, roundVars, faultVars, planVars>>

\* The planner fails, or comes back with the graph there is.
PlannerFails ==
    /\ pc = "planner"
    /\ \E st \in {"failed", "no_change"} : replans' = LastReplan(st)
    /\ pc' = "finish"
    /\ UNCHANGED <<tasks, graph, disk, mem, roundVars, faultVars, status,
                   revVars, approvals, proposal, resuming, retries>>

\* Mutant: every task of the new graph starts over.
AppliedAfresh(g) ==
    [t \in Tasks |-> IF t \in TasksOf(g) THEN "PENDING" ELSE "absent"]

\* _apply_graph_revision: what passed is kept, the rest starts over.
Applied(g) ==
    [t \in Tasks |-> IF t \notin TasksOf(g) THEN "absent"
                     ELSE IF tasks[t] \in TerminalOk THEN tasks[t]
                     ELSE "PENDING"]

\* The policy lets the candidate in: activated and saved in one write.
ReplanAuto(g) ==
    /\ pc = "planner"
    /\ g # graph
    /\ tasks' = Applied(g)
    /\ graph' = g
    /\ revision' = revision + 1
    /\ revisions' = Append(revisions, [rev |-> revision + 1, graph |-> g,
                                       st |-> "active", auto |-> TRUE])
    /\ replans' = LastReplan("accepted")
    /\ pc' = "plan"
    /\ UNCHANGED <<disk, mem, roundVars, faultVars, status, approvals,
                   proposal, resuming, retries>>

\* The policy wants a human: the candidate is known to this process only.
ReplanNeedsHuman(g) ==
    /\ pc = "planner"
    /\ g # graph
    /\ proposal' = g
    /\ pc' = "request"
    /\ UNCHANGED <<tasks, graph, disk, mem, roundVars, faultVars, status,
                   revVars, replans, approvals, resuming, retries>>

\* _pause_for_replan_approval writes the request, then that it waits, then
\* the project that knows of both.
CreateRequest ==
    /\ pc = "request"
    /\ approvals' = Append(approvals, [st |-> "PENDING", rev |-> revision + 1,
                                       graph |-> proposal])
    /\ pc' = "wait"
    /\ UNCHANGED <<tasks, graph, disk, mem, roundVars, faultVars, status,
                   revVars, replans, proposal, resuming, retries>>

WaitForHuman ==
    /\ pc = "wait"
    /\ approvals' = [approvals EXCEPT ![Len(approvals)].st = "WAITING_HUMAN"]
    /\ pc' = "ledger"
    /\ UNCHANGED <<tasks, graph, disk, mem, roundVars, faultVars, status,
                   revVars, replans, proposal, resuming, retries>>

SavePause ==
    /\ pc = "ledger"
    /\ revisions' = Append(revisions, [rev |-> revision + 1, graph |-> proposal,
                                       st |-> "pending_approval", auto |-> FALSE])
    /\ replans' = [replans EXCEPT ![Len(replans)] =
                      [st |-> "waiting_approval", approval |-> Len(approvals)]]
    /\ status' = "waiting_approval"
    /\ proposal' = NoGraph
    /\ pc' = "finish"
    /\ UNCHANGED <<tasks, graph, disk, mem, roundVars, faultVars, revision,
                   approvals, resuming, retries>>

\* _final_status.
FinalStatus ==
    LET active == TasksOf(graph)
    IN  IF Waiting # {} THEN "waiting_approval"
        ELSE IF \A t \in active : tasks[t] \in TerminalOk THEN "completed"
        ELSE IF \E t \in active : tasks[t] = "NEEDS_REVIEW" THEN "needs_review"
        ELSE "failed"

Finish ==
    /\ pc = "finish"
    /\ status' = FinalStatus
    /\ pc' = "off"
    /\ UNCHANGED <<tasks, graph, disk, mem, roundVars, faultVars, revVars,
                   replans, approvals, proposal, resuming, retries>>

-----------------------------------------------------------------------------
(***************************************************************************)
(* The human, and the resumption of what was approved.                     *)
(***************************************************************************)

\* approve, reject and expire of ApprovalManager.
Decide(i, decision) ==
    /\ approvals[i].st = "WAITING_HUMAN"
    /\ approvals' = [approvals EXCEPT ![i].st = decision]
    /\ UNCHANGED <<schedVars, status, revVars, replans, proposal, resuming,
                   retries>>

\* RETRY_TASK: a dead end whose dependencies are met is PENDING again.
RetryTask(t) ==
    /\ pc = "off"
    /\ retries < MaxRetries
    /\ tasks[t] \in DeadEnds
    /\ \A d \in Needs(t) : tasks[d] \in TerminalOk
    /\ tasks' = [tasks EXCEPT ![t] = "PENDING"]
    /\ retries' = retries + 1
    /\ UNCHANGED <<graph, disk, mem, pc, roundVars, faultVars, status, revVars,
                   replans, approvals, proposal, resuming>>

\* The first revision with the number of approval i, 0 when there is none.
RevisionOf(i) ==
    LET named == {k \in DOMAIN revisions : revisions[k].rev = approvals[i].rev}
    IN  IF named = {} THEN 0
        ELSE CHOOSE k \in named : \A l \in named : k <= l

\* The record of a replan is accepted with its approval.
AcceptedReplans(i) ==
    [k \in DOMAIN replans |->
        IF replans[k].approval = i /\ replans[k].st = "waiting_approval"
        THEN [replans[k] EXCEPT !.st = "accepted"] ELSE replans[k]]

\* Mutant: the request need only exist.
ActivateAny(i) ==
    LET k == RevisionOf(i)
    IN  /\ pc = "off"
        /\ approvals[i].st # "RESUMED"
        /\ k # 0
        /\ revisions[k].st = "pending_approval"
        /\ tasks' = Applied(revisions[k].graph)
        /\ graph' = revisions[k].graph
        /\ revisions' = [revisions EXCEPT ![k].st = "active"]
        /\ revision' = approvals[i].rev
        /\ replans' = AcceptedReplans(i)
        /\ resuming' = i
        /\ pc' = "mark"
        /\ UNCHANGED <<disk, mem, roundVars, faultVars, status, approvals,
                       proposal, retries>>

\* resume_approval up to the saved activation.
Activate(i) ==
    LET k == RevisionOf(i)
    IN  /\ pc = "off"
        /\ approvals[i].st = "APPROVED"
        /\ k # 0
        /\ revisions[k].st = "pending_approval"
        /\ tasks' = Applied(revisions[k].graph)
        /\ graph' = revisions[k].graph
        /\ revisions' = [revisions EXCEPT ![k].st = "active"]
        /\ revision' = approvals[i].rev
        /\ replans' = AcceptedReplans(i)
        /\ resuming' = i
        /\ pc' = "mark"
        /\ UNCHANGED <<disk, mem, roundVars, faultVars, status, approvals,
                       proposal, retries>>

\* Mutant: an activation that was saved is not taken up again.
ActivateAgainNever(i) == FALSE /\ UNCHANGED vars

\* resume_approval after a crash between the activation and mark_resumed.
ActivateAgain(i) ==
    LET k == RevisionOf(i)
    IN  /\ pc = "off"
        /\ approvals[i].st = "APPROVED"
        /\ k # 0
        /\ revisions[k].st = "active"
        /\ revision = approvals[i].rev
        /\ replans' = AcceptedReplans(i)
        /\ resuming' = i
        /\ pc' = "mark"
        /\ UNCHANGED <<tasks, graph, disk, mem, roundVars, faultVars, status,
                       revVars, approvals, proposal, retries>>

\* mark_resumed, the checkpoint of what is on disk, and run() again.
MarkResumed ==
    /\ pc = "mark"
    /\ approvals' = [approvals EXCEPT ![resuming].st = "RESUMED"]
    /\ resuming' = NoApproval
    /\ pc' = "run"
    /\ UNCHANGED <<tasks, graph, disk, mem, roundVars, faultVars, status,
                   revVars, replans, proposal, retries>>

Crash ==
    /\ CrashRun
    /\ proposal' = NoGraph
    /\ resuming' = NoApproval
    /\ UNCHANGED <<status, revVars, replans, approvals, retries>>

-----------------------------------------------------------------------------
\* The process that runs the project, once it is started.
RunStep ==
    \/ RoundStep /\ UNCHANGED planVars
    \/ pc # "off" /\ Run
    \/ Sync \/ GateCloses \/ GateOpens
    \/ StartReplan \/ NoReplan \/ PlannerFails
    \/ \E g \in DOMAIN Graphs : ReplanAuto(g) \/ ReplanNeedsHuman(g)
    \/ CreateRequest \/ WaitForHuman \/ SavePause \/ Finish
    \/ MarkResumed

WorkerStep(t) == ExecuteWorker(t) /\ UNCHANGED planVars

Resume(i) == Activate(i) \/ ActivateAgain(i)

Next ==
    \/ RunStep
    \/ \E t \in Tasks : WorkerStep(t)
    \/ pc = "off" /\ Run
    \/ \E i \in DOMAIN approvals :
          \/ \E d \in {"APPROVED", "REJECTED", "EXPIRED"} : Decide(i, d)
          \/ Resume(i)
    \/ \E t \in Tasks : RetryTask(t)
    \/ Crash

Spec == Init /\ [][Next]_vars

\* A run that was started goes on, its agents answer or time out, and
\* whoever approved a revision has the project resumed in the end.
FairSpec ==
    /\ Spec
    /\ WF_vars(RunStep)
    /\ \A t \in Tasks : WF_vars(WorkerStep(t))
    /\ \A i \in 1..MaxReplans : SF_vars(i \in DOMAIN approvals /\ Resume(i))

-----------------------------------------------------------------------------
\* Types.
TypeOK ==
    /\ tasks \in [Tasks -> Statuses]
    /\ graph \in DOMAIN Graphs
    /\ disk \in Cases /\ mem \in Cases
    /\ queue \subseteq Tasks /\ round \subseteq Tasks /\ unsaved \subseteq Tasks
    /\ \A t \in Tasks : /\ workers[t].at \in {"idle", "running", "done"}
                        /\ workers[t].ready \in BOOLEAN
                        /\ workers[t].case \in Cases
    /\ crashes \in 0..MaxCrashes /\ torn \in BOOLEAN
    /\ Len(replans) <= MaxReplans
    /\ \A i \in DOMAIN approvals : approvals[i].st \in ApprovalStatuses
    /\ revision \in Nat \ {0} /\ retries \in 0..MaxRetries

\* A task that passed has its artifact, fit to pass, in the case state of
\* the run and on disk, whatever crashed, was merged, repaired or replanned
\* since -- unless a crash fell between its saved status and its checkpoint.
PassedIsBacked ==
    \A t \in Tasks :
        tasks[t] \in TerminalOk =>
            /\ Passes(mem.art[t])
            /\ Passes(disk.art[t]) \/ t \in unsaved

\* An agent at work was given every artifact its task depends on.
SnapshotsSound ==
    \A t \in Tasks \ Reference : workers[t].at = "running" =>
        \A d \in Needs(t) : Passes(workers[t].case.art[d])

SoundInputs == ~torn => PassedIsBacked /\ SnapshotsSound

\* A task that passed is never executed again: it keeps its status through
\* recovery, retries and every change of graph that keeps the task.
TerminalIsKept ==
    [][\A t \in Tasks : tasks[t] \in TerminalOk =>
          tasks'[t] = tasks[t] \/ (tasks'[t] = "absent" /\ graph' # graph)]_vars

\* No task is started while an approval waits for the human or for the
\* resumption of the project.
NothingStartsWhileWaiting ==
    [][\A t \in Tasks : tasks[t] # "RUNNING" /\ tasks'[t] = "RUNNING" =>
          \A i \in DOMAIN approvals :
              approvals[i].st \notin {"WAITING_HUMAN", "APPROVED"}]_vars

\* One revision and one approval at most bear number n.  Numbers are given
\* anew when a candidate did not become active.
OnlyOneNumbered(n) ==
    /\ \A i, j \in DOMAIN approvals :
          approvals[i].rev = n /\ approvals[j].rev = n => i = j
    /\ \A k, l \in DOMAIN revisions :
          revisions[k].rev = n /\ revisions[l].rev = n => k = l

\* A revision that needed a human became active only after its own approval
\* was given, as long as no other candidate was given its number.
OnlyApprovedIsActive ==
    \A k \in DOMAIN revisions :
        /\ revisions[k].st = "active" /\ ~revisions[k].auto
        /\ OnlyOneNumbered(revisions[k].rev)
        => \E i \in DOMAIN approvals :
              /\ approvals[i].rev = revisions[k].rev
              /\ approvals[i].graph = revisions[k].graph
              /\ approvals[i].st \in {"APPROVED", "RESUMED"}

\* A run that comes to its end leaves no task that could still be executed
\* and none in the middle of something, unless it waits for a human.
FinishLeavesNothing ==
    [][Finish => \/ status' = "waiting_approval"
                 \/ \A t \in Tasks : tasks[t] \notin {"PENDING", "RUNNING"}]_vars

\* An approval the project's ledger knows of, its revision's number its own.
Known(i) == /\ i \in DOMAIN approvals
            /\ \E k \in DOMAIN replans : replans[k].approval = i
            /\ OnlyOneNumbered(approvals[i].rev)

\* An approved revision the project knows of is activated and the approval
\* marked, even when the process dies in between.
ApprovedIsActivated ==
    \A i \in 1..MaxReplans :
        Known(i) /\ approvals[i].st = "APPROVED"
        ~> Known(i) /\ approvals[i].st = "RESUMED" /\ revisions[RevisionOf(i)].st = "active"

=============================================================================
