----------------------------- MODULE Scheduler ------------------------------
(***************************************************************************)
(* The parallel scheduler of runtime/harness/harness.py (max_concurrency   *)
(* above 1): one project, the file project.json that holds its task graph, *)
(* the case state its tasks produce artifacts into, and the process that   *)
(* runs it round by round.                                                 *)
(*                                                                         *)
(* project.json is written at every change, so the tasks here are those on *)
(* disk; the case state is written at checkpoints only, so it has a copy   *)
(* in the memory of the run and one on disk.  Of an artifact the model     *)
(* keeps whether it would pass its evaluation.  The control plane's        *)
(* monitor, the final review and the messages between agents are left out. *)
(***************************************************************************)
EXTENDS Sequences, FiniteSets, Integers

CONSTANTS Tasks,          \* task ids, each producing the artifact of its name
          Graphs,         \* task graphs: [order |-> tasks, needs |-> deps]
          Reference,      \* tasks the scheduler's own thread executes
          Staged,         \* agent tasks whose tool runs a workflow stage
          MaxConcurrency, \* the size of the worker pool
          MaxCrashes      \* bound: deaths of the process

ASSUME ConcurrencyAssumption == MaxConcurrency \in Nat \ {0}
ASSUME MaxCrashesAssumption == MaxCrashes \in Nat
ASSUME ModesAssumption ==
    Reference \subseteq Tasks /\ Staged \subseteq Tasks \ Reference

TasksOf(g) == {Graphs[g].order[i] : i \in DOMAIN Graphs[g].order}

\* What validate_graph checks of a plan: no task twice, dependencies in the
\* graph and, by rank, no cycle.
ValidGraph(g) ==
    /\ Graphs[g].order \in Seq(Tasks)
    /\ \A i, j \in DOMAIN Graphs[g].order :
          Graphs[g].order[i] = Graphs[g].order[j] => i = j
    /\ Graphs[g].needs \in [Tasks -> SUBSET TasksOf(g)]
    /\ \E rank \in [Tasks -> 0..Cardinality(Tasks)] :
          \A t \in TasksOf(g) : \A d \in Graphs[g].needs[t] : rank[d] < rank[t]

ASSUME GraphsAssumption ==
    /\ IsFiniteSet(Tasks)
    /\ Graphs \in Seq([order : Seq(Tasks), needs : [Tasks -> SUBSET Tasks]])
    /\ Graphs # <<>>
    /\ \A g \in DOMAIN Graphs : ValidGraph(g)

VARIABLES tasks,    \* status of each task, "absent" when not in the graph
          graph,    \* the active graph, an index of Graphs
          disk,     \* the case state as last checkpointed
          mem,      \* the case state the run works on
          pc,       \* where the run is; "off" when no process runs it
          queue,    \* tasks of the round still to be started
          round,    \* tasks of the round still to be committed
          unsaved,  \* the task committed and not yet checkpointed
          workers,  \* what each task of the round works on and reports
          crashes,  \* how much of MaxCrashes is spent
          torn      \* history: a PASS was saved whose checkpoint was lost

schedVars == <<tasks, graph, disk, mem, pc, queue, round, unsaved,
               workers, crashes, torn>>
\* What a step of the run between rounds leaves alone.
roundVars == <<queue, round, unsaved, workers>>
faultVars == <<crashes, torn>>

TerminalOk == {"PASSED", "COMPLETED"}
DeadEnds == {"NEEDS_REVIEW", "BLOCKED"}
Statuses == {"absent", "PENDING", "RUNNING"} \cup TerminalOk \cup DeadEnds

Contents == {"none", "bad", "good"}
Passes(content) == content = "good"
Cases == [art : [Tasks -> Contents], done : SUBSET Tasks]
EmptyCase == [art |-> [t \in Tasks |-> "none"], done |-> {}]

Idle == [at |-> "idle", ready |-> FALSE, case |-> EmptyCase]

Order == Graphs[graph].order
Needs(t) == Graphs[graph].needs[t]
Pending == {t \in Tasks : tasks[t] = "PENDING"}
Position(t) == CHOOSE i \in DOMAIN Order : Order[i] = t
\* The first task of S in graph order.
IsFirst(t, S) == t \in S /\ \A u \in S : Position(t) <= Position(u)

SchedInit ==
    /\ graph = 1
    /\ tasks = [t \in Tasks |-> IF t \in TasksOf(1)
                                THEN "PENDING" ELSE "absent"]
    /\ disk = EmptyCase
    /\ mem = EmptyCase
    /\ pc = "off"
    /\ queue = {}
    /\ round = {}
    /\ unsaved = {}
    /\ workers = [t \in Tasks |-> Idle]
    /\ crashes = 0
    /\ torn = FALSE

-----------------------------------------------------------------------------
(***************************************************************************)
(* Planning a round.                                                       *)
(***************************************************************************)

\* _parallel_recovery_pass: what a dead process left RUNNING is PENDING.
Recovered == [t \in Tasks |-> IF tasks[t] = "RUNNING" THEN "PENDING"
                              ELSE tasks[t]]

\* Tasks whose workflow stage is COMPLETED already.
StageDone == {t \in Pending : t \in mem.done}

\* _terminalize_ready, one task at a time: COMPLETED without being executed.
TerminalizeReady ==
    /\ pc = "plan"
    /\ \E t \in Tasks : /\ IsFirst(t, StageDone)
                        /\ tasks' = [tasks EXCEPT ![t] = "COMPLETED"]
    /\ disk' = mem
    /\ UNCHANGED <<graph, mem, pc, roundVars, faultVars>>

\* Mutant: a task is runnable when its dependencies have run, however.
RunnableAfterAny ==
    {t \in Pending : \A d \in Needs(t) : tasks[d] \notin {"PENDING", "BLOCKED"}}

\* _compute_runnable.
Runnable == {t \in Pending : \A d \in Needs(t) : tasks[d] \in TerminalOk}

\* Mutant: a task below a blocked one is not blocked.
DoomedOneLevel ==
    {t \in Pending : \E d \in Needs(t) : tasks[d] = "NEEDS_REVIEW"}

\* What _block_downstream looks for.
Doomed == {t \in Pending : \E d \in Needs(t) : tasks[d] \in DeadEnds}

\* _block_downstream, one task at a time; the loop goes round again.
BlockDownstream ==
    /\ pc = "plan"
    /\ StageDone = {} /\ Runnable = {}
    /\ \E t \in Tasks : /\ IsFirst(t, Doomed)
                        /\ tasks' = [tasks EXCEPT ![t] = "BLOCKED"]
    /\ disk' = mem
    /\ UNCHANGED <<graph, mem, pc, roundVars, faultVars>>

\* The batch: the first runnable tasks in graph order, up to the pool.
Batches ==
    {B \in SUBSET Runnable :
        /\ B # {}
        /\ Cardinality(B) <= MaxConcurrency
        /\ Cardinality(B) = MaxConcurrency \/ B = Runnable
        /\ \A t \in B, u \in Runnable \ B : Position(t) < Position(u)}

Schedule ==
    /\ pc = "plan"
    /\ StageDone = {}
    /\ \E B \in Batches : queue' = B /\ round' = B
    /\ pc' = "start"
    /\ UNCHANGED <<tasks, graph, disk, mem, unsaved, workers, faultVars>>

\* Nothing to run and nothing to block: _run_parallel returns.
RoundsOver ==
    /\ pc = "plan"
    /\ StageDone = {} /\ Runnable = {} /\ Doomed = {}
    /\ pc' = "trigger"
    /\ UNCHANGED <<tasks, graph, disk, mem, roundVars, faultVars>>

-----------------------------------------------------------------------------
(***************************************************************************)
(* Executing a round.                                                      *)
(***************************************************************************)

\* RUNNING is saved, then an agent task is given to the pool with a copy of
\* the case state; a reference task waits for the scheduler thread.
StartTask ==
    /\ pc = "start"
    /\ \E t \in Tasks :
          /\ IsFirst(t, queue)
          /\ tasks' = [tasks EXCEPT ![t] = "RUNNING"]
          /\ workers' = [workers EXCEPT ![t] =
                             [at |-> "running", ready |-> FALSE, case |-> mem]]
          /\ queue' = queue \ {t}
          /\ pc' = IF queue = {t} THEN "execute" ELSE "start"
    /\ UNCHANGED <<graph, disk, mem, round, unsaved, faultVars>>

\* What an agent can make of the case state s: its tool stores an artifact
\* unevaluated, or runs the stage and stores what passed (put_artifact never
\* replaces); then the executor reports ARTIFACT_READY or a failure.
AgentResults(t, s) ==
    LET stored == IF t \in Staged
                  THEN IF s.art[t] \in {"none", "good"}
                       THEN {[art |-> [s.art EXCEPT ![t] = "good"],
                              done |-> s.done \cup {t}]}
                       ELSE {}
                  ELSE {[s EXCEPT !.art[t] = c] : c \in {"bad", "good"}}
    IN  {r \in [case : {s} \cup stored, ready : BOOLEAN] :
            r.ready => r.case.art[t] # "none"}

\* _execute_worker, on the copy of the case state alone.
ExecuteWorker(t) ==
    /\ t \notin Reference
    /\ workers[t].at = "running"
    /\ \E r \in AgentResults(t, workers[t].case) :
          workers' = [workers EXCEPT ![t] =
                          [at |-> "done", ready |-> r.ready, case |-> r.case]]
    /\ UNCHANGED <<tasks, graph, disk, mem, pc, queue, round, unsaved, faultVars>>

\* What _execute_stage makes of the case state: OK completes the stage, GATE
\* leaves that to the commit, a failure stores nothing.
StageResults(t, s) ==
    LET stored == [s EXCEPT !.art[t] = "good"]
    IN  {[case |-> s, ready |-> FALSE],
         [case |-> stored, ready |-> TRUE],
         [case |-> [stored EXCEPT !.done = @ \cup {t}], ready |-> TRUE]}

RoundRefs == {t \in round \cap Reference : workers[t].at = "running"}

\* _execute_reference, in graph order, on the case state of the run.
ExecuteReference ==
    /\ pc = "execute"
    /\ \E t \in Tasks : \E r \in StageResults(t, mem) :
          /\ IsFirst(t, RoundRefs)
          /\ mem' = r.case
          /\ workers' = [workers EXCEPT ![t] =
                             [at |-> "done", ready |-> r.ready, case |-> EmptyCase]]
    /\ UNCHANGED <<tasks, graph, disk, pc, queue, round, unsaved, faultVars>>

-----------------------------------------------------------------------------
(***************************************************************************)
(* Committing a round.                                                     *)
(***************************************************************************)

\* _merge_worker_artifacts: one artifact the run holds with another content
\* refuses the merge, the task's own artifact coming last.
Collides(m, w) ==
    \E x \in Tasks : /\ w.art[x] # "none"
                     /\ m.art[x] \notin {"none", w.art[x]}
Merged(m, w) ==
    IF Collides(m, w) THEN m
    ELSE [art |-> [x \in Tasks |-> IF m.art[x] = "none" THEN w.art[x]
                                   ELSE m.art[x]],
          done |-> m.done \cup {x \in w.done : m.art[x] = "none"}]

\* _run_eval_and_repair: an artifact that fails is produced anew, at most
\* twice, on the case state of the run.
EvalAndRepair(t, s) ==
    IF Passes(s.art[t])
    THEN {[case |-> s, ok |-> TRUE]}
    ELSE {[case |-> s, ok |-> FALSE]}
         \cup {[case |-> [s EXCEPT !.art[t] = "good"], ok |-> b] : b \in BOOLEAN}

\* _commit_agent up to the saved status.
AgentCommits(t) ==
    LET w == workers[t]
        merged == Merged(mem, w.case)
    IN  IF w.ready /\ ~Collides(mem, w.case)
        THEN EvalAndRepair(t, merged)
        ELSE {[case |-> merged, ok |-> FALSE]}

\* _commit_reference up to the saved status; a GATE is approved.
ReferenceCommits(t) ==
    {[case |-> IF workers[t].ready THEN [mem EXCEPT !.done = @ \cup {t}]
               ELSE mem,
      ok |-> workers[t].ready]}

\* The barrier has passed: the next task of the round, in graph order, gets
\* its status, saved in project.json before the case state is.
Commit ==
    /\ pc = "execute"
    /\ \A u \in round : workers[u].at = "done"
    /\ \E t \in Tasks :
          /\ IsFirst(t, round)
          /\ \E c \in IF t \in Reference THEN ReferenceCommits(t)
                      ELSE AgentCommits(t) :
                /\ mem' = c.case
                /\ tasks' = [tasks EXCEPT ![t] =
                                 IF c.ok THEN "PASSED" ELSE "NEEDS_REVIEW"]
          /\ round' = round \ {t}
          /\ workers' = [workers EXCEPT ![t] = Idle]
          /\ unsaved' = {t}
    /\ pc' = "checkpoint"
    /\ UNCHANGED <<graph, disk, queue, faultVars>>

\* _checkpoint of the task just committed.
Checkpoint ==
    /\ pc = "checkpoint"
    /\ disk' = mem
    /\ unsaved' = {}
    /\ pc' = IF round = {} THEN "plan" ELSE "execute"
    /\ UNCHANGED <<tasks, graph, mem, queue, round, workers, faultVars>>

\* The process dies, or an executor that repairs raises and run() with it.
CrashRun ==
    /\ pc # "off"
    /\ crashes < MaxCrashes
    /\ crashes' = crashes + 1
    /\ torn' = (torn \/ \E t \in unsaved : tasks[t] = "PASSED")
    /\ unsaved' = {}
    /\ pc' = "off"
    /\ mem' = disk
    /\ queue' = {}
    /\ round' = {}
    /\ workers' = [t \in Tasks |-> Idle]
    /\ UNCHANGED <<tasks, graph, disk>>

RoundStep ==
    \/ TerminalizeReady \/ BlockDownstream \/ Schedule \/ RoundsOver
    \/ StartTask \/ ExecuteReference \/ Commit \/ Checkpoint

=============================================================================
