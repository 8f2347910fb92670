--------------------------- MODULE HarnessProofs ----------------------------
(***************************************************************************)
(* Theorems about Replanning, for any tasks, graphs, pool size, number of  *)
(* replans, retries and crashes.                                           *)
(***************************************************************************)
EXTENDS Replanning, SequenceTheorems, WellFoundedInduction, FiniteSetTheorems,
        TLAPS

PCs == {"off", "run", "sync", "gate", "plan", "start", "execute", "checkpoint",
        "trigger", "planner", "request", "wait", "ledger", "finish", "mark"}

Approval == [st : ApprovalStatuses, rev : Nat \ {0}, graph : DOMAIN Graphs]
RevisionRecord == [rev : Nat, graph : DOMAIN Graphs,
                   st : {"active", "pending_approval", "rejected"},
                   auto : BOOLEAN]

-----------------------------------------------------------------------------
(* The shape of the ledger: sequences of records, and the candidate a run   *)
(* is about to write into it.                                               *)

Shape ==
    /\ approvals \in Seq(Approval)
    /\ revisions \in Seq(RevisionRecord)
    /\ revision \in Nat \ {0}
    /\ graph \in DOMAIN Graphs
    /\ pc \in PCs
    /\ pc \in {"request", "wait", "ledger"} => proposal \in DOMAIN Graphs
    /\ pc \in {"wait", "ledger"} =>
          /\ approvals # <<>>
          /\ approvals[Len(approvals)].rev = revision + 1
          /\ approvals[Len(approvals)].graph = proposal
    /\ pc = "wait" => approvals[Len(approvals)].st = "PENDING"
    /\ pc = "mark" => resuming \in DOMAIN approvals

\* A set of numbers that is not empty has a least one.
LEMMA Smallest ==
    ASSUME NEW T, T \subseteq Nat, T # {}
    PROVE  \E x \in T : \A y \in T : x <= y
<1> DEFINE R == OpToRel(<, Nat)
<1>1. IsWellFoundedOn(R, Nat)
  BY NatLessThanWellFounded
<1>2. \A x, y \in Nat : y < x => <<y, x>> \in R
  BY DEF OpToRel
<1> HIDE DEF R
<1>3. \E x \in T : \A y \in T : ~ (<<y, x>> \in R)
  BY <1>1, WFMin
<1>4. PICK x \in T : \A y \in T : ~ (<<y, x>> \in R)
  BY <1>3
<1>5. \A y \in T : x \in Nat /\ y \in Nat /\ ~(y < x)
  BY <1>2, <1>4
<1>6. \A y \in T : x <= y
  BY <1>5
<1> QED BY <1>6

LEMMA FirstGraph == 1 \in DOMAIN Graphs
BY GraphsAssumption DEF ValidGraph

LEMMA ShapeInit == Init => Shape
BY FirstGraph DEF Init, SchedInit, Shape, PCs, RevisionRecord, Approval

\* A step that leaves the ledger alone and moves between harmless places.
LEMMA ShapeQuiet ==
    ASSUME Shape, pc' \in PCs \ {"request", "wait", "ledger", "mark"},
           UNCHANGED <<approvals, revisions, revision, graph>>
    PROVE  Shape'
BY DEF Shape

LEMMA ShapeRound ==
    ASSUME Shape, RoundStep, UNCHANGED planVars
    PROVE  Shape'
<1>1. pc' \in PCs \ {"request", "wait", "ledger", "mark"} /\ graph' = graph
  BY DEF Shape, PCs, RoundStep, TerminalizeReady, BlockDownstream, Schedule,
         RoundsOver, StartTask, ExecuteReference, Commit, Checkpoint
<1> QED
  BY <1>1, ShapeQuiet DEF planVars, revVars

\* The steps of a run that write no approval and no revision.
LEMMA ShapeLedgerKept ==
    ASSUME Shape,
           Run \/ GateCloses \/ GateOpens \/ StartReplan \/ NoReplan
              \/ PlannerFails \/ Finish
    PROVE  Shape'
<1>1. pc' \in PCs \ {"request", "wait", "ledger", "mark"}
  BY DEF PCs, Run, GateCloses, GateOpens, StartReplan, NoReplan,
         PlannerFails, Finish
<1>2. UNCHANGED <<approvals, revisions, revision, graph>>
  BY DEF Run, GateCloses, GateOpens, StartReplan, NoReplan,
         PlannerFails, Finish, revVars, planVars
<1> QED
  BY <1>1, <1>2, ShapeQuiet

LEMMA ShapeSync ==
    ASSUME Shape, Sync
    PROVE  Shape'
<1> DEFINE R(k) == IF revisions[k].st = "pending_approval"
                      /\ \E i \in Denied : approvals[i].rev = revisions[k].rev
                   THEN [revisions[k] EXCEPT !.st = "rejected"]
                   ELSE revisions[k]
<1>1. revisions' = [k \in 1..Len(revisions) |-> R(k)] /\ Len(revisions) \in Nat
  BY DEF Shape, Sync
<1>2. ASSUME NEW k \in 1..Len(revisions) PROVE R(k) \in RevisionRecord
  <2>1. revisions[k] \in RevisionRecord
    BY ElementOfSeq DEF Shape
  <2> QED
    BY <2>1 DEF RevisionRecord
<1>3. revisions' \in Seq(RevisionRecord)
  <2> HIDE DEF R
  <2> QED BY <1>1, <1>2, IsASeq
<1> QED
  BY <1>3 DEF Shape, Sync, PCs

LEMMA ShapePlanner ==
    ASSUME Shape, NEW g \in DOMAIN Graphs, ReplanAuto(g) \/ ReplanNeedsHuman(g)
    PROVE  Shape'
<1>1. CASE ReplanNeedsHuman(g)
  BY <1>1 DEF Shape, ReplanNeedsHuman, PCs, revVars
<1>2. CASE ReplanAuto(g)
  <2> DEFINE r == [rev |-> revision + 1, graph |-> g, st |-> "active", auto |-> TRUE]
  <2>1. r \in RevisionRecord
    BY DEF Shape, RevisionRecord
  <2>2. revisions' \in Seq(RevisionRecord)
    BY <1>2, <2>1, AppendProperties DEF Shape, ReplanAuto
  <2> QED
    BY <1>2, <2>2 DEF Shape, ReplanAuto, PCs
<1> QED BY <1>1, <1>2

LEMMA ShapeCreateRequest ==
    ASSUME Shape, CreateRequest
    PROVE  Shape'
<1> DEFINE a == [st |-> "PENDING", rev |-> revision + 1, graph |-> proposal]
<1>1. a \in Approval /\ approvals \in Seq(Approval) /\ a.st = "PENDING"
  BY DEF Shape, CreateRequest, Approval, ApprovalStatuses
<1>2. approvals' = Append(approvals, a)
  BY DEF CreateRequest
<1>3. /\ approvals' \in Seq(Approval)
      /\ approvals' # <<>>
      /\ Len(approvals') = Len(approvals) + 1
      /\ approvals'[Len(approvals) + 1] = a
  <2> HIDE DEF a
  <2> QED BY <1>1, <1>2, AppendProperties
<1> QED
  BY <1>1, <1>3 DEF Shape, CreateRequest, PCs, revVars

\* One field of one record of the ledger is written.
LEMMA StatusWritten ==
    ASSUME NEW s \in Seq(Approval), NEW i \in DOMAIN s,
           NEW st \in ApprovalStatuses
    PROVE  LET n == [s EXCEPT ![i].st = st]
           IN  /\ n \in Seq(Approval)
               /\ Len(n) = Len(s) /\ DOMAIN n = DOMAIN s
               /\ \A j \in DOMAIN s : /\ n[j].rev = s[j].rev
                                      /\ n[j].graph = s[j].graph
                                      /\ n[j].st = IF j = i THEN st ELSE s[j].st
<1> DEFINE e == [s[i] EXCEPT !.st = st]
<1>1. i \in 1..Len(s) /\ DOMAIN s = 1..Len(s)
  OBVIOUS
<1>2. s[i] \in Approval
  BY <1>1, ElementOfSeq
<1>3. e \in Approval /\ e.rev = s[i].rev /\ e.graph = s[i].graph /\ e.st = st
  BY <1>2 DEF Approval
<1>4. [s EXCEPT ![i].st = st] = [s EXCEPT ![i] = e]
  OBVIOUS
<1>5. /\ [s EXCEPT ![i] = e] \in Seq(Approval)
      /\ Len([s EXCEPT ![i] = e]) = Len(s)
      /\ \A j \in 1..Len(s) : [s EXCEPT ![i] = e][j] = IF j = i THEN e ELSE s[j]
  BY <1>1, <1>3, ExceptSeq
<1> QED
  BY <1>1, <1>3, <1>4, <1>5

LEMMA ShapeWaitForHuman ==
    ASSUME Shape, WaitForHuman
    PROVE  Shape'
<1>1. approvals \in Seq(Approval) /\ Len(approvals) \in DOMAIN approvals
  BY DEF Shape, WaitForHuman
<1>2. "WAITING_HUMAN" \in ApprovalStatuses
  BY DEF ApprovalStatuses
<1>3. approvals' = [approvals EXCEPT ![Len(approvals)].st = "WAITING_HUMAN"]
  BY DEF WaitForHuman
<1>4. /\ approvals' \in Seq(Approval)
      /\ Len(approvals') = Len(approvals)
      /\ approvals'[Len(approvals)].rev = approvals[Len(approvals)].rev
      /\ approvals'[Len(approvals)].graph = approvals[Len(approvals)].graph
  <2> DEFINE n == [approvals EXCEPT ![Len(approvals)].st = "WAITING_HUMAN"]
  <2>1. /\ n \in Seq(Approval)
        /\ Len(n) = Len(approvals)
        /\ \A j \in DOMAIN approvals : /\ n[j].rev = approvals[j].rev
                                       /\ n[j].graph = approvals[j].graph
    BY <1>1, <1>2, StatusWritten
  <2>2. approvals' = n
    BY <1>3
  <2> HIDE DEF n
  <2> QED BY <1>1, <2>1, <2>2
<1>5. Len(approvals) \in Nat \ {0}
  BY <1>1
<1>6. approvals' # <<>>
  BY <1>4, <1>5
<1>7. approvals'[Len(approvals')].rev = revision' + 1
      /\ approvals'[Len(approvals')].graph = proposal'
  BY <1>4 DEF Shape, WaitForHuman, revVars
<1>8. /\ UNCHANGED <<revisions, revision, graph, proposal>>
      /\ pc = "wait" /\ pc' = "ledger"
  BY DEF WaitForHuman, revVars
<1> QED
  BY <1>4, <1>6, <1>7, <1>8 DEF Shape, PCs

LEMMA ShapeSavePause ==
    ASSUME Shape, SavePause
    PROVE  Shape'
<1> DEFINE r == [rev |-> revision + 1, graph |-> proposal,
                 st |-> "pending_approval", auto |-> FALSE]
<1>1. r \in RevisionRecord
  BY DEF Shape, SavePause, RevisionRecord
<1>2. revisions' \in Seq(RevisionRecord)
  BY <1>1, AppendProperties DEF Shape, SavePause
<1> QED
  BY <1>2 DEF Shape, SavePause, PCs

LEMMA ShapeDecide ==
    ASSUME Shape, NEW i \in DOMAIN approvals,
           NEW d \in {"APPROVED", "REJECTED", "EXPIRED"}, Decide(i, d)
    PROVE  Shape'
<1>1. d \in ApprovalStatuses /\ approvals \in Seq(Approval)
  BY DEF ApprovalStatuses, Shape
<1>2. approvals' = [approvals EXCEPT ![i].st = d]
  BY DEF Decide
<1>3. /\ approvals' \in Seq(Approval)
      /\ Len(approvals') = Len(approvals) /\ DOMAIN approvals' = DOMAIN approvals
      /\ \A j \in DOMAIN approvals :
            /\ approvals'[j].rev = approvals[j].rev
            /\ approvals'[j].graph = approvals[j].graph
            /\ approvals'[j].st = IF j = i THEN d ELSE approvals[j].st
  BY <1>1, <1>2, StatusWritten
<1>4. approvals # <<>> => approvals' # <<>> /\ Len(approvals) \in DOMAIN approvals
  BY <1>1, <1>3
<1> QED
  BY <1>1, <1>3, <1>4 DEF Shape, Decide, schedVars, revVars

\* Resume writes the status of one revision, and its graph becomes active.
LEMMA RevisionWritten ==
    ASSUME NEW s \in Seq(RevisionRecord), NEW k \in DOMAIN s
    PROVE  LET n == [s EXCEPT ![k].st = "active"]
           IN  /\ n \in Seq(RevisionRecord)
               /\ DOMAIN n = DOMAIN s
               /\ \A j \in DOMAIN s : /\ n[j].rev = s[j].rev
                                      /\ n[j].graph = s[j].graph
                                      /\ n[j].auto = s[j].auto
                                      /\ j # k => n[j].st = s[j].st
<1> DEFINE e == [s[k] EXCEPT !.st = "active"]
<1>1. k \in 1..Len(s) /\ DOMAIN s = 1..Len(s)
  OBVIOUS
<1>2. s[k] \in RevisionRecord
  BY <1>1, ElementOfSeq
<1>3. /\ e \in RevisionRecord /\ e.rev = s[k].rev
      /\ e.graph = s[k].graph /\ e.auto = s[k].auto
  BY <1>2 DEF RevisionRecord
<1>4. [s EXCEPT ![k].st = "active"] = [s EXCEPT ![k] = e]
  OBVIOUS
<1>5. /\ [s EXCEPT ![k] = e] \in Seq(RevisionRecord)
      /\ Len([s EXCEPT ![k] = e]) = Len(s)
      /\ \A j \in 1..Len(s) : [s EXCEPT ![k] = e][j] = IF j = k THEN e ELSE s[j]
  BY <1>1, <1>3, ExceptSeq
<1> QED
  BY <1>1, <1>3, <1>4, <1>5

\* The first revision of a number is a revision of that number.
LEMMA RevisionOfIsOne ==
    ASSUME Shape, NEW i \in DOMAIN approvals, RevisionOf(i) # 0
    PROVE  /\ RevisionOf(i) \in DOMAIN revisions
           /\ revisions[RevisionOf(i)].rev = approvals[i].rev
<1> DEFINE named == {k \in DOMAIN revisions : revisions[k].rev = approvals[i].rev}
<1>1. named # {}
  BY DEF RevisionOf
<1>2. named \subseteq Nat
  BY DEF Shape
<1>3. \E k \in named : \A l \in named : k <= l
  <2> HIDE DEF named
  <2> QED BY <1>1, <1>2, Smallest
<1>4. RevisionOf(i) = CHOOSE k \in named : \A l \in named : k <= l
  BY <1>1 DEF RevisionOf
<1>5. RevisionOf(i) \in named
  BY <1>3, <1>4
<1> QED BY <1>5

LEMMA ShapeResume ==
    ASSUME Shape, NEW i \in DOMAIN approvals, Resume(i)
    PROVE  Shape'
<1>1. CASE Activate(i)
  <2> DEFINE k == RevisionOf(i)
  <2>1. k \in DOMAIN revisions /\ revisions \in Seq(RevisionRecord)
    BY <1>1, RevisionOfIsOne DEF Activate, Shape
  <2>2. revisions' = [revisions EXCEPT ![k].st = "active"]
    BY <1>1 DEF Activate
  <2>3. revisions' \in Seq(RevisionRecord)
    <3> HIDE DEF k
    <3> QED BY <2>1, <2>2, RevisionWritten
  <2>4. graph' \in DOMAIN Graphs /\ revision' \in Nat \ {0}
    <3>1. revisions[k] \in RevisionRecord /\ approvals[i] \in Approval
      BY <2>1, ElementOfSeq DEF Shape
    <3>2. graph' = revisions[k].graph /\ revision' = approvals[i].rev
      BY <1>1 DEF Activate
    <3> QED BY <3>1, <3>2 DEF RevisionRecord, Approval
  <2> QED
    BY <1>1, <2>3, <2>4 DEF Shape, Activate, PCs
<1>2. CASE ActivateAgain(i)
  BY <1>2 DEF Shape, ActivateAgain, PCs, revVars
<1> QED BY <1>1, <1>2 DEF Resume

LEMMA ShapeMarkResumed ==
    ASSUME Shape, MarkResumed
    PROVE  Shape'
<1>1. "RESUMED" \in ApprovalStatuses /\ approvals \in Seq(Approval)
      /\ resuming \in DOMAIN approvals
  BY DEF ApprovalStatuses, Shape, MarkResumed
<1>2. approvals' = [approvals EXCEPT ![resuming].st = "RESUMED"]
  BY DEF MarkResumed
<1>3. approvals' \in Seq(Approval)
  BY <1>1, <1>2, StatusWritten
<1> QED
  BY <1>3 DEF Shape, MarkResumed, PCs, revVars

\* The candidate and the approvals keep their shape, whatever happens.
LEMMA ShapeNext == Shape /\ [Next]_vars => Shape'
<1> SUFFICES ASSUME Shape, [Next]_vars PROVE Shape'
  OBVIOUS
<1>1. CASE RunStep
  <2>1. CASE RoundStep /\ UNCHANGED planVars
    BY <2>1, ShapeRound
  <2>2. CASE \E g \in DOMAIN Graphs : ReplanAuto(g) \/ ReplanNeedsHuman(g)
    BY <2>2, ShapePlanner
  <2>3. CASE Run \/ GateCloses \/ GateOpens \/ StartReplan \/ NoReplan
             \/ PlannerFails \/ Finish
    BY <2>3, ShapeLedgerKept
  <2> QED
    BY <1>1, <2>1, <2>2, <2>3, ShapeSync, ShapeCreateRequest,
       ShapeWaitForHuman, ShapeSavePause, ShapeMarkResumed DEF RunStep
<1>2. CASE \E t \in Tasks : WorkerStep(t)
  BY <1>2 DEF Shape, WorkerStep, ExecuteWorker, planVars, revVars
<1>3. CASE pc = "off" /\ Run
  BY <1>3, ShapeLedgerKept
<1>4. CASE \E i \in DOMAIN approvals :
              \E d \in {"APPROVED", "REJECTED", "EXPIRED"} : Decide(i, d)
  BY <1>4, ShapeDecide
<1>5. CASE \E i \in DOMAIN approvals : Resume(i)
  BY <1>5, ShapeResume
<1>6. CASE \E t \in Tasks : RetryTask(t)
  BY <1>6 DEF Shape, RetryTask, revVars
<1>7. CASE Crash
  BY <1>7 DEF Shape, Crash, CrashRun, PCs, revVars
<1>8. CASE UNCHANGED vars
  BY <1>8 DEF Shape, vars, schedVars, planVars, revVars
<1> QED
  BY <1>1, <1>2, <1>3, <1>4, <1>5, <1>6, <1>7, <1>8 DEF Next

\* The ledger of revisions, replans and approvals fits the run's place in
\* its code: the invariant the theorems below rest on.
THEOREM ShapeHolds == Spec => []Shape
<1> QED BY ShapeInit, ShapeNext, PTL DEF Spec

-----------------------------------------------------------------------------
(* NothingStartsWhileWaiting: between the gate and the next request no      *)
(* approval waits, since only the run itself can make one wait.             *)

Working == {"plan", "start", "execute", "checkpoint", "trigger", "planner",
            "request", "wait"}
HoldInv == pc \in Working => Waiting = {}

LEMMA HoldInit == Init => HoldInv
BY DEF Init, SchedInit, HoldInv, Working

\* What was not waiting is not made to wait by any step of the run but one.
LEMMA HoldRunStep ==
    ASSUME Shape, HoldInv, RunStep
    PROVE  HoldInv'
<1>1. CASE RoundStep /\ UNCHANGED planVars
  <2>1. pc \in Working /\ approvals' = approvals
    BY <1>1 DEF Working, RoundStep, TerminalizeReady, BlockDownstream, Schedule,
                RoundsOver, StartTask, ExecuteReference, Commit, Checkpoint,
                planVars
  <2> QED
    BY <2>1 DEF HoldInv, Waiting
<1>2. CASE Run \/ Sync \/ GateCloses \/ PlannerFails \/ NoReplan \/ Finish
           \/ WaitForHuman \/ SavePause \/ MarkResumed
  <2>1. pc' \notin Working
    BY <1>2 DEF Working, Run, Sync, GateCloses, PlannerFails, NoReplan, Finish,
                WaitForHuman, SavePause, MarkResumed
  <2> QED
    BY <2>1 DEF HoldInv
<1>3. CASE GateOpens
  BY <1>3 DEF GateOpens, HoldInv, Waiting, planVars
<1>4. CASE StartReplan
  BY <1>4 DEF StartReplan, HoldInv, Waiting, Working
<1>5. CASE \E g \in DOMAIN Graphs : ReplanAuto(g) \/ ReplanNeedsHuman(g)
  BY <1>5 DEF ReplanAuto, ReplanNeedsHuman, HoldInv, Waiting, Working
<1>6. CASE CreateRequest
  <2> DEFINE a == [st |-> "PENDING", rev |-> revision + 1, graph |-> proposal]
  <2>1. approvals' = Append(approvals, a) /\ approvals \in Seq(Approval)
        /\ a \in Approval /\ a.st = "PENDING"
    BY <1>6 DEF CreateRequest, Shape, Approval, ApprovalStatuses
  <2>2. Waiting = {}
    BY <1>6 DEF CreateRequest, HoldInv, Working
  <2>3. \A i \in DOMAIN approvals' :
           \/ i \in DOMAIN approvals /\ approvals'[i] = approvals[i]
           \/ approvals'[i] = a
    <3> HIDE DEF a
    <3> QED BY <2>1, AppendProperties
  <2>4. Waiting' = {}
    <3> HIDE DEF a
    <3> QED BY <2>1, <2>2, <2>3 DEF Waiting
  <2> QED BY <2>4 DEF HoldInv
<1> QED
  BY <1>1, <1>2, <1>3, <1>4, <1>5, <1>6 DEF RunStep

LEMMA HoldNext == Shape /\ HoldInv /\ [Next]_vars => HoldInv'
<1> SUFFICES ASSUME Shape, HoldInv, [Next]_vars PROVE HoldInv'
  OBVIOUS
<1>1. CASE RunStep
  BY <1>1, HoldRunStep
<1>2. CASE \E t \in Tasks : WorkerStep(t)
  BY <1>2 DEF HoldInv, Waiting, WorkerStep, ExecuteWorker, planVars
<1>3. CASE pc = "off" /\ Run
  BY <1>3 DEF HoldInv, Run, Working
<1>4. CASE \E i \in DOMAIN approvals :
              \E d \in {"APPROVED", "REJECTED", "EXPIRED"} : Decide(i, d)
  <2>1. Waiting # {} /\ pc' = pc
    BY <1>4 DEF Decide, Waiting, schedVars
  <2> QED BY <2>1 DEF HoldInv
<1>5. CASE \E i \in DOMAIN approvals : Resume(i)
  BY <1>5 DEF HoldInv, Resume, Activate, ActivateAgain, Working
<1>6. CASE \E t \in Tasks : RetryTask(t)
  BY <1>6 DEF HoldInv, RetryTask, Working
<1>7. CASE Crash
  BY <1>7 DEF HoldInv, Crash, CrashRun, Working
<1>8. CASE UNCHANGED vars
  BY <1>8 DEF HoldInv, Waiting, vars, schedVars, planVars
<1> QED
  BY <1>1, <1>2, <1>3, <1>4, <1>5, <1>6, <1>7, <1>8 DEF Next

\* A task becomes RUNNING in StartTask alone.
LEMMA OnlyStartStarts ==
    ASSUME [Next]_vars, NEW t \in Tasks,
           tasks \in [Tasks -> Statuses],
           tasks[t] # "RUNNING", tasks'[t] = "RUNNING"
    PROVE  pc = "start"
<1>1. CASE RunStep
  <2>1. CASE RoundStep /\ UNCHANGED planVars
    <3>1. CASE TerminalizeReady
      BY <3>1 DEF TerminalizeReady, Statuses
    <3>2. CASE BlockDownstream
      BY <3>2 DEF BlockDownstream, Statuses
    <3>3. CASE Commit
      BY <3>3 DEF Commit, Statuses
    <3>4. CASE Schedule \/ RoundsOver \/ ExecuteReference \/ Checkpoint
      BY <3>4 DEF Schedule, RoundsOver, ExecuteReference, Checkpoint
    <3> QED
      BY <2>1, <3>1, <3>2, <3>3, <3>4 DEF RoundStep, StartTask
  <2>2. CASE GateOpens
    BY <2>2 DEF GateOpens, Recovered
  <2>3. CASE \E g \in DOMAIN Graphs : ReplanAuto(g)
    BY <2>3 DEF ReplanAuto, Applied
  <2> QED
    BY <1>1, <2>1, <2>2, <2>3
    DEF RunStep, Run, Sync, GateCloses, StartReplan, NoReplan, PlannerFails,
        ReplanNeedsHuman, CreateRequest, WaitForHuman, SavePause, Finish,
        MarkResumed
<1>2. CASE \E u \in Tasks : RetryTask(u)
  BY <1>2 DEF RetryTask
<1>3. CASE \E i \in DOMAIN approvals : Resume(i)
  BY <1>3 DEF Resume, Activate, ActivateAgain, Applied
<1> QED
  BY <1>1, <1>2, <1>3
  DEF Next, WorkerStep, ExecuteWorker, Run, Decide, Crash, CrashRun, vars,
      schedVars

-----------------------------------------------------------------------------
(* The tasks and the round: where the run is tells which tasks may be       *)
(* RUNNING and, from the barrier to the end, that none is left PENDING.     *)

InRound == {"start", "execute", "checkpoint"}
AtBarrier == {"trigger", "planner", "request", "wait", "ledger", "finish"}

TaskInv ==
    /\ tasks \in [Tasks -> Statuses]
    /\ round \subseteq Tasks /\ queue \subseteq round
    /\ pc # "start" => queue = {}
    /\ pc \notin InRound => round = {}
    /\ \A t \in Tasks : tasks[t] = "absent" <=> t \notin TasksOf(graph)
    /\ \A t \in round : tasks[t] = IF t \in queue THEN "PENDING" ELSE "RUNNING"
    /\ pc \in InRound \cup {"plan"} \cup AtBarrier =>
          \A t \in Tasks : tasks[t] = "RUNNING" => t \in round
    /\ pc \in AtBarrier => \A t \in Tasks : tasks[t] # "PENDING"

LEMMA TaskInit == Init => TaskInv
BY DEF Init, SchedInit, TaskInv, InRound, AtBarrier, Statuses

LEMMA GraphIsValid ==
    ASSUME NEW g \in DOMAIN Graphs
    PROVE  /\ TasksOf(g) \subseteq Tasks
           /\ Graphs[g].needs \in [Tasks -> SUBSET TasksOf(g)]
           /\ \E rank \in [Tasks -> Nat] :
                 \A t \in TasksOf(g) : \A d \in Graphs[g].needs[t] :
                     rank[d] < rank[t]
<1>1. ValidGraph(g)
  BY GraphsAssumption
<1>2. Graphs[g].order \in Seq(Tasks)
  BY <1>1 DEF ValidGraph
<1>3. TasksOf(g) \subseteq Tasks
  BY <1>2, ElementOfSeq DEF TasksOf
<1>4. PICK rank \in [Tasks -> 0..Cardinality(Tasks)] :
          \A t \in TasksOf(g) : \A d \in Graphs[g].needs[t] : rank[d] < rank[t]
  BY <1>1 DEF ValidGraph
<1>5. 0..Cardinality(Tasks) \subseteq Nat
  BY GraphsAssumption, FS_CardinalityType
<1>6. rank \in [Tasks -> Nat]
  BY <1>4, <1>5
<1> QED
  BY <1>1, <1>3, <1>4, <1>6 DEF ValidGraph

\* When nothing is runnable, nothing to be blocked and nothing RUNNING, no
\* task is PENDING: the least of them in the order of the dependencies would
\* be the one or the other.
LEMMA NothingIsLeft ==
    ASSUME tasks \in [Tasks -> Statuses], graph \in DOMAIN Graphs,
           \A t \in Tasks : tasks[t] = "absent" <=> t \notin TasksOf(graph),
           \A t \in Tasks : tasks[t] # "RUNNING",
           Runnable = {}, Doomed = {}
    PROVE  \A t \in Tasks : tasks[t] # "PENDING"
<1> SUFFICES ASSUME Pending # {} PROVE FALSE
  BY DEF Pending
<1>1. /\ TasksOf(graph) \subseteq Tasks
      /\ \A t \in Tasks : Needs(t) \subseteq TasksOf(graph)
  BY GraphIsValid DEF Needs
<1>2. PICK rank \in [Tasks -> Nat] :
          \A t \in TasksOf(graph) : \A d \in Needs(t) : rank[d] < rank[t]
  BY GraphIsValid DEF Needs
<1> DEFINE Ranks == {rank[t] : t \in Pending}
<1>3. Ranks \subseteq Nat /\ Ranks # {}
  BY DEF Pending
<1>4. PICK x \in Ranks : \A y \in Ranks : x <= y
  <2> HIDE DEF Ranks
  <2> QED BY <1>3, Smallest
<1>5. PICK t \in Pending : x = rank[t]
  BY <1>4
<1>6. t \in Tasks /\ t \in TasksOf(graph) /\ tasks[t] = "PENDING"
  BY <1>5 DEF Pending
<1>7. ASSUME NEW d \in Needs(t) PROVE tasks[d] \in TerminalOk
  <2>1. d \in TasksOf(graph) /\ d \in Tasks /\ rank[d] < rank[t]
    BY <1>1, <1>2, <1>6
  <2>2. rank[d] \in Nat /\ rank[t] \in Nat
    BY <2>1, <1>6
  <2>3. d \notin Pending
    BY <1>4, <1>5, <2>1, <2>2
  <2>4. tasks[d] \notin {"absent", "RUNNING", "PENDING"}
    BY <2>1, <2>3 DEF Pending
  <2>5. tasks[d] \notin DeadEnds
    BY <1>5 DEF Doomed
  <2> QED
    BY <2>1, <2>4, <2>5 DEF Statuses
<1>8. t \in Runnable
  BY <1>5, <1>7 DEF Runnable
<1> QED BY <1>8

LEMMA TaskRoundStep ==
    ASSUME TaskInv, RoundStep, graph \in DOMAIN Graphs
    PROVE  TaskInv'
<1>1. CASE TerminalizeReady
  BY <1>1 DEF TaskInv, TerminalizeReady, InRound, AtBarrier, Statuses,
              StageDone, Pending, IsFirst, TerminalOk, roundVars
<1>2. CASE BlockDownstream
  BY <1>2 DEF TaskInv, BlockDownstream, InRound, AtBarrier, Statuses,
              Doomed, Pending, IsFirst, DeadEnds, roundVars
<1>3. CASE Schedule
  <2>1. round' \subseteq Pending /\ queue' = round'
    BY <1>3 DEF Schedule, Batches, Runnable
  <2> QED
    BY <1>3, <2>1 DEF TaskInv, Schedule, InRound, AtBarrier, Pending
<1>4. CASE RoundsOver
  <2>1. \A t \in Tasks : tasks[t] # "RUNNING"
    BY <1>4 DEF TaskInv, RoundsOver, InRound
  <2>2. \A t \in Tasks : tasks[t] # "PENDING"
    BY <1>4, <2>1, NothingIsLeft DEF TaskInv, RoundsOver
  <2> QED
    BY <1>4, <2>1, <2>2 DEF TaskInv, RoundsOver, InRound, AtBarrier, roundVars
<1>5. CASE StartTask
  <2>1. PICK t \in queue :
          /\ tasks' = [tasks EXCEPT ![t] = "RUNNING"]
          /\ queue' = queue \ {t}
          /\ pc' = IF queue = {t} THEN "execute" ELSE "start"
          /\ UNCHANGED <<graph, round>> /\ pc = "start"
    BY <1>5 DEF StartTask, IsFirst
  <2> QED
    BY <2>1 DEF TaskInv, InRound, AtBarrier, Statuses
<1>6. CASE ExecuteReference
  BY <1>6 DEF TaskInv, ExecuteReference
<1>7. CASE Commit
  <2>1. PICK t \in round, st \in {"PASSED", "NEEDS_REVIEW"} :
          /\ tasks' = [tasks EXCEPT ![t] = st]
          /\ round' = round \ {t}
          /\ pc = "execute" /\ pc' = "checkpoint"
          /\ UNCHANGED <<graph, queue>>
    BY <1>7 DEF Commit, IsFirst
  <2> QED
    BY <2>1 DEF TaskInv, InRound, AtBarrier, Statuses, TerminalOk, DeadEnds
<1>8. CASE Checkpoint
  BY <1>8 DEF TaskInv, Checkpoint, InRound, AtBarrier
<1> QED
  BY <1>1, <1>2, <1>3, <1>4, <1>5, <1>6, <1>7, <1>8 DEF RoundStep

\* A change of graph keeps what passed and starts the rest over.
LEMMA AppliedTasks ==
    ASSUME TaskInv, NEW g \in DOMAIN Graphs, pc \notin InRound,
           tasks' = Applied(g), graph' = g,
           pc' \in {"plan", "mark"}, UNCHANGED <<round, queue>>
    PROVE  TaskInv'
BY DEF TaskInv, Applied, InRound, AtBarrier, Statuses, TerminalOk

\* The steps of a run that change no task and end where they may.
LEMMA TaskKept ==
    ASSUME TaskInv, UNCHANGED <<tasks, graph, round, queue>>,
           pc \notin InRound, pc' \notin InRound \cup {"plan"},
           pc' \in AtBarrier => pc \in AtBarrier
    PROVE  TaskInv'
BY DEF TaskInv, InRound, AtBarrier

LEMMA TaskNext == Shape /\ TaskInv /\ [Next]_vars => TaskInv'
<1> SUFFICES ASSUME Shape, TaskInv, [Next]_vars PROVE TaskInv'
  OBVIOUS
<1>1. CASE RunStep
  <2>1. CASE RoundStep /\ UNCHANGED planVars
    BY <2>1, TaskRoundStep DEF Shape
  <2>2. CASE GateOpens
    BY <2>2 DEF TaskInv, GateOpens, Recovered, InRound, AtBarrier, Statuses,
                roundVars
  <2>3. ASSUME NEW g \in DOMAIN Graphs, ReplanAuto(g) PROVE TaskInv'
    BY <2>3, AppliedTasks DEF ReplanAuto, InRound, roundVars
  <2>4. CASE \/ Run \/ Sync \/ GateCloses \/ StartReplan \/ NoReplan
             \/ PlannerFails \/ CreateRequest \/ WaitForHuman \/ SavePause
             \/ Finish \/ MarkResumed
             \/ \E g \in DOMAIN Graphs : ReplanNeedsHuman(g)
    <3>1. /\ UNCHANGED <<tasks, graph, round, queue>>
          /\ pc \notin InRound /\ pc' \notin InRound \cup {"plan"}
          /\ pc' \in AtBarrier => pc \in AtBarrier
      BY <2>4
      DEF Run, Sync, GateCloses, StartReplan, NoReplan, PlannerFails,
          CreateRequest, WaitForHuman, SavePause, Finish, MarkResumed,
          ReplanNeedsHuman, InRound, AtBarrier, roundVars
    <3> QED BY <3>1, TaskKept
  <2> QED
    BY <1>1, <2>1, <2>2, <2>3, <2>4 DEF RunStep
<1>2. CASE \E t \in Tasks : WorkerStep(t)
  BY <1>2 DEF TaskInv, WorkerStep, ExecuteWorker
<1>3. CASE pc = "off" /\ Run
  BY <1>3, TaskKept DEF Run, InRound, AtBarrier, roundVars
<1>4. CASE \E i \in DOMAIN approvals :
              \E d \in {"APPROVED", "REJECTED", "EXPIRED"} : Decide(i, d)
  BY <1>4 DEF TaskInv, Decide, schedVars
<1>5. ASSUME NEW i \in DOMAIN approvals, Resume(i) PROVE TaskInv'
  <2>1. CASE Activate(i)
    <3>1. revisions[RevisionOf(i)].graph \in DOMAIN Graphs
      <4>1. RevisionOf(i) \in DOMAIN revisions /\ revisions \in Seq(RevisionRecord)
        BY <2>1, RevisionOfIsOne DEF Activate, Shape
      <4>2. revisions[RevisionOf(i)] \in RevisionRecord
        BY <4>1, ElementOfSeq
      <4> QED BY <4>2 DEF RevisionRecord
    <3> QED
      BY <2>1, <3>1, AppliedTasks DEF Activate, InRound, roundVars
  <2>2. CASE ActivateAgain(i)
    BY <2>2, TaskKept DEF ActivateAgain, InRound, AtBarrier, roundVars
  <2> QED BY <1>5, <2>1, <2>2 DEF Resume
<1>6. CASE \E t \in Tasks : RetryTask(t)
  BY <1>6 DEF TaskInv, RetryTask, InRound, AtBarrier, Statuses, DeadEnds,
              roundVars
<1>7. CASE Crash
  BY <1>7 DEF TaskInv, Crash, CrashRun, InRound, AtBarrier
<1>8. CASE UNCHANGED vars
  BY <1>8 DEF TaskInv, vars, schedVars
<1> QED
  BY <1>1, <1>2, <1>3, <1>4, <1>5, <1>6, <1>7, <1>8 DEF Next

\* What the tasks' proofs rest on holds in every state.
LEMMA TasksHold == Spec => [](Shape /\ TaskInv /\ HoldInv)
<1>1. Init => Shape /\ TaskInv /\ HoldInv
  BY ShapeInit, TaskInit, HoldInit
<1>2. Shape /\ TaskInv /\ HoldInv /\ [Next]_vars => (Shape /\ TaskInv /\ HoldInv)'
  BY ShapeNext, TaskNext, HoldNext
<1> QED BY <1>1, <1>2, PTL DEF Spec

\* No task is started while an approval waits, however many approvals there
\* are and whenever the human answers (Waiting, the gate of run()).
THEOREM HeldWhileWaiting == Spec => NothingStartsWhileWaiting
<1>1. ASSUME Shape /\ TaskInv /\ HoldInv, [Next]_vars,
             NEW t \in Tasks, tasks[t] # "RUNNING", tasks'[t] = "RUNNING",
             NEW i \in DOMAIN approvals
      PROVE  approvals[i].st \notin {"WAITING_HUMAN", "APPROVED"}
  <2>1. pc = "start"
    BY <1>1, OnlyStartStarts DEF TaskInv
  <2>2. Waiting = {}
    BY <1>1, <2>1 DEF HoldInv, Working
  <2> QED BY <2>2 DEF Waiting
<1> DEFINE Held == \A t \in Tasks : tasks[t] # "RUNNING" /\ tasks'[t] = "RUNNING" =>
          \A i \in DOMAIN approvals :
              approvals[i].st \notin {"WAITING_HUMAN", "APPROVED"}
<1>2. Shape /\ TaskInv /\ HoldInv /\ [Next]_vars => [Held]_vars
  BY <1>1
<1>3. Spec => [][Held]_vars
  <2> HIDE DEF Held
  <2> QED BY <1>2, TasksHold, PTL DEF Spec
<1> QED BY <1>3 DEF NothingStartsWhileWaiting

LEMMA TerminalKeptStep ==
    ASSUME Shape, TaskInv, [Next]_vars, NEW t \in Tasks, tasks[t] \in TerminalOk
    PROVE  tasks'[t] = tasks[t] \/ (tasks'[t] = "absent" /\ graph' # graph)
<1>1. CASE RunStep
  <2>1. CASE RoundStep /\ UNCHANGED planVars
    <3>1. CASE TerminalizeReady
      BY <3>1 DEF TerminalizeReady, TaskInv, StageDone, Pending, IsFirst,
                  TerminalOk
    <3>2. CASE BlockDownstream
      BY <3>2 DEF BlockDownstream, TaskInv, Doomed, Pending, IsFirst, TerminalOk
    <3>3. CASE StartTask
      BY <3>3 DEF StartTask, TaskInv, IsFirst, TerminalOk
    <3>4. CASE Commit
      BY <3>4 DEF Commit, TaskInv, IsFirst, TerminalOk
    <3>5. CASE Schedule \/ RoundsOver \/ ExecuteReference \/ Checkpoint
      BY <3>5 DEF Schedule, RoundsOver, ExecuteReference, Checkpoint
    <3> QED
      BY <2>1, <3>1, <3>2, <3>3, <3>4, <3>5 DEF RoundStep
  <2>2. CASE GateOpens
    BY <2>2 DEF GateOpens, Recovered, TerminalOk
  <2>3. CASE \E g \in DOMAIN Graphs : ReplanAuto(g)
    BY <2>3 DEF ReplanAuto, Applied
  <2> QED
    BY <1>1, <2>1, <2>2, <2>3
    DEF RunStep, Run, Sync, GateCloses, StartReplan, NoReplan, PlannerFails,
        ReplanNeedsHuman, CreateRequest, WaitForHuman, SavePause, Finish,
        MarkResumed
<1>2. CASE \E u \in Tasks : RetryTask(u)
  BY <1>2 DEF RetryTask, TaskInv, DeadEnds, TerminalOk
<1>3. CASE \E i \in DOMAIN approvals : Resume(i)
  <2>1. t \in TasksOf(graph)
    BY DEF TaskInv, TerminalOk
  <2> QED
    BY <1>3, <2>1 DEF Resume, Activate, ActivateAgain, Applied
<1> QED
  BY <1>1, <1>2, <1>3
  DEF Next, WorkerStep, ExecuteWorker, Run, Decide, Crash, CrashRun, vars,
      schedVars

\* What passed is never executed again (_parallel_recovery_pass, RETRY_TASK
\* and _apply_graph_revision keep it), for any graphs and any crashes.
THEOREM TerminalKept == Spec => TerminalIsKept
<1> DEFINE Kept == \A t \in Tasks : tasks[t] \in TerminalOk =>
          tasks'[t] = tasks[t] \/ (tasks'[t] = "absent" /\ graph' # graph)
<1>1. Shape /\ TaskInv /\ HoldInv /\ [Next]_vars => [Kept]_vars
  BY TerminalKeptStep
<1>2. Spec => [][Kept]_vars
  <2> HIDE DEF Kept
  <2> QED BY <1>1, TasksHold, PTL DEF Spec
<1> QED BY <1>2 DEF TerminalIsKept

\* A run ends with nothing left to execute, whatever the graph: the argument
\* that _run_parallel may stop when nothing is runnable or to be blocked.
THEOREM NothingLeftAtFinish == Spec => FinishLeavesNothing
<1> DEFINE Left == Finish => \/ status' = "waiting_approval"
                             \/ \A t \in Tasks : tasks[t] \notin {"PENDING", "RUNNING"}
<1>1. Shape /\ TaskInv /\ HoldInv /\ [Next]_vars => [Left]_vars
  BY DEF TaskInv, Finish, InRound, AtBarrier
<1>2. Spec => [][Left]_vars
  <2> HIDE DEF Left
  <2> QED BY <1>1, TasksHold, PTL DEF Spec
<1> QED BY <1>2 DEF FinishLeavesNothing

-----------------------------------------------------------------------------
(* OnlyApprovedIsActive: every candidate has a request of its number and    *)
(* graph, and becomes active by an approval of its number.                  *)

Backed ==
    \A k \in DOMAIN revisions :
        ~revisions[k].auto =>
            \E i \in DOMAIN approvals :
                /\ approvals[i].rev = revisions[k].rev
                /\ approvals[i].graph = revisions[k].graph

Given == {"APPROVED", "RESUMED"}

\* Records are added and keep what they are about; what was approved stays so.
Grows ==
    /\ DOMAIN approvals \subseteq DOMAIN approvals'
    /\ \A i \in DOMAIN approvals :
          /\ approvals'[i].rev = approvals[i].rev
          /\ approvals'[i].graph = approvals[i].graph
          /\ approvals[i].st \in Given => approvals'[i].st \in Given
    /\ DOMAIN revisions \subseteq DOMAIN revisions'
    /\ \A k \in DOMAIN revisions :
          /\ revisions'[k].rev = revisions[k].rev
          /\ revisions'[k].graph = revisions[k].graph
          /\ revisions'[k].auto = revisions[k].auto

\* No revision becomes active but those the policy let in.
NoneActivated ==
    \A k \in DOMAIN revisions' :
        revisions'[k].st = "active" /\ ~revisions'[k].auto =>
            k \in DOMAIN revisions /\ revisions[k].st = "active"

\* A revision that is new has a request of its number.
NewAreBacked ==
    \A k \in DOMAIN revisions' \ DOMAIN revisions :
        ~revisions'[k].auto =>
            \E i \in DOMAIN approvals' :
                /\ approvals'[i].rev = revisions'[k].rev
                /\ approvals'[i].graph = revisions'[k].graph

LEMMA BackedKept ==
    ASSUME Backed, Grows, NewAreBacked
    PROVE  Backed'
<1> SUFFICES ASSUME NEW k \in DOMAIN revisions', ~revisions'[k].auto
             PROVE  \E i \in DOMAIN approvals' :
                        /\ approvals'[i].rev = revisions'[k].rev
                        /\ approvals'[i].graph = revisions'[k].graph
  BY DEF Backed
<1>1. CASE k \in DOMAIN revisions
  <2>1. PICK i \in DOMAIN approvals :
           /\ approvals[i].rev = revisions[k].rev
           /\ approvals[i].graph = revisions[k].graph
    BY <1>1 DEF Backed, Grows
  <2> QED BY <1>1, <2>1 DEF Grows
<1>2. CASE k \notin DOMAIN revisions
  BY <1>2 DEF NewAreBacked
<1> QED BY <1>1, <1>2

LEMMA ApprovedKept ==
    ASSUME OnlyApprovedIsActive, Grows, NoneActivated
    PROVE  OnlyApprovedIsActive'
<1> SUFFICES ASSUME NEW k \in DOMAIN revisions',
                    revisions'[k].st = "active", ~revisions'[k].auto,
                    \A i, j \in DOMAIN approvals' :
                        /\ approvals'[i].rev = revisions'[k].rev
                        /\ approvals'[j].rev = revisions'[k].rev
                        => i = j,
                    \A l, m \in DOMAIN revisions' :
                        /\ revisions'[l].rev = revisions'[k].rev
                        /\ revisions'[m].rev = revisions'[k].rev
                        => l = m
             PROVE  \E i \in DOMAIN approvals' :
                        /\ approvals'[i].rev = revisions'[k].rev
                        /\ approvals'[i].graph = revisions'[k].graph
                        /\ approvals'[i].st \in Given
  BY DEF OnlyApprovedIsActive, OnlyOneNumbered, Given
<1>1. k \in DOMAIN revisions /\ revisions[k].st = "active"
  BY DEF NoneActivated
<1>2. /\ revisions'[k].rev = revisions[k].rev /\ ~revisions[k].auto
      /\ revisions'[k].graph = revisions[k].graph
  BY <1>1 DEF Grows
<1> DEFINE n == revisions[k].rev
<1>3. OnlyOneNumbered(n)
  <2>1. n = revisions'[k].rev
    BY <1>2
  <2> HIDE DEF n
  <2> QED BY <2>1 DEF Grows, OnlyOneNumbered
<1>4. PICK i \in DOMAIN approvals :
          /\ approvals[i].rev = revisions[k].rev
          /\ approvals[i].graph = revisions[k].graph
          /\ approvals[i].st \in Given
  BY <1>1, <1>2, <1>3 DEF OnlyApprovedIsActive, Given
<1> QED BY <1>2, <1>4 DEF Grows

\* The steps that touch neither approvals nor revisions.
LEMMA LedgerSame ==
    ASSUME UNCHANGED <<approvals, revisions>>
    PROVE  Grows /\ NoneActivated /\ NewAreBacked
BY DEF Grows, NoneActivated, NewAreBacked

LEMMA LedgerSync ==
    ASSUME Shape, Sync
    PROVE  Grows /\ NoneActivated /\ NewAreBacked
<1>1. approvals' = approvals /\ DOMAIN revisions' = DOMAIN revisions
  BY DEF Sync
<1>2. ASSUME NEW k \in DOMAIN revisions
      PROVE  /\ revisions'[k].rev = revisions[k].rev
             /\ revisions'[k].graph = revisions[k].graph
             /\ revisions'[k].auto = revisions[k].auto
             /\ revisions'[k].st = "active" => revisions[k].st = "active"
  <2>1. revisions[k] \in RevisionRecord
    BY ElementOfSeq DEF Shape
  <2>2. revisions'[k] \in {revisions[k], [revisions[k] EXCEPT !.st = "rejected"]}
    BY DEF Sync
  <2> QED BY <2>1, <2>2 DEF RevisionRecord
<1> QED
  BY <1>1, <1>2 DEF Grows, NoneActivated, NewAreBacked

\* A revision is added that is not active or was let in by the policy.
LEMMA LedgerRevision ==
    ASSUME Shape, approvals' = approvals,
           NEW r \in RevisionRecord, revisions' = Append(revisions, r),
           r.auto \/ (/\ r.st # "active"
                      /\ \E i \in DOMAIN approvals : /\ approvals[i].rev = r.rev
                                                     /\ approvals[i].graph = r.graph)
    PROVE  Grows /\ NoneActivated /\ NewAreBacked
<1>1. revisions \in Seq(RevisionRecord)
  BY DEF Shape
<1>2. /\ DOMAIN revisions \subseteq DOMAIN revisions'
      /\ \A k \in DOMAIN revisions : revisions'[k] = revisions[k]
      /\ \A k \in DOMAIN revisions' \ DOMAIN revisions : revisions'[k] = r
  BY <1>1, AppendProperties
<1> QED
  BY <1>2 DEF Grows, NoneActivated, NewAreBacked

LEMMA LedgerRequest ==
    ASSUME Shape, CreateRequest
    PROVE  Grows /\ NoneActivated /\ NewAreBacked
<1> DEFINE a == [st |-> "PENDING", rev |-> revision + 1, graph |-> proposal]
<1>1. approvals \in Seq(Approval) /\ a \in Approval
      /\ approvals' = Append(approvals, a) /\ revisions' = revisions
  BY DEF Shape, CreateRequest, Approval, ApprovalStatuses, revVars
<1>2. /\ DOMAIN approvals \subseteq DOMAIN approvals'
      /\ \A i \in DOMAIN approvals : approvals'[i] = approvals[i]
  <2> HIDE DEF a
  <2> QED BY <1>1, AppendProperties
<1> QED
  BY <1>1, <1>2 DEF Grows, NoneActivated, NewAreBacked

\* The status of one approval is written, and not to undo an approval.
LEMMA LedgerStatus ==
    ASSUME Shape, NEW i \in DOMAIN approvals, NEW st \in ApprovalStatuses,
           approvals' = [approvals EXCEPT ![i].st = st],
           approvals[i].st \in Given => st \in Given,
           revisions' = revisions
    PROVE  Grows /\ NoneActivated /\ NewAreBacked
<1>1. approvals \in Seq(Approval)
  BY DEF Shape
<1> DEFINE n == [approvals EXCEPT ![i].st = st]
<1>2. /\ DOMAIN n = DOMAIN approvals
      /\ \A j \in DOMAIN approvals :
            /\ n[j].rev = approvals[j].rev /\ n[j].graph = approvals[j].graph
            /\ n[j].st = IF j = i THEN st ELSE approvals[j].st
  BY <1>1, StatusWritten
<1>3. approvals' = n
  OBVIOUS
<1> HIDE DEF n
<1> QED
  BY <1>2, <1>3 DEF Grows, NoneActivated, NewAreBacked

\* The activation of an approved revision: it is the only one to bear its
\* number, so the request that backs it is the one that was approved.
LEMMA LedgerActivate ==
    ASSUME Shape, Backed, OnlyApprovedIsActive,
           NEW i \in DOMAIN approvals, Activate(i)
    PROVE  Backed' /\ OnlyApprovedIsActive'
<1> DEFINE k == RevisionOf(i)
<1>1. /\ k \in DOMAIN revisions /\ revisions[k].rev = approvals[i].rev
      /\ revisions \in Seq(RevisionRecord)
  BY RevisionOfIsOne DEF Activate, Shape
<1>2. /\ approvals' = approvals /\ approvals[i].st = "APPROVED"
      /\ revisions' = [revisions EXCEPT ![k].st = "active"]
  BY DEF Activate
<1> HIDE DEF k
<1> DEFINE n == [revisions EXCEPT ![k].st = "active"]
<1>3. /\ DOMAIN n = DOMAIN revisions
      /\ \A l \in DOMAIN revisions :
            /\ n[l].rev = revisions[l].rev
            /\ n[l].graph = revisions[l].graph
            /\ n[l].auto = revisions[l].auto
            /\ l # k => n[l].st = revisions[l].st
  BY <1>1, RevisionWritten
<1>4. revisions' = n
  BY <1>2
<1> HIDE DEF n
<1>5. Grows /\ NewAreBacked
  BY <1>2, <1>3, <1>4 DEF Grows, NewAreBacked
<1>6. Backed'
  BY <1>5, BackedKept
<1>7. OnlyApprovedIsActive'
  <2> SUFFICES ASSUME NEW l \in DOMAIN revisions',
                      revisions'[l].st = "active", ~revisions'[l].auto,
                      \A j, m \in DOMAIN approvals' :
                          /\ approvals'[j].rev = revisions'[l].rev
                          /\ approvals'[m].rev = revisions'[l].rev
                          => j = m,
                      \A j, m \in DOMAIN revisions' :
                          /\ revisions'[j].rev = revisions'[l].rev
                          /\ revisions'[m].rev = revisions'[l].rev
                          => j = m
               PROVE  \E j \in DOMAIN approvals' :
                          /\ approvals'[j].rev = revisions'[l].rev
                          /\ approvals'[j].graph = revisions'[l].graph
                          /\ approvals'[j].st \in Given
    BY DEF OnlyApprovedIsActive, OnlyOneNumbered, Given
  <2>0. /\ l \in DOMAIN revisions /\ ~revisions[l].auto
        /\ revisions'[l].rev = revisions[l].rev
        /\ revisions'[l].graph = revisions[l].graph
        /\ OnlyOneNumbered(revisions[l].rev)
    BY <1>2, <1>3, <1>4 DEF OnlyOneNumbered
  <2>1. CASE l = k
    <3>1. PICK j \in DOMAIN approvals : /\ approvals[j].rev = revisions[l].rev
                                        /\ approvals[j].graph = revisions[l].graph
      BY <2>0 DEF Backed
    <3>2. j = i
      BY <1>1, <2>0, <2>1, <3>1 DEF OnlyOneNumbered
    <3> QED BY <1>2, <2>0, <3>1, <3>2 DEF Given
  <2>2. CASE l # k
    BY <1>2, <1>3, <1>4, <2>0, <2>2 DEF OnlyApprovedIsActive, Given
  <2> QED BY <2>1, <2>2
<1> QED BY <1>6, <1>7

LEMMA ApprovedNext ==
    Shape /\ Backed /\ OnlyApprovedIsActive /\ [Next]_vars
        => Backed' /\ OnlyApprovedIsActive'
<1> SUFFICES ASSUME Shape, Backed, OnlyApprovedIsActive, [Next]_vars
             PROVE  Backed' /\ OnlyApprovedIsActive'
  OBVIOUS
<1>0. Grows /\ NoneActivated /\ NewAreBacked => Backed' /\ OnlyApprovedIsActive'
  BY BackedKept, ApprovedKept
<1>1. CASE UNCHANGED <<approvals, revisions>>
  BY <1>0, <1>1, LedgerSame
<1>2. CASE Sync
  BY <1>0, <1>2, LedgerSync
<1>3. ASSUME NEW g \in DOMAIN Graphs, ReplanAuto(g)
      PROVE  Grows /\ NoneActivated /\ NewAreBacked
  <2> DEFINE r == [rev |-> revision + 1, graph |-> g, st |-> "active", auto |-> TRUE]
  <2>1. r \in RevisionRecord /\ approvals' = approvals
        /\ revisions' = Append(revisions, r) /\ r.auto
    BY <1>3 DEF Shape, RevisionRecord, ReplanAuto
  <2> HIDE DEF r
  <2> QED BY <2>1, LedgerRevision
<1>4. CASE CreateRequest
  BY <1>0, <1>4, LedgerRequest
<1>5. CASE WaitForHuman
  <2>1. /\ Len(approvals) \in DOMAIN approvals
        /\ approvals[Len(approvals)].st \notin Given
    BY <1>5 DEF Shape, WaitForHuman, Given
  <2> QED
    BY <1>0, <1>5, <2>1, LedgerStatus DEF WaitForHuman, ApprovalStatuses, revVars
<1>6. CASE SavePause
  <2> DEFINE r == [rev |-> revision + 1, graph |-> proposal,
                   st |-> "pending_approval", auto |-> FALSE]
  <2>1. r \in RevisionRecord /\ approvals' = approvals
        /\ revisions' = Append(revisions, r) /\ r.st # "active"
    BY <1>6 DEF Shape, RevisionRecord, SavePause
  <2>2. Len(approvals) \in DOMAIN approvals
        /\ approvals[Len(approvals)].rev = r.rev
        /\ approvals[Len(approvals)].graph = r.graph
    BY <1>6 DEF Shape, SavePause
  <2> HIDE DEF r
  <2> QED BY <1>0, <2>1, <2>2, LedgerRevision
<1>7. ASSUME NEW i \in DOMAIN approvals,
             NEW d \in {"APPROVED", "REJECTED", "EXPIRED"}, Decide(i, d)
      PROVE  Grows /\ NoneActivated /\ NewAreBacked
  BY <1>7, LedgerStatus DEF Decide, ApprovalStatuses, Given, revVars
<1>8. CASE MarkResumed
  BY <1>0, <1>8, LedgerStatus
  DEF MarkResumed, ApprovalStatuses, Given, revVars, Shape
<1>9. ASSUME NEW i \in DOMAIN approvals, Resume(i)
      PROVE  Backed' /\ OnlyApprovedIsActive'
  BY <1>0, <1>9, LedgerActivate, LedgerSame DEF Resume, ActivateAgain, revVars
<1> QED
  BY <1>0, <1>1, <1>2, <1>3, <1>4, <1>5, <1>6, <1>7, <1>8, <1>9
  DEF Next, RunStep, WorkerStep, ExecuteWorker, Run, GateCloses, GateOpens,
      StartReplan, NoReplan, PlannerFails, ReplanNeedsHuman, Finish, RetryTask,
      Crash, CrashRun, planVars, revVars, schedVars, vars

\* A candidate that needed a human is active only by its own approval, for
\* any number of replans, retries and crashes.
THEOREM ApprovedBeforeActive == Spec => []OnlyApprovedIsActive
<1>1. Init => Backed /\ OnlyApprovedIsActive
  BY DEF Init, Backed, OnlyApprovedIsActive
<1> QED
  BY <1>1, ShapeHolds, ApprovedNext, PTL DEF Spec

-----------------------------------------------------------------------------
(* SoundInputs: what passed has its artifact in the case state of the run   *)
(* and, once checkpointed, on disk; what is started finds its inputs there. *)

\* A stage is done only with an artifact fit to pass.
DoneBacked(c) ==
    \A t \in c.done : Passes(c.art[t]) /\ t \in Staged \cup Reference

WorkerRecord == [at : {"idle", "running", "done"}, ready : BOOLEAN, case : Cases]

CaseInv ==
    /\ mem \in Cases /\ DoneBacked(mem)
    /\ disk \in Cases /\ DoneBacked(disk)
    /\ workers \in [Tasks -> WorkerRecord]
    /\ \A t \in Tasks : DoneBacked(workers[t].case)
    /\ \A t \in Tasks \ round : workers[t] = Idle
    /\ unsaved \subseteq Tasks
    /\ unsaved # {} => pc = "checkpoint"
    /\ \A t \in unsaved : tasks[t] \in {"PASSED", "NEEDS_REVIEW"}
    /\ torn \in BOOLEAN

\* A stage the scheduler's thread executed holds its artifact until commit.
ReferencesBacked ==
    \A t \in Reference :
        workers[t].at = "done" /\ workers[t].ready => Passes(mem.art[t])

\* What is still to be started has its dependencies.
QueueReady ==
    \A t \in queue : \A d \in Needs(t) : tasks[d] \in TerminalOk

\* Artifacts fit to pass stay so.
Improves(m, n) == \A t \in Tasks : Passes(m.art[t]) => Passes(n.art[t])

LEMMA EmptyIsCase == EmptyCase \in Cases /\ DoneBacked(EmptyCase)
BY DEF EmptyCase, Cases, Contents, DoneBacked

LEMMA CaseInit == Init => CaseInv /\ ReferencesBacked /\ QueueReady
<1> SUFFICES ASSUME Init PROVE CaseInv /\ ReferencesBacked /\ QueueReady
  OBVIOUS
<1>1. Idle \in WorkerRecord /\ Idle.case = EmptyCase /\ Idle.at = "idle"
  BY EmptyIsCase DEF Idle, WorkerRecord
<1>2. workers = [t \in Tasks |-> Idle]
  BY DEF Init, SchedInit
<1>3. workers \in [Tasks -> WorkerRecord] /\ \A t \in Tasks : workers[t] = Idle
  BY <1>1, <1>2
<1> QED
  BY <1>1, <1>3, EmptyIsCase, ModesAssumption
  DEF Init, SchedInit, CaseInv, ReferencesBacked, QueueReady

\* What an agent hands back is a case state it improved.
LEMMA AgentResult ==
    ASSUME NEW t \in Tasks \ Reference, NEW s \in Cases, DoneBacked(s),
           NEW r \in AgentResults(t, s)
    PROVE  r.case \in Cases /\ DoneBacked(r.case) /\ r.ready \in BOOLEAN
<1> DEFINE staged == [art |-> [s.art EXCEPT ![t] = "good"], done |-> s.done \cup {t}]
           stored(c) == [s EXCEPT !.art[t] = c]
<1>1. /\ r.ready \in BOOLEAN
      /\ \/ r.case = s
         \/ t \in Staged /\ r.case = staged
         \/ t \notin Staged /\ \E c \in {"bad", "good"} : r.case = stored(c)
  BY DEF AgentResults
<1>2. s.art \in [Tasks -> Contents] /\ s.done \in SUBSET Tasks
  BY DEF Cases
<1>3. CASE t \in Staged /\ r.case = staged
  <2>1. staged \in Cases
    BY <1>2 DEF Cases, Contents
  <2>2. DoneBacked(staged)
    BY <1>2, <1>3 DEF DoneBacked, Passes
  <2> QED BY <1>1, <1>3, <2>1, <2>2
<1>4. ASSUME NEW c \in {"bad", "good"}, t \notin Staged, r.case = stored(c)
      PROVE  r.case \in Cases /\ DoneBacked(r.case)
  <2>1. t \notin s.done
    BY <1>4 DEF DoneBacked
  <2>2. /\ stored(c) = [art |-> [s.art EXCEPT ![t] = c], done |-> s.done]
    BY DEF Cases
  <2> HIDE DEF stored
  <2> QED
    BY <1>2, <1>4, <2>1, <2>2 DEF Cases, Contents, DoneBacked
<1> QED BY <1>1, <1>3, <1>4

\* Merging what a worker made never spoils what the run holds.
LEMMA MergeImproves ==
    ASSUME NEW m \in Cases, NEW w \in Cases, DoneBacked(m), DoneBacked(w)
    PROVE  /\ Merged(m, w) \in Cases /\ DoneBacked(Merged(m, w))
           /\ Improves(m, Merged(m, w))
<1> DEFINE n == [art |-> [x \in Tasks |-> IF m.art[x] = "none" THEN w.art[x]
                                        ELSE m.art[x]],
                 done |-> m.done \cup {x \in w.done : m.art[x] = "none"}]
<1>1. /\ m.art \in [Tasks -> Contents] /\ m.done \in SUBSET Tasks
      /\ w.art \in [Tasks -> Contents] /\ w.done \in SUBSET Tasks
  BY DEF Cases
<1>2. n \in Cases
  BY <1>1 DEF Cases
<1>3. DoneBacked(n)
  BY <1>1 DEF DoneBacked, Passes
<1>4. Improves(m, n)
  BY DEF Improves, Passes
<1>5. Merged(m, w) = m \/ Merged(m, w) = n
  BY DEF Merged
<1> HIDE DEF n
<1> QED BY <1>2, <1>3, <1>4, <1>5 DEF Improves

\* One artifact is made good.
LEMMA GoodImproves ==
    ASSUME NEW m \in Cases, DoneBacked(m), NEW t \in Tasks
    PROVE  LET n == [m EXCEPT !.art[t] = "good"]
           IN  /\ n \in Cases /\ DoneBacked(n) /\ Improves(m, n)
               /\ Passes(n.art[t])
<1>1. m.art \in [Tasks -> Contents] /\ m.done \in SUBSET Tasks
  BY DEF Cases
<1>2. [m EXCEPT !.art[t] = "good"]
        = [art |-> [m.art EXCEPT ![t] = "good"], done |-> m.done]
  BY DEF Cases
<1> DEFINE n == [art |-> [m.art EXCEPT ![t] = "good"], done |-> m.done]
<1>3. n \in Cases
  BY <1>1 DEF Cases, Contents
<1>4. DoneBacked(n) /\ Improves(m, n) /\ Passes(n.art[t])
  BY <1>1 DEF DoneBacked, Passes, Improves
<1> QED BY <1>2, <1>3, <1>4

\* A stage that is backed is marked done.
LEMMA DoneImproves ==
    ASSUME NEW m \in Cases, DoneBacked(m), NEW t \in Reference \cap Tasks,
           Passes(m.art[t])
    PROVE  LET n == [m EXCEPT !.done = @ \cup {t}]
           IN  n \in Cases /\ DoneBacked(n) /\ Improves(m, n)
<1>1. m.art \in [Tasks -> Contents] /\ m.done \in SUBSET Tasks
  BY DEF Cases
<1>2. [m EXCEPT !.done = @ \cup {t}] = [art |-> m.art, done |-> m.done \cup {t}]
  BY DEF Cases
<1> DEFINE n == [art |-> m.art, done |-> m.done \cup {t}]
<1>3. n \in Cases
  BY <1>1 DEF Cases
<1>4. DoneBacked(n) /\ Improves(m, n)
  BY DEF DoneBacked, Improves
<1> QED BY <1>2, <1>3, <1>4

\* What a commit makes of the case state; a PASSED has its artifact.
LEMMA CommitImproves ==
    ASSUME CaseInv, ReferencesBacked, NEW t \in Tasks, workers[t].at = "done",
           NEW c \in IF t \in Reference THEN ReferenceCommits(t) ELSE AgentCommits(t)
    PROVE  /\ c.case \in Cases /\ DoneBacked(c.case) /\ Improves(mem, c.case)
           /\ c.ok => Passes(c.case.art[t])
<1>1. CASE t \in Reference
  <2>1. c.case = (IF workers[t].ready THEN [mem EXCEPT !.done = @ \cup {t}] ELSE mem)
        /\ c.ok = workers[t].ready
    BY <1>1 DEF ReferenceCommits
  <2>2. CASE workers[t].ready
    <3>1. Passes(mem.art[t])
      BY <1>1, <2>2 DEF ReferencesBacked
    <3> QED
      BY <1>1, <2>1, <2>2, <3>1, DoneImproves DEF CaseInv, Improves
  <2>3. CASE ~workers[t].ready
    BY <2>1, <2>3 DEF CaseInv, Improves
  <2> QED BY <2>2, <2>3
<1>2. CASE t \notin Reference
  <2> DEFINE merged == Merged(mem, workers[t].case)
             repaired == [merged EXCEPT !.art[t] = "good"]
  <2>1. workers[t].case \in Cases /\ DoneBacked(workers[t].case)
    BY DEF CaseInv, WorkerRecord
  <2>2. merged \in Cases /\ DoneBacked(merged) /\ Improves(mem, merged)
    BY <2>1, MergeImproves DEF CaseInv
  <2>3. \/ c.case = merged /\ c.ok = FALSE
        \/ c.case = merged /\ Passes(merged.art[t])
        \/ c.case = repaired
    BY <1>2 DEF AgentCommits, EvalAndRepair
  <2> HIDE DEF merged
  <2>4. /\ repaired \in Cases /\ DoneBacked(repaired)
        /\ Improves(merged, repaired) /\ Passes(repaired.art[t])
    BY <2>2, GoodImproves
  <2> HIDE DEF repaired
  <2> QED BY <2>2, <2>3, <2>4 DEF Improves
<1> QED BY <1>1, <1>2

\* The steps that give nothing new to the case states, the workers and the
\* round, and do not leave a task between its status and its checkpoint.
Quiet ==
    /\ UNCHANGED <<mem, workers, round, unsaved, torn>>
    /\ disk' \in {disk, mem}
    /\ pc # "checkpoint"

LEMMA QuietSteps ==
    ASSUME [Next]_vars
    PROVE  \/ Quiet
           \/ Schedule \/ StartTask \/ ExecuteReference \/ Commit \/ Checkpoint
           \/ \E t \in Tasks : ExecuteWorker(t)
           \/ Run \/ CrashRun
           \/ \E i \in DOMAIN approvals :
                 \E d \in {"APPROVED", "REJECTED", "EXPIRED"} : Decide(i, d)
           \/ UNCHANGED vars
<1>1. CASE RoundStep
  BY <1>1 DEF RoundStep, Quiet, TerminalizeReady, BlockDownstream, RoundsOver,
              roundVars, faultVars
<1>2. CASE RunStep /\ ~RoundStep
  BY <1>2 DEF RunStep, Quiet, Sync, GateCloses, GateOpens, StartReplan, NoReplan,
      PlannerFails, ReplanAuto, ReplanNeedsHuman, CreateRequest, WaitForHuman,
      SavePause, Finish, MarkResumed, roundVars, faultVars
<1>3. CASE \E t \in Tasks : RetryTask(t)
  BY <1>3 DEF RetryTask, Quiet, roundVars, faultVars
<1>4. CASE \E i \in DOMAIN approvals : Resume(i)
  BY <1>4 DEF Resume, Activate, ActivateAgain, Quiet, roundVars, faultVars
<1> QED
  BY <1>1, <1>2, <1>3, <1>4 DEF Next, WorkerStep, Crash

\* What one task of the round works on or reports is written.
LEMMA WorkerSet ==
    ASSUME CaseInv, TaskInv, round' = round, NEW t \in round,
           NEW w \in WorkerRecord, DoneBacked(w.case),
           workers' = [workers EXCEPT ![t] = w]
    PROVE  /\ workers' \in [Tasks -> WorkerRecord]
           /\ \A u \in Tasks : DoneBacked(workers'[u].case)
           /\ \A u \in Tasks \ round' : workers'[u] = Idle
<1>1. t \in Tasks
  BY DEF TaskInv
<1>2. workers \in [Tasks -> WorkerRecord]
  BY DEF CaseInv
<1>3. \A u \in Tasks : workers'[u] = IF u = t THEN w ELSE workers[u]
  BY <1>1, <1>2
<1> QED
  BY <1>1, <1>2, <1>3 DEF CaseInv

LEMMA CaseNext ==
    TaskInv /\ CaseInv /\ ReferencesBacked /\ [Next]_vars => CaseInv'
<1> SUFFICES ASSUME TaskInv, CaseInv, ReferencesBacked, [Next]_vars
             PROVE  CaseInv'
  OBVIOUS
<1>1. CASE Quiet
  BY <1>1 DEF Quiet, CaseInv
<1>2. CASE Schedule
  BY <1>2 DEF Schedule, CaseInv, TaskInv, InRound, faultVars
<1>3. CASE StartTask
  <2>1. PICK t \in queue :
          workers' = [workers EXCEPT ![t] = [at |-> "running", ready |-> FALSE,
                                             case |-> mem]]
    BY <1>3 DEF StartTask, IsFirst
  <2>2. /\ UNCHANGED <<graph, disk, mem, round, unsaved, torn>>
        /\ pc = "start" /\ t \in round /\ t \in Tasks
    BY <1>3, <2>1 DEF StartTask, TaskInv, faultVars
  <2> DEFINE w == [at |-> "running", ready |-> FALSE, case |-> mem]
  <2>3. w \in WorkerRecord /\ w.case = mem
    BY DEF CaseInv, WorkerRecord
  <2>7. workers' = [workers EXCEPT ![t] = w]
    BY <2>1
  <2> HIDE DEF w
  <2>8. /\ workers' \in [Tasks -> WorkerRecord]
        /\ \A u \in Tasks : DoneBacked(workers'[u].case)
        /\ \A u \in Tasks \ round' : workers'[u] = Idle
    BY <2>1, <2>2, <2>3, <2>7, WorkerSet DEF CaseInv
  <2> QED
    BY <2>1, <2>2, <2>3, <2>8 DEF CaseInv
<1>4. CASE ExecuteReference
  <2>0. PICK t \in Tasks : \E r \in StageResults(t, mem) :
          /\ IsFirst(t, RoundRefs)
          /\ mem' = r.case
          /\ workers' = [workers EXCEPT ![t] = [at |-> "done", ready |-> r.ready,
                                                case |-> EmptyCase]]
    BY <1>4 DEF ExecuteReference
  <2>1. PICK r \in StageResults(t, mem) :
          /\ IsFirst(t, RoundRefs)
          /\ mem' = r.case
          /\ workers' = [workers EXCEPT ![t] = [at |-> "done", ready |-> r.ready,
                                                case |-> EmptyCase]]
    BY <2>0
  <2>2. /\ UNCHANGED <<disk, round, unsaved, torn, tasks>> /\ pc = "execute"
        /\ t \in round /\ t \in Reference
    BY <1>4, <2>1 DEF ExecuteReference, IsFirst, RoundRefs, faultVars
  <2>3. mem' \in Cases /\ DoneBacked(mem')
    <3> DEFINE stored == [mem EXCEPT !.art[t] = "good"]
    <3>1. \/ r.case = mem
          \/ r.case = stored
          \/ r.case = [stored EXCEPT !.done = @ \cup {t}]
      BY <2>1 DEF StageResults
    <3>2. stored \in Cases /\ DoneBacked(stored) /\ Passes(stored.art[t])
      BY GoodImproves DEF CaseInv
    <3> HIDE DEF stored
    <3>3. /\ [stored EXCEPT !.done = @ \cup {t}] \in Cases
          /\ DoneBacked([stored EXCEPT !.done = @ \cup {t}])
      BY <2>2, <3>2, DoneImproves
    <3> QED BY <2>1, <3>1, <3>2, <3>3 DEF CaseInv
  <2> DEFINE w == [at |-> "done", ready |-> r.ready, case |-> EmptyCase]
  <2>4. w \in WorkerRecord /\ w.case = EmptyCase
    <3>1. r.ready = FALSE \/ r.ready = TRUE
      BY DEF StageResults
    <3> QED BY <3>1, EmptyIsCase DEF WorkerRecord
  <2>7. workers' = [workers EXCEPT ![t] = w]
    BY <2>1
  <2> HIDE DEF w
  <2>8. /\ workers' \in [Tasks -> WorkerRecord]
        /\ \A u \in Tasks : DoneBacked(workers'[u].case)
        /\ \A u \in Tasks \ round' : workers'[u] = Idle
    BY <2>1, <2>2, <2>3, <2>4, EmptyIsCase, <2>7, WorkerSet DEF CaseInv
  <2> QED
    BY <2>1, <2>2, <2>3, <2>4, EmptyIsCase, <2>8 DEF CaseInv
<1>5. CASE Commit
  <2>1. PICK t \in Tasks : \E c \in IF t \in Reference THEN ReferenceCommits(t)
                                    ELSE AgentCommits(t) :
          /\ IsFirst(t, round)
          /\ mem' = c.case
          /\ tasks' = [tasks EXCEPT ![t] = IF c.ok THEN "PASSED" ELSE "NEEDS_REVIEW"]
          /\ round' = round \ {t}
          /\ workers' = [workers EXCEPT ![t] = Idle]
          /\ unsaved' = {t}
    BY <1>5 DEF Commit
  <2>2. PICK c \in IF t \in Reference THEN ReferenceCommits(t)
                   ELSE AgentCommits(t) :
          /\ mem' = c.case
          /\ tasks' = [tasks EXCEPT ![t] = IF c.ok THEN "PASSED" ELSE "NEEDS_REVIEW"]
    BY <2>1
  <2>3. /\ UNCHANGED <<disk, torn>> /\ pc' = "checkpoint"
        /\ t \in round /\ workers[t].at = "done"
    BY <1>5, <2>1 DEF Commit, IsFirst, faultVars
  <2>4. mem' \in Cases /\ DoneBacked(mem')
    BY <2>2, <2>3, CommitImproves
  <2>5. Idle \in WorkerRecord /\ Idle.case = EmptyCase
    BY EmptyIsCase DEF Idle, WorkerRecord
  <2> HIDE DEF Idle
  <2> QED
    BY <2>1, <2>2, <2>3, <2>4, <2>5, EmptyIsCase DEF CaseInv, TaskInv
<1>6. CASE Checkpoint
  BY <1>6 DEF Checkpoint, CaseInv, faultVars
<1>7. ASSUME NEW t \in Tasks, ExecuteWorker(t) PROVE CaseInv'
  <2>1. PICK r \in AgentResults(t, workers[t].case) :
          workers' = [workers EXCEPT ![t] = [at |-> "done", ready |-> r.ready,
                                             case |-> r.case]]
    BY <1>7 DEF ExecuteWorker
  <2>2. /\ t \notin Reference /\ workers[t].at = "running"
        /\ UNCHANGED <<disk, mem, tasks, pc, round, unsaved, torn>>
    BY <1>7 DEF ExecuteWorker, faultVars
  <2>3. workers[t].case \in Cases /\ DoneBacked(workers[t].case)
    BY DEF CaseInv, WorkerRecord
  <2>4. r.case \in Cases /\ DoneBacked(r.case) /\ r.ready \in BOOLEAN
    BY <2>1, <2>2, <2>3, AgentResult
  <2> DEFINE w == [at |-> "done", ready |-> r.ready, case |-> r.case]
  <2>5. w \in WorkerRecord /\ w.case = r.case
    BY <2>4 DEF WorkerRecord
  <2>6. t \in round
    BY <2>2 DEF CaseInv, Idle
  <2>7. workers' = [workers EXCEPT ![t] = w]
    BY <2>1
  <2> HIDE DEF w
  <2>8. /\ workers' \in [Tasks -> WorkerRecord]
        /\ \A u \in Tasks : DoneBacked(workers'[u].case)
        /\ \A u \in Tasks \ round' : workers'[u] = Idle
    BY <2>1, <2>2, <2>4, <2>5, <2>6, <2>7, WorkerSet DEF CaseInv
  <2> QED
    BY <2>1, <2>2, <2>4, <2>5, <2>6, <2>8 DEF CaseInv
<1>8. CASE Run
  BY <1>8 DEF Run, CaseInv, roundVars, faultVars
<1>9. CASE CrashRun
  <2>1. Idle \in WorkerRecord /\ Idle.case = EmptyCase
    BY EmptyIsCase DEF Idle, WorkerRecord
  <2>2. workers' \in [Tasks -> WorkerRecord] /\ \A t \in Tasks : workers'[t] = Idle
    BY <1>9, <2>1 DEF CrashRun
  <2> QED
    BY <1>9, <2>1, <2>2, EmptyIsCase DEF CrashRun, CaseInv
<1>10. CASE \E i \in DOMAIN approvals :
              \E d \in {"APPROVED", "REJECTED", "EXPIRED"} : Decide(i, d)
  BY <1>10 DEF Decide, CaseInv, schedVars
<1>11. CASE UNCHANGED vars
  BY <1>11 DEF CaseInv, vars, schedVars
<1> QED
  BY <1>1, <1>2, <1>3, <1>4, <1>5, <1>6, <1>7, <1>8, <1>9, <1>10, <1>11,
     QuietSteps

\* The case states get better, or the run starts again from the disk.
LEMMA ReferencesNext ==
    TaskInv /\ CaseInv /\ ReferencesBacked /\ [Next]_vars => ReferencesBacked'
<1> SUFFICES ASSUME TaskInv, CaseInv, ReferencesBacked, [Next]_vars
             PROVE  ReferencesBacked'
  OBVIOUS
<1>1. CASE UNCHANGED <<mem, workers>>
  BY <1>1 DEF ReferencesBacked
<1>2. CASE StartTask
  BY <1>2 DEF StartTask, ReferencesBacked, CaseInv
<1>3. CASE ExecuteReference
  <2>1. PICK t \in Tasks : \E r \in StageResults(t, mem) :
          /\ mem' = r.case
          /\ workers' = [workers EXCEPT ![t] = [at |-> "done", ready |-> r.ready,
                                                case |-> EmptyCase]]
    BY <1>3 DEF ExecuteReference
  <2>2. PICK r \in StageResults(t, mem) :
          /\ mem' = r.case
          /\ workers' = [workers EXCEPT ![t] = [at |-> "done", ready |-> r.ready,
                                                case |-> EmptyCase]]
    BY <2>1
  <2>3. Improves(mem, mem') /\ (r.ready => Passes(mem'.art[t]))
    <3> DEFINE stored == [mem EXCEPT !.art[t] = "good"]
    <3>1. \/ r.case = mem /\ ~r.ready
          \/ r.case = stored
          \/ r.case = [stored EXCEPT !.done = @ \cup {t}]
      BY <2>2 DEF StageResults
    <3>2. stored \in Cases /\ Improves(mem, stored) /\ Passes(stored.art[t])
      BY GoodImproves DEF CaseInv
    <3> HIDE DEF stored
    <3>3. [stored EXCEPT !.done = @ \cup {t}].art = stored.art
      BY <3>2 DEF Cases
    <3> QED BY <2>2, <3>1, <3>2, <3>3 DEF Improves
  <2>4. \A u \in Tasks : u # t => workers'[u] = workers[u]
    BY <2>2 DEF CaseInv
  <2>5. workers'[t].ready = r.ready
    BY <2>2 DEF CaseInv
  <2> QED
    BY <2>3, <2>4, <2>5, ModesAssumption DEF ReferencesBacked, Improves
<1>4. CASE Commit
  <2>1. PICK t \in Tasks : \E c \in IF t \in Reference THEN ReferenceCommits(t)
                                    ELSE AgentCommits(t) :
          /\ IsFirst(t, round)
          /\ mem' = c.case
          /\ workers' = [workers EXCEPT ![t] = Idle]
    BY <1>4 DEF Commit
  <2>2. workers[t].at = "done"
    BY <1>4, <2>1 DEF Commit, IsFirst
  <2>3. Improves(mem, mem')
    BY <2>1, <2>2, CommitImproves
  <2>4. \A u \in Tasks : workers'[u] = workers[u] \/ workers'[u].at = "idle"
    BY <2>1 DEF CaseInv, Idle
  <2> QED
    BY <2>3, <2>4, ModesAssumption DEF ReferencesBacked, Improves
<1>5. CASE \E t \in Tasks : ExecuteWorker(t)
  <2>1. PICK t \in Tasks \ Reference : \E w : workers' = [workers EXCEPT ![t] = w]
    BY <1>5 DEF ExecuteWorker
  <2>2. \A u \in Reference : workers'[u] = workers[u] /\ mem' = mem
    BY <1>5, <2>1, ModesAssumption DEF CaseInv, ExecuteWorker
  <2> QED BY <2>2 DEF ReferencesBacked
<1>6. CASE Run
  <2>1. \A t \in Tasks : workers'[t] = Idle
    BY <1>6 DEF Run, CaseInv, TaskInv, InRound, roundVars
  <2> QED BY <2>1, ModesAssumption DEF ReferencesBacked, Idle
<1>7. CASE CrashRun
  BY <1>7, ModesAssumption DEF CrashRun, ReferencesBacked, Idle
<1> QED
  BY <1>1, <1>2, <1>3, <1>4, <1>5, <1>6, <1>7, QuietSteps
  DEF Quiet, Schedule, Checkpoint, Decide, vars, schedVars

LEMMA QueueNext ==
    Shape /\ TaskInv /\ QueueReady /\ [Next]_vars => QueueReady'
<1> SUFFICES ASSUME Shape, TaskInv, QueueReady, [Next]_vars PROVE QueueReady'
  OBVIOUS
<1>1. TaskInv'
  BY TaskNext
<1>2. CASE pc' # "start"
  BY <1>1, <1>2 DEF TaskInv, QueueReady
<1>3. CASE pc' = "start"
  <2>1. \/ Schedule \/ StartTask
        \/ UNCHANGED <<queue, tasks, graph>>
    BY <1>3
    DEF Next, RunStep, RoundStep, TerminalizeReady, BlockDownstream, RoundsOver,
        ExecuteReference, Commit, Checkpoint, Run, Sync, GateCloses, GateOpens,
        StartReplan, NoReplan, PlannerFails, ReplanAuto, ReplanNeedsHuman,
        CreateRequest, WaitForHuman, SavePause, Finish, MarkResumed, WorkerStep,
        ExecuteWorker, Decide, Resume, Activate, ActivateAgain, RetryTask, Crash,
        CrashRun, vars, schedVars
  <2>2. CASE Schedule
    BY <2>2 DEF Schedule, Batches, Runnable, QueueReady, Needs
  <2>3. CASE StartTask
    <3>1. PICK t \in queue : tasks' = [tasks EXCEPT ![t] = "RUNNING"]
                             /\ queue' = queue \ {t} /\ graph' = graph
      BY <2>3 DEF StartTask, IsFirst
    <3>2. tasks[t] = "PENDING" /\ t \in Tasks
      BY <3>1 DEF TaskInv
    <3>3. \A d : tasks[d] \in TerminalOk => tasks'[d] = tasks[d]
      BY <3>1, <3>2 DEF TerminalOk
    <3> QED BY <3>1, <3>3 DEF QueueReady, Needs
  <2>4. CASE UNCHANGED <<queue, tasks, graph>>
    BY <2>4 DEF QueueReady, Needs
  <2> QED BY <2>1, <2>2, <2>3, <2>4
<1> QED BY <1>2, <1>3

\* A task passes at its commit, or because its stage was done already.
LEMMA PassesHow ==
    ASSUME TaskInv, [Next]_vars, NEW t \in Tasks, tasks'[t] \in TerminalOk
    PROVE  \/ tasks[t] \in TerminalOk
           \/ TerminalizeReady /\ t \in mem.done
           \/ Commit
<1>1. CASE RunStep
  <2>1. CASE RoundStep /\ UNCHANGED planVars
    <3>1. CASE TerminalizeReady
      BY <3>1 DEF TerminalizeReady, TaskInv, StageDone, Pending, IsFirst
    <3>2. CASE BlockDownstream
      BY <3>2 DEF BlockDownstream, TaskInv, TerminalOk
    <3>3. CASE StartTask
      BY <3>3 DEF StartTask, TaskInv, TerminalOk
    <3>4. CASE Schedule \/ RoundsOver \/ ExecuteReference \/ Checkpoint
      BY <3>4 DEF Schedule, RoundsOver, ExecuteReference, Checkpoint
    <3> QED
      BY <2>1, <3>1, <3>2, <3>3, <3>4 DEF RoundStep
  <2>2. CASE GateOpens
    BY <2>2 DEF GateOpens, Recovered, TerminalOk
  <2>3. CASE \E g \in DOMAIN Graphs : ReplanAuto(g)
    BY <2>3 DEF ReplanAuto, Applied, TerminalOk
  <2> QED
    BY <1>1, <2>1, <2>2, <2>3
    DEF RunStep, Run, Sync, GateCloses, StartReplan, NoReplan, PlannerFails,
        ReplanNeedsHuman, CreateRequest, WaitForHuman, SavePause, Finish,
        MarkResumed
<1>2. CASE \E u \in Tasks : RetryTask(u)
  BY <1>2 DEF RetryTask, TaskInv, TerminalOk
<1>3. CASE \E i \in DOMAIN approvals : Resume(i)
  BY <1>3 DEF Resume, Activate, ActivateAgain, Applied, TerminalOk
<1> QED
  BY <1>1, <1>2, <1>3
  DEF Next, WorkerStep, ExecuteWorker, Run, Decide, Crash, CrashRun, vars,
      schedVars

LEMMA TornKept == ASSUME [Next]_vars, ~torn' PROVE ~torn
BY DEF Next, RunStep, RoundStep, TerminalizeReady, BlockDownstream, Schedule,
       RoundsOver, StartTask, ExecuteReference, Commit, Checkpoint, Run, Sync,
       GateCloses, GateOpens, StartReplan, NoReplan, PlannerFails, ReplanAuto,
       ReplanNeedsHuman, CreateRequest, WaitForHuman, SavePause, Finish,
       MarkResumed, WorkerStep, ExecuteWorker, Decide, Resume, Activate,
       ActivateAgain, RetryTask, Crash, CrashRun, faultVars, vars, schedVars

\* The case state a reference task leaves is no worse.
LEMMA ReferenceImproves ==
    ASSUME CaseInv, ExecuteReference
    PROVE  Improves(mem, mem')
<1>1. PICK t \in Tasks : \E r \in StageResults(t, mem) : mem' = r.case
  BY DEF ExecuteReference
<1>2. PICK r \in StageResults(t, mem) : mem' = r.case
  BY <1>1
<1> DEFINE stored == [mem EXCEPT !.art[t] = "good"]
<1>3. \/ r.case = mem \/ r.case = stored
      \/ r.case = [stored EXCEPT !.done = @ \cup {t}]
  BY <1>2 DEF StageResults
<1>4. stored \in Cases /\ Improves(mem, stored)
  BY GoodImproves DEF CaseInv
<1> HIDE DEF stored
<1>5. [stored EXCEPT !.done = @ \cup {t}].art = stored.art
  BY <1>4 DEF Cases
<1> QED BY <1>2, <1>3, <1>4, <1>5 DEF Improves

\* What had passed is backed still.
LEMMA BackedStays ==
    ASSUME CaseInv, ReferencesBacked, [Next]_vars, ~torn', ~Commit,
           NEW t \in Tasks, tasks[t] \in TerminalOk,
           Passes(mem.art[t]), Passes(disk.art[t]) \/ t \in unsaved
    PROVE  Passes(mem'.art[t]) /\ (Passes(disk'.art[t]) \/ t \in unsaved')
<1>1. CASE Quiet
  BY <1>1 DEF Quiet
<1>2. CASE ExecuteReference
  BY <1>2, ReferenceImproves DEF ExecuteReference, Improves
<1>3. CASE Checkpoint
  BY <1>3 DEF Checkpoint
<1>4. CASE Run
  <2>1. t \notin unsaved
    BY <1>4 DEF Run, CaseInv
  <2> QED BY <1>4, <2>1 DEF Run
<1>5. CASE CrashRun
  <2>1. t \notin unsaved
    BY <1>5 DEF CrashRun, CaseInv, TerminalOk
  <2> QED BY <1>5, <2>1 DEF CrashRun
<1> QED
  BY <1>1, <1>2, <1>3, <1>4, <1>5, QuietSteps
  DEF Schedule, StartTask, ExecuteWorker, Decide, vars, schedVars, faultVars

LEMMA PassedNext ==
    ASSUME TaskInv, CaseInv, ReferencesBacked, PassedIsBacked, [Next]_vars, ~torn'
    PROVE  PassedIsBacked'
<1>1. CASE Commit
  <2>1. PICK t \in Tasks : \E c \in IF t \in Reference THEN ReferenceCommits(t)
                                    ELSE AgentCommits(t) :
          /\ IsFirst(t, round)
          /\ mem' = c.case
          /\ tasks' = [tasks EXCEPT ![t] = IF c.ok THEN "PASSED" ELSE "NEEDS_REVIEW"]
          /\ unsaved' = {t}
    BY <1>1 DEF Commit
  <2>2. PICK c \in IF t \in Reference THEN ReferenceCommits(t)
                   ELSE AgentCommits(t) :
          /\ mem' = c.case
          /\ tasks' = [tasks EXCEPT ![t] = IF c.ok THEN "PASSED" ELSE "NEEDS_REVIEW"]
    BY <2>1
  <2>3. workers[t].at = "done" /\ unsaved = {} /\ disk' = disk
    BY <1>1, <2>1 DEF Commit, IsFirst, CaseInv
  <2>4. Improves(mem, mem') /\ (c.ok => Passes(mem'.art[t]))
    BY <2>2, <2>3, CommitImproves
  <2>5. ASSUME NEW u \in Tasks, tasks'[u] \in TerminalOk
        PROVE  Passes(mem'.art[u]) /\ (Passes(disk'.art[u]) \/ u \in unsaved')
    <3>1. CASE u = t
      BY <2>1, <2>2, <2>4, <2>5, <3>1 DEF TerminalOk, TaskInv
    <3>2. CASE u # t
      BY <2>2, <2>3, <2>4, <2>5, <3>2 DEF PassedIsBacked, Improves
    <3> QED BY <3>1, <3>2
  <2> QED BY <2>5 DEF PassedIsBacked
<1>2. CASE ~Commit
  <2> SUFFICES ASSUME NEW t \in Tasks, tasks'[t] \in TerminalOk
               PROVE  /\ Passes(mem'.art[t])
                      /\ Passes(disk'.art[t]) \/ t \in unsaved'
    BY DEF PassedIsBacked
  <2>1. CASE tasks[t] \in TerminalOk
    BY <1>2, <2>1, BackedStays DEF PassedIsBacked
  <2>2. CASE TerminalizeReady /\ t \in mem.done
    BY <2>2 DEF TerminalizeReady, CaseInv, DoneBacked
  <2> QED BY <1>2, <2>1, <2>2, PassesHow
<1> QED BY <1>1, <1>2

\* A worker at work, and the graph, stay as they are until the round ends.
LEMMA RunningStays ==
    ASSUME TaskInv, CaseInv, [Next]_vars, ~StartTask,
           NEW t \in Tasks, workers'[t].at = "running"
    PROVE  workers'[t] = workers[t] /\ graph' = graph
<1>1. workers'[t] = workers[t]
  <2>1. CASE \E u \in Tasks : ExecuteWorker(u)
    BY <2>1 DEF ExecuteWorker, CaseInv
  <2>2. CASE ExecuteReference
    BY <2>2 DEF ExecuteReference, CaseInv
  <2>3. CASE Commit
    BY <2>3 DEF Commit, CaseInv, Idle
  <2>4. CASE CrashRun
    BY <2>4 DEF CrashRun, Idle
  <2> QED
    BY <2>1, <2>2, <2>3, <2>4, QuietSteps
    DEF Quiet, Schedule, Checkpoint, Run, Decide, vars, schedVars, roundVars
<1>2. t \in round
  BY <1>1 DEF CaseInv, Idle
<1>3. pc \in InRound
  BY <1>2 DEF TaskInv
<1> QED
  BY <1>1, <1>3
  DEF InRound, Next, RunStep, RoundStep, TerminalizeReady, BlockDownstream,
      Schedule, RoundsOver, ExecuteReference, Commit, Checkpoint, Run,
      Sync, GateCloses, GateOpens, StartReplan, NoReplan, PlannerFails,
      ReplanAuto, ReplanNeedsHuman, CreateRequest, WaitForHuman, SavePause,
      Finish, MarkResumed, WorkerStep, ExecuteWorker, Decide, Resume, Activate,
      ActivateAgain, RetryTask, Crash, CrashRun, vars, schedVars

LEMMA SnapshotsNext ==
    ASSUME Shape, TaskInv, CaseInv, QueueReady, PassedIsBacked, SnapshotsSound,
           [Next]_vars
    PROVE  SnapshotsSound'
<1> SUFFICES ASSUME NEW t \in Tasks \ Reference, workers'[t].at = "running",
                    NEW d \in Needs(t)'
             PROVE  Passes(workers'[t].case.art[d])
  BY DEF SnapshotsSound
<1>1. CASE StartTask
  <2>1. PICK u \in queue :
          workers' = [workers EXCEPT ![u] = [at |-> "running", ready |-> FALSE,
                                             case |-> mem]]
    BY <1>1 DEF StartTask, IsFirst
  <2>2. d \in Needs(t) /\ d \in Tasks
    <3>1. graph' = graph
      BY <1>1 DEF StartTask
    <3> QED BY <3>1, GraphIsValid DEF Needs, Shape
  <2>3. CASE u = t
    <3>1. workers'[t].case = mem
      BY <2>1, <2>3 DEF CaseInv
    <3>2. tasks[d] \in TerminalOk
      BY <2>2, <2>3 DEF QueueReady
    <3> QED BY <2>2, <3>1, <3>2 DEF PassedIsBacked
  <2>4. CASE u # t
    BY <2>1, <2>2, <2>4 DEF CaseInv, SnapshotsSound
  <2> QED BY <2>3, <2>4
<1>2. CASE ~StartTask
  BY <1>2, RunningStays DEF SnapshotsSound, Needs
<1> QED BY <1>1, <1>2

InputsInv == /\ CaseInv /\ ReferencesBacked /\ QueueReady
             /\ SoundInputs

LEMMA InputsNext ==
    Shape /\ TaskInv /\ InputsInv /\ [Next]_vars => InputsInv'
<1> SUFFICES ASSUME Shape, TaskInv, InputsInv, [Next]_vars PROVE InputsInv'
  OBVIOUS
<1>1. CaseInv' /\ ReferencesBacked' /\ QueueReady'
  BY CaseNext, ReferencesNext, QueueNext DEF InputsInv
<1>2. ASSUME ~torn' PROVE PassedIsBacked' /\ SnapshotsSound'
  <2>1. PassedIsBacked /\ SnapshotsSound
    BY <1>2, TornKept DEF InputsInv, SoundInputs
  <2> QED
    BY <1>2, <2>1, PassedNext, SnapshotsNext DEF InputsInv
<1> QED BY <1>1, <1>2 DEF InputsInv, SoundInputs

LEMMA InputsHold == Spec => [](Shape /\ TaskInv /\ InputsInv)
<1>1. Init => SoundInputs
  BY DEF Init, SchedInit, SoundInputs, PassedIsBacked, SnapshotsSound, Idle,
         TerminalOk
<1>2. Init => Shape /\ TaskInv /\ InputsInv
  BY <1>1, ShapeInit, TaskInit, CaseInit DEF InputsInv
<1>3. Shape /\ TaskInv /\ InputsInv /\ [Next]_vars
        => (Shape /\ TaskInv /\ InputsInv)'
  BY ShapeNext, TaskNext, InputsNext
<1> QED BY <1>2, <1>3, PTL DEF Spec

\* Every task is executed on inputs that passed and every pass is backed by
\* its artifact, for any graphs and pool, as long as no pass was torn.
THEOREM InputsAreSound == Spec => []SoundInputs
<1>1. Shape /\ TaskInv /\ InputsInv => SoundInputs
  BY DEF InputsInv
<1> QED BY <1>1, InputsHold, PTL

-----------------------------------------------------------------------------
(* TypeOK: what is left are the counters and the replan records.            *)

ReplanRecord == [st : {"in_progress", "failed", "no_change", "accepted",
                       "rejected", "waiting_approval"},
                 approval : Nat]

Asking == {"planner", "request", "wait", "ledger"}

Counted ==
    /\ replans \in Seq(ReplanRecord)
    /\ Len(replans) <= MaxReplans
    /\ crashes \in 0..MaxCrashes
    /\ retries \in 0..MaxRetries
    /\ pc \in Asking => replans # <<>>

LEMMA CountedInit == Init => Counted
BY MaxReplansAssumption, MaxCrashesAssumption, MaxRetriesAssumption
DEF Init, SchedInit, Counted, Asking

\* The statuses of replan records are rewritten one by one.
LEMMA ReplansRewritten ==
    ASSUME replans \in Seq(ReplanRecord), Len(replans) <= MaxReplans,
           DOMAIN replans' = DOMAIN replans,
           replans' = [k \in DOMAIN replans |-> replans'[k]],
           \A k \in DOMAIN replans : replans'[k] \in ReplanRecord
    PROVE  /\ replans' \in Seq(ReplanRecord)
           /\ Len(replans') = Len(replans) /\ Len(replans') <= MaxReplans
<1> DEFINE n == Len(replans)
           f(k) == replans'[k]
<1>1. n \in Nat /\ DOMAIN replans = 1..n
  OBVIOUS
<1>2. replans' = [k \in 1..n |-> f(k)] /\ \A k \in 1..n : f(k) \in ReplanRecord
  BY <1>1
<1> HIDE DEF n, f
<1>3. replans' \in Seq(ReplanRecord)
  BY <1>1, <1>2, IsASeq
<1>4. Len(replans') = n
  BY <1>1, <1>2, <1>3
<1> QED BY <1>3, <1>4 DEF n

\* A record keeps its place when its status or its approval is written.
LEMMA LastWritten ==
    ASSUME Counted, pc \in Asking, NEW r \in ReplanRecord,
           replans' = [replans EXCEPT ![Len(replans)] = r]
    PROVE  replans' \in Seq(ReplanRecord) /\ Len(replans') <= MaxReplans
<1>1. replans \in Seq(ReplanRecord) /\ replans # <<>> /\ Len(replans) \in 1..Len(replans)
  BY DEF Counted, Asking
<1>2. replans' \in Seq(ReplanRecord) /\ Len(replans') = Len(replans)
  BY <1>1, ExceptSeq
<1> QED BY <1>2 DEF Counted, Asking

LEMMA LastStatus ==
    ASSUME Counted, pc = "planner",
           NEW st \in {"failed", "no_change", "accepted"}, replans' = LastReplan(st)
    PROVE  replans' \in Seq(ReplanRecord) /\ Len(replans') <= MaxReplans
<1> DEFINE r == [replans[Len(replans)] EXCEPT !.st = st]
<1>1. replans[Len(replans)] \in ReplanRecord
  <2>1. Len(replans) \in 1..Len(replans) /\ replans \in Seq(ReplanRecord)
    BY DEF Counted, Asking
  <2> QED BY <2>1, ElementOfSeq
<1>2. r \in ReplanRecord
  BY <1>1 DEF ReplanRecord
<1>3. replans' = [replans EXCEPT ![Len(replans)] = r]
  BY DEF LastReplan
<1> HIDE DEF r
<1> QED BY <1>2, <1>3, LastWritten DEF Asking

LEMMA CountedNext == Shape /\ Counted /\ [Next]_vars => Counted'
<1> SUFFICES ASSUME Shape, Counted, [Next]_vars PROVE Counted'
  OBVIOUS
<1>0. /\ MaxReplans \in Nat
      /\ replans \in Seq(ReplanRecord) /\ Len(replans) <= MaxReplans
      /\ \A k \in DOMAIN replans : replans[k] \in ReplanRecord
  BY MaxReplansAssumption, ElementOfSeq DEF Counted, Asking
<1>1. CASE RunStep
  <2>1. crashes' = crashes /\ retries' = retries
    BY <1>1 DEF RunStep, RoundStep, TerminalizeReady, BlockDownstream, Schedule,
       RoundsOver, StartTask, ExecuteReference, Commit, Checkpoint, Run, Sync,
       GateCloses, GateOpens, StartReplan, NoReplan, PlannerFails, ReplanAuto,
       ReplanNeedsHuman, CreateRequest, WaitForHuman, SavePause, Finish,
       MarkResumed, faultVars, planVars
  <2>2. CASE Run
    <3>1. \A k \in DOMAIN replans : replans'[k] \in ReplanRecord
      BY <1>0, <2>2 DEF Run, RecoveredReplans, ReplanRecord
    <3> QED
      BY <1>0, <2>1, <2>2, <3>1, ReplansRewritten DEF Run, RecoveredReplans, Counted, Asking
  <2>3. CASE Sync
    <3>1. \A k \in DOMAIN replans : replans'[k] \in ReplanRecord
      BY <1>0, <2>3 DEF Sync, ReplanRecord
    <3> QED
      BY <1>0, <2>1, <2>3, <3>1, ReplansRewritten DEF Sync, Counted, Asking
  <2>4. CASE StartReplan
    <3> DEFINE r == [st |-> "in_progress", approval |-> NoApproval]
    <3>1. r \in ReplanRecord /\ replans' = Append(replans, r)
          /\ Len(replans) < MaxReplans
      BY <2>4 DEF StartReplan, Trigger, ReplanRecord, NoApproval
    <3> HIDE DEF r
    <3>2. /\ replans' \in Seq(ReplanRecord) /\ replans' # <<>>
          /\ Len(replans') = Len(replans) + 1
      BY <1>0, <3>1, AppendProperties
    <3>3. Len(replans) \in Nat
      BY <1>0
    <3>4. Len(replans') <= MaxReplans
      BY <1>0, <3>1, <3>2, <3>3
    <3> QED BY <2>1, <3>2, <3>4 DEF Counted, Asking
  <2>5. CASE PlannerFails
    BY <2>1, <2>5, LastStatus DEF PlannerFails, Counted, Asking
  <2>6. CASE \E g \in DOMAIN Graphs : ReplanAuto(g)
    BY <2>1, <2>6, LastStatus DEF ReplanAuto, Counted, Asking
  <2>7. CASE SavePause
    <3> DEFINE r == [st |-> "waiting_approval", approval |-> Len(approvals)]
    <3>1. r \in ReplanRecord /\ replans' = [replans EXCEPT ![Len(replans)] = r]
      BY <2>7 DEF SavePause, Shape, ReplanRecord
    <3> HIDE DEF r
    <3> QED
      BY <2>1, <2>7, <3>1, LastWritten DEF SavePause, Counted, Asking
  <2>8. CASE replans' = replans /\ (pc' \in Asking => pc \in Asking)
    BY <2>1, <2>8 DEF Counted, Asking
  <2> QED
  BY <1>1, <2>2, <2>3, <2>4, <2>5, <2>6, <2>7, <2>8
  DEF RunStep, RoundStep, TerminalizeReady, BlockDownstream, Schedule,
       RoundsOver, StartTask, ExecuteReference, Commit, Checkpoint,
       GateCloses, GateOpens, NoReplan, ReplanNeedsHuman, CreateRequest,
       WaitForHuman, Finish, MarkResumed, planVars, Asking
<1>2. CASE \E t \in Tasks : WorkerStep(t)
  BY <1>2 DEF WorkerStep, ExecuteWorker, Counted, planVars, faultVars
<1>3. CASE pc = "off" /\ Run
  <2>1. \A k \in DOMAIN replans : replans'[k] \in ReplanRecord
    BY <1>0, <1>3 DEF Run, RecoveredReplans, ReplanRecord
  <2> QED
    BY <1>0, <1>3, <2>1, ReplansRewritten DEF Run, RecoveredReplans, Counted, Asking, faultVars
<1>4. CASE \E i \in DOMAIN approvals :
              \E d \in {"APPROVED", "REJECTED", "EXPIRED"} : Decide(i, d)
  BY <1>4 DEF Decide, Counted, schedVars
<1>5. CASE \E i \in DOMAIN approvals : Resume(i)
  <2>1. \A i \in DOMAIN approvals : Resume(i) =>
           /\ replans' = AcceptedReplans(i) /\ pc' = "mark"
           /\ UNCHANGED <<crashes, retries>>
    BY DEF Resume, Activate, ActivateAgain, faultVars
  <2>2. \A i \in DOMAIN approvals : Resume(i) =>
           /\ DOMAIN replans' = DOMAIN replans
           /\ replans' = [k \in DOMAIN replans |-> replans'[k]]
           /\ \A k \in DOMAIN replans : replans'[k] \in ReplanRecord
    BY <1>0, <2>1 DEF AcceptedReplans, ReplanRecord
  <2> QED
    BY <1>0, <1>5, <2>1, <2>2, ReplansRewritten DEF Counted, Asking
<1>6. CASE \E t \in Tasks : RetryTask(t)
  BY <1>6, MaxRetriesAssumption DEF RetryTask, Counted, Asking, faultVars
<1>7. CASE Crash
  BY <1>7, MaxCrashesAssumption DEF Crash, CrashRun, Counted, Asking
<1>8. CASE UNCHANGED vars
  BY <1>8 DEF Counted, vars, schedVars, planVars
<1> QED
  BY <1>1, <1>2, <1>3, <1>4, <1>5, <1>6, <1>7, <1>8 DEF Next

\* Every variable keeps its type and every count its bound; the replans of a
\* project stay within MaxReplans because attempts that failed count too.
THEOREM TypesHold == Spec => []TypeOK
<1>1. Spec => []Counted
  BY CountedInit, CountedNext, ShapeHolds, PTL DEF Spec
<1>2. Shape /\ TaskInv /\ InputsInv /\ Counted => TypeOK
  <2> SUFFICES ASSUME Shape, TaskInv, InputsInv, Counted PROVE TypeOK
    OBVIOUS
  <2>1. \A i \in DOMAIN approvals : approvals[i].st \in ApprovalStatuses
    <3>1. \A i \in DOMAIN approvals : approvals[i] \in Approval
      BY ElementOfSeq DEF Shape
    <3> QED BY <3>1 DEF Approval
  <2>2. \A t \in Tasks : workers[t] \in WorkerRecord
    BY DEF InputsInv, CaseInv
  <2> QED
    BY <2>1, <2>2
    DEF TypeOK, Shape, TaskInv, InputsInv, CaseInv, Counted, WorkerRecord
<1> QED BY <1>1, <1>2, InputsHold, PTL

=============================================================================
