--------------------------- MODULE RecoveryRefines ---------------------------
(***************************************************************************)
(* Recovery implements RunContract and TaskContract, for any workers,      *)
(* operators, reconcilers, budget and bounds, and one pass of a reconciler *)
(* with nobody in its way leaves no contradiction.                         *)
(*                                                                         *)
(* That a success was presented in time, and that a result is the newest   *)
(* attempt's, is decided by what a slot remembers when its settle writes.  *)
(* The invariant says what slots and passes can remember.                  *)
(***************************************************************************)
EXTENDS RecoveryProofs

USE DEF NoLease, NoResult

----------------------------------------------------------------------------
(* The invariant.                                                          *)

\* Leases number attempts; a task in flight has the newest; only a success
\* has a result; nothing writes LEASE_EXPIRED.
RowHistory ==
    /\ task.attempt = issued
    /\ task.status = "ABSENT" => issued = 0
    /\ task.status \in InFlight => task.lease = issued
    /\ task.status # "SUCCEEDED" => task.result = NoResult
    /\ task.status # "LEASE_EXPIRED"

\* What slot s remembers of the claim, and of the clock, was so.
SlotFine(s) ==
    /\ s.pc # "idle" => s.attempt = s.lease /\ s.lease \in 1 .. issued
    /\ s.pc = "accept" => s.began # "not begun"
    /\ s.began = "late" \/ s.pc = "expire" => overdue

SlotHistory == \A w \in Workers : SlotFine(worker[w])
PassHistory == \A c \in Reconcilers : reconciler[c].pc = "expire" => overdue

HistoryInv == RecoveryInv /\ RowHistory /\ SlotHistory /\ PassHistory

----------------------------------------------------------------------------
(* What the contracts see.                                                 *)

Phase(t) == CASE t.status = "SUCCEEDED" -> "done"
              [] t.status = "CANCELLED" -> "cancelled"
              [] OTHER -> "open"
Outcome(r) == IF r \in RunTerminal THEN r ELSE "open"
Offers(s) == s.pc = "accept" /\ s.began = "in time"
Offered == \E w \in Workers : Offers(worker[w])

\* Row t in the place of r: at most abandoned.
Keeps(t, r) ==
    /\ t.attempt = r.attempt /\ t.result = r.result
    /\ Phase(t) = Phase(r) \/ (Phase(r) = "open" /\ Phase(t) = "cancelled")
    /\ t.status = "SUCCEEDED" => r.status = "SUCCEEDED"
    /\ t.status = "ABSENT" => r.status = "ABSENT"
    /\ t.status \in InFlight => r.status \in InFlight /\ t.lease = r.lease
    /\ t.status # "LEASE_EXPIRED"

\* The run ends as a run may that is not a success.
RunEnds == \/ Outcome(run') = Outcome(run)
           \/ run \notin RunTerminal /\ run' \in {"FAILED", "CANCELLED"}
           \/ run \notin RunTerminal /\ run' = "TIMED_OUT" /\ overdue

\* A step that neither claims, nor accepts, nor is the clock's.
Ordinary ==
    /\ Keeps(task', task)
    /\ RunEnds
    /\ Offered' => Offered \/ ~overdue
    /\ (Outcome(run') = Outcome(run)) \/ (Offered' <=> Offered)
    /\ UNCHANGED <<issued, overdue>>
    /\ SlotHistory'

\* A step that accepts a result.
Completes ==
    /\ Offered /\ run \notin RunTerminal /\ run' = "SUCCEEDED"
    /\ task.status = "RUNNING" /\ task.attempt > 0
    /\ task' = Succeeded(task, task.attempt)
    /\ UNCHANGED <<issued, overdue>>
    /\ SlotHistory'

\* A step that hands the task out, and the clock's.
Claims ==
    /\ Phase(task) = "open" /\ Phase(task') = "open"
    /\ task'.attempt = task.attempt + 1 /\ task'.result = task.result
    /\ UNCHANGED <<run, overdue>> /\ (Offered' <=> Offered)
    /\ RowHistory' /\ SlotHistory'
Late ==
    /\ ~overdue /\ overdue' = TRUE
    /\ UNCHANGED <<run, task, issued>> /\ (Offered' <=> Offered)
    /\ SlotHistory'

----------------------------------------------------------------------------
(* The statements.                                                         *)

LEMMA PhaseOf ==
    ASSUME NEW t
    PROVE  /\ t.status = "SUCCEEDED" => Phase(t) = "done"
           /\ t.status = "CANCELLED" => Phase(t) = "cancelled"
           /\ t.status \notin {"SUCCEEDED", "CANCELLED"} => Phase(t) = "open"
BY DEF Phase

LEMMA AnyRowKept ==
    ASSUME NEW r \in Rows, r.status # "LEASE_EXPIRED"
    PROVE  /\ Keeps(r, r)
           /\ Keeps([r EXCEPT !.expiry = "past"], r)
           /\ Keeps(RecoveredIn(r), r)
           /\ \A q : Keeps(CancelledIn(r, q), r)
<1>1. Keeps(r, r) BY DEF Keeps
<1>2. Keeps([r EXCEPT !.expiry = "past"], r)
  <2> DEFINE t == [r EXCEPT !.expiry = "past"]
  <2>1. /\ t.status = r.status /\ t.attempt = r.attempt /\ t.result = r.result
        /\ t.lease = r.lease
    BY DEF Rows
  <2> HIDE DEF t
  <2>2. Keeps(t, r) BY <2>1 DEF Keeps, Phase
  <2>3. QED BY <2>2 DEF t
<1>3. Keeps(RecoveredIn(r), r)
  <2>1. CASE LeaseLapsed(r)
    <3>1. RecoveredIn(r) = Recovered(r) BY <2>1 DEF RecoveredIn
    <3>2. /\ Recovered(r).status = "PENDING" /\ Recovered(r).attempt = r.attempt
          /\ Recovered(r).result = r.result
      BY DEF Recovered, Requeued, Rows
    <3>3. r.status \in InFlight BY <2>1 DEF LeaseLapsed
    <3>4. QED BY <3>1, <3>2, <3>3 DEF Keeps, Phase, InFlight
  <2>2. CASE ~LeaseLapsed(r) BY <1>1, <2>2 DEF RecoveredIn
  <2>3. QED BY <2>1, <2>2
<1>4. ASSUME NEW q PROVE Keeps(CancelledIn(r, q), r)
  <2>1. CASE r.status \in Cancellable
    <3> DEFINE t == [Cancelled(r) EXCEPT !.reason = q]
    <3>1. t.status = "CANCELLED" /\ t.attempt = r.attempt /\ t.result = r.result
      BY DEF Cancelled, Rows
    <3>2. CancelledIn(r, q) = t BY <2>1 DEF CancelledIn
    <3> HIDE DEF t
    <3>3. QED BY <2>1, <3>1, <3>2 DEF Keeps, Phase, Cancellable, InFlight
  <2>2. CASE r.status \notin Cancellable BY <1>1, <2>2 DEF CancelledIn
  <2>3. QED BY <2>1, <2>2
<1>5. QED BY <1>1, <1>2, <1>3, <1>4

LEMMA OpenRowKept ==
    ASSUME NEW r \in Rows, r.status \notin {"LEASE_EXPIRED", "SUCCEEDED", "CANCELLED"}
    PROVE  /\ r.status \in InFlight => Keeps(Started(r), r)
           /\ Keeps(Extended(r), r)
           /\ Keeps(Requeued(r), r) /\ Keeps(Cancelled(r), r)
           /\ \A q : /\ Keeps(Failed(r, q), r)
                     /\ Keeps(Requeued(Failed(r, q)), r)
                     /\ Keeps([Cancelled(r) EXCEPT !.reason = q], r)
                     /\ \A p : Keeps(CancelledIn(Failed(r, p), q), r)
                     /\ r.result = NoResult =>
                          /\ Keeps([Failed(r, q) EXCEPT !.result = NoResult], r)
                          /\ \A a : Keeps([Failed(Succeeded(r, a), q)
                                              EXCEPT !.result = NoResult], r)
<1>1. ASSUME NEW t, t.attempt = r.attempt, t.result = r.result,
             t.status \in {"PENDING", "FAILED", "CANCELLED"}
                \/ (t.status = r.status /\ t.lease = r.lease)
                \/ (t.status = "RUNNING" /\ t.lease = r.lease /\ r.status \in InFlight)
      PROVE  Keeps(t, r)
  BY <1>1 DEF Keeps, Phase, InFlight
<1>2. /\ Started(r).attempt = r.attempt /\ Started(r).result = r.result
      /\ Started(r).status = "RUNNING" /\ Started(r).lease = r.lease
      /\ Extended(r).attempt = r.attempt /\ Extended(r).result = r.result
      /\ Extended(r).status = r.status /\ Extended(r).lease = r.lease
      /\ Requeued(r).attempt = r.attempt /\ Requeued(r).result = r.result
      /\ Requeued(r).status = "PENDING"
      /\ Cancelled(r).attempt = r.attempt /\ Cancelled(r).result = r.result
      /\ Cancelled(r).status = "CANCELLED"
  BY DEF Started, Extended, Requeued, Cancelled, Rows
<1>3. ASSUME NEW q
      PROVE  /\ Failed(r, q).attempt = r.attempt /\ Failed(r, q).result = r.result
             /\ Failed(r, q).status = "FAILED"
             /\ Requeued(Failed(r, q)).attempt = r.attempt
             /\ Requeued(Failed(r, q)).result = r.result
             /\ Requeued(Failed(r, q)).status = "PENDING"
             /\ [Cancelled(r) EXCEPT !.reason = q].attempt = r.attempt
             /\ [Cancelled(r) EXCEPT !.reason = q].result = r.result
             /\ [Cancelled(r) EXCEPT !.reason = q].status = "CANCELLED"
             /\ [Failed(r, q) EXCEPT !.result = NoResult].attempt = r.attempt
             /\ [Failed(r, q) EXCEPT !.result = NoResult].result = NoResult
             /\ [Failed(r, q) EXCEPT !.result = NoResult].status = "FAILED"
  BY DEF Failed, Requeued, Cancelled, Rows
<1>4. ASSUME NEW p, NEW q
      PROVE  /\ CancelledIn(Failed(r, p), q).attempt = r.attempt
             /\ CancelledIn(Failed(r, p), q).result = r.result
             /\ CancelledIn(Failed(r, p), q).status = "CANCELLED"
  BY DEF CancelledIn, Cancelled, Failed, Rows, Cancellable
<1>5. ASSUME NEW a, NEW q
      PROVE  LET t == [Failed(Succeeded(r, a), q) EXCEPT !.result = NoResult]
             IN  t.attempt = r.attempt /\ t.result = NoResult /\ t.status = "FAILED"
  BY DEF Failed, Succeeded, Rows
<1>6. r.status \in InFlight => Keeps(Started(r), r)
  BY <1>1, <1>2
<1>7. Keeps(Extended(r), r) /\ Keeps(Requeued(r), r) /\ Keeps(Cancelled(r), r)
  BY <1>1, <1>2
<1>8. ASSUME NEW q
      PROVE  /\ Keeps(Failed(r, q), r) /\ Keeps(Requeued(Failed(r, q)), r)
             /\ Keeps([Cancelled(r) EXCEPT !.reason = q], r)
  <2>1. Keeps(Failed(r, q), r) BY <1>1, <1>3
  <2>2. Keeps(Requeued(Failed(r, q)), r) BY <1>1, <1>3
  <2>3. Keeps([Cancelled(r) EXCEPT !.reason = q], r) BY <1>1, <1>3
  <2>4. QED BY <2>1, <2>2, <2>3
<1>9. ASSUME NEW p, NEW q PROVE Keeps(CancelledIn(Failed(r, p), q), r)
  BY <1>1, <1>4
<1>10. ASSUME NEW q, r.result = NoResult
       PROVE  Keeps([Failed(r, q) EXCEPT !.result = NoResult], r)
  BY <1>1, <1>3, <1>10
<1>11. ASSUME NEW a, NEW q, r.result = NoResult
       PROVE  Keeps([Failed(Succeeded(r, a), q) EXCEPT !.result = NoResult], r)
  <2> DEFINE t == [Failed(Succeeded(r, a), q) EXCEPT !.result = NoResult]
  <2>1. t.attempt = r.attempt /\ t.result = NoResult /\ t.status = "FAILED"
    BY <1>5
  <2> HIDE DEF t
  <2>2. Keeps(t, r) BY <1>1, <1>11, <2>1
  <2>3. QED BY <2>2 DEF t
<1>12. QED BY <1>6, <1>7, <1>8, <1>9, <1>10, <1>11

----------------------------------------------------------------------------
(* What slots remember.                                                    *)

\* What a slot remembers stays so however the worker moves on from it.
LEMMA SlotsFine ==
    ASSUME NEW s \in WorkerStates, SlotFine(s)
    PROVE  /\ SlotFine(IdleWorker)
           /\ \A b \in BOOLEAN : /\ SlotFine([s EXCEPT !.beating = b])
                                 /\ Offers([s EXCEPT !.beating = b]) <=> Offers(s)
           /\ s.pc # "idle" =>
                /\ \A pc \in WorkerPCs \ {"accept", "expire"} :
                     /\ SlotFine([s EXCEPT !.pc = pc])
                     /\ SlotFine([s EXCEPT !.pc = pc, !.beating = TRUE])
                     /\ SlotFine([s EXCEPT !.pc = pc, !.began = "not begun"])
                /\ overdue => SlotFine([s EXCEPT !.pc = "expire"])
                /\ \A pc \in {"accept", "over budget"}, b \in Beginnings \ {"not begun"} :
                     (b = "late" => overdue) =>
                       SlotFine([s EXCEPT !.pc = pc, !.began = b])
BY DEF SlotFine, WorkerStates, WorkerPCs, Beginnings, IdleWorker, Offers

\* Only at the settle of a success, begun in time, does a slot offer one.
LEMMA NoOffer ==
    ASSUME NEW s \in WorkerStates
    PROVE  /\ ~Offers(IdleWorker)
           /\ \A pc \in WorkerPCs \ {"accept"} :
                /\ ~Offers([s EXCEPT !.pc = pc])
                /\ ~Offers([s EXCEPT !.pc = pc, !.beating = TRUE])
                /\ \A b \in Beginnings : ~Offers([s EXCEPT !.pc = pc, !.began = b])
           /\ s.pc # "accept" => ~Offers(s)
BY DEF WorkerStates, WorkerPCs, Beginnings, IdleWorker, Offers

\* Slot w becomes x: the others remember what they did.
LEMMA SlotBecomes ==
    ASSUME TypeOK, SlotHistory, UNCHANGED <<issued, overdue>>,
           NEW w \in Workers, NEW x, Become(w, x), SlotFine(x)
    PROVE  /\ SlotHistory'
           /\ ~Offers(x) => (Offered' => Offered)
           /\ (Offers(x) <=> Offers(worker[w])) => (Offered' <=> Offered)
<1>1. \A v \in Workers : worker'[v] = IF v = w THEN x ELSE worker[v]
  BY DEF TypeOK, Become
<1>2. SlotHistory'
  BY <1>1 DEF SlotHistory, SlotFine
<1>3. Offered' <=> \E v \in Workers : Offers(IF v = w THEN x ELSE worker[v])
  BY <1>1 DEF Offered, Offers
<1>4. QED BY <1>2, <1>3 DEF Offered

LEMMA SlotsSame ==
    ASSUME SlotHistory, UNCHANGED <<issued, overdue, worker>>
    PROVE  SlotHistory' /\ (Offered' <=> Offered)
BY DEF SlotHistory, SlotFine, Offered, Offers

\* A slot that offers nothing returns, or goes where it still offers nothing.
LEMMA Quiet ==
    ASSUME TypeOK, SlotHistory, UNCHANGED <<issued, overdue>>,
           NEW w \in Workers, ~Offers(worker[w]),
           \/ Return(w)
           \/ worker[w].pc # "idle" /\ \E pc \in WorkerPCs \ {"accept", "expire"} :
                GoTo(w, pc)
           \/ worker[w].pc # "idle" /\ overdue /\ GoTo(w, "expire")
    PROVE  SlotHistory' /\ (Offered' <=> Offered)
<1>1. worker[w] \in WorkerStates /\ SlotFine(worker[w])
  BY DEF TypeOK, SlotHistory
<1>2. PICK x : Become(w, x) /\ SlotFine(x) /\ ~Offers(x)
  <2>1. CASE Return(w)
    BY <1>1, <2>1, SlotsFine, NoOffer DEF Return
  <2>2. ASSUME worker[w].pc # "idle", NEW pc \in WorkerPCs \ {"accept", "expire"},
               GoTo(w, pc)
        PROVE  \E x : Become(w, x) /\ SlotFine(x) /\ ~Offers(x)
    <3>1. SlotFine([worker[w] EXCEPT !.pc = pc])
      BY <1>1, <2>2, SlotsFine
    <3>2. ~Offers([worker[w] EXCEPT !.pc = pc])
      BY <1>1, <2>2, NoOffer
    <3>3. QED BY <2>2, <3>1, <3>2 DEF GoTo
  <2>3. ASSUME worker[w].pc # "idle", overdue, GoTo(w, "expire")
        PROVE  \E x : Become(w, x) /\ SlotFine(x) /\ ~Offers(x)
    <3>1. SlotFine([worker[w] EXCEPT !.pc = "expire"])
      BY <1>1, <2>3, SlotsFine
    <3>2. ~Offers([worker[w] EXCEPT !.pc = "expire"])
      BY <1>1, <2>3, NoOffer, Names
    <3>3. QED BY <2>3, <3>1, <3>2 DEF GoTo
  <2>4. QED BY <2>1, <2>2, <2>3
<1>3. QED BY <1>2, SlotBecomes

----------------------------------------------------------------------------
(* Every action but three kinds is ordinary.                               *)

LEMMA RunWrites ==
    ASSUME run \in RunStates \cup {"NONE"}, NEW from \in SUBSET NonTerminal
    PROVE  /\ UNCHANGED run => Outcome(run') = Outcome(run)
           /\ \A to \in NonTerminal : RunCas(from, to) => Outcome(run') = Outcome(run)
           /\ RunCas(from, "FAILED") \/ RunCas(from, "CANCELLED") => RunEnds
           /\ overdue /\ RunCas(from, "TIMED_OUT") => RunEnds
           /\ Outcome(run') = Outcome(run) => RunEnds
BY DEF RunCas, Cas, Outcome, RunEnds, RunStates, RunTerminal, NonTerminal

LEMMA Now ==
    ASSUME HistoryInv
    PROVE  /\ TypeOK /\ SuccessAgrees /\ SlotHistory /\ RowHistory
           /\ task \in Rows /\ task.status # "LEASE_EXPIRED"
           /\ Keeps(task, task)
           /\ \A q : Keeps(CancelledIn(task, q), task)
           /\ run \in RunStates \cup {"NONE"}
           /\ overdue \in BOOLEAN /\ issued \in Nat
           /\ \A w \in Workers : worker[w] \in WorkerStates /\ SlotFine(worker[w])
BY AnyRowKept DEF HistoryInv, RecoveryInv, RecoveryTypeOK, TypeOK, RowHistory,
                  SlotHistory

LEMMA OrdinaryStep ==
    ASSUME Keeps(task', task), RunEnds, SlotHistory', Offered' <=> Offered,
           UNCHANGED <<issued, overdue>>
    PROVE  Ordinary
BY DEF Ordinary

LEMMA OrdinarySubmission ==
    ASSUME HistoryInv, InsertRun \/ EnqueueTask
    PROVE  Ordinary
<1>1. SlotHistory' /\ (Offered' <=> Offered)
  BY Now, SlotsSame DEF InsertRun, EnqueueTask
<1>2. CASE InsertRun
  <2>1. RunEnds
    BY <1>2, Names DEF InsertRun, RunEnds, Outcome, RunTerminal
  <2>2. QED BY <1>1, <1>2, <2>1, Now, OrdinaryStep DEF InsertRun
<1>3. CASE EnqueueTask
  <2>1. Keeps(task', task)
    BY <1>3, Now DEF EnqueueTask, NewRow, NoRow, Keeps, Phase, RowHistory, InFlight
  <2>2. RunEnds
    BY <1>3, Now, RunWrites DEF EnqueueTask
  <2>3. QED BY <1>1, <1>3, <2>1, <2>2, OrdinaryStep DEF EnqueueTask
<1>4. QED BY <1>2, <1>3

LEMMA OrdinaryGates ==
    ASSUME HistoryInv, NEW w \in Workers,
           \/ PreStart(w) \/ PreStartGate(w) \/ GiveBack(w) \/ ExpireBeforeStart(w)
           \/ BudgetStop(w) \/ StartTask(w) \/ Finish(w)
    PROVE  Ordinary
<1>1. SlotHistory' /\ (Offered' <=> Offered)
  <2>1. ~At(w, "accept") /\ ~At(w, "idle") /\ UNCHANGED <<issued, overdue>>
    BY DEF PreStart, PreStartGate, GiveBack, ExpireBeforeStart, BudgetStop,
           StartTask, Finish, At
  <2>2. \/ Return(w)
        \/ \E pc \in WorkerPCs \ {"accept", "expire"} : GoTo(w, pc)
        \/ overdue /\ GoTo(w, "expire")
    BY Names DEF PreStart, PreStartGate, GiveBack, ExpireBeforeStart, BudgetStop,
           StartTask, Finish
  <2>3. ~Offers(worker[w])
    BY <2>1, Now, NoOffer DEF At
  <2>4. QED BY <2>1, <2>2, <2>3, Now, Quiet DEF At
<1>2. Keeps(task', task)
  <2>1. CASE PreStart(w) \/ PreStartGate(w) \/ Finish(w)
    BY <2>1, Now DEF PreStart, PreStartGate, Finish
  <2>2. CASE GiveBack(w)
    BY <2>2, Now, OpenRowKept DEF GiveBack, CanRelease, InFlight
  <2>3. CASE ExpireBeforeStart(w) \/ BudgetStop(w)
    BY <2>3, Now DEF ExpireBeforeStart, ExpireInTx, BudgetStop
  <2>4. CASE StartTask(w)
    BY <2>4, Now, OpenRowKept DEF StartTask, CanStart, InFlight
  <2>5. QED BY <2>1, <2>2, <2>3, <2>4
<1>3. RunEnds
  <2>1. CASE ExpireBeforeStart(w)
    <3>1. overdue
      BY <2>1, Now DEF ExpireBeforeStart, At, SlotFine
    <3>2. QED BY <2>1, <3>1, Now, RunWrites DEF ExpireBeforeStart, ExpireInTx
  <2>2. CASE BudgetStop(w)
    BY <2>2, Now, RunWrites DEF BudgetStop
  <2>3. CASE UNCHANGED run
    BY <2>3, Now, RunWrites
  <2>4. QED BY <2>1, <2>2, <2>3
            DEF PreStart, PreStartGate, GiveBack, StartTask, Finish
<1>4. QED BY <1>1, <1>2, <1>3, OrdinaryStep
          DEF PreStart, PreStartGate, GiveBack, ExpireBeforeStart, BudgetStop,
              StartTask, Finish

LEMMA OrdinaryExecution ==
    ASSUME HistoryInv, NEW w \in Workers, OnStarted(w) \/ Heartbeat(w)
    PROVE  Ordinary
<1>1. worker[w] \in WorkerStates /\ SlotFine(worker[w])
  BY Now
<1>2. CASE OnStarted(w)
  <2> DEFINE x == [worker[w] EXCEPT !.pc = "executing", !.beating = TRUE]
  <2>1. SlotFine(x) /\ ~Offers(x) /\ ~Offers(worker[w])
    BY <1>1, <1>2, SlotsFine, NoOffer, Names DEF OnStarted, At
  <2>2. SlotHistory' /\ (Offered' <=> Offered)
    BY <1>2, <2>1, Now, SlotBecomes DEF OnStarted
  <2>3. Keeps(task', task)
    BY <1>2, Now DEF OnStarted
  <2>4. RunEnds
    BY <1>2, Now, RunWrites, Names DEF OnStarted
  <2>5. QED BY <1>2, <2>2, <2>3, <2>4, OrdinaryStep DEF OnStarted
<1>3. CASE Heartbeat(w)
  <2>1. RunEnds
    BY <1>3, Now, RunWrites DEF Heartbeat
  <2>2. CASE CanBeat(task, worker[w].lease)
    <3>1. Keeps(task', task)
      BY <1>3, <2>2, Now, OpenRowKept DEF Heartbeat, CanBeat, InFlight
    <3>2. SlotHistory' /\ (Offered' <=> Offered)
      BY <1>3, <2>2, Now, SlotsSame DEF Heartbeat
    <3>3. QED BY <1>3, <2>1, <3>1, <3>2, OrdinaryStep DEF Heartbeat
  <2>3. CASE ~CanBeat(task, worker[w].lease)
    <3> DEFINE b == StateRefuses(task, worker[w].lease)
               x == [worker[w] EXCEPT !.beating = b]
    <3>1. b \in BOOLEAN BY DEF StateRefuses
    <3> HIDE DEF b
    <3>2. SlotFine(x) /\ (Offers(x) <=> Offers(worker[w]))
      BY <1>1, <3>1, SlotsFine
    <3>3. Become(w, x) BY <1>3, <2>3 DEF Heartbeat, b
    <3> HIDE DEF x
    <3>4. SlotHistory' /\ (Offered' <=> Offered)
      BY <1>3, <3>2, <3>3, Now, SlotBecomes DEF Heartbeat
    <3>5. Keeps(task', task)
      BY <1>3, <2>3, Now DEF Heartbeat
    <3>6. QED BY <1>3, <2>1, <3>4, <3>5, OrdinaryStep DEF Heartbeat
  <2>4. QED BY <2>2, <2>3
<1>4. QED BY <1>2, <1>3

\* What is accepted was presented in time, by the newest attempt.
LEMMA AcceptCompletes ==
    ASSUME HistoryInv, NEW w \in Workers, At(w, "accept"), CanAccept(w),
           AcceptWrites(w), SlotHistory', Offered' => Offered,
           ~Offers(worker[w]) => (Offered' <=> Offered),
           UNCHANGED <<issued, overdue>>
    PROVE  Ordinary \/ Completes
<1> DEFINE s == worker[w]
<1>1. /\ task.status = "RUNNING" /\ task.lease = issued /\ task.attempt = issued
      /\ s.attempt = task.attempt /\ task.attempt > 0 /\ task.result = NoResult
      /\ s.began \in {"in time", "late"} /\ (s.began = "late" => overdue)
  <2>1. /\ s \in WorkerStates /\ SlotFine(s) /\ RowHistory /\ issued \in Nat
        /\ task \in Rows
    BY Now
  <2>2. task.status = "RUNNING" /\ task.lease = s.lease /\ s.began # "lease lapsed"
    BY DEF CanAccept
  <2>3. task.lease = issued /\ task.attempt = issued /\ task.result = NoResult
    BY <2>1, <2>2 DEF RowHistory, InFlight
  <2>4. /\ s.attempt = s.lease /\ s.lease \in 1 .. issued
        /\ s.began # "not begun" /\ (s.began = "late" => overdue)
    BY <2>1 DEF SlotFine, At
  <2>5. s.began \in Beginnings
    BY <2>1 DEF WorkerStates
  <2>6. s.attempt = task.attempt /\ task.attempt > 0
    <3>1. s.lease = issued
      BY <2>2, <2>3
    <3>2. issued \in 1 .. issued
      BY <2>4, <3>1
    <3>3. issued > 0
      BY <2>1, <3>2
    <3>4. QED BY <2>3, <2>4, <3>1, <3>3
  <2>7. s.began \in {"in time", "late"}
    BY <2>2, <2>4, <2>5 DEF Beginnings
  <2>8. QED BY <2>2, <2>3, <2>4, <2>6, <2>7
<1>2. /\ task \in Rows
      /\ task.status \notin {"LEASE_EXPIRED", "SUCCEEDED", "CANCELLED"}
  BY <1>1, Now
<1>3. CASE run \in {"QUEUED", "RUNNING", "CANCEL_REQUESTED"} /\ ~(s.began = "late")
  <2>1. Offered
    BY <1>1, <1>3 DEF Offered, Offers, At
  <2>2. task' = Succeeded(task, task.attempt) /\ run' = "SUCCEEDED"
    BY <1>1, <1>3 DEF AcceptWrites
  <2>3. run \notin RunTerminal
    BY <1>3 DEF RunTerminal
  <2>4. QED BY <1>1, <2>1, <2>2, <2>3 DEF Completes
<1>4. CASE s.began = "late"
  <2>1. RunEnds
    BY <1>1, <1>4, Now, RunWrites DEF AcceptWrites
  <2>2. Keeps(task', task)
    <3>1. task' = [Failed(Succeeded(task, s.attempt), "deadline")
                      EXCEPT !.result = NoResult]
      BY <1>4 DEF AcceptWrites
    <3>2. QED BY <1>1, <1>2, <3>1, OpenRowKept
  <2>3. Offered' <=> Offered
    BY <1>4 DEF Offers
  <2>4. QED BY <2>1, <2>2, <2>3, OrdinaryStep
<1>5. CASE run \notin {"QUEUED", "RUNNING", "CANCEL_REQUESTED"} /\ ~(s.began = "late")
  <2>1. /\ UNCHANGED run
        /\ task' = [Failed(Succeeded(task, s.attempt), "superseded")
                      EXCEPT !.result = NoResult]
    BY <1>5 DEF AcceptWrites
  <2>2. Keeps(task', task)
    BY <1>1, <1>2, <2>1, OpenRowKept
  <2>3. QED BY <2>1, <2>2, Now, RunWrites DEF Ordinary
<1>6. QED BY <1>3, <1>4, <1>5

LEMMA OrdinarySuccess ==
    ASSUME HistoryInv, NEW w \in Workers, SettleSuccess(w) \/ SettleSuccessLost(w)
    PROVE  Ordinary \/ Completes
<1>1. worker[w] \in WorkerStates /\ SlotFine(worker[w]) /\ worker[w].pc # "idle"
  BY Now DEF SettleSuccess, SettleSuccessLost, At
<1>2. UNCHANGED <<issued, overdue>>
  BY DEF SettleSuccess, SettleSuccessLost
<1>3. PICK x : Become(w, x) /\ SlotFine(x) /\ ~Offers(x)
  <2>1. CASE SettleSuccess(w)
    BY <1>1, <2>1, SlotsFine, NoOffer DEF SettleSuccess, Return
  <2>2. CASE SettleSuccessLost(w)
    <3> DEFINE y == [worker[w] EXCEPT !.pc = "failing", !.began = "not begun"]
    <3>1. Become(w, y) BY <2>2 DEF SettleSuccessLost
    <3>2. SlotFine(y) /\ ~Offers(y) BY <1>1, SlotsFine, NoOffer, Names
    <3>3. QED BY <3>1, <3>2
  <2>3. QED BY <2>1, <2>2
<1>4. SlotHistory' /\ (Offered' => Offered)
      /\ (~Offers(worker[w]) => (Offered' <=> Offered))
  BY <1>2, <1>3, Now, SlotBecomes
<1>5. CASE UNCHANGED <<run, task>>
  BY <1>2, <1>4, <1>5, Now, RunWrites DEF Ordinary
<1>6. CASE At(w, "accept") /\ CanAccept(w) /\ AcceptWrites(w)
  BY <1>2, <1>4, <1>6, AcceptCompletes
<1>7. QED BY <1>5, <1>6 DEF SettleSuccess, SettleSuccessLost

LEMMA OrdinaryCharge ==
    ASSUME HistoryInv, NEW w \in Workers, ReadAndCharge(w)
    PROVE  Ordinary
<1>1. worker[w] \in WorkerStates /\ SlotFine(worker[w]) /\ worker[w].pc # "idle"
      /\ ~Offers(worker[w])
  BY Now, NoOffer DEF ReadAndCharge, At
<1>2. /\ UNCHANGED <<issued, overdue, run, task>>
      /\ Keeps(task', task) /\ RunEnds /\ Outcome(run') = Outcome(run)
  BY Now, RunWrites DEF ReadAndCharge
<1>3. CASE task.status # "RUNNING"
  BY <1>1, <1>2, <1>3, Quiet, Now, OrdinaryStep DEF ReadAndCharge
<1>4. CASE task.status = "RUNNING"
  <2> DEFINE pc == IF over' THEN "over budget" ELSE "accept"
             b == IF ~HoldsLease(task, worker[w].lease) THEN "lease lapsed"
                  ELSE IF overdue THEN "late" ELSE "in time"
             x == [worker[w] EXCEPT !.pc = pc, !.began = b]
  <2>1. /\ pc \in {"accept", "over budget"} /\ b \in Beginnings \ {"not begun"}
        /\ (b = "late" => overdue) /\ (b = "in time" => ~overdue)
    BY DEF Beginnings
  <2>2. Become(w, x)
    BY <1>4 DEF ReadAndCharge
  <2> HIDE DEF pc, b
  <2>3. SlotFine(x)
    BY <1>1, <2>1, SlotsFine
  <2>4. Offers(x) => ~overdue
    BY <1>1, <2>1 DEF Offers, WorkerStates
  <2> HIDE DEF x
  <2>5. SlotHistory' /\ (Offered' => Offered \/ ~overdue)
    BY <1>2, <2>2, <2>3, <2>4, Now, SlotBecomes
  <2>6. QED BY <1>2, <2>5 DEF Ordinary
<1>5. QED BY <1>3, <1>4

LEMMA OrdinaryEnd ==
    ASSUME HistoryInv, NEW w \in Workers,
           \/ SettleOverBudget(w) \/ SettleDefer(w) \/ SettleDeferLost(w)
           \/ SettleFailure(w) \/ SettleFailureLost(w)
    PROVE  Ordinary
<1>1. /\ ~At(w, "accept") /\ ~At(w, "idle") /\ UNCHANGED <<issued, overdue>>
      /\ Return(w) \/ GoTo(w, "failing")
  BY DEF SettleOverBudget, SettleDefer, SettleDeferLost, SettleFailure,
         SettleFailureLost, At
<1>2. ~Offers(worker[w])
  BY <1>1, Now, NoOffer DEF At
<1>3. SlotHistory' /\ (Offered' <=> Offered)
  BY <1>1, <1>2, Now, Quiet, Names DEF At
<1>4. CASE SettleOverBudget(w)
  <2>1. RunEnds
    BY <1>4, Now, RunWrites DEF SettleOverBudget
  <2>2. Keeps(task', task)
    BY <1>4, Now, OpenRowKept DEF SettleOverBudget, RowHistory
  <2>3. QED BY <1>1, <1>3, <2>1, <2>2, OrdinaryStep
<1>5. CASE SettleDefer(w)
  <2>1. RunEnds
    <3>1. {"QUEUED", "RUNNING", "WAITING_HUMAN"} \in SUBSET NonTerminal
      BY Names
    <3>2. QED BY <1>5, <3>1, Now, RunWrites, Names DEF SettleDefer
  <2>2. Keeps(task', task)
    BY <1>5, Now, OpenRowKept DEF SettleDefer, CanSettle
  <2>3. QED BY <1>1, <1>3, <2>1, <2>2, OrdinaryStep
<1>6. CASE SettleDeferLost(w) \/ SettleFailureLost(w)
  <2>1. RunEnds /\ Keeps(task', task)
    BY <1>6, Now, RunWrites DEF SettleDeferLost, SettleFailureLost
  <2>2. QED BY <1>1, <1>3, <2>1, OrdinaryStep
<1>7. CASE SettleFailure(w)
  <2>1. RunEnds
    <3>1. \/ UNCHANGED run
          \/ RunCas(NonTerminal, "FAILED")
          \/ overdue /\ RunCas(NonTerminal, "TIMED_OUT")
      BY <1>7 DEF SettleFailure
    <3>2. QED BY <3>1, Now, RunWrites
  <2>2. Keeps(task', task)
    <3>1. \/ UNCHANGED task
          \/ /\ CanSettle(task, worker[w].lease)
             /\ \/ task' = Requeued(Failed(task, "error"))
                \/ task' = Failed(task, "error")
                \/ task' = CancelledIn(Failed(task, "error"), "deadline")
      BY <1>7 DEF SettleFailure
    <3>2. QED BY <3>1, Now, OpenRowKept DEF CanSettle
  <2>3. QED BY <1>1, <1>3, <2>1, <2>2, OrdinaryStep
<1>8. QED BY <1>4, <1>5, <1>6, <1>7

LEMMA OrdinaryFault ==
    ASSUME HistoryInv,
           (\E w \in Workers : Crash(w)) \/ Lapse \/ LapseUnderOwner
    PROVE  Ordinary
<1>1. ASSUME NEW w \in Workers, Crash(w) PROVE Ordinary
  <2>1. SlotFine(IdleWorker) /\ ~Offers(IdleWorker)
    BY Now, SlotsFine, NoOffer
  <2>2. SlotHistory' /\ (Offered' => Offered)
    BY <1>1, <2>1, Now, SlotBecomes DEF Crash, Return
  <2>3. QED BY <1>1, <2>2, Now, RunWrites DEF Crash, Ordinary
<1>2. CASE Lapse \/ LapseUnderOwner
  <2>1. PassExpiry BY <1>2 DEF Lapse, LapseUnderOwner
  <2>2. SlotHistory' /\ (Offered' <=> Offered)
    BY <2>1, Now, SlotsSame DEF PassExpiry
  <2>3. Keeps(task', task) /\ RunEnds
    BY <2>1, Now, AnyRowKept, RunWrites DEF PassExpiry
  <2>4. QED BY <2>1, <2>2, <2>3, OrdinaryStep DEF PassExpiry
<1>3. QED BY <1>1, <1>2

LEMMA OrdinaryOperator ==
    ASSUME HistoryInv,
           RequestCancel \/ HardCancel \/ \E o \in Operators : OperatorStep(o)
    PROVE  Ordinary
<1>1. UNCHANGED <<issued, overdue, worker>>
  BY DEF RequestCancel, HardCancel, OperatorStep, BeginApprove, BeginReject,
         ReadTask, ApproveBudget, ApproveGate, ApproveRequeue, RejectCancel,
         OperatorCrash
<1>2. SlotHistory' /\ (Offered' <=> Offered)
  BY <1>1, Now, SlotsSame
<1>3. CASE RequestCancel
  <2>1. RunEnds
    BY <1>3 DEF RequestCancel, RunEnds, Outcome, RunTerminal
  <2>2. QED BY <1>1, <1>2, <1>3, <2>1, Now, OrdinaryStep DEF RequestCancel
<1>4. CASE HardCancel
  <2>1. CASE task.status \in Cancellable
    <3>1. Keeps(task', task)
      BY <1>4, <2>1, Now, OpenRowKept DEF HardCancel, Cancellable
    <3>2. RunEnds
      BY <1>4, <2>1, Now, RunWrites DEF HardCancel
    <3>3. QED BY <1>1, <1>2, <3>1, <3>2, OrdinaryStep
  <2>2. CASE task.status \notin Cancellable
    <3>1. task.status \in {"SUCCEEDED", "CANCELLED"}
      BY <1>4, <2>2, Now DEF HardCancel, Rows, Statuses, Cancellable
    <3>2. UNCHANGED run \/ RunCas(NonTerminal, "CANCELLED")
      BY <1>4, <2>2, <3>1, Now
         DEF HardCancel, RunCas, Cas, SuccessAgrees, NonTerminal
    <3>3. Keeps(task', task)
      BY <1>4, <2>2, Now DEF HardCancel
    <3>4. RunEnds
      BY <3>2, Now, RunWrites
    <3>5. QED BY <1>1, <1>2, <3>3, <3>4, OrdinaryStep
  <2>3. QED BY <2>1, <2>2
<1>5. ASSUME NEW o \in Operators, OperatorStep(o) PROVE Ordinary
  <2>1. CASE BeginApprove(o) \/ BeginReject(o) \/ ApproveBudget(o) \/ OperatorCrash(o)
    <3>1. UNCHANGED <<run, task>>
      BY <2>1 DEF BeginApprove, BeginReject, ReadTask, ApproveBudget, OperatorCrash
    <3>2. QED BY <1>1, <1>2, <3>1, Now, RunWrites, OrdinaryStep
  <2>2. CASE ApproveGate(o)
    <3>1. CASE run = "WAITING_HUMAN" /\ ~overdue
      <4>1. RunEnds
        BY <2>2, <3>1 DEF ApproveGate, RunEnds, Outcome, RunTerminal
      <4>2. QED BY <1>1, <1>2, <2>2, <4>1, Now, OrdinaryStep DEF ApproveGate
    <3>2. CASE ~(run = "WAITING_HUMAN" /\ ~overdue)
      <4>1. UNCHANGED run \/ (overdue /\ RunCas(NonTerminal, "TIMED_OUT"))
        BY <2>2, <3>2 DEF ApproveGate
      <4>2. RunEnds
        BY <4>1, Now, RunWrites
      <4>3. QED BY <1>1, <1>2, <2>2, <4>2, Now, OrdinaryStep DEF ApproveGate
    <3>3. QED BY <3>1, <3>2
  <2>3. CASE ApproveRequeue(o) \/ RejectCancel(o)
    <3>1. RunEnds
      BY <2>3, Now, RunWrites DEF ApproveRequeue, RejectCancel
    <3>2. Keeps(task', task)
      BY <2>3, Now, OpenRowKept DEF ApproveRequeue, RejectCancel, Cancellable
    <3>3. QED BY <1>1, <1>2, <3>1, <3>2, OrdinaryStep
  <2>4. QED BY <1>5, <2>1, <2>2, <2>3 DEF OperatorStep
<1>6. QED BY <1>3, <1>4, <1>5

LEMMA TheClock ==
    ASSUME HistoryInv, DeadlinePasses
    PROVE  Late
<1>1. \A w \in Workers : SlotFine(worker[w])
  BY Now
<1>2. SlotHistory'
  BY <1>1 DEF DeadlinePasses, SlotHistory, SlotFine
<1>3. Offered' <=> Offered
  BY DEF DeadlinePasses, Offered, Offers
<1>4. QED BY <1>2, <1>3 DEF DeadlinePasses, Late

LEMMA TheClaim ==
    ASSUME HistoryInv, NEW w \in Workers, ClaimTask(w)
    PROVE  Claims
<1> DEFINE t == Leased(task, issued + 1)
           x == [IdleWorker EXCEPT !.pc = "claimed", !.lease = issued + 1,
                                   !.attempt = task.attempt + 1]
<1>1. /\ task.status \in {"PENDING", "LEASED", "RUNNING"} /\ issued \in Nat
      /\ task \in Rows /\ RowHistory /\ task.attempt = issued
      /\ task.result = NoResult
  BY Now DEF ClaimTask, Claimable, InFlight, RowHistory
<1>2. /\ t.status = "LEASED" /\ t.lease = issued + 1
      /\ t.attempt = task.attempt + 1 /\ t.result = task.result
  BY <1>1 DEF Leased, Rows
<1>3. task' = t /\ issued' = issued + 1 /\ UNCHANGED <<run, overdue>>
  BY DEF ClaimTask
<1>4. RowHistory'
  BY <1>1, <1>2, <1>3 DEF RowHistory
<1>5. /\ x.pc = "claimed" /\ x.lease = issued + 1 /\ x.attempt = issued + 1
      /\ x.began = "not begun"
  BY <1>1 DEF IdleWorker
<1> HIDE DEF x, t
<1>6. /\ \A v \in Workers : worker'[v] = IF v = w THEN x ELSE worker[v]
      /\ worker[w].pc = "idle"
  BY Now DEF ClaimTask, Become, At, TypeOK, x
<1>7. 1 .. issued \subseteq 1 .. issued' /\ issued + 1 \in 1 .. issued'
  BY <1>1, <1>3
<1>8. ASSUME NEW v \in Workers
      PROVE  /\ worker'[v].pc # "idle" =>
                   /\ worker'[v].attempt = worker'[v].lease
                   /\ worker'[v].lease \in 1 .. issued'
             /\ worker'[v].pc = "accept" => worker'[v].began # "not begun"
             /\ worker'[v].began = "late" \/ worker'[v].pc = "expire" => overdue'
  <2>1. CASE v = w
    <3>1. worker'[v] = x BY <1>6, <2>1
    <3>2. QED BY <1>5, <1>7, <3>1
  <2>2. CASE v # w
    <3>1. SlotFine(worker[v]) /\ worker'[v] = worker[v]
      BY <1>6, <2>2, Now
    <3>2. QED BY <1>3, <1>7, <3>1 DEF SlotFine
  <2>3. QED BY <2>1, <2>2
<1>9. SlotHistory' BY <1>8 DEF SlotHistory, SlotFine
<1>10. Offered' <=> Offered
  BY <1>5, <1>6 DEF Offered, Offers
<1>11. QED BY <1>1, <1>2, <1>3, <1>4, <1>9, <1>10, PhaseOf DEF Claims

LEMMA OrdinaryPass ==
    ASSUME HistoryInv, NEW c \in Reconcilers, PassStep(c) \/ PassAborted(c)
    PROVE  Ordinary
<1>1. UNCHANGED <<issued, overdue, worker>>
  BY DEF PassStep, RecoverExpired, SelectOverdue, ExpireOverdue, Scan, Reconcile,
         PassAborted, vars
<1>2. SlotHistory' /\ (Offered' <=> Offered)
  BY <1>1, Now, SlotsSame
<1>3. CASE RecoverExpired(c)
  BY <1>1, <1>2, <1>3, Now, AnyRowKept, RunWrites, OrdinaryStep DEF RecoverExpired
<1>4. CASE SelectOverdue(c) \/ Scan(c) \/ PassAborted(c)
  <2>1. UNCHANGED <<run, task>>
    BY <1>4 DEF SelectOverdue, Scan, PassAborted, vars
  <2>2. QED BY <1>1, <1>2, <2>1, Now, RunWrites, OrdinaryStep
<1>5. CASE ExpireOverdue(c)
  <2>1. overdue
    BY <1>5 DEF ExpireOverdue, RecAt, HistoryInv, PassHistory
  <2>2. RunEnds /\ Keeps(task', task)
    BY <1>5, <2>1, Now, RunWrites DEF ExpireOverdue, ExpireInTx
  <2>3. QED BY <1>1, <1>2, <2>2, OrdinaryStep
<1>6. CASE Reconcile(c)
  <2> DEFINE seen == reconciler[c].seen
  <2>1. seen.run = "SUCCEEDED" <=> seen.status = "SUCCEEDED"
    BY DEF HistoryInv, RecoveryInv, ScansAgree
  <2>2. RunEnds
    <3>1. CASE RunFollows(seen)
      <4>1. RunTarget(seen) \in {"WAITING_HUMAN", "FAILED", "CANCELLED"}
        BY <2>1, <3>1 DEF RunFollows, NonTerminal, RunTarget
      <4>2. RunCas(NonTerminal, RunTarget(seen))
        BY <1>6, <3>1 DEF Reconcile, ReconciledRun, RunCas
      <4>3. QED BY <4>1, <4>2, Now, RunWrites, Names
    <3>2. CASE ~RunFollows(seen)
      BY <1>6, <3>2, Now, RunWrites DEF Reconcile, ReconciledRun
    <3>3. QED BY <3>1, <3>2
  <2>3. Keeps(task', task)
    BY <1>6, Now, OpenRowKept DEF Reconcile, ReconciledTask
  <2>4. QED BY <1>1, <1>2, <2>2, <2>3, OrdinaryStep
<1>7. QED BY <1>3, <1>4, <1>5, <1>6 DEF PassStep

----------------------------------------------------------------------------
(* Every step is one of four kinds, and keeps the invariant.               *)

LEMMA StepKinds ==
    ASSUME HistoryInv, [RecoveryNext]_recoveryVars
    PROVE  Ordinary \/ Completes \/ Claims \/ Late
<1>1. ASSUME NEW w \in Workers,
             ClaimTask(w) \/ ExecutionStep(w) \/ WorkerMishap(w) \/ Heartbeat(w)
      PROVE  Ordinary \/ Completes \/ Claims
  BY <1>1, TheClaim, OrdinaryGates, OrdinaryExecution, OrdinarySuccess,
     OrdinaryCharge, OrdinaryEnd, OrdinaryFault DEF ExecutionStep, WorkerMishap
<1>2. CASE Next
  BY <1>1, <1>2, TheClock, OrdinarySubmission, OrdinaryFault, OrdinaryOperator
     DEF Next
<1>3. CASE UNCHANGED recoveryVars
  <2>1. UNCHANGED <<run, task, issued, overdue, worker>>
    BY <1>3 DEF recoveryVars, vars
  <2>2. QED BY <2>1, Now, SlotsSame, RunWrites, OrdinaryStep
<1>4. QED BY <1>2, <1>3, OrdinaryPass DEF RecoveryNext

LEMMA PassHistoryStep ==
    ASSUME HistoryInv, [RecoveryNext]_recoveryVars, overdue => overdue'
    PROVE  PassHistory'
<1>1. PassHistory /\ reconciler \in [Reconcilers -> Passes]
  BY DEF HistoryInv, RecoveryInv, RecoveryTypeOK, Passes
<1>2. CASE UNCHANGED reconciler
  BY <1>1, <1>2 DEF PassHistory
<1>3. ASSUME NEW c \in Reconcilers, PassStep(c) \/ PassAborted(c)
      PROVE  PassHistory'
  <2>1. PICK pc, seen : RecGoTo(c, pc, seen) /\ (pc = "expire" => overdue)
    <3>1. CASE RecoverExpired(c) \/ ExpireOverdue(c) \/ Reconcile(c) \/ PassAborted(c)
      BY <3>1 DEF RecoverExpired, ExpireOverdue, Reconcile, PassAborted
    <3>2. CASE SelectOverdue(c)
      <4> DEFINE pc == IF run \in NonTerminal /\ overdue THEN "expire" ELSE "scan"
      <4>1. RecGoTo(c, pc, NoScan) BY <3>2 DEF SelectOverdue
      <4>2. pc = "expire" => overdue OBVIOUS
      <4> HIDE DEF pc
      <4>3. QED BY <4>1, <4>2
    <3>3. CASE Scan(c)
      BY <3>3 DEF Scan
    <3>4. QED BY <1>3, <3>1, <3>2, <3>3 DEF PassStep
  <2>2. \A d \in Reconcilers :
          reconciler'[d].pc = IF d = c THEN pc ELSE reconciler[d].pc
    BY <1>1, <2>1 DEF RecGoTo
  <2>3. QED BY <1>1, <2>1, <2>2 DEF PassHistory
<1>4. QED BY <1>2, <1>3 DEF RecoveryNext, recoveryVars

LEMMA HistoryInit == RecoveryInit => HistoryInv
<1> SUFFICES ASSUME RecoveryInit PROVE HistoryInv
  OBVIOUS
<1>1. RecoveryInv BY RecoveryInvInit
<1>2. RowHistory
  BY DEF RecoveryInit, Init, RowHistory, NoRow, InFlight
<1>3. SlotHistory
  BY DEF RecoveryInit, Init, SlotHistory, SlotFine, IdleWorker
<1>4. PassHistory
  BY DEF RecoveryInit, PassHistory, Resting
<1>5. QED BY <1>1, <1>2, <1>3, <1>4 DEF HistoryInv

LEMMA HistoryStep == HistoryInv /\ [RecoveryNext]_recoveryVars => HistoryInv'
<1> SUFFICES ASSUME HistoryInv, [RecoveryNext]_recoveryVars PROVE HistoryInv'
  OBVIOUS
<1>1. RecoveryInv' BY RecoveryInvStep DEF HistoryInv
<1>2. Ordinary \/ Completes \/ Claims \/ Late BY StepKinds
<1>3. SlotHistory' BY <1>2 DEF Ordinary, Completes, Claims, Late
<1>4. RowHistory'
  <2>1. CASE Ordinary
    BY <2>1, Now, PhaseOf DEF Ordinary, Keeps, RowHistory, Phase
  <2>2. CASE Completes
    <3>1. /\ task'.status = "SUCCEEDED" /\ task'.attempt = task.attempt
          /\ issued' = issued
      BY <2>2, Now DEF Completes, Succeeded, Rows
    <3>2. QED BY <3>1, Now DEF RowHistory, InFlight
  <2>3. CASE Claims BY <2>3 DEF Claims
  <2>4. CASE Late BY <2>4, Now DEF Late, RowHistory
  <2>5. QED BY <1>2, <2>1, <2>2, <2>3, <2>4
<1>5. PassHistory'
  BY <1>2, PassHistoryStep DEF Ordinary, Completes, Claims, Late
<1>6. QED BY <1>1, <1>3, <1>4, <1>5 DEF HistoryInv

\* Attempts are numbered by leases, a slot remembers the claim it made, and
\* only past the deadline does anybody go to time the run out.
THEOREM HistoryCorrect == RecoverySpec => []HistoryInv
BY HistoryInit, HistoryStep, PTL DEF RecoverySpec

----------------------------------------------------------------------------
(* The run's contract.                                                     *)

\* Reading the contract's actions in these terms is expanding definitions.
LEMMA RunPromiseActions ==
    /\ RunPromise!Init <=> /\ Outcome(run) = "open" /\ overdue = FALSE
                           /\ Offered = FALSE /\ task.result = 0
    /\ RunPromise!DeadlinePasses <=>
         /\ ~overdue /\ overdue' = TRUE
         /\ Outcome(run') = Outcome(run) /\ Offered' = Offered
         /\ task'.result = task.result
    /\ RunPromise!Offer <=>
         /\ Offered' \in {FALSE, ~overdue} /\ Outcome(run') = Outcome(run)
         /\ overdue' = overdue /\ task'.result = task.result
    /\ RunPromise!Complete <=>
         /\ Outcome(run) = "open" /\ Offered /\ Outcome(run') = "SUCCEEDED"
         /\ Offered' \in BOOLEAN /\ task'.result \in Nat \ {0}
         /\ overdue' = overdue
    /\ RunPromise!TimeOut <=>
         /\ Outcome(run) = "open" /\ overdue /\ Outcome(run') = "TIMED_OUT"
         /\ overdue' = overdue /\ Offered' = Offered
         /\ task'.result = task.result
    /\ RunPromise!End <=>
         /\ Outcome(run) = "open" /\ Outcome(run') \in {"FAILED", "CANCELLED"}
         /\ overdue' = overdue /\ Offered' = Offered
         /\ task'.result = task.result
    /\ UNCHANGED RunPromise!vars <=>
         /\ Outcome(run') = Outcome(run) /\ overdue' = overdue
         /\ Offered' = Offered /\ task'.result = task.result
<1> USE DEF Outcome, Offered, Offers, At
<1>1. RunPromise!Init <=> /\ Outcome(run) = "open" /\ overdue = FALSE
                          /\ Offered = FALSE /\ task.result = 0
  BY DEF RunPromise!Init
<1>2. RunPromise!DeadlinePasses <=>
         /\ ~overdue /\ overdue' = TRUE
         /\ Outcome(run') = Outcome(run) /\ Offered' = Offered
         /\ task'.result = task.result
  BY DEF RunPromise!DeadlinePasses
<1>3. RunPromise!Offer <=>
         /\ Offered' \in {FALSE, ~overdue} /\ Outcome(run') = Outcome(run)
         /\ overdue' = overdue /\ task'.result = task.result
  BY DEF RunPromise!Offer
<1>4. RunPromise!Complete <=>
         /\ Outcome(run) = "open" /\ Offered /\ Outcome(run') = "SUCCEEDED"
         /\ Offered' \in BOOLEAN /\ task'.result \in Nat \ {0}
         /\ overdue' = overdue
  BY DEF RunPromise!Complete
<1>5. RunPromise!TimeOut <=>
         /\ Outcome(run) = "open" /\ overdue /\ Outcome(run') = "TIMED_OUT"
         /\ overdue' = overdue /\ Offered' = Offered
         /\ task'.result = task.result
  BY DEF RunPromise!TimeOut
<1>6. RunPromise!End <=>
         /\ Outcome(run) = "open" /\ Outcome(run') \in {"FAILED", "CANCELLED"}
         /\ overdue' = overdue /\ Offered' = Offered
         /\ task'.result = task.result
  BY DEF RunPromise!End
<1>7. UNCHANGED RunPromise!vars <=>
         /\ Outcome(run') = Outcome(run) /\ overdue' = overdue
         /\ Offered' = Offered /\ task'.result = task.result
  BY DEF RunPromise!vars
<1> HIDE DEF Outcome, Offered, Offers, At
<1>8. QED BY <1>1, <1>2, <1>3, <1>4, <1>5, <1>6, <1>7

LEMMA RunPromiseInit == RecoveryInit => RunPromise!Init
<1> SUFFICES ASSUME RecoveryInit PROVE RunPromise!Init
  OBVIOUS
<1>1. Outcome(run) = "open"
  BY DEF RecoveryInit, Init, Outcome, RunTerminal
<1>2. Offered = FALSE
  BY DEF RecoveryInit, Init, Offered, Offers, IdleWorker
<1>3. overdue = FALSE /\ task.result = 0
  BY DEF RecoveryInit, Init, NoRow
<1>4. QED BY <1>1, <1>2, <1>3, RunPromiseActions

LEMMA RunPromiseStep ==
    HistoryInv /\ [RecoveryNext]_recoveryVars
      => [RunPromise!Next]_(RunPromise!vars)
<1> SUFFICES ASSUME HistoryInv, [RecoveryNext]_recoveryVars
             PROVE  RunPromise!Next \/ UNCHANGED RunPromise!vars
  OBVIOUS
<1>1. Ordinary \/ Completes \/ Claims \/ Late BY StepKinds
<1>2. /\ overdue \in BOOLEAN /\ Offered \in BOOLEAN /\ Offered' \in BOOLEAN
      /\ run \notin RunTerminal => Outcome(run) = "open"
      /\ run' \in RunTerminal => Outcome(run') = run'
  BY Now DEF Offered, Outcome
<1>3. CASE Ordinary
  <2>1. overdue' = overdue /\ task'.result = task.result
    BY <1>3 DEF Ordinary, Keeps
  <2>2. CASE Outcome(run') = Outcome(run)
    <3>1. Offered' => Offered \/ ~overdue BY <1>3 DEF Ordinary
    <3>2. CASE Offered' \in {FALSE, ~overdue}
      BY <2>1, <2>2, <3>2, RunPromiseActions DEF RunPromise!Next
    <3>3. CASE Offered' \notin {FALSE, ~overdue}
      <4>1. Offered' = Offered BY <1>2, <3>1, <3>3
      <4>2. QED BY <2>1, <2>2, <4>1, RunPromiseActions
    <3>4. QED BY <3>2, <3>3
  <2>3. CASE Outcome(run') # Outcome(run)
    <3>1. Offered' = Offered BY <1>2, <1>3, <2>3 DEF Ordinary
    <3>2. \/ run \notin RunTerminal /\ run' \in {"FAILED", "CANCELLED"}
          \/ run \notin RunTerminal /\ run' = "TIMED_OUT" /\ overdue
      BY <1>3, <2>3 DEF Ordinary, RunEnds
    <3>3. run' \in RunTerminal BY <3>2 DEF RunTerminal
    <3>4. RunPromise!End \/ RunPromise!TimeOut
      BY <1>2, <2>1, <3>1, <3>2, <3>3, RunPromiseActions
    <3>5. QED BY <3>4 DEF RunPromise!Next
  <2>4. QED BY <2>2, <2>3
<1>4. CASE Completes
  <2>1. task'.result \in Nat \ {0}
    BY <1>4, Now DEF Completes, Succeeded, Rows
  <2>2. Outcome(run) = "open" /\ Outcome(run') = "SUCCEEDED"
    BY <1>4 DEF Completes, Outcome, RunTerminal
  <2>3. RunPromise!Complete
    BY <1>2, <1>4, <2>1, <2>2, RunPromiseActions DEF Completes
  <2>4. QED BY <2>3 DEF RunPromise!Next
<1>5. CASE Claims
  BY <1>2, <1>5, RunPromiseActions DEF Claims
<1>6. CASE Late
  <2>1. RunPromise!DeadlinePasses
    BY <1>2, <1>6, RunPromiseActions DEF Late
  <2>2. QED BY <2>1 DEF RunPromise!Next
<1>7. QED BY <1>1, <1>3, <1>4, <1>5, <1>6

\* A run under run control keeps its contract: one outcome for good, a
\* success only for a completion presented in time and with its result, a
\* timeout only after the deadline, whoever crashed, raced or read stale rows.
THEOREM RunContractKept == RecoverySpec => KeepsRunContract
BY RunPromiseInit, RunPromiseStep, HistoryCorrect, PTL
   DEF RecoverySpec, KeepsRunContract, RunPromise!Spec

----------------------------------------------------------------------------
(* The task's contract.                                                    *)

one == "the task"

LEMMA TaskPromiseActions ==
    /\ TaskPromise!Init <=> /\ Phase(task) = "open" /\ task.attempt = 0
                            /\ task.result = 0
    /\ Phase(task) = "open" /\ task'.attempt = task.attempt + 1
         /\ Phase(task') = "open" /\ task'.result = task.result
       => TaskPromise!HandOut(one)
    /\ Phase(task) = "open" /\ task.attempt > 0 /\ Phase(task') = "done"
         /\ task'.result = task.attempt /\ task'.attempt = task.attempt
       => TaskPromise!Accept(one)
    /\ Phase(task) = "open" /\ Phase(task') = "cancelled"
         /\ task'.result = task.result /\ task'.attempt = task.attempt
       => TaskPromise!Abandon(one)
    /\ Phase(task') = Phase(task)
         /\ task'.result = task.result /\ task'.attempt = task.attempt
       => UNCHANGED TaskPromise!vars
<1> USE DEF Phase, one
<1>1. TaskPromise!Init <=> /\ Phase(task) = "open" /\ task.attempt = 0
                            /\ task.result = 0
  BY DEF TaskPromise!Init
<1>2. ASSUME Phase(task) = "open", task'.attempt = task.attempt + 1,
             Phase(task') = "open", task'.result = task.result
      PROVE  TaskPromise!HandOut(one)
  BY <1>2 DEF TaskPromise!HandOut
<1>3. ASSUME Phase(task) = "open", task.attempt > 0, Phase(task') = "done",
             task'.result = task.attempt, task'.attempt = task.attempt
      PROVE  TaskPromise!Accept(one)
  BY <1>3 DEF TaskPromise!Accept
<1>4. ASSUME Phase(task) = "open", Phase(task') = "cancelled",
             task'.result = task.result, task'.attempt = task.attempt
      PROVE  TaskPromise!Abandon(one)
  BY <1>4 DEF TaskPromise!Abandon
<1>5. ASSUME Phase(task') = Phase(task),
             task'.result = task.result, task'.attempt = task.attempt
      PROVE  UNCHANGED TaskPromise!vars
  BY <1>5 DEF TaskPromise!vars
<1> HIDE DEF Phase, one
<1>6. QED BY <1>1, <1>2, <1>3, <1>4, <1>5

LEMMA TaskPromiseInit == RecoveryInit => TaskPromise!Init
BY TaskPromiseActions, PhaseOf DEF RecoveryInit, Init, NoRow

LEMMA TaskPromiseStep ==
    HistoryInv /\ [RecoveryNext]_recoveryVars
      => [TaskPromise!Next]_(TaskPromise!vars)
<1> SUFFICES ASSUME HistoryInv, [RecoveryNext]_recoveryVars
             PROVE  TaskPromise!Next \/ UNCHANGED TaskPromise!vars
  OBVIOUS
<1>1. Ordinary \/ Completes \/ Claims \/ Late BY StepKinds
<1>2. TaskPromise!HandOut(one) \/ TaskPromise!Accept(one)
         \/ TaskPromise!Abandon(one) => TaskPromise!Next
  BY DEF TaskPromise!Next, one
<1>3. CASE Ordinary
  <2>1. /\ task'.attempt = task.attempt /\ task'.result = task.result
        /\ \/ Phase(task') = Phase(task)
           \/ Phase(task) = "open" /\ Phase(task') = "cancelled"
    BY <1>3 DEF Ordinary, Keeps
  <2>2. QED BY <1>2, <2>1, TaskPromiseActions
<1>4. CASE Completes
  <2>1. /\ task'.status = "SUCCEEDED" /\ task'.result = task.attempt
        /\ task'.attempt = task.attempt
    BY <1>4, Now DEF Completes, Succeeded, Rows
  <2>2. Phase(task) = "open" /\ Phase(task') = "done" /\ task.attempt > 0
    BY <1>4, <2>1, PhaseOf DEF Completes
  <2>3. QED BY <1>2, <2>1, <2>2, TaskPromiseActions
<1>5. CASE Claims
  BY <1>2, <1>5, TaskPromiseActions DEF Claims
<1>6. CASE Late
  BY <1>6, TaskPromiseActions DEF Late
<1>7. QED BY <1>1, <1>3, <1>4, <1>5, <1>6

\* Under run control the task keeps the queue's contract: one result, of the
\* newest attempt, and nothing after the task is over.
THEOREM TaskContractKept == RecoverySpec => KeepsTaskContract
BY TaskPromiseInit, TaskPromiseStep, HistoryCorrect, PTL
   DEF RecoverySpec, KeepsTaskContract, TaskPromise!Spec

----------------------------------------------------------------------------
(* One pass with nobody in its way.                                        *)

\* What recovery of an expired lease leaves, and a cancel after it.
LEMMA AfterRecovery ==
    ASSUME NEW r \in Rows, r.status \notin {"ABSENT", "LEASE_EXPIRED"}
    PROVE  LET t == RecoveredIn(r)
               u == CancelledIn(t, "deadline")
           IN  /\ t \in Rows /\ ~LeaseLapsed(t)
               /\ t.status \in {"PENDING", "LEASED", "RUNNING", "FAILED",
                                "SUCCEEDED", "CANCELLED"}
               /\ t.status = "SUCCEEDED" <=> r.status = "SUCCEEDED"
               /\ r.status # "SUCCEEDED" => u.status = "CANCELLED"
<1> DEFINE t == RecoveredIn(r)
           u == CancelledIn(t, "deadline")
<1>1. CASE LeaseLapsed(r)
  <2>1. t = Recovered(r) BY <1>1 DEF RecoveredIn
  <2>2. t \in Rows /\ t.status = "PENDING"
    <3>1. Recovered(r) \in Rows BY RowWrites
    <3>2. Recovered(r).status = "PENDING" BY DEF Recovered, Requeued, Rows
    <3>3. QED BY <2>1, <3>1, <3>2
  <2>3. r.status # "SUCCEEDED" BY <1>1 DEF LeaseLapsed, InFlight
  <2> HIDE DEF t
  <2>4. u.status = "CANCELLED"
    BY <2>2 DEF CancelledIn, Cancelled, Cancellable, Rows
  <2> HIDE DEF u
  <2>5. QED BY <2>2, <2>3, <2>4 DEF LeaseLapsed, InFlight, t, u
<1>2. CASE ~LeaseLapsed(r)
  <2>1. t = r BY <1>2 DEF RecoveredIn
  <2>2. t.status \in {"PENDING", "LEASED", "RUNNING", "FAILED",
                      "SUCCEEDED", "CANCELLED"}
    BY <2>1 DEF Rows, Statuses
  <2> HIDE DEF t
  <2>3. t.status # "SUCCEEDED" => u.status = "CANCELLED"
    BY <2>1, <2>2 DEF CancelledIn, Cancelled, Cancellable, Rows
  <2> HIDE DEF u
  <2>4. QED BY <1>2, <2>1, <2>2, <2>3 DEF t, u
<1>3. QED BY <1>1, <1>2

LEMMA HistoryReconciles == HistoryInv => OnePassReconciles
<1> SUFFICES ASSUME HistoryInv, run # "NONE", task.status # "ABSENT"
             PROVE  LET r1 == IF overdue THEN Cas(run, NonTerminal, "TIMED_OUT") ELSE run
                        t1 == IF run \in NonTerminal /\ overdue
                              THEN CancelledIn(RecoveredIn(task), "deadline")
                              ELSE RecoveredIn(task)
                        r2 == ReconciledRun(Pair(r1, t1), r1)
                        t2 == ReconciledTask(Pair(r1, t1), t1)
                    IN  /\ r2 \in RunTerminal => t2.status \in TaskTerminal \cup {"FAILED"}
                        /\ t2.status \in TaskTerminal => r2 \in RunTerminal
                        /\ ~LeaseLapsed(t2)
  BY DEF OnePassReconciles
<1> DEFINE t == RecoveredIn(task)
           r1 == IF overdue THEN Cas(run, NonTerminal, "TIMED_OUT") ELSE run
           t1 == IF run \in NonTerminal /\ overdue
                 THEN CancelledIn(t, "deadline") ELSE t
           seen == Pair(r1, t1)
           r2 == ReconciledRun(seen, r1)
           t2 == ReconciledTask(seen, t1)
<1>1. /\ t \in Rows /\ ~LeaseLapsed(t)
      /\ t.status \in {"PENDING", "LEASED", "RUNNING", "FAILED",
                       "SUCCEEDED", "CANCELLED"}
      /\ t.status = "SUCCEEDED" <=> run = "SUCCEEDED"
      /\ run # "SUCCEEDED" => CancelledIn(t, "deadline").status = "CANCELLED"
  BY Now, AfterRecovery DEF SuccessAgrees
<1>2. seen.run = r1 /\ seen.status = t1.status
  BY DEF Pair
<1>3. run \in RunTerminal \/ run \in NonTerminal
  BY Now DEF RunStates
<1> HIDE DEF t, seen
<1>4. CASE run \in NonTerminal /\ overdue
  <2>1. r1 = "TIMED_OUT" /\ t1.status = "CANCELLED"
    BY <1>1, <1>4 DEF Cas, NonTerminal
  <2>2. r2 = r1 /\ t2 = t1
    BY <1>2, <2>1 DEF ReconciledRun, RunFollows, NonTerminal, ReconciledTask,
                      TaskFollows
  <2>3. QED BY <2>1, <2>2 DEF RunTerminal, TaskTerminal, LeaseLapsed, InFlight,
                              seen, t
<1>5. CASE run \in NonTerminal /\ ~overdue
  <2>1. r1 = run /\ t1 = t /\ t.status # "SUCCEEDED" /\ run \notin RunTerminal
    BY <1>1, <1>5 DEF NonTerminal, RunTerminal
  <2>2. t2 = t
    BY <1>2, <2>1 DEF ReconciledTask, TaskFollows
  <2>3. CASE t.status \in {"FAILED", "CANCELLED"}
    <3>1. RunFollows(seen)
      BY <1>2, <1>5, <2>1, <2>3 DEF RunFollows
    <3>2. t.status = "CANCELLED" => r2 = "CANCELLED"
      BY <1>2, <1>5, <2>1, <3>1 DEF ReconciledRun, Cas, RunTarget
    <3>3. QED BY <1>1, <2>2, <2>3, <3>2 DEF RunTerminal, TaskTerminal, seen, t
  <2>4. CASE t.status \notin {"FAILED", "CANCELLED"}
    <3>1. ~RunFollows(seen)
      BY <1>2, <2>1, <2>4 DEF RunFollows
    <3>2. r2 = run BY <2>1, <3>1 DEF ReconciledRun
    <3>3. QED BY <1>1, <2>1, <2>2, <2>4, <3>2 DEF TaskTerminal, seen, t
  <2>5. QED BY <2>3, <2>4
<1>6. CASE run \in RunTerminal
  <2>1. r1 = run /\ t1 = t /\ run \notin NonTerminal
    BY <1>6 DEF Cas, NonTerminal, RunTerminal
  <2>2. r2 = run
    BY <1>2, <2>1 DEF ReconciledRun, RunFollows
  <2>3. CASE run = "SUCCEEDED"
    <3>1. t2 = t BY <1>2, <2>1, <2>3 DEF ReconciledTask, TaskFollows
    <3>2. QED BY <1>1, <1>6, <2>2, <2>3, <3>1 DEF TaskTerminal, seen, t
  <2>4. CASE run # "SUCCEEDED" /\ t.status = "CANCELLED"
    <3>1. t2 = t BY <2>1, <2>4 DEF ReconciledTask
    <3>2. QED BY <1>1, <1>6, <2>2, <2>4, <3>1 DEF TaskTerminal, seen, t
  <2>5. CASE run # "SUCCEEDED" /\ t.status # "CANCELLED"
    <3>1. TaskFollows(seen) /\ t.status \in {"PENDING", "LEASED", "RUNNING", "FAILED"}
      BY <1>1, <1>2, <1>6, <2>1, <2>5 DEF TaskFollows
    <3>2. t2 = [Cancelled(t) EXCEPT !.reason = "run_terminal"]
      BY <2>1, <3>1 DEF ReconciledTask
    <3>3. t2.status = "CANCELLED"
      BY <1>1, <3>2 DEF Cancelled, Rows
    <3> HIDE DEF t2
    <3>4. QED BY <1>6, <2>2, <3>3
              DEF TaskTerminal, LeaseLapsed, InFlight, seen, t, t2
  <2>6. QED BY <2>3, <2>4, <2>5
<1>7. QED BY <1>3, <1>4, <1>5, <1>6

\* Whatever crashes and races left behind, one pass of reconcile_once with
\* nobody in its way leaves no contradiction between run and task.
THEOREM OnePassReconcilesCorrect == RecoverySpec => []OnePassReconciles
BY HistoryReconciles, HistoryCorrect, PTL
=============================================================================
