-------------------------- MODULE RunManagerProofs --------------------------
(***************************************************************************)
(* Theorems about RunManager, for any runs, chats, cases, subscribers and  *)
(* bounds: however worker, supervisor and deletion interleave, a run has   *)
(* one terminal event, one reply and one final status, and a chat or case  *)
(* is held by a turn that is at work; and, while no history is full, a     *)
(* claimed closure is carried out and a final status has its event.        *)
(*                                                                         *)
(* The two threads of a run are told apart by the closure each is in.  The *)
(* invariant follows it: who claimed it, what that thread has still to do, *)
(* and what the history, the status and the chat can hold until then.  A   *)
(* history is never full where its cap leaves room for what a turn may     *)
(* publish: every event is counted against what its threads have left.     *)
(***************************************************************************)
EXTENDS RunManager, SequenceTheorems, TLAPS

-----------------------------------------------------------------------------
(* Types, as far as the proofs need them.                                  *)

Events == [id : Nat, type : DurableTypes]
Messages == [who : {"user", "assistant"}, run : Runs]
Closings == [step : CloseSteps, type : TerminalTypes \cup {"none"},
             status : FinalStatuses \cup {"none"}]

CallShape(p) == p = [pc |-> p.pc, run |-> p.run, event |-> p.event, todo |-> p.todo]

BusTypes ==
    /\ history \in [Runs -> Seq(Events)]
    /\ pub = [t \in Threads |-> pub[t]]
    /\ \A t \in Threads :
          /\ CallShape(pub[t])
          /\ pub[t].pc # "idle" => pub[t].run = RunOf(t)
          /\ pub[t].pc = "append" => pub[t].event \in Events

RunTypes ==
    /\ status \in [Runs -> {"absent", "queued", "running"} \cup FinalStatuses]
    /\ home \in [Runs -> Places \cup {NoPlace}]
    /\ occupant \in [Places -> Runs \cup {NoRun}]
    /\ finished \subseteq Runs
    /\ worker \in [Runs -> WorkerPCs]
    /\ deadline \in [Runs -> {"none", "waiting", "late"}]
    /\ closing \in [Threads -> Closings]
    /\ \A t \in Threads : closing[t].step \in {"claim", "emit", "settle"} =>
          closing[t].type \in TerminalTypes /\ closing[t].status \in FinalStatuses
    /\ deletes \in Nat

ChatTypes ==
    /\ transcript \in [Chats -> Seq(Messages)]
    /\ chatRuns \in [Chats -> Seq(Runs)]
    /\ deletion \in [pc : {"idle", "cascade", "purge"},
                     chat : Chats \cup {NoPlace}, todo : Seq(Runs)]
    /\ deletion.pc = "purge" => deletion.todo # <<>>

Types == BusTypes /\ RunTypes /\ ChatTypes

-----------------------------------------------------------------------------
(* The invariant.                                                          *)

\* Before the worker thread has begun.
Early == {"new", "say", "link", "raised", "thread"}
\* In the turn, after it began and before its closure.
Middle == {"announce", "classify", "unavailable", "qa", "answered", "work",
           "delta", "crash"}
Late == {"closing", "finish", "ended"}

\* A thread that claimed the closure of its run and has not carried it out.
Winning(t) == closing[t].step \in {"emit", "settle", "reply"}
Announcing(t) == pub[t].pc = "append" /\ IsTerminal(pub[t].event)

\* A request is the first to say where its run lives.
HomeInv == \A r \in Runs : worker[r] = "new" <=> home[r] = NoPlace

\* A worker closes last; a supervisor closes an agent run that has begun; a
\* demo run is not claimed; one thread at most wins a claim, and marks it.
ClosingInv ==
    \A r \in Runs :
        /\ closing[W(r)].step # "none" <=> worker[r] \in Late
        /\ deadline[r] # "none" => IsAgent(r) /\ worker[r] \notin Early
        /\ closing[D(r)].step # "none" => deadline[r] = "late"
        /\ closing[W(r)].step \in {"claim", "reply"} => IsAgent(r)
        /\ r \in finished => IsAgent(r) /\ worker[r] \notin Early
        /\ IsAgent(r) /\ (Winning(W(r)) \/ Winning(D(r))) => r \in finished
        /\ ~(Winning(W(r)) /\ Winning(D(r)))

ThreadsOf(r) == {W(r), D(r)}

\* The terminal event comes from the thread that won, while it settles; once
\* it is in the history, nobody is about to publish another.
TerminalInv ==
    /\ \A t \in Threads : Announcing(t) => closing[t].step = "settle"
    /\ \A r \in Runs : HasTerminal(history[r]) =>
          /\ IF IsAgent(r) THEN r \in finished ELSE worker[r] \in Late
          /\ \A t \in ThreadsOf(r) : closing[t].step # "emit" /\ ~Announcing(t)

\* The status is written by the thread that won, and nobody is to write it
\* again.
StatusInv ==
    /\ \A t \in Threads : closing[t].step = "reply" =>
          status[RunOf(t)] \in FinalStatuses \cup {"absent"}
    /\ \A r \in Runs : status[r] \in FinalStatuses =>
          /\ IF IsAgent(r) THEN r \in finished ELSE worker[r] \in Late
          /\ \A t \in ThreadsOf(r) : closing[t].step \notin {"emit", "settle"}

\* The chat has the reply of the thread that won, after the status.
ReplyInv ==
    \A c \in Chats, r \in Runs : Replies(c, r) # {} =>
        /\ home[r] = c /\ r \in finished
        /\ status[r] \in FinalStatuses \cup {"absent"}
        /\ ~Winning(W(r)) /\ ~Winning(D(r))

\* The runs a chat lists, and those a deletion goes through, are agent runs.
ListsInv ==
    /\ \A c \in Chats : \A i \in DOMAIN chatRuns[c] : home[chatRuns[c][i]] = c
    /\ \A i \in DOMAIN deletion.todo : IsAgent(deletion.todo[i])
    /\ deletion.pc # "idle" => deletes # 0

\* A turn holds its place until it ends, or until the first deletion.
HoldsInv ==
    \A r \in Runs : AtWork(r) /\ (home[r] \in Cases \/ deletes = 0) =>
                       occupant[home[r]] = r

ClosureInv == Types /\ HomeInv /\ ClosingInv
Inv == /\ ClosureInv /\ TerminalInv /\ StatusInv /\ ReplyInv
       /\ OneTerminal /\ OneReply
PlaceInv == Types /\ HomeInv /\ ListsInv /\ HoldsInv /\ ReservationIsLive

-----------------------------------------------------------------------------
(* Threads.                                                                *)

LEMMA TwoThreads ==
    /\ \A r \in Runs : /\ W(r) \in Threads /\ D(r) \in Threads
                       /\ RunOf(W(r)) = r /\ RunOf(D(r)) = r
    /\ \A t \in Threads : \E r \in Runs : t = W(r) \/ t = D(r)
    /\ \A q, r \in Runs : /\ W(q) # D(r)
                          /\ W(q) = W(r) => q = r
                          /\ D(q) = D(r) => q = r
BY ThreadsAssumption DEF W, D, RunOf

LEMMA ThreadOf ==
    ASSUME NEW t \in Threads
    PROVE  RunOf(t) \in Runs /\ (t = W(RunOf(t)) \/ t = D(RunOf(t)))
BY TwoThreads

-----------------------------------------------------------------------------
(* Kinds of steps.                                                         *)

\* What a thread does when it starts a call of the bus: with an event to
\* append, or without.
Starts(t) ==
    /\ Free(t)
    /\ history' = history
    /\ \E p : /\ CallShape(p)
              /\ p.run = RunOf(t)
              /\ pub' = [pub EXCEPT ![t] = p]
              /\ p.pc = "append" => p.event \in Events

Quiet == history' = history /\ pub' = pub

\* A step of the turn itself: only the worker moves, and it publishes nothing
\* terminal.
Turns(r) ==
    /\ worker[r] \in Middle
    /\ \E pc \in Middle : worker' = [worker EXCEPT ![r] = pc]
    /\ Quiet \/ (Starts(W(r)) /\ ~Announcing(W(r))')
    /\ UNCHANGED <<status, home, occupant, finished, deadline, closing,
                   chatVars, delVars>>

\* A step inside a call of the bus.
Serves(t) ==
    /\ \/ history' = history
       \/ /\ pub[t].pc = "append"
          /\ history' = [history EXCEPT ![RunOf(t)] = Append(@, pub[t].event)]
    /\ \E p : /\ CallShape(p)
              /\ p.pc # "append"
              /\ p.pc # "idle" => p.run = RunOf(t)
              /\ pub' = [pub EXCEPT ![t] = p]
    /\ UNCHANGED mgrVars

LEMMA StartsEvent ==
    ASSUME Types, NEW r \in Runs, NEW t \in Threads, RunOf(t) = r,
           NEW type \in DurableTypes, StartPublish(t, r, type)
    PROVE  /\ Starts(t)
           /\ pub'[t].pc = "append" /\ pub'[t].event.type = type
<1> DEFINE e == Event(Len(history[r]) + 1, type)
           p == [pc |-> "append", run |-> r, event |-> e, todo |-> {}]
<1>1. e \in Events /\ e.type = type
  <2>1. Len(history[r]) \in Nat BY LenProperties DEF Types, BusTypes
  <2>2. QED BY <2>1 DEF Event, Events
<1>2. pub' = [pub EXCEPT ![t] = p] /\ history' = history /\ Free(t)
  BY DEF StartPublish
<1> HIDE DEF e
<1>3. CallShape(p) /\ p.run = RunOf(t) /\ p.event = e /\ p.pc = "append"
  BY DEF CallShape
<1>4. pub'[t] = p BY <1>2 DEF Types, BusTypes
<1>5. QED BY <1>1, <1>2, <1>3, <1>4 DEF Starts

LEMMA StartsOther ==
    ASSUME Types, NEW r \in Runs, NEW t \in Threads, RunOf(t) = r,
           StartTransient(t, r) \/ StartFinish(t, r)
    PROVE  Starts(t) /\ ~Announcing(t)'
<1>1. PICK p : /\ pub' = [pub EXCEPT ![t] = p] /\ CallShape(p)
               /\ p.pc # "append" /\ p.run = r
  <2> DEFINE s == [pc |-> "snapshot", run |-> r, event |-> Delta, todo |-> {}]
             f == [pc |-> "close", run |-> r, event |-> CLOSED, todo |-> {}]
  <2>1. CallShape(s) /\ s.pc # "append" /\ s.run = r BY DEF CallShape
  <2>2. CallShape(f) /\ f.pc # "append" /\ f.run = r BY DEF CallShape
  <2>3. pub' = [pub EXCEPT ![t] = s] \/ pub' = [pub EXCEPT ![t] = f]
    BY DEF StartTransient, StartFinish
  <2> HIDE DEF s, f
  <2>4. QED BY <2>1, <2>2, <2>3
<1>2. pub'[t] = p BY <1>1 DEF Types, BusTypes
<1>3. QED BY <1>1, <1>2 DEF StartTransient, StartFinish, Starts, Announcing

LEMMA TurnSteps ==
    ASSUME Types, NEW r \in Runs,
           \/ Announce(r) \/ Classify(r) \/ ShadowFails(r) \/ Emit(r)
           \/ QADelta(r) \/ CheckDelta(r) \/ SendDelta(r) \/ QAFallsThrough(r)
           \/ QAAnswered(r)
    PROVE  Turns(r)
<1>1. /\ worker[r] \in Middle
      /\ \E pc \in Middle : worker' = [worker EXCEPT ![r] = pc]
      /\ UNCHANGED <<status, home, occupant, finished, deadline, closing,
                     chatVars, delVars>>
  BY DEF Types, RunTypes, Announce, Classify, ShadowFails, Emit, QADelta,
         CheckDelta, SendDelta, QAFallsThrough, QAAnswered, GoTo, Middle,
         threadVars
<1>2. Quiet \/ (Starts(W(r)) /\ ~Announcing(W(r))')
  <2>1. CASE \/ StartPublish(W(r), r, "run_started")
             \/ StartPublish(W(r), r, "progress")
    BY <2>1, StartsEvent, TwoThreads
    DEF DurableTypes, TerminalTypes, Announcing, IsTerminal
  <2>2. CASE StartTransient(W(r), r) BY <2>2, StartsOther, TwoThreads
  <2>3. QED
    BY <2>1, <2>2
    DEF Announce, Classify, ShadowFails, Emit, QADelta, CheckDelta, SendDelta,
        QAFallsThrough, QAAnswered, Quiet, busVars
<1>3. QED BY <1>1, <1>2 DEF Turns

LEMMA ServingShape ==
    ASSUME NEW p, CallShape(p), NEW list
    PROVE  LET q == Serving(p, list)
           IN  /\ CallShape(q)
               /\ q.pc = "append" => p.pc = "append"
               /\ q.pc # "idle" => q.run = p.run
<1>1. CASE list # {}
  BY <1>1 DEF Serving, CallShape
<1>2. CASE list = {}
  BY <1>2 DEF Serving, CallShape, Idle
<1>3. QED BY <1>1, <1>2

LEMMA BusSteps ==
    ASSUME Types, NEW t \in Threads, PublishStep(t), UNCHANGED mgrVars
    PROVE  Serves(t)
<1>1. CallShape(pub[t]) /\ (pub[t].pc # "idle" => pub[t].run = RunOf(t))
  BY DEF Types, BusTypes
<1>2. ASSUME NEW pc, pc # "append", NEW list, NEW e,
             pub' = [pub EXCEPT ![t] = Serving([pub[t] EXCEPT !.pc = pc], list)],
             pub[t].pc # "idle"
      PROVE  \E p : /\ CallShape(p) /\ p.pc # "append"
                    /\ p.pc # "idle" => p.run = RunOf(t)
                    /\ pub' = [pub EXCEPT ![t] = p]
  <2> DEFINE q == [pub[t] EXCEPT !.pc = pc]
  <2>1. CallShape(q) /\ q.pc = pc /\ q.run = RunOf(t) BY <1>1, <1>2 DEF CallShape
  <2> HIDE DEF q
  <2>2. QED BY <1>2, <2>1, ServingShape DEF q
<1>3. ASSUME NEW list,
             pub' = [pub EXCEPT ![t] = Serving(pub[t], list)],
             pub[t].pc \in {"put", "sentinel"}
      PROVE  \E p : /\ CallShape(p) /\ p.pc # "append"
                    /\ p.pc # "idle" => p.run = RunOf(t)
                    /\ pub' = [pub EXCEPT ![t] = p]
  <2> DEFINE q == Serving(pub[t], list)
  <2>1. CallShape(q) /\ q.pc # "append" /\ (q.pc # "idle" => q.run = RunOf(t))
    BY <1>1, <1>3, ServingShape
  <2> HIDE DEF q
  <2>2. QED BY <1>3, <2>1 DEF q
<1>4. CASE AppendStep(t)
  <2>1. \/ history' = history
        \/ history' = [history EXCEPT ![RunOf(t)] = Append(@, pub[t].event)]
    <3>1. RunOf(t) \in Runs /\ history = [r \in Runs |-> history[r]]
      BY ThreadOf DEF Types, BusTypes
    <3>2. QED BY <1>1, <1>4, <3>1 DEF AppendStep
  <2>2. QED BY <1>2, <1>4, <2>1 DEF AppendStep, Serves
<1>5. CASE SnapshotStep(t) BY <1>2, <1>5 DEF SnapshotStep, Serves
<1>6. CASE CloseStep(t) BY <1>2, <1>6 DEF CloseStep, Serves
<1>7. CASE PutStep(t) BY <1>3, <1>7 DEF PutStep, Serves
<1>8. CASE SentinelStep(t) BY <1>3, <1>8 DEF SentinelStep, Serves
<1>9. QED BY <1>4, <1>5, <1>6, <1>7, <1>8 DEF PublishStep

\* The steps of Next, the ones above taken together.
Step ==
    \/ \E r \in Runs : \/ \E c \in Chats : ReserveChat(r, c)
                       \/ \E k \in Cases : CreateRun(r, k)
                       \/ AddUserMessage(r) \/ LinkRun(r) \/ Begin(r)
                       \/ Turns(r) \/ Conclude(r) \/ Release(r) \/ FinishBus(r)
                       \/ DeadlinePasses(r)
    \/ \E t \in Threads : CloseStepOf(t)
    \/ \E c \in Chats : DeleteChat(c)
    \/ DropRun \/ PurgeRun \/ DropChat
    \/ \E t \in Threads : Serves(t)

LEMMA Steps ==
    ASSUME Types, MgrNext
    PROVE  Step
<1>1. CASE \E r \in Runs : WorkerStarts(r) \/ WorkerWorks(r)
  BY <1>1, TurnSteps DEF WorkerStarts, WorkerWorks, Step
<1>2. CASE \E r \in Runs : WorkerEnds(r) \/ Supervise(r)
  BY <1>2, TwoThreads DEF WorkerEnds, Supervise, Step
<1>3. CASE \E t \in Threads : PublishStep(t) /\ UNCHANGED mgrVars
  BY <1>3, BusSteps DEF Step
<1>4. QED
  BY <1>1, <1>2, <1>3 DEF MgrNext, Request, Delete, Step

-----------------------------------------------------------------------------
(* Types are kept.                                                         *)

LEMMA StartsTypes ==
    ASSUME BusTypes, NEW t \in Threads, Starts(t)
    PROVE  BusTypes'
<1>1. PICK p : /\ CallShape(p) /\ p.run = RunOf(t)
               /\ pub' = [pub EXCEPT ![t] = p]
               /\ p.pc = "append" => p.event \in Events
  BY DEF Starts
<1>2. pub'[t] = p /\ \A u \in Threads \ {t} : pub'[u] = pub[u]
  BY <1>1 DEF BusTypes
<1>3. pub' = [u \in Threads |-> pub'[u]] BY <1>1 DEF BusTypes
<1>4. QED BY <1>1, <1>2, <1>3 DEF BusTypes, Starts

LEMMA ServesTypes ==
    ASSUME BusTypes, NEW t \in Threads, Serves(t)
    PROVE  BusTypes'
<1>1. PICK p : /\ CallShape(p) /\ p.pc # "append"
               /\ p.pc # "idle" => p.run = RunOf(t)
               /\ pub' = [pub EXCEPT ![t] = p]
  BY DEF Serves
<1>2. pub'[t] = p /\ \A u \in Threads \ {t} : pub'[u] = pub[u]
  BY <1>1 DEF BusTypes
<1>3. pub' = [u \in Threads |-> pub'[u]] BY <1>1 DEF BusTypes
<1>4. history' \in [Runs -> Seq(Events)]
  <2>1. CASE history' = history BY <2>1 DEF BusTypes
  <2>2. CASE /\ pub[t].pc = "append"
             /\ history' = [history EXCEPT ![RunOf(t)] = Append(@, pub[t].event)]
    BY <2>2, ThreadOf, AppendProperties DEF BusTypes
  <2>3. QED BY <2>1, <2>2 DEF Serves
<1>5. QED BY <1>1, <1>2, <1>3, <1>4 DEF BusTypes

LEMMA BusTyping ==
    ASSUME Types, Step
    PROVE  BusTypes'
<1>1. CASE Quiet BY <1>1 DEF Quiet, Types, BusTypes
<1>2. ASSUME NEW r \in Runs, Turns(r) PROVE BusTypes'
  BY <1>1, <1>2, StartsTypes, TwoThreads DEF Turns, Types
<1>3. ASSUME NEW r \in Runs, FinishBus(r) PROVE BusTypes'
  BY <1>3, StartsOther, StartsTypes, TwoThreads DEF FinishBus, Types
<1>4. ASSUME NEW t \in Threads, EmitTerminal(t) PROVE BusTypes'
  BY <1>4, StartsEvent, StartsTypes, ThreadOf
  DEF EmitTerminal, Types, RunTypes, DurableTypes
<1>5. ASSUME NEW t \in Threads, Serves(t) PROVE BusTypes'
  BY <1>5, ServesTypes DEF Types
<1>6. CASE PurgeRun
  <2>1. /\ pub' = pub
        /\ history' = [history EXCEPT ![Head(deletion.todo)] = <<>>]
    BY <1>6 DEF PurgeRun, Purge
  <2>2. QED BY <2>1, EmptySeq DEF Types, BusTypes
<1>7. QED
  BY <1>1, <1>2, <1>3, <1>4, <1>5, <1>6
  DEF Step, CloseStepOf, ReserveChat, CreateRun, AddUserMessage, LinkRun, Begin,
      Conclude, Release, DeadlinePasses, ClaimClosure, SettleStatus, Reply,
      DeleteChat, DropRun, DropChat, Quiet, busVars

\* A closure moves on, or is given up.
LEMMA ClosingMoves ==
    ASSUME RunTypes, NEW t \in Threads, NEW step \in CloseSteps, StepTo(t, step)
    PROVE  /\ closing' \in [Threads -> Closings]
           /\ closing'[t].step = step
           /\ step # "done" => /\ closing'[t].type = closing[t].type
                               /\ closing'[t].status = closing[t].status
           /\ \A u \in Threads \ {t} : closing'[u] = closing[u]
<1>1. CASE step = "done"
  BY <1>1 DEF RunTypes, StepTo, NotClosing, Closings, CloseSteps
<1>2. CASE step # "done"
  BY <1>2 DEF RunTypes, StepTo, Closings
<1>3. QED BY <1>1, <1>2

LEMMA ClosingStarts ==
    ASSUME RunTypes, NEW t \in Threads, NEW x \in Closings,
           closing' = [closing EXCEPT ![t] = x]
    PROVE  /\ closing' \in [Threads -> Closings]
           /\ closing'[t] = x
           /\ \A u \in Threads \ {t} : closing'[u] = closing[u]
BY DEF RunTypes

LEMMA Concludes ==
    ASSUME Types, NEW r \in Runs, Conclude(r)
    PROVE  \E x \in Closings :
              /\ closing' = [closing EXCEPT ![W(r)] = x]
              /\ x.step = IF IsAgent(r) THEN "claim" ELSE "emit"
              /\ x.type \in TerminalTypes /\ x.status \in FinalStatuses
<1>1. worker[r] \in {"unavailable", "answered", "work", "crash"}
  BY DEF Conclude, AgentOutcomes
<1> DEFINE O == IF IsAgent(r) THEN AgentOutcomes[worker[r]] ELSE DemoOutcomes
<1>2. O \subseteq TerminalTypes \X FinalStatuses
  BY <1>1 DEF AgentOutcomes, DemoOutcomes, TerminalTypes, FinalStatuses
<1>3. PICK o \in O :
          closing' = [closing EXCEPT ![W(r)] =
                        [step |-> IF IsAgent(r) THEN "claim" ELSE "emit",
                         type |-> o[1], status |-> o[2]]]
  BY DEF Conclude
<1> HIDE DEF O
<1>4. o[1] \in TerminalTypes /\ o[2] \in FinalStatuses BY <1>2, <1>3
<1> DEFINE s == IF IsAgent(r) THEN "claim" ELSE "emit"
           x == [step |-> s, type |-> o[1], status |-> o[2]]
<1>5. s \in CloseSteps BY DEF CloseSteps
<1>6. x \in Closings BY <1>4, <1>5 DEF Closings
<1>7. x.step = s /\ x.type = o[1] /\ x.status = o[2] OBVIOUS
<1>8. closing' = [closing EXCEPT ![W(r)] = x] BY <1>3
<1> HIDE DEF x
<1>9. QED BY <1>4, <1>6, <1>7, <1>8

LEMMA RunTyping ==
    ASSUME Types, Step
    PROVE  RunTypes'
<1> USE DEF Types, RunTypes
<1>1. CASE UNCHANGED <<status, home, occupant, finished, worker, deadline,
                       closing, deletes>>
  BY <1>1
<1>2. ASSUME NEW r \in Runs,
             \/ \E c \in Chats : ReserveChat(r, c)
             \/ \E k \in Cases : CreateRun(r, k)
      PROVE  RunTypes'
  BY <1>2 DEF ReserveChat, CreateRun, Places, GoTo, WorkerPCs, threadVars, delVars
<1>3. ASSUME NEW r \in Runs, AddUserMessage(r) \/ LinkRun(r) \/ Turns(r)
                                \/ FinishBus(r)
      PROVE  RunTypes'
  BY <1>3 DEF AddUserMessage, LinkRun, Turns, FinishBus, GoTo, WorkerPCs, Middle,
              threadVars, delVars
<1>4. ASSUME NEW r \in Runs, Begin(r) PROVE RunTypes'
  BY <1>4 DEF Begin, Set, GoTo, WorkerPCs, delVars
<1>5. ASSUME NEW r \in Runs, Conclude(r) PROVE RunTypes'
  <2>1. W(r) \in Threads BY TwoThreads
  <2>2. PICK x \in Closings : /\ closing' = [closing EXCEPT ![W(r)] = x]
                              /\ x.type \in TerminalTypes /\ x.status \in FinalStatuses
    BY <1>5, Concludes
  <2>3. /\ closing' \in [Threads -> Closings] /\ closing'[W(r)] = x
        /\ \A u \in Threads \ {W(r)} : closing'[u] = closing[u]
    BY <2>1, <2>2, ClosingStarts
  <2>4. QED BY <1>5, <2>2, <2>3 DEF Conclude, GoTo, WorkerPCs, delVars
<1>6. ASSUME NEW r \in Runs, Release(r) PROVE RunTypes'
  BY <1>6 DEF Release, GoTo, WorkerPCs, delVars
<1>7. ASSUME NEW r \in Runs, DeadlinePasses(r) PROVE RunTypes'
  <2> DEFINE x == [step |-> "claim", type |-> "run_failed", status |-> "failed"]
  <2>1. D(r) \in Threads BY TwoThreads
  <2>2. x \in Closings /\ x.type \in TerminalTypes /\ x.status \in FinalStatuses
    BY DEF Closings, CloseSteps, TerminalTypes, FinalStatuses
  <2>3. closing' = [closing EXCEPT ![D(r)] = x] BY <1>7 DEF DeadlinePasses
  <2> HIDE DEF x
  <2>4. /\ closing' \in [Threads -> Closings] /\ closing'[D(r)] = x
        /\ \A u \in Threads \ {D(r)} : closing'[u] = closing[u]
    BY <2>1, <2>2, <2>3, ClosingStarts
  <2>5. QED BY <1>7, <2>2, <2>4 DEF DeadlinePasses, delVars
<1>8. ASSUME NEW t \in Threads, CloseStepOf(t) PROVE RunTypes'
  <2>1. PICK step \in {"emit", "settle", "reply", "done"} :
            /\ StepTo(t, step)
            /\ step \in {"emit", "settle"} => closing[t].step \in {"claim", "emit"}
    BY <1>8 DEF CloseStepOf, ClaimClosure, EmitTerminal, SettleStatus, Reply
  <2>2. /\ closing' \in [Threads -> Closings] /\ closing'[t].step = step
        /\ step # "done" => /\ closing'[t].type = closing[t].type
                            /\ closing'[t].status = closing[t].status
        /\ \A u \in Threads \ {t} : closing'[u] = closing[u]
    BY <2>1, ClosingMoves DEF CloseSteps
  <2>3. \A u \in Threads : closing'[u].step \in {"claim", "emit", "settle"} =>
          closing'[u].type \in TerminalTypes /\ closing'[u].status \in FinalStatuses
    BY <2>1, <2>2
  <2>4. finished' \subseteq Runs
    BY <1>8, ThreadOf
    DEF CloseStepOf, ClaimClosure, EmitTerminal, SettleStatus, Reply
  <2>5. status' \in [Runs -> {"absent", "queued", "running"} \cup FinalStatuses]
    BY <1>8
    DEF CloseStepOf, ClaimClosure, EmitTerminal, SettleStatus, Reply, Set
  <2>6. UNCHANGED <<home, occupant, worker, deadline, deletes>>
    BY <1>8
    DEF CloseStepOf, ClaimClosure, EmitTerminal, SettleStatus, Reply, delVars
  <2>7. QED BY <2>2, <2>3, <2>4, <2>5, <2>6
<1>9. CASE DropRun
  <2>1. occupant' \in [Places -> Runs \cup {NoRun}] BY <1>9 DEF DropRun
  <2>2. status' \in [Runs -> {"absent", "queued", "running"} \cup FinalStatuses]
    BY <1>9 DEF DropRun
  <2>3. QED BY <1>9, <2>1, <2>2 DEF DropRun, threadVars
<1>10. ASSUME NEW c \in Chats, DeleteChat(c) PROVE RunTypes'
  BY <1>10 DEF DeleteChat, threadVars
<1>11. QED
  BY <1>1, <1>2, <1>3, <1>4, <1>5, <1>6, <1>7, <1>8, <1>9, <1>10
  DEF Step, PurgeRun, DropChat, Serves, threadVars, mgrVars

LEMMA AppendsAt ==
    ASSUME NEW E, NEW S, NEW f \in [S -> Seq(E)], NEW x, NEW e \in E
    PROVE  [f EXCEPT ![x] = Append(@, e)] \in [S -> Seq(E)]
<1> DEFINE T == Seq(E)
<1>1. f \in [S -> T] OBVIOUS
<1>2. \A y \in S : Append(f[y], e) \in T BY AppendProperties
<1> HIDE DEF T
<1>3. [f EXCEPT ![x] = Append(@, e)] \in [S -> T] BY <1>1, <1>2
<1>4. QED BY <1>3 DEF T

LEMMA ChatTyping ==
    ASSUME Types, Step
    PROVE  ChatTypes'
<1> USE DEF Types, ChatTypes
<1>1. CASE UNCHANGED <<transcript, chatRuns, deletion>> BY <1>1
<1>2. ASSUME NEW r \in Runs, AddUserMessage(r) PROVE ChatTypes'
  <2> DEFINE m == [who |-> "user", run |-> r]
  <2>1. m \in Messages BY DEF Messages
  <2>2. \/ transcript' = transcript
        \/ transcript' = [transcript EXCEPT ![home[r]] = Append(@, m)]
    BY <1>2 DEF AddUserMessage
  <2> HIDE DEF m
  <2>3. transcript' \in [Chats -> Seq(Messages)]
    <3>1. transcript \in [Chats -> Seq(Messages)] OBVIOUS
    <3>2. [transcript EXCEPT ![home[r]] = Append(@, m)] \in [Chats -> Seq(Messages)]
      BY <2>1, <3>1, AppendsAt, Zenon
    <3>3. QED BY <2>2, <3>1, <3>2
  <2>4. QED BY <1>2, <2>3 DEF AddUserMessage, delVars
<1>3. ASSUME NEW r \in Runs, LinkRun(r) PROVE ChatTypes'
  <2>1. chatRuns' \in [Chats -> Seq(Runs)]
    <3>1. \/ chatRuns' = chatRuns
          \/ chatRuns' = [chatRuns EXCEPT ![home[r]] = Append(@, r)]
      BY <1>3 DEF LinkRun
    <3>2. [chatRuns EXCEPT ![home[r]] = Append(@, r)] \in [Chats -> Seq(Runs)]
      BY AppendsAt, Zenon
    <3>3. QED BY <3>1, <3>2
  <2>2. QED BY <1>3, <2>1 DEF LinkRun, delVars
<1>4. ASSUME NEW t \in Threads, Reply(t) PROVE ChatTypes'
  <2> DEFINE m == [who |-> "assistant", run |-> RunOf(t)]
  <2>1. m \in Messages BY ThreadOf DEF Messages
  <2>2. \/ transcript' = transcript
        \/ transcript' = [transcript EXCEPT ![home[RunOf(t)]] = Append(@, m)]
    BY <1>4 DEF Reply
  <2> HIDE DEF m
  <2>3. transcript' \in [Chats -> Seq(Messages)]
    <3>1. transcript \in [Chats -> Seq(Messages)] OBVIOUS
    <3>2. [transcript EXCEPT ![home[RunOf(t)]] = Append(@, m)] \in [Chats -> Seq(Messages)]
      BY <2>1, <3>1, AppendsAt, Zenon
    <3>3. QED BY <2>2, <3>1, <3>2
  <2>4. QED BY <1>4, <2>3 DEF Reply, delVars
<1>5. ASSUME NEW c \in Chats, DeleteChat(c) PROVE ChatTypes'
  BY <1>5 DEF DeleteChat, chatVars
<1>6. CASE DropRun
  BY <1>6 DEF DropRun, chatVars
<1>7. CASE PurgeRun
  <2>1. deletion.todo \in Seq(Runs) /\ deletion.todo # <<>>
    BY <1>7 DEF PurgeRun
  <2>2. Tail(deletion.todo) \in Seq(Runs) BY <2>1, HeadTailProperties
  <2>3. QED BY <1>7, <2>2 DEF PurgeRun, chatVars
<1>8. CASE DropChat
  BY <1>8, EmptySeq DEF DropChat, NoDeletion
<1>9. QED
  BY <1>1, <1>2, <1>3, <1>4, <1>5, <1>6, <1>7, <1>8
  DEF Step, CloseStepOf, ReserveChat, CreateRun, Begin, Turns, Conclude, Release,
      FinishBus, DeadlinePasses, ClaimClosure, EmitTerminal, SettleStatus, Serves,
      chatVars, delVars, mgrVars

LEMMA Typing ==
    ASSUME Types, Step
    PROVE  Types'
BY BusTyping, RunTyping, ChatTyping DEF Types

-----------------------------------------------------------------------------
(* Homes and closures.                                                     *)

LEMMA Homes ==
    ASSUME Types, HomeInv, Step
    PROVE  HomeInv'
<1> USE DEF HomeInv
<1>0. "none" \notin Places BY PlacesAssumption DEF Places
<1>1. CASE UNCHANGED <<home, worker>> BY <1>1
<1>2. ASSUME NEW r \in Runs,
             \/ \E c \in Chats : ReserveChat(r, c)
             \/ \E k \in Cases : CreateRun(r, k)
      PROVE  HomeInv'
  BY <1>0, <1>2
  DEF ReserveChat, CreateRun, Types, RunTypes, GoTo, NoPlace, Places
<1>3. ASSUME NEW r \in Runs, worker[r] # "new", NEW pc \in WorkerPCs \ {"new"},
             GoTo(r, pc), home' = home
      PROVE  HomeInv'
  BY <1>3 DEF Types, RunTypes, GoTo
<1>4. ASSUME NEW r \in Runs, AddUserMessage(r) \/ LinkRun(r) \/ Begin(r)
                                \/ Release(r) \/ FinishBus(r)
      PROVE  HomeInv'
  BY <1>3, <1>4
  DEF AddUserMessage, LinkRun, Begin, Release, FinishBus, WorkerPCs
<1>5. ASSUME NEW r \in Runs, Conclude(r) PROVE HomeInv'
  BY <1>3, <1>5 DEF Conclude, WorkerPCs, AgentOutcomes
<1>6. ASSUME NEW r \in Runs, Turns(r) PROVE HomeInv'
  BY <1>3, <1>6 DEF Turns, WorkerPCs, Middle, GoTo
<1>7. QED
  BY <1>1, <1>2, <1>4, <1>5, <1>6
  DEF Step, DeadlinePasses, CloseStepOf, ClaimClosure, EmitTerminal, SettleStatus,
      Reply, DeleteChat, DropRun, PurgeRun, DropChat, Serves, mgrVars

\* What a thread does about a closure, seen from its step alone.
LEMMA CloserSteps ==
    ASSUME Types, NEW t \in Threads, CloseStepOf(t)
    PROVE  LET r == RunOf(t)
           IN  /\ UNCHANGED <<home, occupant, worker, deadline>>
               /\ \A u \in Threads \ {t} : closing'[u] = closing[u]
               /\ \/ /\ closing[t].step = "claim"
                     /\ closing'[t].step = IF r \in finished THEN "done" ELSE "emit"
                     /\ finished' = finished \cup {r}
                     /\ status' = status /\ Quiet
                  \/ /\ closing[t].step = "emit" /\ closing'[t].step = "settle"
                     /\ Starts(t) /\ finished' = finished /\ status' = status
                  \/ /\ closing[t].step = "settle" /\ Free(t)
                     /\ closing'[t].step = IF IsAgent(r) THEN "reply" ELSE "done"
                     /\ finished' = finished
                     /\ status' = Set(r, closing[t].status) /\ Quiet
                  \/ /\ closing[t].step = "reply" /\ closing'[t].step = "done"
                     /\ finished' = finished /\ status' = status /\ Quiet
<1> DEFINE r == RunOf(t)
<1>1. /\ UNCHANGED <<home, occupant, worker, deadline>>
      /\ \E step \in CloseSteps : StepTo(t, step)
  BY DEF CloseStepOf, ClaimClosure, EmitTerminal, SettleStatus, Reply, CloseSteps
<1>2. \A u \in Threads \ {t} : closing'[u] = closing[u]
  BY <1>1, ClosingMoves DEF Types
<1>3. \A step \in CloseSteps : StepTo(t, step) => closing'[t].step = step
  BY ClosingMoves DEF Types
<1>4. CASE ClaimClosure(t)
  <2>1. closing'[t].step = IF r \in finished THEN "done" ELSE "emit"
    BY <1>3, <1>4 DEF ClaimClosure, CloseSteps
  <2>2. closing[t].step = "claim" /\ status' = status /\ Quiet
        /\ finished' = finished \cup {r}
    BY <1>4 DEF ClaimClosure, Quiet, busVars
  <2>3. QED BY <1>1, <1>2, <2>1, <2>2
<1>5. CASE EmitTerminal(t)
  <2>1. closing[t].step = "emit" /\ closing'[t].step = "settle"
        /\ status' = status /\ finished' = finished
    BY <1>3, <1>5 DEF EmitTerminal, CloseSteps
  <2>2. Starts(t)
    BY <1>5, <2>1, StartsEvent, ThreadOf
    DEF EmitTerminal, Types, RunTypes, DurableTypes
  <2>3. QED BY <1>1, <1>2, <2>1, <2>2
<1>6. CASE SettleStatus(t)
  <2>1. closing'[t].step = IF IsAgent(r) THEN "reply" ELSE "done"
    BY <1>3, <1>6 DEF SettleStatus, CloseSteps
  <2>2. closing[t].step = "settle" /\ Quiet /\ finished' = finished /\ Free(t)
        /\ status' = Set(r, closing[t].status)
    BY <1>6 DEF SettleStatus, Quiet, busVars
  <2>3. QED BY <1>1, <1>2, <2>1, <2>2
<1>7. CASE Reply(t)
  <2>1. closing[t].step = "reply" /\ closing'[t].step = "done"
        /\ finished' = finished /\ status' = status /\ Quiet
    BY <1>3, <1>7 DEF Reply, CloseSteps, Quiet, busVars
  <2>2. QED BY <1>1, <1>2, <2>1
<1>8. QED BY <1>4, <1>5, <1>6, <1>7 DEF CloseStepOf

LEMMA Closures ==
    ASSUME ClosureInv, Step
    PROVE  ClosingInv'
<1> USE DEF ClosingInv, IsAgent, Winning, ClosureInv
<1>1. CASE UNCHANGED <<home, worker, deadline, closing, finished>> BY <1>1
<1>2. ASSUME NEW r \in Runs,
             \/ \E c \in Chats : ReserveChat(r, c)
             \/ \E k \in Cases : CreateRun(r, k)
      PROVE  ClosingInv'
  <2>1. worker[r] = "new" /\ home[r] \notin Chats
    BY <1>2, PlacesAssumption DEF ReserveChat, CreateRun, HomeInv, NoPlace
  <2>2. /\ worker'[r] \in Early
        /\ \A q \in Runs \ {r} : worker'[q] = worker[q] /\ home'[q] = home[q]
        /\ UNCHANGED <<deadline, closing, finished>>
    BY <1>2 DEF ReserveChat, CreateRun, GoTo, Types, RunTypes, Early, threadVars
  <2>3. /\ closing[W(r)].step = "none" /\ closing[D(r)].step = "none"
        /\ deadline[r] = "none" /\ r \notin finished
    BY <2>1, TwoThreads DEF Late, Types, RunTypes
  <2>4. QED BY <2>2, <2>3 DEF Early, Late
<1>3. ASSUME NEW r \in Runs, AddUserMessage(r) \/ LinkRun(r)
      PROVE  ClosingInv'
  <2>1. /\ worker[r] \in Early /\ worker'[r] \in Early
        /\ \A q \in Runs \ {r} : worker'[q] = worker[q]
        /\ UNCHANGED <<home, deadline, closing, finished>>
    BY <1>3 DEF AddUserMessage, LinkRun, GoTo, Types, RunTypes, Early, threadVars
  <2>2. QED BY <2>1 DEF Early, Late
<1>4. ASSUME NEW r \in Runs, Begin(r)
      PROVE  ClosingInv'
  <2>1. /\ worker[r] \in Early /\ worker'[r] \in Middle
        /\ \A q \in Runs \ {r} : worker'[q] = worker[q] /\ deadline'[q] = deadline[q]
        /\ deadline'[r] \in {deadline[r], "waiting"}
        /\ ~IsAgent(r) => deadline'[r] = deadline[r]
        /\ UNCHANGED <<home, closing, finished>>
    BY <1>4 DEF Begin, GoTo, Types, RunTypes, Early, Middle
  <2>2. closing[D(r)].step = "none" /\ deadline[r] = "none"
    BY <2>1, TwoThreads DEF Types, RunTypes
  <2>3. QED BY <2>1, <2>2 DEF Early, Middle, Late
<1>5. ASSUME NEW r \in Runs, Turns(r)
      PROVE  ClosingInv'
  <2>1. /\ worker[r] \in Middle /\ worker'[r] \in Middle
        /\ \A q \in Runs \ {r} : worker'[q] = worker[q]
        /\ UNCHANGED <<home, deadline, closing, finished>>
    BY <1>5 DEF Turns, Types, RunTypes
  <2>2. QED BY <2>1 DEF Early, Middle, Late
<1>6. ASSUME NEW r \in Runs, Conclude(r)
      PROVE  ClosingInv'
  <2>1. /\ worker[r] \in Middle /\ worker'[r] = "closing"
        /\ \A q \in Runs \ {r} : worker'[q] = worker[q]
        /\ UNCHANGED <<home, deadline, finished>>
    BY <1>6 DEF Conclude, GoTo, Types, RunTypes, AgentOutcomes, Middle
  <2>2. PICK x \in Closings :
              /\ closing' = [closing EXCEPT ![W(r)] = x]
              /\ x.step = IF IsAgent(r) THEN "claim" ELSE "emit"
    BY <1>6, Concludes
  <2>3. /\ closing'[W(r)] = x
        /\ \A u \in Threads \ {W(r)} : closing'[u] = closing[u]
    BY <2>2, TwoThreads DEF Types, RunTypes
  <2>4. /\ closing'[D(r)] = closing[D(r)]
        /\ \A q \in Runs \ {r} : /\ closing'[W(q)] = closing[W(q)]
                                 /\ closing'[D(q)] = closing[D(q)]
    BY <2>3, TwoThreads
  <2>5. ~IsAgent(r) => closing[D(r)].step = "none"
    OBVIOUS
  <2>6. QED BY <2>1, <2>2, <2>3, <2>4, <2>5 DEF Early, Middle, Late
<1>7. ASSUME NEW r \in Runs, Release(r) \/ FinishBus(r)
      PROVE  ClosingInv'
  <2>1. /\ worker[r] \in Late /\ worker'[r] \in Late
        /\ \A q \in Runs \ {r} : worker'[q] = worker[q]
        /\ UNCHANGED <<home, deadline, closing, finished>>
    BY <1>7 DEF Release, FinishBus, GoTo, Types, RunTypes, Late, threadVars
  <2>2. QED BY <2>1 DEF Early, Late
<1>8. ASSUME NEW r \in Runs, DeadlinePasses(r)
      PROVE  ClosingInv'
  <2> DEFINE x == [step |-> "claim", type |-> "run_failed", status |-> "failed"]
  <2>1. /\ deadline[r] = "waiting" /\ deadline'[r] = "late"
        /\ \A q \in Runs \ {r} : deadline'[q] = deadline[q]
        /\ closing' = [closing EXCEPT ![D(r)] = x]
        /\ UNCHANGED <<home, worker, finished>>
    BY <1>8 DEF DeadlinePasses, Types, RunTypes
  <2>2. x.step = "claim" OBVIOUS
  <2> HIDE DEF x
  <2>3. /\ closing'[D(r)] = x
        /\ \A u \in Threads \ {D(r)} : closing'[u] = closing[u]
    BY <2>1, TwoThreads DEF Types, RunTypes
  <2>4. /\ closing'[W(r)] = closing[W(r)]
        /\ \A q \in Runs \ {r} : /\ closing'[W(q)] = closing[W(q)]
                                 /\ closing'[D(q)] = closing[D(q)]
    BY <2>3, TwoThreads
  <2>5. QED BY <2>1, <2>2, <2>3, <2>4 DEF Early, Late
<1>9. ASSUME NEW t \in Threads, CloseStepOf(t)
      PROVE  ClosingInv'
  <2> DEFINE r == RunOf(t)
  <2>1. r \in Runs /\ (t = W(r) \/ t = D(r)) BY ThreadOf
  <2> HIDE DEF r
  <2>2. /\ UNCHANGED <<home, worker, deadline>>
        /\ \A u \in Threads \ {t} : closing'[u] = closing[u]
        /\ \/ /\ closing[t].step = "claim"
              /\ closing'[t].step = IF r \in finished THEN "done" ELSE "emit"
              /\ finished' = finished \cup {r}
           \/ /\ closing[t].step = "emit" /\ closing'[t].step = "settle"
              /\ finished' = finished
           \/ /\ closing[t].step = "settle"
              /\ closing'[t].step = IF IsAgent(r) THEN "reply" ELSE "done"
              /\ finished' = finished
           \/ /\ closing[t].step = "reply" /\ closing'[t].step = "done"
              /\ finished' = finished
    BY <1>9, CloserSteps DEF r
  <2>3. \A q \in Runs \ {r} : /\ closing'[W(q)] = closing[W(q)]
                              /\ closing'[D(q)] = closing[D(q)]
    BY <2>1, <2>2, TwoThreads
  <2>4. \A q \in Runs \ {r} : q \in finished' <=> q \in finished
    BY <2>2
  <2>5. CASE t = W(r)
    <3>1. closing'[D(r)] = closing[D(r)] BY <2>1, <2>2, <2>5, TwoThreads
    <3>2. QED BY <2>1, <2>2, <2>3, <2>4, <2>5, <3>1 DEF Early, Late
  <2>6. CASE t = D(r)
    <3>1. closing'[W(r)] = closing[W(r)] BY <2>1, <2>2, <2>6, TwoThreads
    <3>2. QED BY <2>1, <2>2, <2>3, <2>4, <2>6, <3>1 DEF Early, Late
  <2>7. QED BY <2>1, <2>5, <2>6
<1>10. QED
  BY <1>1, <1>2, <1>3, <1>4, <1>5, <1>6, <1>7, <1>8, <1>9
  DEF Step, DeleteChat, DropRun, PurgeRun, DropChat, Serves, mgrVars, threadVars

-----------------------------------------------------------------------------
(* Terminal events.                                                        *)

LEMMA NewTerminal ==
    ASSUME NEW h \in Seq(Events), NEW e \in Events
    PROVE  /\ HasTerminal(Append(h, e)) <=> HasTerminal(h) \/ IsTerminal(e)
           /\ ~HasTerminal(h) =>
                 \A i, j \in DOMAIN Append(h, e) :
                    IsTerminal(Append(h, e)[i]) /\ IsTerminal(Append(h, e)[j]) => i = j
<1>1. /\ DOMAIN h = 1 .. Len(h) /\ Len(h) \in Nat
      /\ DOMAIN Append(h, e) = 1 .. Len(h) + 1
      /\ \A i \in 1 .. Len(h) : Append(h, e)[i] = h[i]
      /\ Append(h, e)[Len(h) + 1] = e
  BY AppendProperties, LenProperties
<1>2. \A i \in DOMAIN Append(h, e) : i \in DOMAIN h \/ i = Len(h) + 1
  BY <1>1
<1>3. DOMAIN h \subseteq DOMAIN Append(h, e) /\ Len(h) + 1 \in DOMAIN Append(h, e)
  BY <1>1
<1>4. QED BY <1>1, <1>2, <1>3, Zenon DEF HasTerminal

\* One more event in the history of run r, or none: what it takes.
LEMMA Published ==
    ASSUME Types, OneTerminal, NEW r \in Runs, NEW e \in Events,
           history' = [history EXCEPT ![r] = Append(@, e)],
           IsTerminal(e) => ~HasTerminal(history[r])
    PROVE  /\ OneTerminal'
           /\ \A q \in Runs : HasTerminal(history'[q]) =>
                 HasTerminal(history[q]) \/ (q = r /\ IsTerminal(e))
<1>1. /\ history'[r] = Append(history[r], e) /\ history[r] \in Seq(Events)
      /\ \A q \in Runs \ {r} : history'[q] = history[q]
  BY DEF Types, BusTypes
<1>2. HasTerminal(history'[r]) <=> HasTerminal(history[r]) \/ IsTerminal(e)
  BY <1>1, NewTerminal
<1>3. \A i, j \in DOMAIN history'[r] :
          IsTerminal(history'[r][i]) /\ IsTerminal(history'[r][j]) => i = j
  <2>1. CASE ~HasTerminal(history[r]) BY <1>1, <2>1, NewTerminal
  <2>2. CASE ~IsTerminal(e)
    <3>1. /\ DOMAIN history[r] = 1 .. Len(history[r]) /\ Len(history[r]) \in Nat
          /\ DOMAIN history'[r] = 1 .. Len(history[r]) + 1
          /\ \A i \in 1 .. Len(history[r]) : history'[r][i] = history[r][i]
          /\ history'[r][Len(history[r]) + 1] = e
      BY <1>1, AppendProperties, LenProperties
    <3>2. \A i \in DOMAIN history'[r] :
              i \in DOMAIN history[r] \/ ~IsTerminal(history'[r][i])
      BY <2>2, <3>1
    <3>3. QED BY <3>1, <3>2 DEF OneTerminal
  <2>3. QED BY <2>1, <2>2
<1>4. QED BY <1>1, <1>2, <1>3 DEF OneTerminal

\* A step that publishes nothing new.
LEMMA StartsKeeps ==
    ASSUME Types, NEW t \in Threads, Starts(t) \/ Quiet
    PROVE  /\ history' = history
           /\ \A u \in Threads \ {t} : Announcing(u)' <=> Announcing(u)
BY DEF Starts, Quiet, Types, BusTypes, Announcing

LEMMA Terminals ==
    ASSUME ClosureInv, TerminalInv, OneTerminal, Step
    PROVE  TerminalInv' /\ OneTerminal'
<1> USE DEF ClosureInv, TerminalInv, ThreadsOf, IsAgent
<1>0. ASSUME history' = history PROVE OneTerminal'
  BY <1>0 DEF OneTerminal
<1>1. ASSUME UNCHANGED <<history, pub, closing, finished, home, worker>>
      PROVE  TerminalInv' /\ OneTerminal'
  BY <1>0, <1>1 DEF Announcing
<1>2. ASSUME NEW r \in Runs,
             \/ \E c \in Chats : ReserveChat(r, c)
             \/ \E k \in Cases : CreateRun(r, k)
      PROVE  TerminalInv' /\ OneTerminal'
  <2>1. worker[r] = "new" /\ home[r] \notin Chats
    BY <1>2, PlacesAssumption DEF ReserveChat, CreateRun, HomeInv, NoPlace
  <2>2. /\ \A q \in Runs \ {r} : worker'[q] = worker[q] /\ home'[q] = home[q]
        /\ UNCHANGED <<history, pub, closing, finished>>
    BY <1>2 DEF ReserveChat, CreateRun, GoTo, Types, RunTypes, threadVars, busVars
  <2>3. ~HasTerminal(history[r]) BY <2>1 DEF Late
  <2>4. QED BY <1>0, <2>2, <2>3 DEF Announcing
<1>3. ASSUME NEW r \in Runs, AddUserMessage(r) \/ LinkRun(r) \/ Begin(r)
      PROVE  TerminalInv' /\ OneTerminal'
  <2>1. /\ worker[r] \notin Late
        /\ \A q \in Runs \ {r} : worker'[q] = worker[q]
        /\ UNCHANGED <<home, history, pub, closing, finished>>
    BY <1>3 DEF AddUserMessage, LinkRun, Begin, GoTo, Types, RunTypes, Late,
                threadVars, busVars
  <2>2. QED BY <1>0, <2>1 DEF Announcing
<1>4. ASSUME NEW r \in Runs, Turns(r)
      PROVE  TerminalInv' /\ OneTerminal'
  <2>1. /\ worker[r] \notin Late
        /\ \A q \in Runs \ {r} : worker'[q] = worker[q]
        /\ UNCHANGED <<home, closing, finished>>
    BY <1>4 DEF Turns, Types, RunTypes, Middle, Late
  <2>2. /\ history' = history
        /\ \A t \in Threads : Announcing(t)' => Announcing(t)
    BY <1>4, StartsKeeps, TwoThreads DEF Turns, Quiet, Announcing
  <2>3. QED BY <1>0, <2>1, <2>2, TwoThreads
<1>5. ASSUME NEW r \in Runs, Conclude(r)
      PROVE  TerminalInv' /\ OneTerminal'
  <2>1. /\ worker[r] \notin Late
        /\ \A q \in Runs \ {r} : worker'[q] = worker[q]
        /\ UNCHANGED <<history, pub, home, finished>>
        /\ Free(W(r))
    BY <1>5 DEF Conclude, GoTo, Types, RunTypes, AgentOutcomes, Late, busVars
  <2>2. PICK x \in Closings :
              /\ closing' = [closing EXCEPT ![W(r)] = x]
              /\ x.step = IF IsAgent(r) THEN "claim" ELSE "emit"
    BY <1>5, Concludes
  <2>3. /\ closing'[W(r)] = x
        /\ \A u \in Threads \ {W(r)} : closing'[u] = closing[u]
    BY <2>2, TwoThreads DEF Types, RunTypes
  <2>4. ~Announcing(W(r)) BY <2>1 DEF Announcing, Free
  <2>5. \A t \in Threads : Announcing(t)' = Announcing(t) BY <2>1 DEF Announcing
  <2>6. HasTerminal(history[r]) => IsAgent(r) BY <2>1
  <2>7. \A t \in Threads : Announcing(t)' => closing'[t].step = "settle"
    BY <2>3, <2>4, <2>5
  <2>8. QED BY <1>0, <2>1, <2>2, <2>3, <2>5, <2>6, <2>7, TwoThreads
<1>6. ASSUME NEW r \in Runs, Release(r) \/ FinishBus(r)
      PROVE  TerminalInv' /\ OneTerminal'
  <2>1. /\ worker'[r] \in Late
        /\ \A q \in Runs \ {r} : worker'[q] = worker[q]
        /\ UNCHANGED <<home, closing, finished>>
    BY <1>6 DEF Release, FinishBus, GoTo, Types, RunTypes, Late, threadVars
  <2>2. Quiet \/ (Starts(W(r)) /\ ~Announcing(W(r))')
    BY <1>6, StartsOther, TwoThreads DEF Release, FinishBus, Quiet, busVars
  <2>3. /\ history' = history
        /\ \A t \in Threads : Announcing(t)' => Announcing(t)
    BY <2>2, StartsKeeps, TwoThreads DEF Quiet, Announcing
  <2>4. QED BY <1>0, <2>1, <2>3, TwoThreads
<1>7. ASSUME NEW r \in Runs, DeadlinePasses(r)
      PROVE  TerminalInv' /\ OneTerminal'
  <2> DEFINE x == [step |-> "claim", type |-> "run_failed", status |-> "failed"]
  <2>1. /\ deadline[r] = "waiting"
        /\ closing' = [closing EXCEPT ![D(r)] = x]
        /\ UNCHANGED <<home, worker, finished, history, pub>>
    BY <1>7 DEF DeadlinePasses, busVars
  <2>2. x.step = "claim" OBVIOUS
  <2> HIDE DEF x
  <2>3. /\ closing'[D(r)] = x
        /\ \A u \in Threads \ {D(r)} : closing'[u] = closing[u]
    BY <2>1, TwoThreads DEF Types, RunTypes
  <2>4. closing[D(r)].step = "none" BY <2>1 DEF ClosingInv
  <2>5. \A t \in Threads : Announcing(t)' = Announcing(t) BY <2>1 DEF Announcing
  <2>6. \A t \in Threads : Announcing(t)' => closing'[t].step = "settle"
    BY <2>3, <2>4, <2>5, TwoThreads
  <2>7. QED BY <1>0, <2>1, <2>2, <2>3, <2>5, <2>6, TwoThreads
<1>8. ASSUME NEW t \in Threads, CloseStepOf(t)
      PROVE  TerminalInv' /\ OneTerminal'
  <2> DEFINE r == RunOf(t)
  <2>1. r \in Runs /\ (t = W(r) \/ t = D(r)) BY ThreadOf
  <2> HIDE DEF r
  <2>2. /\ UNCHANGED <<home, worker>>
        /\ \A u \in Threads \ {t} : closing'[u] = closing[u]
        /\ finished \subseteq finished'
        /\ Starts(t) \/ Quiet
        /\ \/ /\ closing[t].step = "claim" /\ Quiet
              /\ closing'[t].step = IF r \in finished THEN "done" ELSE "emit"
           \/ /\ closing[t].step = "emit" /\ closing'[t].step = "settle"
           \/ /\ closing[t].step = "settle" /\ Free(t) /\ Quiet
              /\ closing'[t].step \in {"reply", "done"}
           \/ /\ closing[t].step = "reply" /\ closing'[t].step = "done" /\ Quiet
    BY <1>8, CloserSteps DEF r
  <2>3. /\ history' = history
        /\ \A u \in Threads \ {t} : Announcing(u)' <=> Announcing(u)
    BY <2>2, StartsKeeps
  <2>4. Quiet => (Announcing(t)' <=> Announcing(t)) BY DEF Quiet, Announcing
  <2>5. Free(t) => ~Announcing(t) BY DEF Free, Announcing
  <2>6. Announcing(t)' => closing'[t].step = "settle"
    BY <2>2, <2>4, <2>5
  <2>7. closing[t].step = "claim" => IsAgent(r)
    BY <2>1 DEF ClosingInv
  <2>8. HasTerminal(history[r]) =>
            closing'[t].step # "emit" /\ ~Announcing(t)'
    BY <2>1, <2>2, <2>4, <2>6, <2>7
  <2>9. \A q \in Runs : \A u \in ThreadsOf(q) : u # t => closing'[u] = closing[u]
    BY <2>2, TwoThreads
  <2>10. \A q \in Runs : t \in ThreadsOf(q) => q = r
    BY <2>1, TwoThreads
  <2>11. ASSUME NEW q \in Runs, HasTerminal(history'[q])
         PROVE  /\ IF IsAgent(q)' THEN q \in finished' ELSE worker'[q] \in Late
                /\ \A u \in ThreadsOf(q) : closing'[u].step # "emit" /\ ~Announcing(u)'
    <3>1. /\ IF IsAgent(q) THEN q \in finished ELSE worker[q] \in Late
          /\ \A u \in ThreadsOf(q) : closing[u].step # "emit" /\ ~Announcing(u)
      BY <2>3, <2>11
    <3>2. ASSUME NEW u \in ThreadsOf(q)
          PROVE  closing'[u].step # "emit" /\ ~Announcing(u)'
      <4>1. CASE u = t BY <2>3, <2>8, <2>10, <2>11, <4>1
      <4>2. CASE u # t BY <2>3, <2>9, <3>1, <4>2, TwoThreads
      <4>3. QED BY <4>1, <4>2
    <3>3. QED BY <2>2, <3>1, <3>2
  <2>12. \A u \in Threads : Announcing(u)' => closing'[u].step = "settle"
    BY <2>2, <2>3, <2>6
  <2>13. QED BY <1>0, <2>3, <2>11, <2>12
<1>9. ASSUME NEW t \in Threads, Serves(t)
      PROVE  TerminalInv' /\ OneTerminal'
  <2> DEFINE r == RunOf(t)
  <2>1. r \in Runs /\ (t = W(r) \/ t = D(r)) BY ThreadOf
  <2> HIDE DEF r
  <2>2. /\ UNCHANGED <<home, worker, closing, finished>>
        /\ ~Announcing(t)'
        /\ \A u \in Threads \ {t} : Announcing(u)' <=> Announcing(u)
    BY <1>9 DEF Serves, Announcing, Types, BusTypes, mgrVars
  <2>3. CASE history' = history
    BY <1>0, <2>2, <2>3, TwoThreads
  <2>4. CASE /\ pub[t].pc = "append"
             /\ history' = [history EXCEPT ![r] = Append(@, pub[t].event)]
    <3> DEFINE e == pub[t].event
    <3>1. e \in Events /\ (IsTerminal(e) <=> Announcing(t))
      BY <2>4 DEF Types, BusTypes, Announcing
    <3>2. IsTerminal(e) => ~HasTerminal(history[r])
      BY <2>1, <3>1
    <3> HIDE DEF e
    <3>3. /\ OneTerminal'
          /\ \A q \in Runs : HasTerminal(history'[q]) =>
                 HasTerminal(history[q]) \/ (q = r /\ IsTerminal(e))
      BY <2>1, <2>4, <3>1, <3>2, Published DEF e
    <3>4. Announcing(t) =>
             /\ IF IsAgent(r) THEN r \in finished ELSE worker[r] \in Late
             /\ closing[t].step = "settle"
             /\ \A u \in ThreadsOf(r) \ {t} : closing[u].step # "emit" /\ ~Announcing(u)
      BY <2>1, TwoThreads DEF ClosingInv, Winning
    <3>5. ASSUME NEW q \in Runs, HasTerminal(history'[q])
          PROVE  /\ IF IsAgent(q)' THEN q \in finished' ELSE worker'[q] \in Late
                 /\ \A u \in ThreadsOf(q) : closing'[u].step # "emit" /\ ~Announcing(u)'
      BY <2>1, <2>2, <3>1, <3>3, <3>4, <3>5, TwoThreads
    <3>6. \A u \in Threads : Announcing(u)' => closing'[u].step = "settle"
      BY <2>2
    <3>7. QED BY <3>3, <3>5, <3>6
  <2>5. QED BY <1>9, <2>3, <2>4 DEF Serves, r
<1>10. CASE PurgeRun
  <2>1. /\ UNCHANGED <<pub, home, worker, closing, finished>>
        /\ history' = [history EXCEPT ![Head(deletion.todo)] = <<>>]
    BY <1>10 DEF PurgeRun, Purge, threadVars
  <2>2. \A q \in Runs : history'[q] = history[q] \/ history'[q] = <<>>
    BY <2>1 DEF Types, BusTypes
  <2>3. ~HasTerminal(<<>>) BY DEF HasTerminal
  <2>4. \A q \in Runs : HasTerminal(history'[q]) => HasTerminal(history[q])
    BY <2>2, <2>3
  <2>5. OneTerminal' BY <2>2 DEF OneTerminal
  <2>6. \A t \in Threads : Announcing(t)' = Announcing(t) BY <2>1 DEF Announcing
  <2>7. QED BY <2>1, <2>4, <2>5, <2>6, TwoThreads
<1>11. QED
  BY <1>1, <1>2, <1>3, <1>4, <1>5, <1>6, <1>7, <1>8, <1>9, <1>10
  DEF Step, DeleteChat, DropRun, DropChat, threadVars, busVars

-----------------------------------------------------------------------------
(* Statuses.                                                               *)

\* Nobody undoes a final status in this step.
StatusKept ==
    \A r \in Runs : status[r] \in FinalStatuses => status'[r] \in {status[r], "absent"}

LEMMA Statuses ==
    ASSUME ClosureInv, StatusInv, Step
    PROVE  StatusInv' /\ StatusKept
<1> USE DEF ClosureInv, StatusInv, StatusKept, ThreadsOf, IsAgent
<1>1. ASSUME UNCHANGED <<status, closing, finished, home, worker>>
      PROVE  StatusInv' /\ StatusKept
  BY <1>1
<1>2. ASSUME NEW r \in Runs,
             \/ \E c \in Chats : ReserveChat(r, c)
             \/ \E k \in Cases : CreateRun(r, k)
      PROVE  StatusInv' /\ StatusKept
  <2>1. worker[r] = "new" /\ home[r] \notin Chats
    BY <1>2, PlacesAssumption DEF ReserveChat, CreateRun, HomeInv, NoPlace
  <2>2. /\ \A q \in Runs \ {r} : /\ worker'[q] = worker[q] /\ home'[q] = home[q]
                                 /\ status'[q] = status[q]
        /\ status'[r] = "queued"
        /\ UNCHANGED <<closing, finished>>
    BY <1>2 DEF ReserveChat, CreateRun, GoTo, Types, RunTypes, threadVars
  <2>3. closing[W(r)].step = "none" /\ closing[D(r)].step = "none"
    BY <2>1 DEF ClosingInv, Late
  <2>4. status[r] \notin FinalStatuses BY <2>1 DEF Late
  <2>5. \A t \in Threads : closing'[t].step = "reply" => RunOf(t) # r
    BY <2>2, <2>3, ThreadOf
  <2>6. "queued" \notin FinalStatuses BY DEF FinalStatuses
  <2>7. StatusKept BY <2>2, <2>4
  <2>8. ASSUME NEW t \in Threads, closing'[t].step = "reply"
        PROVE  status'[RunOf(t)] \in FinalStatuses \cup {"absent"}
    BY <2>2, <2>5, <2>8, ThreadOf
  <2>9. QED BY <2>2, <2>6, <2>7, <2>8
<1>3. ASSUME NEW r \in Runs, AddUserMessage(r) \/ LinkRun(r)
      PROVE  StatusInv' /\ StatusKept
  <2>1. /\ worker[r] \notin Late
        /\ \A q \in Runs \ {r} : worker'[q] = worker[q]
        /\ UNCHANGED <<status, home, closing, finished>>
    BY <1>3 DEF AddUserMessage, LinkRun, GoTo, Types, RunTypes, Late, threadVars
  <2>2. QED BY <2>1
<1>4. ASSUME NEW r \in Runs, Begin(r)
      PROVE  StatusInv' /\ StatusKept
  <2>1. /\ worker[r] \in Early /\ worker[r] \notin Late
        /\ \A q \in Runs \ {r} : worker'[q] = worker[q] /\ status'[q] = status[q]
        /\ status'[r] \in {"absent", "running"}
        /\ UNCHANGED <<home, closing, finished>>
    BY <1>4 DEF Begin, Set, Registered, GoTo, Types, RunTypes, Early, Late
  <2>2. /\ closing[W(r)].step = "none" /\ closing[D(r)].step = "none"
        /\ r \notin finished
    BY <2>1 DEF ClosingInv, Types, RunTypes
  <2>3. status[r] \notin FinalStatuses BY <2>1, <2>2
  <2>4. status'[r] \notin FinalStatuses BY <2>1 DEF FinalStatuses
  <2>5. \A t \in Threads : closing'[t].step = "reply" => RunOf(t) # r
    BY <2>1, <2>2, ThreadOf
  <2>6. ASSUME NEW t \in Threads, closing'[t].step = "reply"
        PROVE  status'[RunOf(t)] \in FinalStatuses \cup {"absent"}
    BY <2>1, <2>5, <2>6, ThreadOf
  <2>7. QED BY <2>1, <2>3, <2>4, <2>6
<1>5. ASSUME NEW r \in Runs, Turns(r) \/ Release(r) \/ FinishBus(r)
      PROVE  StatusInv' /\ StatusKept
  <2>1. /\ worker[r] \in Late => worker'[r] \in Late
        /\ \A q \in Runs \ {r} : worker'[q] = worker[q]
        /\ UNCHANGED <<status, home, closing, finished>>
    BY <1>5 DEF Turns, Release, FinishBus, GoTo, Types, RunTypes, Middle, Late,
                threadVars
  <2>2. QED BY <2>1
<1>6. ASSUME NEW r \in Runs, Conclude(r)
      PROVE  StatusInv' /\ StatusKept
  <2>1. /\ worker[r] \notin Late
        /\ \A q \in Runs \ {r} : worker'[q] = worker[q]
        /\ UNCHANGED <<status, home, finished>>
    BY <1>6 DEF Conclude, GoTo, Types, RunTypes, AgentOutcomes, Late
  <2>2. PICK x \in Closings :
              /\ closing' = [closing EXCEPT ![W(r)] = x]
              /\ x.step = IF IsAgent(r) THEN "claim" ELSE "emit"
    BY <1>6, Concludes
  <2>3. /\ closing'[W(r)] = x
        /\ \A u \in Threads \ {W(r)} : closing'[u] = closing[u]
    BY <2>2, TwoThreads DEF Types, RunTypes
  <2>4. status[r] \in FinalStatuses => IsAgent(r) BY <2>1
  <2>5. \A t \in Threads : closing'[t].step = "reply" => closing[t].step = "reply"
    BY <2>2, <2>3
  <2>6. QED BY <2>1, <2>2, <2>3, <2>4, <2>5, TwoThreads
<1>7. ASSUME NEW r \in Runs, DeadlinePasses(r)
      PROVE  StatusInv' /\ StatusKept
  <2> DEFINE x == [step |-> "claim", type |-> "run_failed", status |-> "failed"]
  <2>1. /\ closing' = [closing EXCEPT ![D(r)] = x]
        /\ UNCHANGED <<home, worker, finished, status>>
    BY <1>7 DEF DeadlinePasses
  <2>2. x.step = "claim" OBVIOUS
  <2> HIDE DEF x
  <2>3. /\ closing'[D(r)] = x
        /\ \A u \in Threads \ {D(r)} : closing'[u] = closing[u]
    BY <2>1, TwoThreads DEF Types, RunTypes
  <2>4. \A t \in Threads :
            closing'[t].step = closing[t].step \/ closing'[t].step = "claim"
    BY <2>2, <2>3
  <2>5. QED BY <2>1, <2>4, TwoThreads
<1>8. ASSUME NEW t \in Threads, CloseStepOf(t)
      PROVE  StatusInv' /\ StatusKept
  <2> DEFINE r == RunOf(t)
  <2>1. r \in Runs /\ (t = W(r) \/ t = D(r)) BY ThreadOf
  <2> HIDE DEF r
  <2>2. /\ UNCHANGED <<home, worker>>
        /\ \A u \in Threads \ {t} : closing'[u] = closing[u]
        /\ finished \subseteq finished'
        /\ \/ /\ closing[t].step = "claim" /\ status' = status
              /\ closing'[t].step = IF r \in finished THEN "done" ELSE "emit"
           \/ /\ closing[t].step = "emit" /\ closing'[t].step = "settle"
              /\ status' = status
           \/ /\ closing[t].step = "settle" /\ status' = Set(r, closing[t].status)
              /\ closing'[t].step \in {"reply", "done"}
           \/ /\ closing[t].step = "reply" /\ closing'[t].step = "done"
              /\ status' = status
    BY <1>8, CloserSteps DEF r
  <2>3. closing[t].step = "claim" => IsAgent(r)
    BY <2>1 DEF ClosingInv
  <2>4. closing[t].step = "settle" =>
            /\ closing[t].status \in FinalStatuses
            /\ status[r] \notin FinalStatuses
            /\ IF IsAgent(r) THEN r \in finished ELSE worker[r] \in Late
            /\ \A u \in ThreadsOf(r) \ {t} : closing[u].step \notin {"emit", "settle"}
    BY <2>1, TwoThreads DEF ClosingInv, Winning, Types, RunTypes
  <2>5. /\ \A q \in Runs \ {r} : status'[q] = status[q]
        /\ closing[t].step # "settle" => status'[r] = status[r]
        /\ closing[t].step = "settle" => status'[r] \in {"absent", closing[t].status}
    BY <2>1, <2>2 DEF Set, Registered, Types, RunTypes
  <2>6. \A q \in Runs : \A u \in ThreadsOf(q) : u # t => closing'[u] = closing[u]
    BY <2>2, TwoThreads
  <2>7. \A q \in Runs : t \in ThreadsOf(q) => q = r
    BY <2>1, TwoThreads
  <2>8. StatusKept BY <2>1, <2>4, <2>5
  <2>9. ASSUME NEW u \in Threads, closing'[u].step = "reply"
        PROVE  status'[RunOf(u)] \in FinalStatuses \cup {"absent"}
    <3>1. CASE u = t
      <4>1. closing[t].step = "settle" BY <2>2, <2>9, <3>1
      <4>2. QED BY <2>4, <2>5, <3>1, <4>1 DEF r
    <3>2. CASE u # t
      <4>1. closing[u].step = "reply" BY <2>2, <2>9, <3>2
      <4>2. status[RunOf(u)] \in FinalStatuses \cup {"absent"} BY <4>1
      <4>3. RunOf(u) \in Runs BY ThreadOf
      <4>4. CASE RunOf(u) # r BY <2>5, <4>2, <4>3, <4>4
      <4>5. CASE RunOf(u) = r BY <2>4, <2>5, <4>2, <4>3, <4>5
      <4>6. QED BY <4>4, <4>5
    <3>3. QED BY <3>1, <3>2
  <2>10. ASSUME NEW q \in Runs, status'[q] \in FinalStatuses
         PROVE  /\ IF IsAgent(q)' THEN q \in finished' ELSE worker'[q] \in Late
                /\ \A u \in ThreadsOf(q) : closing'[u].step \notin {"emit", "settle"}
    <3>1. CASE q # r
      <4>1. status[q] \in FinalStatuses BY <2>5, <2>10, <3>1
      <4>2. QED BY <2>2, <2>6, <2>7, <3>1, <4>1
    <3>2. CASE q = r /\ closing[t].step = "settle"
      <4>1. closing'[t].step \notin {"emit", "settle"} BY <2>2, <3>2
      <4>2. QED BY <2>2, <2>4, <2>6, <3>2, <4>1
    <3>3. CASE q = r /\ closing[t].step # "settle"
      <4>1. status[r] \in FinalStatuses BY <2>5, <2>10, <3>3
      <4>2. closing[t].step # "emit" /\ (IsAgent(r) => r \in finished)
        BY <2>1, <4>1
      <4>3. closing'[t].step \notin {"emit", "settle"} BY <2>2, <2>3, <3>3, <4>2
      <4>4. QED BY <2>1, <2>2, <2>6, <3>3, <4>1, <4>3
    <3>4. QED BY <3>1, <3>2, <3>3
  <2>11. QED BY <2>8, <2>9, <2>10
<1>9. CASE DropRun
  <2>1. /\ \A q \in Runs : status'[q] \in {status[q], "absent"}
        /\ UNCHANGED <<home, worker, closing, finished>>
    BY <1>9 DEF DropRun, Types, RunTypes, threadVars
  <2>2. "absent" \notin FinalStatuses BY DEF FinalStatuses
  <2>3. ASSUME NEW t \in Threads, closing'[t].step = "reply"
        PROVE  status'[RunOf(t)] \in FinalStatuses \cup {"absent"}
    BY <2>1, <2>3, ThreadOf
  <2>4. \A q \in Runs : status'[q] \in FinalStatuses => status[q] \in FinalStatuses
    BY <2>1, <2>2
  <2>5. QED BY <2>1, <2>3, <2>4
<1>10. QED
  BY <1>1, <1>2, <1>3, <1>4, <1>5, <1>6, <1>7, <1>8, <1>9
  DEF Step, DeleteChat, PurgeRun, DropChat, Serves, mgrVars, threadVars

-----------------------------------------------------------------------------
(* Replies.                                                                *)

Over == FinalStatuses \cup {"absent"}

\* What a claimed closure keeps in every step.
ClaimKept(r) ==
    /\ home'[r] = home[r] /\ r \in finished'
    /\ status[r] \in Over => status'[r] \in Over
    /\ \A t \in ThreadsOf(r) : Winning(t)' => Winning(t)

LEMMA ClaimsKept ==
    ASSUME ClosureInv, Step, NEW q \in Runs, q \in finished
    PROVE  ClaimKept(q)
<1> USE DEF ClosureInv, ClaimKept, ThreadsOf, IsAgent, Winning
<1>0. worker[q] \notin Early /\ IsAgent(q) BY DEF ClosingInv
<1>1. ASSUME UNCHANGED <<status, closing, finished, home>>
      PROVE  ClaimKept(q)
  BY <1>1
<1>2. ASSUME NEW r \in Runs,
             \/ \E c \in Chats : ReserveChat(r, c)
             \/ \E k \in Cases : CreateRun(r, k)
      PROVE  ClaimKept(q)
  <2>1. q # r BY <1>0, <1>2 DEF ReserveChat, CreateRun, Early
  <2>2. QED BY <1>2, <2>1 DEF ReserveChat, CreateRun, Types, RunTypes, threadVars
<1>3. ASSUME NEW r \in Runs, Begin(r)
      PROVE  ClaimKept(q)
  <2>1. q # r BY <1>0, <1>3 DEF Begin, Early
  <2>2. QED BY <1>3, <2>1 DEF Begin, Set, Types, RunTypes
<1>4. ASSUME NEW r \in Runs, Conclude(r)
      PROVE  ClaimKept(q)
  <2>1. UNCHANGED <<home, finished, status>> BY <1>4 DEF Conclude
  <2>2. PICK x \in Closings :
              /\ closing' = [closing EXCEPT ![W(r)] = x]
              /\ x.step = IF IsAgent(r) THEN "claim" ELSE "emit"
    BY <1>4, Concludes
  <2>3. /\ closing'[W(r)] = x
        /\ \A u \in Threads \ {W(r)} : closing'[u] = closing[u]
    BY <2>2, TwoThreads DEF Types, RunTypes
  <2>4. QED BY <1>0, <2>1, <2>2, <2>3, TwoThreads
<1>5. ASSUME NEW r \in Runs, DeadlinePasses(r)
      PROVE  ClaimKept(q)
  <2> DEFINE x == [step |-> "claim", type |-> "run_failed", status |-> "failed"]
  <2>1. /\ closing' = [closing EXCEPT ![D(r)] = x]
        /\ UNCHANGED <<home, finished, status>>
    BY <1>5 DEF DeadlinePasses
  <2>2. x.step = "claim" OBVIOUS
  <2> HIDE DEF x
  <2>3. /\ closing'[D(r)] = x
        /\ \A u \in Threads \ {D(r)} : closing'[u] = closing[u]
    BY <2>1, TwoThreads DEF Types, RunTypes
  <2>4. QED BY <2>1, <2>2, <2>3, TwoThreads
<1>6. ASSUME NEW t \in Threads, CloseStepOf(t)
      PROVE  ClaimKept(q)
  <2> DEFINE r == RunOf(t)
  <2>1. r \in Runs /\ (t = W(r) \/ t = D(r)) BY ThreadOf
  <2> HIDE DEF r
  <2>2. /\ UNCHANGED <<home, worker>>
        /\ \A u \in Threads \ {t} : closing'[u] = closing[u]
        /\ finished \subseteq finished'
        /\ \/ /\ closing[t].step = "claim" /\ status' = status
              /\ closing'[t].step = IF r \in finished THEN "done" ELSE "emit"
           \/ /\ closing[t].step = "emit" /\ closing'[t].step = "settle"
              /\ status' = status
           \/ /\ closing[t].step = "settle" /\ status' = Set(r, closing[t].status)
           \/ /\ closing[t].step = "reply" /\ closing'[t].step = "done"
              /\ status' = status
    BY <1>6, CloserSteps DEF r
  <2>3. status[q] \in Over => status'[q] \in Over
    <3>1. CASE status' = status BY <3>1
    <3>2. CASE closing[t].step = "settle" /\ status' = Set(r, closing[t].status)
      <4>1. closing[t].status \in FinalStatuses BY <3>2 DEF Types, RunTypes
      <4>2. QED BY <2>1, <3>2, <4>1 DEF Set, Registered, Types, RunTypes, Over
    <3>3. QED BY <2>2, <3>1, <3>2
  <2>4. ASSUME NEW u \in ThreadsOf(q), Winning(u)'
        PROVE  Winning(u)
    <3>1. CASE u # t BY <2>2, <2>4, <3>1, TwoThreads
    <3>2. CASE u = t
      <4>1. r = q BY <2>1, <3>2, TwoThreads
      <4>2. QED BY <2>2, <2>4, <3>2, <4>1
    <3>3. QED BY <3>1, <3>2
  <2>5. QED BY <2>2, <2>3, <2>4
<1>7. CASE DropRun
  BY <1>7 DEF DropRun, Types, RunTypes, Over, threadVars
<1>8. QED
  BY <1>1, <1>2, <1>3, <1>4, <1>5, <1>6, <1>7
  DEF Step, AddUserMessage, LinkRun, Turns, Release, FinishBus, DeleteChat, PurgeRun,
      DropChat, Serves, mgrVars, threadVars

\* One more message in a chat.
LEMMA NewMessage ==
    ASSUME NEW s \in Seq(Messages), NEW m, NEW x
    PROVE  {i \in DOMAIN Append(s, m) : Append(s, m)[i] = x} =
              {i \in DOMAIN s : s[i] = x}
                 \cup (IF m = x THEN {Len(s) + 1} ELSE {})
<1>1. /\ DOMAIN s = 1 .. Len(s) /\ Len(s) \in Nat
      /\ DOMAIN Append(s, m) = 1 .. Len(s) + 1
      /\ \A i \in 1 .. Len(s) : Append(s, m)[i] = s[i]
      /\ Append(s, m)[Len(s) + 1] = m
  OBVIOUS
<1>2. QED BY <1>1

\* Only Reply adds a reply, its own.
LEMMA RepliesOf ==
    ASSUME Types, Step
    PROVE  \/ \A c \in Chats, r \in Runs : Replies(c, r)' \in {Replies(c, r), {}}
           \/ \E t \in Threads :
                 /\ closing[t].step = "reply"
                 /\ status' = status /\ home' = home
                 /\ closing'[t].step = "done"
                 /\ \A c \in Chats, r \in Runs :
                       IF c = home[RunOf(t)] /\ r = RunOf(t)
                       THEN \E i \in DOMAIN transcript'[c] :
                               Replies(c, r)' = Replies(c, r) \cup {i}
                       ELSE Replies(c, r)' = Replies(c, r)
<1>1. CASE transcript' = transcript BY <1>1 DEF Replies
<1>2. ASSUME NEW q \in Runs, AddUserMessage(q)
      PROVE  \A c \in Chats, r \in Runs : Replies(c, r)' = Replies(c, r)
  <2> TAKE c \in Chats, r \in Runs
  <2> DEFINE m == [who |-> "user", run |-> q]
             x == [who |-> "assistant", run |-> r]
  <2>1. m # x OBVIOUS
  <2>2. transcript[c] \in Seq(Messages) BY DEF Types, ChatTypes
  <2>3. \/ transcript'[c] = transcript[c]
        \/ transcript'[c] = Append(transcript[c], m)
    BY <1>2 DEF AddUserMessage, Types, ChatTypes
  <2>4. /\ Replies(c, r) = {i \in DOMAIN transcript[c] : transcript[c][i] = x}
        /\ Replies(c, r)' = {i \in DOMAIN transcript'[c] : transcript'[c][i] = x}
    BY DEF Replies
  <2> HIDE DEF m, x
  <2>5. {i \in DOMAIN Append(transcript[c], m) : Append(transcript[c], m)[i] = x} =
            {i \in DOMAIN transcript[c] : transcript[c][i] = x}
               \cup (IF m = x THEN {Len(transcript[c]) + 1} ELSE {})
    BY <2>2, NewMessage
  <2>6. QED BY <2>1, <2>3, <2>4, <2>5
<1>3. ASSUME NEW t \in Threads, Reply(t), home[RunOf(t)] \in known
      PROVE  \A c \in Chats, r \in Runs :
                IF c = home[RunOf(t)] /\ r = RunOf(t)
                THEN \E i \in DOMAIN transcript'[c] :
                        Replies(c, r)' = Replies(c, r) \cup {i}
                ELSE Replies(c, r)' = Replies(c, r)
  <2> TAKE c \in Chats, r \in Runs
  <2> DEFINE q == RunOf(t)
             m == [who |-> "assistant", run |-> q]
             x == [who |-> "assistant", run |-> r]
  <2>1. m = x <=> q = r
    <3>1. m.run = q /\ x.run = r OBVIOUS
    <3>2. QED BY <3>1
  <2>2. transcript[c] \in Seq(Messages) BY DEF Types, ChatTypes
  <2>3. transcript'[c] = IF c = home[q] THEN Append(transcript[c], m)
                                        ELSE transcript[c]
    BY <1>3 DEF Reply, Types, ChatTypes
  <2>4. /\ Replies(c, r) = {i \in DOMAIN transcript[c] : transcript[c][i] = x}
        /\ Replies(c, r)' = {i \in DOMAIN transcript'[c] : transcript'[c][i] = x}
    BY DEF Replies
  <2> HIDE DEF m, x
  <2>5. {i \in DOMAIN Append(transcript[c], m) : Append(transcript[c], m)[i] = x} =
            {i \in DOMAIN transcript[c] : transcript[c][i] = x}
               \cup (IF m = x THEN {Len(transcript[c]) + 1} ELSE {})
    BY <2>2, NewMessage
  <2>6. Len(transcript[c]) + 1 \in DOMAIN Append(transcript[c], m) BY <2>2
  <2>7. QED BY <2>1, <2>3, <2>4, <2>5, <2>6
<1>4. ASSUME NEW t \in Threads, Reply(t)
      PROVE  closing[t].step = "reply" /\ status' = status /\ home' = home
             /\ closing'[t].step = "done"
  BY <1>4, ClosingMoves DEF Reply, CloseSteps, Types
<1>5. ASSUME DropChat
      PROVE  \A c \in Chats, r \in Runs : Replies(c, r)' \in {Replies(c, r), {}}
  <2> TAKE c \in Chats, r \in Runs
  <2>1. transcript'[c] \in {transcript[c], <<>>} BY <1>5 DEF DropChat, Types, ChatTypes
  <2>2. QED BY <2>1 DEF Replies
<1>6. CASE \E t \in Threads : Reply(t)
  <2>1. PICK t \in Threads : Reply(t) BY <1>6
  <2>2. CASE home[RunOf(t)] \in known BY <1>3, <1>4, <2>1, <2>2
  <2>3. CASE home[RunOf(t)] \notin known BY <1>1, <2>1, <2>3 DEF Reply
  <2>4. QED BY <2>2, <2>3
<1>7. CASE \E q \in Runs : AddUserMessage(q) BY <1>2, <1>7
<1>8. QED
  BY <1>1, <1>5, <1>6, <1>7
  DEF Step, CloseStepOf, ReserveChat, CreateRun, LinkRun, Begin, Turns, Conclude,
      Release, FinishBus, DeadlinePasses, ClaimClosure, EmitTerminal, SettleStatus,
      Serves, DeleteChat, DropRun, PurgeRun, chatVars, mgrVars

LEMMA RepliesKept ==
    ASSUME ClosureInv, StatusInv, ReplyInv, OneReply, Step
    PROVE  ReplyInv' /\ OneReply'
<1> USE DEF ClosureInv
<1>1. \A q \in Runs : q \in finished => ClaimKept(q) BY ClaimsKept
<1>2. ASSUME NEW c \in Chats, NEW r \in Runs, Replies(c, r) # {}
      PROVE  /\ home'[r] = c /\ r \in finished' /\ status'[r] \in Over
             /\ ~Winning(W(r))' /\ ~Winning(D(r))'
             /\ \E i \in DOMAIN transcript[c] : Replies(c, r) = {i}
  BY <1>1, <1>2 DEF ReplyInv, OneReply, ClaimKept, ThreadsOf, Over
<1>3. CASE \A c \in Chats, r \in Runs : Replies(c, r)' \in {Replies(c, r), {}}
  <2>1. ASSUME NEW c \in Chats, NEW r \in Runs, Replies(c, r)' # {}
        PROVE  /\ home'[r] = c /\ r \in finished' /\ status'[r] \in Over
               /\ ~Winning(W(r))' /\ ~Winning(D(r))'
               /\ \E i \in DOMAIN transcript'[c] : Replies(c, r)' = {i}
    <3>1. Replies(c, r)' = Replies(c, r) /\ Replies(c, r) # {} BY <1>3, <2>1
    <3>2. \A i \in Replies(c, r)' : i \in DOMAIN transcript'[c] BY DEF Replies
    <3>3. PICK i \in DOMAIN transcript[c] : Replies(c, r) = {i} BY <1>2, <3>1
    <3>4. i \in DOMAIN transcript'[c] BY <3>1, <3>2, <3>3
    <3>5. QED BY <1>2, <3>1, <3>3, <3>4
  <2>2. QED BY <2>1 DEF ReplyInv, OneReply, Over
<1>4. ASSUME NEW t \in Threads,
             /\ closing[t].step = "reply"
             /\ status' = status /\ home' = home
             /\ closing'[t].step = "done"
             /\ \A c \in Chats, r \in Runs :
                   IF c = home[RunOf(t)] /\ r = RunOf(t)
                   THEN \E i \in DOMAIN transcript'[c] :
                           Replies(c, r)' = Replies(c, r) \cup {i}
                   ELSE Replies(c, r)' = Replies(c, r)
      PROVE  ReplyInv' /\ OneReply'
  <2> DEFINE q == RunOf(t)
  <2>1. q \in Runs /\ (t = W(q) \/ t = D(q)) BY ThreadOf
  <2>2. Winning(t) BY <1>4 DEF Winning
  <2>3. IsAgent(q) /\ q \in finished /\ status[q] \in Over
    BY <1>4, <2>1, <2>2 DEF ClosingInv, StatusInv, Over, Types, RunTypes
  <2>4. \A c \in Chats : Replies(c, q) = {}
    BY <2>1, <2>2 DEF ReplyInv
  <2>5. ~Winning(W(q))' /\ ~Winning(D(q))'
    <3>1. ClaimKept(q) BY <1>1, <2>1, <2>3
    <3>2. ~Winning(t)' BY <1>4 DEF Winning
    <3>3. \A u \in ThreadsOf(q) : u # t => ~Winning(u)
      BY <2>1, <2>2 DEF ClosingInv, ThreadsOf
    <3>4. QED BY <3>1, <3>2, <3>3 DEF ClaimKept, ThreadsOf
  <2> HIDE DEF q
  <2>6. ASSUME NEW c \in Chats, NEW r \in Runs, Replies(c, r)' # {}
        PROVE  /\ home'[r] = c /\ r \in finished' /\ status'[r] \in Over
               /\ ~Winning(W(r))' /\ ~Winning(D(r))'
               /\ \E i \in DOMAIN transcript'[c] : Replies(c, r)' = {i}
    <3>1. CASE c = home[q] /\ r = q
      <4>1. PICK i \in DOMAIN transcript'[c] : Replies(c, r)' = Replies(c, r) \cup {i}
        BY <1>4, <3>1 DEF q
      <4>2. Replies(c, r)' = {i} BY <2>4, <3>1, <4>1
      <4>3. q \in finished' BY <1>1, <2>1, <2>3 DEF ClaimKept
      <4>4. QED BY <1>4, <2>3, <2>5, <3>1, <4>2, <4>3
    <3>2. CASE ~(c = home[q] /\ r = q)
      <4>1. Replies(c, r)' = Replies(c, r) BY <1>4, <3>2 DEF q
      <4>2. PICK i \in DOMAIN transcript[c] : Replies(c, r) = {i}
        BY <1>2, <2>6, <4>1
      <4>3. i \in DOMAIN transcript'[c]
        <5>1. \A j \in Replies(c, r)' : j \in DOMAIN transcript'[c] BY DEF Replies
        <5>2. QED BY <4>1, <4>2, <5>1
      <4>4. QED BY <1>2, <2>6, <4>1, <4>2, <4>3
    <3>3. QED BY <3>1, <3>2
  <2>7. QED BY <2>6 DEF ReplyInv, OneReply, Over
<1>5. QED BY <1>3, <1>4, RepliesOf

-----------------------------------------------------------------------------
(* Places.                                                                 *)

LEMMA Lists ==
    ASSUME PlaceInv, Step
    PROVE  ListsInv'
<1> USE DEF PlaceInv, ListsInv, IsAgent
<1>1. CASE UNCHANGED <<home, chatRuns, deletion, deletes>> BY <1>1
<1>2. ASSUME NEW r \in Runs,
             \/ \E c \in Chats : ReserveChat(r, c)
             \/ \E k \in Cases : CreateRun(r, k)
      PROVE  ListsInv'
  <2>1. home[r] \notin Chats
    BY <1>2, PlacesAssumption DEF ReserveChat, CreateRun, HomeInv, NoPlace
  <2>2. /\ \A q \in Runs \ {r} : home'[q] = home[q]
        /\ UNCHANGED <<chatRuns, deletion, deletes>>
    BY <1>2 DEF ReserveChat, CreateRun, Types, RunTypes, chatVars, delVars
  <2>3. \A c \in Chats : \A i \in DOMAIN chatRuns[c] : chatRuns[c][i] \in Runs \ {r}
    BY <2>1 DEF Types, ChatTypes
  <2>4. \A i \in DOMAIN deletion.todo : deletion.todo[i] \in Runs \ {r}
    BY <2>1 DEF Types, ChatTypes
  <2>5. QED BY <2>2, <2>3, <2>4
<1>3. ASSUME NEW r \in Runs, LinkRun(r)
      PROVE  ListsInv'
  <2>1. UNCHANGED <<home, deletion, deletes>> BY <1>3 DEF LinkRun, delVars
  <2>2. ASSUME NEW c \in Chats, NEW i \in DOMAIN chatRuns'[c]
        PROVE  home[chatRuns'[c][i]] = c
    <3>1. \/ chatRuns'[c] = chatRuns[c]
          \/ c = home[r] /\ chatRuns'[c] = Append(chatRuns[c], r)
      BY <1>3 DEF LinkRun, Types, ChatTypes
    <3>2. CASE chatRuns'[c] = chatRuns[c] BY <2>2, <3>2
    <3>3. CASE c = home[r] /\ chatRuns'[c] = Append(chatRuns[c], r)
      <4>1. chatRuns[c] \in Seq(Runs) BY DEF Types, ChatTypes
      <4>2. chatRuns'[c][i] = r \/ (i \in DOMAIN chatRuns[c]
                                     /\ chatRuns'[c][i] = chatRuns[c][i])
        BY <2>2, <3>3, <4>1
      <4>3. QED BY <3>3, <4>2
    <3>4. QED BY <3>1, <3>2, <3>3
  <2>3. QED BY <2>1, <2>2
<1>4. ASSUME NEW c \in Chats, DeleteChat(c)
      PROVE  ListsInv'
  <2>1. /\ UNCHANGED <<home, chatRuns>> /\ deletes' = deletes + 1
        /\ deletion'.todo = chatRuns[c]
    BY <1>4 DEF DeleteChat, chatVars
  <2>2. deletes' # 0 BY <2>1 DEF Types, RunTypes
  <2>3. \A i \in DOMAIN deletion'.todo : home'[deletion'.todo[i]] \in Chats
    BY <2>1
  <2>4. QED BY <2>1, <2>2, <2>3
<1>5. CASE DropRun
  BY <1>5 DEF DropRun, Types, ChatTypes, chatVars
<1>6. CASE PurgeRun
  <2>1. /\ UNCHANGED <<home, chatRuns, deletes>>
        /\ deletion'.todo = Tail(deletion.todo) /\ deletion.pc = "purge"
    BY <1>6 DEF PurgeRun, Types, ChatTypes, chatVars
  <2>2. deletion.todo \in Seq(Runs) /\ deletion.todo # <<>>
    BY <2>1 DEF Types, ChatTypes
  <2>3. \A i \in DOMAIN Tail(deletion.todo) :
            /\ i + 1 \in DOMAIN deletion.todo
            /\ Tail(deletion.todo)[i] = deletion.todo[i + 1]
    BY <2>2
  <2>4. QED BY <2>1, <2>3
<1>7. CASE DropChat
  <2>1. /\ UNCHANGED <<home, deletes>> /\ deletion' = NoDeletion
        /\ \A c \in Chats : chatRuns'[c] \in {chatRuns[c], <<>>}
    BY <1>7 DEF DropChat, Types, ChatTypes
  <2>2. QED BY <2>1 DEF NoDeletion
<1>8. QED
  BY <1>1, <1>2, <1>3, <1>4, <1>5, <1>6, <1>7
  DEF Step, AddUserMessage, Begin, Turns, Conclude, Release, FinishBus,
      DeadlinePasses, CloseStepOf, ClaimClosure, EmitTerminal, SettleStatus, Reply,
      Serves, chatVars, delVars, mgrVars

LEMMA Holds ==
    ASSUME PlaceInv, Step
    PROVE  HoldsInv' /\ ReservationIsLive'
<1> USE DEF PlaceInv, HoldsInv, ReservationIsLive, AtWork
<1>0. "none" \notin Runs /\ "none" \notin Places
  BY PlacesAssumption DEF Places
<1>1. CASE UNCHANGED <<home, occupant, worker, deletes>> BY <1>1
<1>2. ASSUME NEW r \in Runs, NEW p \in Places, occupant[p] = NoRun,
             worker[r] = "new", GoTo(r, "say") \/ GoTo(r, "thread"),
             home' = [home EXCEPT ![r] = p],
             occupant' = [occupant EXCEPT ![p] = r], deletes' = deletes
      PROVE  HoldsInv' /\ ReservationIsLive'
  <2>1. /\ \A q \in Runs \ {r} : worker'[q] = worker[q] /\ home'[q] = home[q]
        /\ home'[r] = p /\ worker'[r] \in {"say", "thread"}
        /\ \A x \in Places \ {p} : occupant'[x] = occupant[x]
        /\ occupant'[p] = r
    BY <1>2 DEF GoTo, Types, RunTypes
  <2>2. \A q \in Runs : AtWork(q) => home[q] \in Places
    BY <1>0 DEF HomeInv, Types, RunTypes, NoPlace
  <2>3. HoldsInv' BY <1>0, <1>2, <2>1, <2>2 DEF NoRun
  <2>4. ReservationIsLive' BY <1>2, <2>1
  <2>5. QED BY <2>3, <2>4
<1>3. ASSUME NEW r \in Runs,
             \/ \E c \in Chats : ReserveChat(r, c)
             \/ \E k \in Cases : CreateRun(r, k)
      PROVE  HoldsInv' /\ ReservationIsLive'
  BY <1>2, <1>3 DEF ReserveChat, CreateRun, Places, delVars
<1>4. ASSUME NEW r \in Runs, UNCHANGED <<home, occupant, deletes>>,
             \A q \in Runs \ {r} : worker'[q] = worker[q],
             AtWork(r)' => AtWork(r),
             AtWork(r) \/ worker[r] = "raised" => AtWork(r)' \/ worker'[r] = "raised"
      PROVE  HoldsInv' /\ ReservationIsLive'
  BY <1>4
<1>5. ASSUME NEW r \in Runs, AddUserMessage(r) \/ LinkRun(r) \/ Begin(r)
                                \/ Turns(r) \/ Conclude(r) \/ FinishBus(r)
      PROVE  HoldsInv' /\ ReservationIsLive'
  <2>1. /\ UNCHANGED <<home, occupant, deletes>>
        /\ \A q \in Runs \ {r} : worker'[q] = worker[q]
    BY <1>5
    DEF AddUserMessage, LinkRun, Begin, Turns, Conclude, FinishBus, GoTo, Types,
        RunTypes, delVars
  <2>2. /\ AtWork(r)' => AtWork(r)
        /\ AtWork(r) \/ worker[r] = "raised" => AtWork(r)' \/ worker'[r] = "raised"
    BY <1>5
    DEF AddUserMessage, LinkRun, Begin, Turns, Conclude, FinishBus, GoTo, Types,
        RunTypes, Middle, AgentOutcomes
  <2>3. QED BY <1>4, <2>1, <2>2
<1>6. ASSUME NEW r \in Runs, Release(r)
      PROVE  HoldsInv' /\ ReservationIsLive'
  <2>1. /\ UNCHANGED <<home, deletes>>
        /\ worker[r] = "closing" /\ worker'[r] = "finish"
        /\ \A q \in Runs \ {r} : worker'[q] = worker[q]
        /\ \A x \in Places : occupant'[x] = IF x = home[r] THEN NoRun ELSE occupant[x]
    BY <1>6 DEF Release, GoTo, Types, RunTypes, delVars
  <2>2. \A q \in Runs : AtWork(q) => home[q] \in Places
    BY <1>0 DEF HomeInv, Types, RunTypes, NoPlace
  <2>3. \A q \in Runs \ {r} :
            AtWork(q) /\ (home[q] \in Cases \/ deletes = 0) => home[q] # home[r]
    BY <2>1
  <2>4. HoldsInv' BY <2>1, <2>2, <2>3
  <2>5. ReservationIsLive' BY <1>0, <2>1 DEF NoRun
  <2>6. QED BY <2>4, <2>5
<1>7. ASSUME NEW c \in Chats, DeleteChat(c)
      PROVE  HoldsInv' /\ ReservationIsLive'
  <2>1. UNCHANGED <<home, occupant, worker>> /\ deletes' = deletes + 1
    BY <1>7 DEF DeleteChat
  <2>2. deletes' # 0 BY <2>1 DEF Types, RunTypes
  <2>3. QED BY <2>1, <2>2
<1>8. CASE DropRun
  <2> DEFINE r == Head(deletion.todo)
  <2>1. /\ deletion.pc = "cascade" /\ deletion.todo # <<>>
        /\ UNCHANGED <<home, worker, deletes>>
        /\ occupant' = [p \in Places |-> IF occupant[p] = r THEN NoRun ELSE occupant[p]]
    BY <1>8 DEF DropRun
  <2>2. r \in Runs /\ home[r] \in Chats
    <3>1. 1 \in DOMAIN deletion.todo /\ r = deletion.todo[1]
          /\ deletion.todo \in Seq(Runs)
      BY <2>1 DEF Types, ChatTypes
    <3>2. QED BY <3>1 DEF ListsInv, IsAgent
  <2> HIDE DEF r
  <2>3. deletes # 0 BY <2>1 DEF ListsInv
  <2>4. home[r] \notin Cases BY <2>2, PlacesAssumption
  <2>5. HoldsInv' BY <2>1, <2>3, <2>4 DEF Places
  <2>6. ReservationIsLive' BY <1>0, <2>1 DEF NoRun
  <2>7. QED BY <2>5, <2>6
<1>9. QED
  BY <1>1, <1>3, <1>5, <1>6, <1>7, <1>8
  DEF Step, DeadlinePasses, CloseStepOf, ClaimClosure, EmitTerminal, SettleStatus,
      Reply, PurgeRun, DropChat, Serves, delVars, mgrVars

-----------------------------------------------------------------------------
(* The specification.                                                      *)

LEMMA Initially ==
    ASSUME Init
    PROVE  Inv /\ PlaceInv
<1> USE DEF Init, BusInit, MgrInit
<1>1. BusTypes
  <2>1. \A t \in Threads : pub[t] = Idle OBVIOUS
  <2>2. CallShape(Idle) /\ Idle.pc = "idle" BY DEF Idle, CallShape
  <2>3. QED BY <2>1, <2>2 DEF BusTypes
<1>2. RunTypes
  <2>1. \A t \in Threads : closing[t] = NotClosing OBVIOUS
  <2>2. NotClosing \in Closings /\ NotClosing.step = "none"
    BY DEF NotClosing, Closings, CloseSteps
  <2>3. closing \in [Threads -> Closings] BY <2>2
  <2>4. QED BY <2>1, <2>2, <2>3 DEF RunTypes, WorkerPCs, Places, NoPlace, NoRun
<1>3. ChatTypes BY DEF ChatTypes, NoDeletion
<1>4. \A t \in Threads : closing[t].step = "none" /\ pub[t].pc = "idle"
  BY DEF NotClosing, Idle
<1>5. \A r \in Runs : history[r] = <<>> /\ ~HasTerminal(history[r])
  BY DEF HasTerminal
<1>6. \A c \in Chats, r \in Runs : Replies(c, r) = {} BY DEF Replies
<1>7. HomeInv BY DEF HomeInv
<1>8. ClosingInv BY <1>4, TwoThreads DEF ClosingInv, Winning, Late
<1>9. TerminalInv /\ OneTerminal BY <1>4, <1>5 DEF TerminalInv, OneTerminal, Announcing
<1>10. StatusInv BY <1>4 DEF StatusInv, FinalStatuses
<1>11. ReplyInv /\ OneReply BY <1>6 DEF ReplyInv, OneReply
<1>12. ListsInv BY DEF ListsInv, NoDeletion
<1>13. HoldsInv /\ ReservationIsLive
  BY PlacesAssumption DEF HoldsInv, ReservationIsLive, AtWork, NoRun
<1>14. QED
  BY <1>1, <1>2, <1>3, <1>7, <1>8, <1>9, <1>10, <1>11, <1>12, <1>13
  DEF Inv, ClosureInv, Types, PlaceInv

\* Steps that change neither a history, nor a call, nor the manager: those of
\* the readers.
Unmoved == UNCHANGED <<history, pub, mgrVars>>

LEMMA Stutters ==
    ASSUME Inv, Unmoved
    PROVE  Inv' /\ StatusKept
<1>1. UNCHANGED <<history, pub, status, home, occupant, finished, transcript,
                  chatRuns, worker, deadline, closing, deletion, deletes>>
  BY DEF Unmoved, mgrVars
<1>2. Types' BY <1>1 DEF Inv, ClosureInv, Types, BusTypes, RunTypes, ChatTypes
<1>3. HomeInv' /\ ClosingInv'
  BY <1>1 DEF Inv, ClosureInv, HomeInv, ClosingInv, Winning, IsAgent
<1>4. TerminalInv' /\ OneTerminal'
  BY <1>1 DEF Inv, TerminalInv, OneTerminal, Announcing, IsAgent
<1>5. StatusInv' /\ StatusKept BY <1>1 DEF Inv, StatusInv, StatusKept, IsAgent
<1>6. ReplyInv' /\ OneReply' BY <1>1 DEF Inv, ReplyInv, OneReply, Replies, Winning
<1>7. QED BY <1>2, <1>3, <1>4, <1>5, <1>6 DEF Inv, ClosureInv

LEMMA PlaceStutters ==
    ASSUME PlaceInv, Unmoved
    PROVE  PlaceInv'
<1>1. UNCHANGED <<history, pub, status, home, occupant, finished, transcript,
                  chatRuns, worker, deadline, closing, deletion, deletes>>
  BY DEF Unmoved, mgrVars
<1>2. Types' BY <1>1 DEF PlaceInv, Types, BusTypes, RunTypes, ChatTypes
<1>3. HomeInv' /\ ListsInv'
  BY <1>1 DEF PlaceInv, HomeInv, ListsInv, IsAgent
<1>4. HoldsInv' /\ ReservationIsLive'
  BY <1>1 DEF PlaceInv, HoldsInv, ReservationIsLive, AtWork
<1>5. QED BY <1>2, <1>3, <1>4 DEF PlaceInv

LEMMA Invariance ==
    ASSUME Inv, [MgrNext]_serverVars
    PROVE  Inv' /\ StatusKept
<1>1. CASE MgrNext
  <2>1. ClosureInv /\ Types BY DEF Inv, ClosureInv
  <2>2. Step BY <1>1, <2>1, Steps
  <2>3. ClosureInv'
    BY <2>1, <2>2, Typing, Homes, Closures DEF ClosureInv
  <2>4. QED
    BY <2>1, <2>2, <2>3, Terminals, Statuses, RepliesKept DEF Inv
<1>2. CASE UNCHANGED serverVars
  BY <1>2, Stutters DEF Unmoved, serverVars, busVars
<1>3. QED BY <1>1, <1>2

LEMMA PlaceInvariance ==
    ASSUME PlaceInv, [MgrNext]_serverVars
    PROVE  PlaceInv'
<1>1. CASE MgrNext
  <2>1. Types BY DEF PlaceInv
  <2>2. Step BY <1>1, <2>1, Steps
  <2>3. QED BY <2>2, Typing, Homes, Lists, Holds DEF PlaceInv
<1>2. CASE UNCHANGED serverVars
  BY <1>2, PlaceStutters DEF Unmoved, serverVars, busVars
<1>3. QED BY <1>1, <1>2

LEMMA Always == Spec => [](Inv /\ PlaceInv)
<1>1. Init => Inv /\ PlaceInv BY Initially
<1>2. Inv /\ PlaceInv /\ [MgrNext]_serverVars => (Inv /\ PlaceInv)'
  BY Invariance, PlaceInvariance
<1>3. QED BY <1>1, <1>2, PTL DEF Spec

-----------------------------------------------------------------------------
(* The bus, and the types of all variables.                                *)

Items == Events \cup {Delta, CLOSED}
Calls == [pc : PublishPCs, run : Runs \cup {"none"}, event : Items,
          todo : SUBSET Subscriptions]

BusTyped ==
    /\ history \in [Runs -> Seq(Events)]
    /\ \A r \in Runs : Len(history[r]) <= MaxHistory
    /\ done \subseteq Runs
    /\ subs \in [Runs -> SUBSET Subscriptions]
    /\ closed \subseteq Subscriptions
    /\ queue \in [Subscriptions -> Seq(Items)]
    /\ \A s \in Subscriptions : Len(queue[s]) <= QueueSize
    /\ dropped \subseteq Runs
    /\ pub \in [Threads -> Calls]
    /\ \A t \in Threads : pub[t].pc # "idle" => pub[t].run = RunOf(t)
    /\ \A t \in Threads : pub[t].pc = "append" => pub[t].event \in Events

Spent == known \subseteq Chats /\ emits \in 0 .. MaxEmits /\ deletes \in 0 .. MaxDeletes

\* A thread enters a call of the bus for its run.
Enters(t) ==
    \/ \E type \in DurableTypes : StartPublish(t, RunOf(t), type)
    \/ StartTransient(t, RunOf(t))
    \/ StartFinish(t, RunOf(t))

\* What a step of the server does to the bus.
CallStep ==
    \/ UNCHANGED busVars
    \/ \E t \in Threads : Enters(t) \/ PublishStep(t)
BusStep == CallStep \/ \E r \in Runs : Purge(r)

LEMMA BusActs ==
    ASSUME Types, [MgrNext]_serverVars
    PROVE  CallStep \/ PurgeRun
<1>1. ASSUME NEW r \in Runs, WorkerStarts(r) \/ WorkerWorks(r) PROVE CallStep
  BY <1>1, TwoThreads
  DEF WorkerStarts, WorkerWorks, Begin, Announce, Classify, ShadowFails, Emit,
      QADelta, CheckDelta, SendDelta, QAFallsThrough, QAAnswered, Conclude,
      DurableTypes, Enters, CallStep
<1>2. ASSUME NEW t \in Threads, CloseStepOf(t) PROVE CallStep
  BY <1>2
  DEF CloseStepOf, ClaimClosure, EmitTerminal, SettleStatus, Reply, DurableTypes,
      Enters, CallStep, Types, RunTypes
<1>3. ASSUME NEW r \in Runs, Release(r) \/ FinishBus(r) \/ DeadlinePasses(r)
      PROVE  CallStep
  BY <1>3, TwoThreads
  DEF Release, FinishBus, DeadlinePasses, Enters, CallStep
<1>4. CASE DropRun \/ DropChat BY <1>4 DEF DropRun, DropChat, CallStep
<1>5. CASE UNCHANGED serverVars BY <1>5 DEF serverVars, CallStep
<1>6. CASE \E r \in Runs : WorkerEnds(r) \/ Supervise(r)
  BY <1>2, <1>3, <1>6, TwoThreads DEF WorkerEnds, Supervise
<1>7. CASE \/ \E r \in Runs : \/ \E c \in Chats : ReserveChat(r, c)
                              \/ \E k \in Cases : CreateRun(r, k)
                              \/ AddUserMessage(r) \/ LinkRun(r)
           \/ \E c \in Chats : DeleteChat(c)
  BY <1>7 DEF ReserveChat, CreateRun, AddUserMessage, LinkRun, DeleteChat, CallStep
<1>8. CASE \E t \in Threads : PublishStep(t) BY <1>8 DEF CallStep
<1>9. QED
  BY <1>1, <1>4, <1>5, <1>6, <1>7, <1>8 DEF MgrNext, Request, Delete

LEMMA ServerOnBus ==
    ASSUME Types, [MgrNext]_serverVars
    PROVE  BusStep
<1>1. PurgeRun => \E r \in Runs : Purge(r)
  BY HeadTailProperties DEF Types, ChatTypes, PurgeRun
<1>2. QED BY <1>1, BusActs DEF BusStep

LEMMA Offered ==
    ASSUME NEW q \in Seq(Items), Len(q) <= QueueSize, NEW item \in Items
    PROVE  /\ Offer(q, item) \in Seq(Items)
           /\ Len(Offer(q, item)) <= QueueSize
<1>1. Append(q, item) \in Seq(Items) /\ Len(Append(q, item)) = Len(q) + 1
      /\ Len(q) \in Nat
  BY AppendProperties, LenProperties
<1>2. QED BY <1>1, QueueSizeAssumption DEF Offer

\* A call that goes on is a call.
LEMMA ServingCalls ==
    ASSUME NEW p \in Calls, NEW targets \in SUBSET Subscriptions
    PROVE  Serving(p, targets) \in Calls
<1>1. Idle \in Calls BY DEF Idle, Calls, PublishPCs, Items
<1>2. [p EXCEPT !.todo = targets] \in Calls BY DEF Calls
<1>3. [p EXCEPT !.pc = "close", !.todo = {}] \in Calls BY DEF Calls, PublishPCs
<1>4. QED BY <1>1, <1>2, <1>3 DEF Serving

LEMMA ServingOn ==
    ASSUME NEW p \in Calls, p.pc \in {"put", "sentinel"},
           NEW targets \in SUBSET Subscriptions
    PROVE  LET q == Serving(p, targets)
           IN  q.pc # "append" /\ (q.pc # "idle" => q.run = p.run)
<1>1. CASE targets # {} BY <1>1 DEF Serving, Calls
<1>2. CASE targets = {} BY <1>2 DEF Serving, Calls, Idle
<1>3. QED BY <1>1, <1>2

\* The effect of a call's step on the call itself.
LEMMA CallGoesOn ==
    ASSUME BusTyped, NEW t \in Threads, NEW p \in Calls,
           p.pc # "append" \/ p.event \in Events,
           p.pc # "idle" => p.run = RunOf(t),
           pub' = [pub EXCEPT ![t] = p]
    PROVE  /\ pub' \in [Threads -> Calls]
           /\ \A u \in Threads : pub'[u].pc # "idle" => pub'[u].run = RunOf(u)
           /\ \A u \in Threads : pub'[u].pc = "append" => pub'[u].event \in Events
BY DEF BusTyped

LEMMA BusTypedServes ==
    ASSUME BusTyped, NEW t \in Threads, PublishStep(t)
    PROVE  BusTyped'
<1> DEFINE c == pub[t]
           r == RunOf(t)
<1>1. c \in Calls /\ r \in Runs /\ c.event \in Items /\ c.todo \subseteq Subscriptions
  BY ThreadOf DEF BusTyped, Calls
<1>2. Live(r) \subseteq Subscriptions BY <1>1 DEF Live, BusTyped
<1>3. \A pc \in {"put", "sentinel"} : /\ [c EXCEPT !.pc = pc] \in Calls
                                      /\ [c EXCEPT !.pc = pc].pc = pc
                                      /\ [c EXCEPT !.pc = pc].run = c.run
  BY <1>1 DEF Calls, PublishPCs
<1>4. ASSUME NEW pc \in {"put", "sentinel"}, c.pc # "idle",
             pub' = [pub EXCEPT ![t] = Serving([c EXCEPT !.pc = pc], Live(r))]
      PROVE  /\ pub' \in [Threads -> Calls]
             /\ \A u \in Threads : pub'[u].pc # "idle" => pub'[u].run = RunOf(u)
             /\ \A u \in Threads : pub'[u].pc = "append" => pub'[u].event \in Events
  <2> DEFINE p == [c EXCEPT !.pc = pc]
             q == Serving(p, Live(r))
  <2>1. p \in Calls /\ p.pc \in {"put", "sentinel"} /\ p.run = r
    BY <1>3, <1>4 DEF BusTyped
  <2> HIDE DEF p
  <2>2. q \in Calls BY <1>2, <2>1, ServingCalls
  <2>3. q.pc # "append" /\ (q.pc # "idle" => q.run = r) BY <1>2, <2>1, ServingOn
  <2>4. pub' = [pub EXCEPT ![t] = q] BY <1>4 DEF p
  <2> HIDE DEF q
  <2>5. QED BY <2>2, <2>3, <2>4, CallGoesOn
<1>5. ASSUME NEW s \in c.todo, c.pc \in {"put", "sentinel"},
             pub' = [pub EXCEPT ![t] = Serving(c, c.todo \ {s})]
      PROVE  /\ pub' \in [Threads -> Calls]
             /\ \A u \in Threads : pub'[u].pc # "idle" => pub'[u].run = RunOf(u)
             /\ \A u \in Threads : pub'[u].pc = "append" => pub'[u].event \in Events
  <2> DEFINE q == Serving(c, c.todo \ {s})
  <2>1. c.todo \ {s} \in SUBSET Subscriptions BY <1>1
  <2>2. q \in Calls BY <1>1, <2>1, ServingCalls
  <2>3. q.pc # "append" /\ (q.pc # "idle" => q.run = r)
    BY <1>1, <1>5, <2>1, ServingOn DEF BusTyped
  <2> HIDE DEF q
  <2>4. QED BY <1>5, <2>2, <2>3, CallGoesOn DEF q
<1>6. ASSUME NEW s \in c.todo, NEW item \in Items,
             queue' = [queue EXCEPT ![s] = Offer(@, item)]
      PROVE  /\ queue' \in [Subscriptions -> Seq(Items)]
             /\ \A u \in Subscriptions : Len(queue'[u]) <= QueueSize
  <2> DEFINE S == Seq(Items)
  <2>1. s \in Subscriptions BY <1>1
  <2>2. Offer(queue[s], item) \in S /\ Len(Offer(queue[s], item)) <= QueueSize
    BY <2>1, Offered DEF BusTyped
  <2>3. queue \in [Subscriptions -> S] BY DEF BusTyped
  <2> HIDE DEF S
  <2>4. queue' \in [Subscriptions -> S] BY <1>6, <2>1, <2>2, <2>3
  <2>5. \A u \in Subscriptions : Len(queue'[u]) <= QueueSize
    BY <1>6, <2>1, <2>2, <2>3 DEF BusTyped
  <2>6. QED BY <2>4, <2>5 DEF S
<1>7. CASE AppendStep(t)
  <2>1. c.run = r /\ c.pc = "append" /\ c.event \in Events
    BY <1>7 DEF AppendStep, BusTyped
  <2>2. /\ history' = [history EXCEPT ![r] =
                         IF Len(@) < MaxHistory THEN Append(@, c.event) ELSE @]
        /\ subs' = [subs EXCEPT ![r] = Live(r)]
        /\ done' \in {done, done \cup {r}}
        /\ pub' = [pub EXCEPT ![t] = Serving([c EXCEPT !.pc = "put"], Live(r))]
        /\ UNCHANGED <<closed, queue, dropped>>
    BY <1>7, <2>1 DEF AppendStep
  <2> DEFINE S == Seq(Events)
             h == IF Len(history[r]) < MaxHistory THEN Append(history[r], c.event)
                                                  ELSE history[r]
  <2>3. h \in S /\ Len(h) <= MaxHistory
    BY <1>1, <2>1, AppendProperties, LenProperties, MaxHistoryAssumption DEF BusTyped
  <2>4. history \in [Runs -> S] /\ history' = [history EXCEPT ![r] = h]
    BY <2>2 DEF BusTyped
  <2> HIDE DEF S, h
  <2>5. history' \in [Runs -> S] /\ \A q \in Runs : Len(history'[q]) <= MaxHistory
    BY <1>1, <2>3, <2>4 DEF BusTyped
  <2>6. subs' \in [Runs -> SUBSET Subscriptions] /\ done' \subseteq Runs
    BY <1>1, <1>2, <2>2 DEF BusTyped
  <2>7. /\ pub' \in [Threads -> Calls]
        /\ \A u \in Threads : pub'[u].pc # "idle" => pub'[u].run = RunOf(u)
        /\ \A u \in Threads : pub'[u].pc = "append" => pub'[u].event \in Events
    BY <1>4, <2>1, <2>2
  <2>8. QED BY <2>2, <2>5, <2>6, <2>7 DEF BusTyped, S
<1>8. CASE SnapshotStep(t) \/ CloseStep(t)
  <2>1. \E pc \in {"put", "sentinel"} :
           pub' = [pub EXCEPT ![t] = Serving([c EXCEPT !.pc = pc], Live(r))]
    BY <1>8 DEF SnapshotStep, CloseStep, BusTyped
  <2>2. c.pc # "idle" BY <1>8 DEF SnapshotStep, CloseStep
  <2>3. /\ pub' \in [Threads -> Calls]
        /\ \A u \in Threads : pub'[u].pc # "idle" => pub'[u].run = RunOf(u)
        /\ \A u \in Threads : pub'[u].pc = "append" => pub'[u].event \in Events
    BY <1>4, <2>1, <2>2
  <2>4. UNCHANGED <<history, done, subs, closed, queue, dropped>>
    BY <1>8 DEF SnapshotStep, CloseStep
  <2>5. QED BY <2>3, <2>4 DEF BusTyped
<1>9. CASE PutStep(t)
  <2>1. PICK s \in c.todo :
          /\ queue' = [queue EXCEPT ![s] = Offer(@, c.event)]
          /\ dropped' \in {dropped, dropped \cup {r}}
          /\ pub' = [pub EXCEPT ![t] = Serving(c, c.todo \ {s})]
          /\ c.pc = "put"
    BY <1>9 DEF PutStep, BusTyped
  <2>2. UNCHANGED <<history, done, subs, closed>> BY <1>9 DEF PutStep
  <2>3. /\ queue' \in [Subscriptions -> Seq(Items)]
        /\ \A u \in Subscriptions : Len(queue'[u]) <= QueueSize
    BY <1>1, <1>6, <2>1
  <2>4. /\ pub' \in [Threads -> Calls]
        /\ \A u \in Threads : pub'[u].pc # "idle" => pub'[u].run = RunOf(u)
        /\ \A u \in Threads : pub'[u].pc = "append" => pub'[u].event \in Events
    BY <1>5, <2>1
  <2>5. dropped' \subseteq Runs BY <1>1, <2>1 DEF BusTyped
  <2>6. QED BY <2>2, <2>3, <2>4, <2>5 DEF BusTyped
<1>10. CASE SentinelStep(t)
  <2>1. PICK s \in c.todo :
          /\ queue' = [queue EXCEPT ![s] = Offer(@, CLOSED)]
          /\ closed' = closed \cup {s}
          /\ pub' = [pub EXCEPT ![t] = Serving(c, c.todo \ {s})]
          /\ c.pc = "sentinel"
    BY <1>10 DEF SentinelStep
  <2>2. UNCHANGED <<history, done, subs, dropped>> BY <1>10 DEF SentinelStep
  <2>3. /\ queue' \in [Subscriptions -> Seq(Items)]
        /\ \A u \in Subscriptions : Len(queue'[u]) <= QueueSize
    BY <1>6, <2>1 DEF Items
  <2>4. /\ pub' \in [Threads -> Calls]
        /\ \A u \in Threads : pub'[u].pc # "idle" => pub'[u].run = RunOf(u)
        /\ \A u \in Threads : pub'[u].pc = "append" => pub'[u].event \in Events
    BY <1>5, <2>1
  <2>5. closed' \subseteq Subscriptions BY <1>1, <2>1 DEF BusTyped
  <2>6. QED BY <2>2, <2>3, <2>4, <2>5 DEF BusTyped
<1>11. QED BY <1>7, <1>8, <1>9, <1>10 DEF PublishStep

LEMMA BusTypedEnters ==
    ASSUME BusTyped, NEW t \in Threads, Enters(t)
    PROVE  BusTyped'
<1> DEFINE r == RunOf(t)
<1>1. r \in Runs BY ThreadOf
<1>2. ASSUME NEW p \in Calls, p.pc # "append" \/ p.event \in Events, p.run = r,
             pub' = [pub EXCEPT ![t] = p],
             UNCHANGED <<history, subs, closed, queue, dropped>>,
             done' \subseteq Runs
      PROVE  BusTyped'
  <2>1. /\ pub' \in [Threads -> Calls]
        /\ \A u \in Threads : pub'[u].pc # "idle" => pub'[u].run = RunOf(u)
        /\ \A u \in Threads : pub'[u].pc = "append" => pub'[u].event \in Events
    BY <1>2, CallGoesOn
  <2>2. QED BY <1>2, <2>1 DEF BusTyped
<1>3. ASSUME NEW type \in DurableTypes, StartPublish(t, r, type) PROVE BusTyped'
  <2> DEFINE e == Event(Len(history[r]) + 1, type)
             p == [pc |-> "append", run |-> r, event |-> e, todo |-> {}]
  <2>1. e \in Events BY <1>1, LenProperties DEF BusTyped, Event, Events
  <2>2. pub' = [pub EXCEPT ![t] = p] /\ done' \subseteq Runs
        /\ UNCHANGED <<history, subs, closed, queue, dropped>>
    BY <1>3 DEF StartPublish, BusTyped
  <2> HIDE DEF e
  <2>3. p \in Calls BY <1>1, <2>1 DEF Calls, PublishPCs, Items
  <2>4. p.event \in Events /\ p.run = r BY <2>1
  <2> HIDE DEF p
  <2>5. QED BY <1>2, <2>2, <2>3, <2>4
<1>4. CASE StartTransient(t, r)
  <2> DEFINE p == [pc |-> "snapshot", run |-> r, event |-> Delta, todo |-> {}]
  <2>1. p \in Calls /\ p.pc # "append" /\ p.run = r
    BY <1>1 DEF Calls, PublishPCs, Items
  <2>2. pub' = [pub EXCEPT ![t] = p] /\ done' \subseteq Runs
        /\ UNCHANGED <<history, subs, closed, queue, dropped>>
    BY <1>4 DEF StartTransient, BusTyped
  <2> HIDE DEF p
  <2>3. QED BY <1>2, <2>1, <2>2
<1>5. CASE StartFinish(t, r)
  <2> DEFINE p == [pc |-> "close", run |-> r, event |-> CLOSED, todo |-> {}]
  <2>1. p \in Calls /\ p.pc # "append" /\ p.run = r
    BY <1>1 DEF Calls, PublishPCs, Items
  <2>2. pub' = [pub EXCEPT ![t] = p] /\ done' \subseteq Runs
        /\ UNCHANGED <<history, subs, closed, queue, dropped>>
    BY <1>1, <1>5 DEF StartFinish, BusTyped
  <2> HIDE DEF p
  <2>3. QED BY <1>2, <2>1, <2>2
<1>6. QED BY <1>3, <1>4, <1>5 DEF Enters

LEMMA BusTypedKept ==
    ASSUME BusTyped, BusStep
    PROVE  BusTyped'
<1>1. CASE UNCHANGED busVars BY <1>1 DEF busVars, BusTyped
<1>2. ASSUME NEW r \in Runs, Purge(r) PROVE BusTyped'
  <2> DEFINE S == Seq(Events)
  <2>1. <<>> \in S /\ Len(<<>>) <= MaxHistory
    BY EmptySeq, LenProperties, MaxHistoryAssumption
  <2>2. history \in [Runs -> S] BY DEF BusTyped
  <2> HIDE DEF S
  <2>3. history' \in [Runs -> S] /\ \A q \in Runs : Len(history'[q]) <= MaxHistory
    BY <1>2, <2>1, <2>2 DEF BusTyped, Purge
  <2>4. subs' \in [Runs -> SUBSET Subscriptions] /\ done' \subseteq Runs
        /\ UNCHANGED <<closed, queue, dropped, pub>>
    BY <1>2 DEF BusTyped, Purge
  <2>5. QED BY <2>3, <2>4 DEF BusTyped, S
<1>3. QED
  BY <1>1, <1>2, BusTypedServes, BusTypedEnters DEF BusStep, CallStep

LEMMA SpentKept ==
    ASSUME Spent, Types, [MgrNext]_serverVars
    PROVE  Spent'
<1> USE MaxEmitsAssumption, MaxDeletesAssumption DEF Spent
<1>1. CASE UNCHANGED <<known, emits, deletes>> BY <1>1
<1>2. ASSUME NEW r \in Runs, WorkerStarts(r) \/ WorkerWorks(r) PROVE Spent'
  BY <1>2
  DEF WorkerStarts, WorkerWorks, Begin, Announce, Classify, ShadowFails, Emit,
      QADelta, CheckDelta, SendDelta, QAFallsThrough, QAAnswered, Conclude,
      chatVars, delVars
<1>3. ASSUME NEW r \in Runs, WorkerEnds(r) \/ Supervise(r) PROVE Spent'
  BY <1>3
  DEF WorkerEnds, Supervise, CloseStepOf, ClaimClosure, EmitTerminal, SettleStatus,
      Reply, Release, FinishBus, DeadlinePasses, chatVars, delVars
<1>4. ASSUME NEW r \in Runs,
             \/ \E c \in Chats : ReserveChat(r, c)
             \/ \E k \in Cases : CreateRun(r, k)
             \/ Request(r)
      PROVE  Spent'
  BY <1>4
  DEF ReserveChat, CreateRun, Request, AddUserMessage, LinkRun, chatVars, delVars
<1>5. ASSUME NEW c \in Chats, DeleteChat(c) PROVE Spent'
  BY <1>5 DEF DeleteChat, chatVars
<1>6. CASE DropRun \/ PurgeRun \/ DropChat
  BY <1>6 DEF DropRun, PurgeRun, DropChat, chatVars
<1>7. CASE UNCHANGED mgrVars BY <1>1, <1>7 DEF mgrVars
<1>8. QED
  BY <1>2, <1>3, <1>4, <1>5, <1>6, <1>7 DEF MgrNext, Delete, serverVars

MgrTyped == BusTyped /\ Spent

LEMMA MgrTypedInit == ASSUME Init PROVE MgrTyped
<1> USE DEF Init, BusInit, MgrInit
<1>1. history \in [Runs -> Seq(Events)] /\ queue \in [Subscriptions -> Seq(Items)]
  BY EmptySeq
<1>2. Len(<<>>) = 0 BY LenProperties
<1>3. pub \in [Threads -> Calls] /\ \A t \in Threads : pub[t].pc = "idle"
  <2>1. Idle \in Calls /\ Idle.pc = "idle" BY DEF Idle, Calls, PublishPCs, Items
  <2>2. QED BY <2>1
<1>4. subs \in [Runs -> SUBSET Subscriptions] OBVIOUS
<1>5. BusTyped
  BY <1>1, <1>2, <1>3, <1>4, MaxHistoryAssumption, QueueSizeAssumption DEF BusTyped
<1>6. Spent BY MaxEmitsAssumption, MaxDeletesAssumption DEF Spent
<1>7. QED BY <1>5, <1>6 DEF MgrTyped

LEMMA MgrTypedKept ==
    ASSUME Inv, MgrTyped, [MgrNext]_serverVars
    PROVE  MgrTyped'
BY ServerOnBus, BusTypedKept, SpentKept DEF Inv, ClosureInv, MgrTyped

LEMMA TypesMeanTypeOK ==
    ASSUME Types, MgrTyped
    PROVE  MgrTypeOK
<1> USE DEF Types, MgrTyped
<1>1. BusTypeOK
  <2>1. \A t \in Threads : /\ pub[t].pc \in PublishPCs
                           /\ pub[t].run \in Runs \cup {"none"}
                           /\ pub[t].event \in Items
                           /\ pub[t].todo \subseteq Subscriptions
    BY DEF BusTyped, Calls
  <2>2. QED BY <2>1 DEF BusTyped, BusTypeOK, Items, Events
<1>2. RunTypes /\ ChatTypes /\ Spent OBVIOUS
<1>3. QED
  BY <1>1, <1>2 DEF RunTypes, ChatTypes, Spent, MgrTypeOK, Closings, Messages

LEMMA AlwaysTyped == Spec => []MgrTyped
BY MgrTypedInit, MgrTypedKept, Always, PTL DEF Spec

-----------------------------------------------------------------------------
(* How much a run can write into its history: what its turn announces, what *)
(* it emits, and one terminal event.                                        *)

Pending(t) == IF pub[t].pc = "append" THEN 1 ELSE 0
Written(r) == Len(history[r]) + Pending(W(r)) + Pending(D(r))

\* The events of the turn itself, apart from those that count as emits.
StageOf(r) == CASE worker[r] \in Early \cup {"announce"} -> 0
                [] worker[r] = "classify" -> 1
                [] worker[r] \in {"answered"} \cup Late -> 3
                [] OTHER -> 2

\* The closure of the run got beyond the claim, and as far as its terminal
\* event.
Claimed(r) == IF IsAgent(r) THEN r \in finished ELSE worker[r] \in Late
Announced(r) == /\ Claimed(r)
                /\ \A t \in ThreadsOf(r) : closing[t].step # "emit"
TerminalOf(r) == IF Announced(r) THEN 1 ELSE 0

Allowance(r) == emits + StageOf(r) + TerminalOf(r)
CountInv == \A r \in Runs : Written(r) <= Allowance(r)

LEMMA CountTypes ==
    ASSUME BusTyped, NEW r \in Runs
    PROVE  /\ Written(r) \in Nat
           /\ Len(history[r]) \in Nat
           /\ Pending(W(r)) \in {0, 1} /\ Pending(D(r)) \in {0, 1}
<1>1. Len(history[r]) \in Nat BY LenProperties DEF BusTyped
<1>2. Pending(W(r)) \in {0, 1} /\ Pending(D(r)) \in {0, 1} BY DEF Pending
<1>3. QED BY <1>1, <1>2 DEF Written

\* No step of the bus but the start of a publication brings a run closer to a
\* full history.
LEMMA WrittenStarts ==
    ASSUME BusTyped, NEW t \in Threads, NEW type \in DurableTypes,
           StartPublish(t, RunOf(t), type), NEW q \in Runs
    PROVE  Written(q)' = Written(q) + (IF q = RunOf(t) THEN 1 ELSE 0)
<1>1. history' = history /\ pub[t].pc = "idle" /\ pub'[t].pc = "append"
      /\ \A u \in Threads \ {t} : pub'[u] = pub[u]
  BY DEF StartPublish, BusTyped, Free
<1>2. Pending(t) = 0 /\ Pending(t)' = 1
      /\ \A u \in Threads \ {t} : Pending(u)' = Pending(u)
  BY <1>1 DEF Pending
<1>3. Len(history[q]) \in Nat /\ history'[q] = history[q]
      /\ W(q) \in Threads /\ D(q) \in Threads /\ W(q) # D(q)
  BY <1>1, CountTypes, TwoThreads
<1>4. CASE t = W(q)
  <2>1. q = RunOf(t) /\ D(q) # t BY <1>4, TwoThreads
  <2>2. QED BY <1>2, <1>3, <1>4, <2>1, CountTypes DEF Written
<1>5. CASE t = D(q)
  <2>1. q = RunOf(t) /\ W(q) # t BY <1>5, TwoThreads
  <2>2. QED BY <1>2, <1>3, <1>5, <2>1, CountTypes DEF Written
<1>6. CASE t # W(q) /\ t # D(q)
  <2>1. q # RunOf(t) BY <1>6, ThreadOf
  <2>2. QED BY <1>2, <1>3, <1>6, <2>1, CountTypes DEF Written
<1>7. QED BY <1>4, <1>5, <1>6

LEMMA WrittenAppends ==
    ASSUME BusTyped, NEW t \in Threads, AppendStep(t)
    PROVE  /\ pub[t].pc = "append" /\ pub'[t].pc # "append"
           /\ pub[t].event \in Events
           /\ \A u \in Threads \ {t} : pub'[u] = pub[u]
           /\ history' = [history EXCEPT ![RunOf(t)] =
                             IF Len(@) < MaxHistory THEN Append(@, pub[t].event) ELSE @]
<1> DEFINE p == [pub[t] EXCEPT !.pc = "put"]
<1>1. pub[t].run = RunOf(t) /\ pub[t].pc = "append" /\ pub[t] \in Calls
      /\ pub[t].event \in Events
  BY DEF AppendStep, BusTyped
<1>2. Live(RunOf(t)) \in SUBSET Subscriptions BY ThreadOf DEF Live, BusTyped
<1>3. pub' = [pub EXCEPT ![t] = Serving(p, Live(RunOf(t)))]
      /\ history' = [history EXCEPT ![RunOf(t)] =
                        IF Len(@) < MaxHistory THEN Append(@, pub[t].event) ELSE @]
  BY <1>1 DEF AppendStep
<1>4. p \in Calls /\ p.pc = "put" BY <1>1 DEF Calls, PublishPCs
<1> HIDE DEF p
<1>5. Serving(p, Live(RunOf(t))).pc # "append" BY <1>2, <1>4, ServingOn
<1>6. QED BY <1>1, <1>3, <1>5 DEF BusTyped

\* The steps of a call after the event is in the history.
LEMMA OtherServes ==
    ASSUME BusTyped, NEW t \in Threads,
           SnapshotStep(t) \/ PutStep(t) \/ CloseStep(t) \/ SentinelStep(t)
    PROVE  /\ pub[t].pc # "append" /\ pub'[t].pc # "append"
           /\ \A u \in Threads \ {t} : pub'[u] = pub[u]
           /\ history' = history
<1>1. pub[t] \in Calls /\ pub[t].todo \subseteq Subscriptions BY DEF BusTyped, Calls
<1>2. \E p \in Calls : \E targets \in SUBSET Subscriptions :
         p.pc \in {"put", "sentinel"} /\ pub' = [pub EXCEPT ![t] = Serving(p, targets)]
  <2>1. CASE SnapshotStep(t) \/ CloseStep(t)
    <3>1. pub[t].run \in Runs
      BY <2>1, ThreadOf DEF SnapshotStep, CloseStep, BusTyped
    <3>2. Live(pub[t].run) \in SUBSET Subscriptions BY <3>1 DEF Live, BusTyped
    <3>3. \A pc \in {"put", "sentinel"} : /\ [pub[t] EXCEPT !.pc = pc] \in Calls
                                          /\ [pub[t] EXCEPT !.pc = pc].pc = pc
      BY <1>1 DEF Calls, PublishPCs
    <3>4. QED BY <2>1, <3>2, <3>3 DEF SnapshotStep, CloseStep
  <2>2. CASE PutStep(t) \/ SentinelStep(t)
    <3>1. \A s \in pub[t].todo : pub[t].todo \ {s} \in SUBSET Subscriptions BY <1>1
    <3>2. QED BY <1>1, <2>2, <3>1 DEF PutStep, SentinelStep
  <2>3. QED BY <2>1, <2>2
<1>3. PICK p \in Calls, targets \in SUBSET Subscriptions :
         p.pc \in {"put", "sentinel"} /\ pub' = [pub EXCEPT ![t] = Serving(p, targets)]
  BY <1>2
<1>4. Serving(p, targets).pc # "append" BY <1>3, ServingOn
<1>5. history' = history /\ pub[t].pc # "append"
  BY DEF SnapshotStep, PutStep, CloseStep, SentinelStep
<1>6. QED BY <1>3, <1>4, <1>5 DEF BusTyped

LEMMA WrittenElse ==
    ASSUME BusTyped, NEW q \in Runs,
           \/ UNCHANGED busVars
           \/ \E t \in Threads : \/ StartTransient(t, RunOf(t))
                                 \/ StartFinish(t, RunOf(t))
                                 \/ PublishStep(t)
           \/ \E r \in Runs : Purge(r)
    PROVE  Written(q)' <= Written(q)
<1>1. Len(history[q]) \in Nat /\ W(q) \in Threads /\ D(q) \in Threads /\ W(q) # D(q)
      /\ Pending(W(q)) \in {0, 1} /\ Pending(D(q)) \in {0, 1}
  BY CountTypes, TwoThreads
<1>2. ASSUME \A u \in Threads : Pending(u)' = Pending(u),
             history'[q] = history[q] \/ history'[q] = <<>>
      PROVE  Written(q)' <= Written(q)
  <2>1. Len(history'[q]) <= Len(history[q]) /\ Len(history'[q]) \in Nat
    BY <1>1, <1>2, LenProperties
  <2>2. QED BY <1>1, <1>2, <2>1 DEF Written
<1>3. CASE UNCHANGED busVars BY <1>2, <1>3 DEF busVars, Pending
<1>4. ASSUME NEW r \in Runs, Purge(r) PROVE Written(q)' <= Written(q)
  BY <1>2, <1>4 DEF Purge, Pending, BusTyped
<1>5. ASSUME NEW t \in Threads, StartTransient(t, RunOf(t)) \/ StartFinish(t, RunOf(t))
      PROVE  Written(q)' <= Written(q)
  <2>1. history' = history /\ pub[t].pc # "append" /\ pub'[t].pc # "append"
        /\ \A u \in Threads \ {t} : pub'[u] = pub[u]
    BY <1>5 DEF StartTransient, StartFinish, BusTyped, Free
  <2>2. QED BY <1>2, <2>1 DEF Pending
<1>6. ASSUME NEW t \in Threads,
             SnapshotStep(t) \/ PutStep(t) \/ CloseStep(t) \/ SentinelStep(t)
      PROVE  Written(q)' <= Written(q)
  BY <1>2, <1>6, OtherServes DEF Pending
<1>7. ASSUME NEW t \in Threads, AppendStep(t) PROVE Written(q)' <= Written(q)
  <2>1. /\ Pending(t) = 1 /\ Pending(t)' = 0
        /\ \A u \in Threads \ {t} : Pending(u)' = Pending(u)
    BY <1>7, WrittenAppends DEF Pending
  <2>2. CASE RunOf(t) # q
    <3>1. t # W(q) /\ t # D(q) BY <2>2, TwoThreads
    <3>2. history'[q] = history[q] BY <1>7, <2>2, WrittenAppends DEF BusTyped
    <3>3. QED BY <1>1, <2>1, <3>1, <3>2 DEF Written
  <2>3. CASE RunOf(t) = q
    <3>1. history'[q] = history[q] \/ history'[q] = Append(history[q], pub[t].event)
      BY <1>7, <2>3, WrittenAppends DEF BusTyped
    <3>2. Len(history'[q]) \in Nat /\ Len(history'[q]) <= Len(history[q]) + 1
      BY <1>1, <1>7, <3>1, WrittenAppends, AppendProperties DEF BusTyped
    <3>3. t = W(q) \/ t = D(q) BY <2>3, ThreadOf
    <3>4. QED BY <1>1, <2>1, <3>2, <3>3 DEF Written
  <2>4. QED BY <2>2, <2>3
<1>8. QED BY <1>3, <1>4, <1>5, <1>6, <1>7 DEF PublishStep

\* What a run may write does not shrink.
Keeps == \A q \in Runs : Allowance(q)' >= Allowance(q)
\* A step that starts to publish pays for the event.
Pays(t) == Keeps /\ Allowance(RunOf(t))' >= Allowance(RunOf(t)) + 1

LEMMA AllowanceTypes ==
    ASSUME Types, Spent, NEW r \in Runs
    PROVE  /\ StageOf(r) \in 0 .. 3 /\ TerminalOf(r) \in {0, 1} /\ emits \in Nat
           /\ Allowance(r) \in Nat
           /\ Allowance(r) <= MaxEmits + 4
<1>1. TerminalOf(r) \in {0, 1} BY DEF TerminalOf
<1>2. worker[r] \in WorkerPCs BY DEF Types, RunTypes
<1>3. StageOf(r) \in 0 .. 3 BY <1>2 DEF StageOf, WorkerPCs, Early, Late
<1>4. emits \in Nat /\ emits <= MaxEmits BY MaxEmitsAssumption DEF Spent
<1>5. QED BY <1>1, <1>3, <1>4, MaxEmitsAssumption DEF Allowance

LEMMA StageMoves ==
    ASSUME Types, NEW r \in Runs, NEW pc \in WorkerPCs, GoTo(r, pc)
    PROVE  /\ worker'[r] = pc
           /\ \A q \in Runs \ {r} : StageOf(q)' = StageOf(q)
BY DEF Types, RunTypes, GoTo, StageOf


-----------------------------------------------------------------------------
(* What no step undoes.                                                     *)

GoesOn(q) ==
    /\ home'[q] = home[q]
    /\ worker'[q] # "new"
    /\ worker[q] \notin Early => worker'[q] \notin Early
    /\ worker[q] \in Late => worker'[q] \in Late
    /\ q \in finished => q \in finished'
    /\ deadline[q] = "late" => deadline'[q] = "late"
    /\ ~Registered(q) => ~Registered(q)'
    /\ \A t \in ThreadsOf(q) :
          closing'[t].step = "emit" => closing[t].step = "emit" \/ ~Claimed(q)

LEMMA RunGoesOn ==
    ASSUME ClosureInv, [MgrNext]_serverVars, NEW q \in Runs, worker[q] # "new"
    PROVE  GoesOn(q)
<1> USE DEF ClosureInv, GoesOn, ThreadsOf, Registered
<1>0. W(q) \in Threads /\ D(q) \in Threads /\ W(q) # D(q)
      /\ RunOf(W(q)) = q /\ RunOf(D(q)) = q
  BY TwoThreads
<1>1. CASE UNCHANGED <<status, home, finished, worker, deadline, closing>>
  BY <1>1
<1>2. ASSUME NEW r \in Runs,
             \/ \E c \in Chats : ReserveChat(r, c)
             \/ \E k \in Cases : CreateRun(r, k)
      PROVE  GoesOn(q)
  <2>1. q # r BY <1>2 DEF ReserveChat, CreateRun
  <2>2. QED
    BY <1>2, <2>1 DEF ReserveChat, CreateRun, GoTo, Types, RunTypes, threadVars
<1>3. ASSUME NEW r \in Runs,
             AddUserMessage(r) \/ LinkRun(r) \/ Release(r) \/ FinishBus(r)
      PROVE  GoesOn(q)
  BY <1>3
  DEF AddUserMessage, LinkRun, Release, FinishBus, GoTo, Types, RunTypes, threadVars,
      Early, Late
<1>4. ASSUME NEW r \in Runs, Begin(r) PROVE GoesOn(q)
  BY <1>4 DEF Begin, Set, GoTo, Types, RunTypes, ClosingInv, Early, Late
<1>5. ASSUME NEW r \in Runs, Turns(r) PROVE GoesOn(q)
  BY <1>5 DEF Turns, Types, RunTypes, Early, Middle, Late
<1>6. ASSUME NEW r \in Runs, Conclude(r) PROVE GoesOn(q)
  <2>1. PICK x \in Closings :
              /\ closing' = [closing EXCEPT ![W(r)] = x]
              /\ x.step = IF IsAgent(r) THEN "claim" ELSE "emit"
    BY <1>6, Concludes
  <2>2. /\ closing'[W(r)] = x
        /\ \A u \in Threads \ {W(r)} : closing'[u] = closing[u]
    BY <2>1, TwoThreads DEF Types, RunTypes
  <2>3. /\ worker[r] \in Middle /\ worker'[r] = "closing"
        /\ \A p \in Runs \ {r} : worker'[p] = worker[p]
        /\ UNCHANGED <<home, deadline, finished, status>>
    BY <1>6 DEF Conclude, GoTo, Types, RunTypes, AgentOutcomes, Middle
  <2>4. \A t \in ThreadsOf(q) :
           closing'[t].step = "emit" => closing[t].step = "emit" \/ ~Claimed(q)
    <3>1. CASE q = r BY <1>0, <2>1, <2>2, <2>3, <3>1 DEF Claimed, Middle, Late
    <3>2. CASE q # r
      <4>1. W(q) # W(r) /\ D(q) # W(r) BY <3>2, TwoThreads
      <4>2. QED BY <1>0, <2>2, <4>1
    <3>3. QED BY <3>1, <3>2
  <2>5. QED BY <2>3, <2>4 DEF Early, Middle, Late
<1>7. ASSUME NEW r \in Runs, DeadlinePasses(r) PROVE GoesOn(q)
  <2> DEFINE x == [step |-> "claim", type |-> "run_failed", status |-> "failed"]
  <2>1. /\ closing' = [closing EXCEPT ![D(r)] = x]
        /\ deadline' = [deadline EXCEPT ![r] = "late"]
        /\ UNCHANGED <<home, finished, status, worker>>
    BY <1>7 DEF DeadlinePasses
  <2>2. x.step = "claim" OBVIOUS
  <2> HIDE DEF x
  <2>3. /\ closing'[D(r)] = x
        /\ \A u \in Threads \ {D(r)} : closing'[u] = closing[u]
    BY <2>1, TwoThreads DEF Types, RunTypes
  <2>4. \A t \in ThreadsOf(q) : closing'[t].step = "emit" => closing[t].step = "emit"
    BY <1>0, <2>2, <2>3
  <2>5. QED BY <2>1, <2>4 DEF Types, RunTypes
<1>8. ASSUME NEW t \in Threads, CloseStepOf(t) PROVE GoesOn(q)
  <2> DEFINE r == RunOf(t)
  <2>1. r \in Runs /\ (t = W(r) \/ t = D(r)) BY ThreadOf
  <2> HIDE DEF r
  <2>2. /\ UNCHANGED <<home, worker, deadline>>
        /\ \A u \in Threads \ {t} : closing'[u] = closing[u]
        /\ finished \subseteq finished'
        /\ closing'[t].step = "emit" => closing[t].step = "claim" /\ r \notin finished
        /\ status' \in {status, Set(r, closing[t].status)}
    BY <1>8, CloserSteps DEF r
  <2>3. closing[t].step = "claim" => IsAgent(r)
    <3>1. CASE t = W(r) BY <2>1, <3>1 DEF ClosingInv
    <3>2. CASE t = D(r) BY <2>1, <3>2 DEF ClosingInv
    <3>3. QED BY <2>1, <3>1, <3>2
  <2>4. ~Registered(q) => ~Registered(q)'
    BY <2>1, <2>2 DEF Set, Types, RunTypes
  <2>5. \A u \in ThreadsOf(q) :
           closing'[u].step = "emit" => closing[u].step = "emit" \/ ~Claimed(q)
    <3>1. t \in ThreadsOf(q) => q = r BY <2>1, TwoThreads
    <3>2. QED BY <1>0, <2>2, <2>3, <3>1 DEF Claimed
  <2>6. QED BY <2>2, <2>4, <2>5
<1>9. CASE DropRun
  BY <1>9 DEF DropRun, Types, RunTypes, threadVars
<1>10. CASE UNCHANGED serverVars BY <1>1, <1>10 DEF serverVars, mgrVars
<1>11. CASE Step
  BY <1>1, <1>2, <1>3, <1>4, <1>5, <1>6, <1>7, <1>8, <1>9, <1>11
  DEF Step, DeleteChat, PurgeRun, DropChat, Serves, mgrVars, threadVars
<1>12. QED BY <1>10, <1>11, Steps

\* The terminal event of a run, once announced, stays announced.
LEMMA TerminalsKept ==
    ASSUME ClosureInv, [MgrNext]_serverVars, NEW q \in Runs
    PROVE  TerminalOf(q)' >= TerminalOf(q)
<1>1. CASE Announced(q)
  <2>1. worker[q] # "new"
    BY <1>1, PlacesAssumption
    DEF Announced, Claimed, ClosureInv, ClosingInv, IsAgent, Late, Early
  <2>2. GoesOn(q) BY <2>1, RunGoesOn
  <2>3. Claimed(q) /\ Claimed(q)' BY <1>1, <2>2 DEF Announced, Claimed, GoesOn, IsAgent
  <2>4. \A t \in ThreadsOf(q) : closing'[t].step # "emit"
    BY <1>1, <2>2, <2>3 DEF Announced, GoesOn
  <2>5. Announced(q)' BY <2>3, <2>4 DEF Announced, Claimed, ThreadsOf
  <2>6. QED BY <1>1, <2>5 DEF TerminalOf
<1>2. CASE ~Announced(q) BY <1>2 DEF TerminalOf
<1>3. QED BY <1>1, <1>2

-----------------------------------------------------------------------------
(* Every publication is paid for.                                           *)

BeginsToPublish(t) == \E type \in DurableTypes : StartPublish(t, RunOf(t), type)
StageKeeps == emits' >= emits /\ \A q \in Runs : StageOf(q)' >= StageOf(q)

LEMMA StageGoes ==
    ASSUME Types, Types', Spent, NEW r \in Runs, NEW pc \in WorkerPCs, GoTo(r, pc),
           emits' = emits
    PROVE  /\ StageOf(r)' >= StageOf(r) => StageKeeps
           /\ worker'[r] = pc
<1>1. worker'[r] = pc /\ \A q \in Runs \ {r} : StageOf(q)' = StageOf(q)
  BY StageMoves
<1>2. \A q \in Runs : StageOf(q) \in 0 .. 3 /\ emits \in Nat BY AllowanceTypes
<1>3. QED BY <1>1, <1>2 DEF StageKeeps

LEMMA WorkerPays ==
    ASSUME Types, Types', Spent, NEW r \in Runs, WorkerStarts(r) \/ WorkerWorks(r)
    PROVE  /\ StageKeeps
           /\ \/ UNCHANGED busVars
              \/ StartTransient(W(r), r)
              \/ /\ BeginsToPublish(W(r))
                 /\ emits' + StageOf(r)' >= emits + StageOf(r) + 1
<1>1. emits \in Nat /\ \A q \in Runs : StageOf(q) \in 0 .. 3 BY AllowanceTypes
<1>2. RunOf(W(r)) = r /\ W(r) \in Threads BY TwoThreads
<1>3. ASSUME worker' = worker
      PROVE  \A q \in Runs : StageOf(q)' = StageOf(q)
  BY <1>3 DEF StageOf, Early, Late
<1>4. CASE Begin(r)
  <2>1. GoTo(r, "announce") /\ worker[r] = "thread" /\ emits' = emits
        /\ UNCHANGED busVars
    BY <1>4 DEF Begin
  <2>2. StageOf(r) = 0 /\ worker'[r] = "announce"
    BY <2>1, StageMoves DEF StageOf, Early, Late, WorkerPCs
  <2>3. StageOf(r)' = 0 BY <2>2 DEF StageOf, Early, Late
  <2>4. QED BY <2>1, <2>2, <2>3, StageGoes DEF WorkerPCs
<1>5. CASE Announce(r)
  <2>1. PICK pc \in {"classify", "work"} : GoTo(r, pc)
    BY <1>5 DEF Announce
  <2>2. worker[r] = "announce" /\ emits' = emits /\ BeginsToPublish(W(r))
    BY <1>2, <1>5 DEF Announce, BeginsToPublish, DurableTypes
  <2>3. StageOf(r) = 0 BY <2>2 DEF StageOf, Early, Late
  <2>4. StageOf(r)' \in {1, 2}
    BY <2>1, StageMoves DEF StageOf, Early, Late, WorkerPCs
  <2>5. QED BY <1>1, <2>1, <2>2, <2>3, <2>4, StageGoes DEF WorkerPCs
<1>6. CASE Classify(r)
  <2>1. PICK pc \in {"unavailable", "qa", "work"} : GoTo(r, pc)
    BY <1>6 DEF Classify
  <2>2. worker[r] = "classify" /\ emits' = emits /\ BeginsToPublish(W(r))
    BY <1>2, <1>6 DEF Classify, BeginsToPublish, DurableTypes
  <2>3. StageOf(r) = 1 BY <2>2 DEF StageOf, Early, Late
  <2>4. StageOf(r)' = 2
    BY <2>1, StageMoves DEF StageOf, Early, Late, WorkerPCs
  <2>5. QED BY <1>1, <2>1, <2>2, <2>3, <2>4, StageGoes DEF WorkerPCs
<1>7. CASE ShadowFails(r)
  <2>1. PICK pc \in {"crash", "work"} : GoTo(r, pc)
    BY <1>7 DEF ShadowFails
  <2>2. worker[r] = "classify" /\ emits' = emits /\ UNCHANGED busVars
    BY <1>7 DEF ShadowFails
  <2>3. StageOf(r) = 1 BY <2>2 DEF StageOf, Early, Late
  <2>4. StageOf(r)' = 2
    BY <2>1, StageMoves DEF StageOf, Early, Late, WorkerPCs
  <2>5. QED BY <2>1, <2>2, <2>3, <2>4, StageGoes DEF WorkerPCs
<1>8. CASE Emit(r)
  <2>1. emits' = emits + 1 /\ worker' = worker /\ BeginsToPublish(W(r))
    BY <1>2, <1>8 DEF Emit, BeginsToPublish, DurableTypes
  <2>2. QED BY <1>1, <1>3, <2>1 DEF StageKeeps
<1>9. CASE QADelta(r)
  <2>1. emits' = emits + 1 /\ worker' = worker /\ StartTransient(W(r), r)
    BY <1>9 DEF QADelta
  <2>2. QED BY <1>1, <1>3, <2>1 DEF StageKeeps
<1>10. CASE CheckDelta(r)
  <2>1. GoTo(r, "delta") /\ worker[r] = "work" /\ emits' = emits + 1
        /\ UNCHANGED busVars
    BY <1>10 DEF CheckDelta
  <2>2. worker'[r] = "delta" /\ \A q \in Runs \ {r} : StageOf(q)' = StageOf(q)
    BY <2>1, StageMoves DEF WorkerPCs
  <2>3. StageOf(r) = 2 /\ StageOf(r)' = 2 BY <2>1, <2>2 DEF StageOf, Early, Late
  <2>4. QED BY <1>1, <2>1, <2>2, <2>3 DEF StageKeeps
<1>11. CASE SendDelta(r)
  <2>1. GoTo(r, "work") /\ worker[r] = "delta" /\ emits' = emits
        /\ StartTransient(W(r), r)
    BY <1>11 DEF SendDelta
  <2>2. StageOf(r) = 2 /\ worker'[r] = "work"
    BY <2>1, StageMoves DEF StageOf, Early, Late, WorkerPCs
  <2>3. StageOf(r)' = 2 BY <2>2 DEF StageOf, Early, Late
  <2>4. QED BY <2>1, <2>2, <2>3, StageGoes DEF WorkerPCs
<1>12. CASE QAFallsThrough(r)
  <2>1. GoTo(r, "work") /\ worker[r] = "qa" /\ emits' = emits /\ UNCHANGED busVars
    BY <1>12 DEF QAFallsThrough
  <2>2. StageOf(r) = 2 /\ worker'[r] = "work"
    BY <2>1, StageMoves DEF StageOf, Early, Late, WorkerPCs
  <2>3. StageOf(r)' = 2 BY <2>2 DEF StageOf, Early, Late
  <2>4. QED BY <2>1, <2>2, <2>3, StageGoes DEF WorkerPCs
<1>13. CASE QAAnswered(r)
  <2>1. GoTo(r, "answered") /\ worker[r] = "qa" /\ emits' = emits
        /\ BeginsToPublish(W(r))
    BY <1>2, <1>13 DEF QAAnswered, BeginsToPublish, DurableTypes
  <2>2. StageOf(r) = 2 /\ worker'[r] = "answered"
    BY <2>1, StageMoves DEF StageOf, Early, Late, WorkerPCs
  <2>3. StageOf(r)' = 3 BY <2>2 DEF StageOf, Early, Late
  <2>4. QED BY <1>1, <2>1, <2>2, <2>3, StageGoes DEF WorkerPCs
<1>14. CASE Conclude(r)
  <2>1. GoTo(r, "closing") /\ emits' = emits /\ UNCHANGED busVars
    BY <1>14 DEF Conclude
  <2>2. worker'[r] = "closing" BY <2>1, StageMoves DEF WorkerPCs
  <2>3. StageOf(r)' = 3 BY <2>2 DEF StageOf, Early, Late
  <2>4. QED BY <1>1, <2>1, <2>3, StageGoes DEF WorkerPCs
<1>15. QED
  BY <1>4, <1>5, <1>6, <1>7, <1>8, <1>9, <1>10, <1>11, <1>12, <1>13, <1>14
  DEF WorkerStarts, WorkerWorks

\* The thread that won the closure publishes its one terminal event.
LEMMA TerminalPays ==
    ASSUME ClosureInv, NEW t \in Threads, EmitTerminal(t)
    PROVE  TerminalOf(RunOf(t)) = 0 /\ TerminalOf(RunOf(t))' = 1 /\ BeginsToPublish(t)
<1> DEFINE r == RunOf(t)
<1>1. r \in Runs /\ t \in ThreadsOf(r) BY ThreadOf DEF ThreadsOf
<1>2. closing[t].step = "emit" /\ StepTo(t, "settle") /\ BeginsToPublish(t)
      /\ UNCHANGED <<home, worker, finished>>
  BY DEF EmitTerminal, BeginsToPublish, ClosureInv, Types, RunTypes, DurableTypes
<1>3. closing'[t].step = "settle" /\ \A u \in Threads \ {t} : closing'[u] = closing[u]
  BY <1>2, ClosingMoves DEF CloseSteps, ClosureInv, Types
<1>4. TerminalOf(r) = 0 BY <1>1, <1>2 DEF TerminalOf, Announced
<1>5. Claimed(r)
  <2>1. Winning(W(r)) \/ Winning(D(r)) BY <1>1, <1>2 DEF ThreadsOf, Winning
  <2>2. CASE IsAgent(r)
    BY <1>1, <2>1, <2>2 DEF Claimed, ClosureInv, ClosingInv
  <2>3. CASE ~IsAgent(r)
    <3>1. deadline[r] = "none" /\ closing[D(r)].step = "none"
      BY <1>1, <2>3, TwoThreads DEF ClosureInv, ClosingInv, Types, RunTypes
    <3>2. closing[W(r)].step # "none" BY <1>1, <1>2, <3>1 DEF ThreadsOf
    <3>3. QED BY <1>1, <2>3, <3>2 DEF Claimed, ClosureInv, ClosingInv
  <2>4. QED BY <2>2, <2>3
<1>6. \A u \in ThreadsOf(r) : closing'[u].step # "emit"
  <2>1. \A u \in ThreadsOf(r) \ {t} : closing[u].step # "emit"
    BY <1>1, <1>2 DEF ThreadsOf, Winning, ClosureInv, ClosingInv
  <2>2. ThreadsOf(r) \subseteq Threads BY <1>1, TwoThreads DEF ThreadsOf
  <2>3. QED BY <1>3, <2>1, <2>2
<1>7. Announced(r)' BY <1>2, <1>5, <1>6 DEF Announced, Claimed, IsAgent, ThreadsOf
<1>8. QED BY <1>2, <1>4, <1>7 DEF TerminalOf

LEMMA StepsPay ==
    ASSUME Inv, Types', Spent, MgrNext
    PROVE  /\ StageKeeps
           /\ \/ UNCHANGED busVars
              \/ \E t \in Threads : \/ StartTransient(t, RunOf(t))
                                    \/ StartFinish(t, RunOf(t))
                                    \/ PublishStep(t)
              \/ \E r \in Runs : Purge(r)
              \/ \E t \in Threads :
                    /\ BeginsToPublish(t)
                    /\ LET r == RunOf(t)
                       IN  \/ emits' + StageOf(r)' >= emits + StageOf(r) + 1
                           \/ TerminalOf(r) = 0 /\ TerminalOf(r)' = 1
<1> USE DEF Inv, ClosureInv
<1>1. emits \in Nat /\ \A q \in Runs : StageOf(q) \in 0 .. 3
  BY AllowanceTypes, MaxEmitsAssumption DEF Spent
<1>2. ASSUME UNCHANGED <<worker, emits>>
      PROVE  StageKeeps
  BY <1>1, <1>2 DEF StageKeeps, StageOf
<1>3. CASE \E r \in Runs : WorkerStarts(r) \/ WorkerWorks(r)
  BY <1>3, WorkerPays, TwoThreads
<1>4. ASSUME NEW t \in Threads, EmitTerminal(t)
      PROVE  StageKeeps /\ BeginsToPublish(t)
             /\ TerminalOf(RunOf(t)) = 0 /\ TerminalOf(RunOf(t))' = 1
  BY <1>2, <1>4, TerminalPays DEF EmitTerminal
<1>5. ASSUME NEW t \in Threads, ClaimClosure(t) \/ SettleStatus(t) \/ Reply(t)
      PROVE  StageKeeps /\ UNCHANGED busVars
  BY <1>2, <1>5 DEF ClaimClosure, SettleStatus, Reply
<1>6. ASSUME NEW r \in Runs, Release(r) \/ FinishBus(r)
      PROVE  StageKeeps /\ (UNCHANGED busVars \/ StartFinish(W(r), r))
  <2>1. PICK pc \in {"finish", "ended"} : GoTo(r, pc)
    BY <1>6 DEF Release, FinishBus
  <2>2. emits' = emits /\ (UNCHANGED busVars \/ StartFinish(W(r), r))
    BY <1>6 DEF Release, FinishBus
  <2>3. StageOf(r)' = 3
    BY <2>1, StageMoves DEF StageOf, Early, Late, WorkerPCs
  <2>4. QED BY <1>1, <2>1, <2>2, <2>3, StageGoes DEF WorkerPCs
<1>7. ASSUME NEW r \in Runs, DeadlinePasses(r)
      PROVE  StageKeeps /\ UNCHANGED busVars
  BY <1>2, <1>7 DEF DeadlinePasses
<1>8. CASE \E r \in Runs : WorkerEnds(r) \/ Supervise(r)
  <2>1. CASE \E t \in Threads : CloseStepOf(t)
    BY <1>4, <1>5, <2>1 DEF CloseStepOf
  <2>2. QED BY <1>6, <1>7, <1>8, <2>1, TwoThreads DEF WorkerEnds, Supervise
<1>9. ASSUME NEW r \in Runs,
             \/ \E c \in Chats : ReserveChat(r, c)
             \/ \E k \in Cases : CreateRun(r, k)
             \/ AddUserMessage(r) \/ LinkRun(r)
      PROVE  StageKeeps /\ UNCHANGED busVars
  <2>1. PICK pc \in Early : GoTo(r, pc)
    BY <1>9 DEF ReserveChat, CreateRun, AddUserMessage, LinkRun, Early
  <2>2. worker[r] \in Early /\ emits' = emits /\ UNCHANGED busVars
    BY <1>9 DEF ReserveChat, CreateRun, AddUserMessage, LinkRun, Early
  <2>3. StageOf(r) = 0 /\ StageOf(r)' = 0
    BY <2>1, <2>2, StageMoves DEF StageOf, Early, Late, WorkerPCs
  <2>4. QED BY <2>1, <2>2, <2>3, StageGoes DEF WorkerPCs, Early
<1>10. CASE (\E c \in Chats : DeleteChat(c)) \/ DropRun \/ DropChat
  BY <1>2, <1>10 DEF DeleteChat, DropRun, DropChat
<1>11. CASE PurgeRun
  <2>1. Head(deletion.todo) \in Runs
    BY <1>11, HeadTailProperties DEF Types, ChatTypes, PurgeRun
  <2>2. QED BY <1>2, <1>11, <2>1 DEF PurgeRun
<1>12. CASE \E t \in Threads : PublishStep(t) /\ UNCHANGED mgrVars
  BY <1>2, <1>12 DEF mgrVars
<1>13. QED
  BY <1>3, <1>8, <1>9, <1>10, <1>11, <1>12 DEF MgrNext, Request, Delete

LEMMA CountKept ==
    ASSUME Inv, Inv', MgrTyped, MgrTyped', CountInv, [MgrNext]_serverVars
    PROVE  CountInv'
<1> USE DEF Inv, ClosureInv, MgrTyped
<1> SUFFICES ASSUME NEW q \in Runs
             PROVE  (Written(q) <= Allowance(q))'
  BY DEF CountInv
<1>1. Written(q) <= Allowance(q) /\ Written(q) \in Nat /\ Written(q)' \in Nat
  <2>1. Written(q)' \in Nat
    <3>1. Len(history'[q]) \in Nat BY LenProperties DEF BusTyped
    <3>2. Pending(W(q))' \in {0, 1} /\ Pending(D(q))' \in {0, 1} BY DEF Pending
    <3>3. QED BY <3>1, <3>2 DEF Written
  <2>2. QED BY <2>1, CountTypes DEF CountInv
<1>2. StageOf(q) \in 0 .. 3 /\ TerminalOf(q) \in {0, 1} /\ emits \in Nat
  BY AllowanceTypes
<1>3. StageOf(q)' \in 0 .. 3 /\ TerminalOf(q)' \in {0, 1} /\ emits' \in Nat
  <2>1. worker'[q] \in WorkerPCs BY DEF Types, RunTypes
  <2>2. StageOf(q)' \in 0 .. 3 BY <2>1 DEF StageOf, WorkerPCs, Early, Late
  <2>3. QED BY <2>2, MaxEmitsAssumption DEF TerminalOf, Spent
<1>4. TerminalOf(q)' >= TerminalOf(q) BY TerminalsKept
<1>5. CASE UNCHANGED serverVars
  <2>1. UNCHANGED busVars /\ UNCHANGED <<worker, emits>>
    BY <1>5 DEF serverVars, mgrVars
  <2>2. Written(q)' <= Written(q) BY <2>1, WrittenElse
  <2>3. StageOf(q)' = StageOf(q) BY <2>1 DEF StageOf, Early, Late
  <2>4. QED BY <1>1, <1>2, <1>3, <1>4, <2>1, <2>2, <2>3 DEF Allowance
<1>6. CASE MgrNext
  <2>1. StageOf(q)' >= StageOf(q) /\ emits' >= emits
    BY <1>6, StepsPay DEF StageKeeps
  <2>2. CASE \/ UNCHANGED busVars
             \/ \E t \in Threads : \/ StartTransient(t, RunOf(t))
                                   \/ StartFinish(t, RunOf(t))
                                   \/ PublishStep(t)
             \/ \E r \in Runs : Purge(r)
    <3>1. Written(q)' <= Written(q) BY <2>2, WrittenElse
    <3>2. QED BY <1>1, <1>2, <1>3, <1>4, <2>1, <3>1 DEF Allowance
  <2>3. ASSUME NEW t \in Threads, BeginsToPublish(t),
               LET r == RunOf(t)
               IN  \/ emits' + StageOf(r)' >= emits + StageOf(r) + 1
                   \/ TerminalOf(r) = 0 /\ TerminalOf(r)' = 1
        PROVE  (Written(q) <= Allowance(q))'
    <3>1. Written(q)' = Written(q) + (IF q = RunOf(t) THEN 1 ELSE 0)
      BY <2>3, WrittenStarts DEF BeginsToPublish
    <3>2. QED BY <1>1, <1>2, <1>3, <1>4, <2>1, <2>3, <3>1 DEF Allowance
  <2>4. QED BY <1>6, <2>2, <2>3, StepsPay
<1>7. QED BY <1>5, <1>6

LEMMA CountInit == ASSUME Init PROVE CountInv
<1> SUFFICES ASSUME NEW q \in Runs PROVE Written(q) <= Allowance(q)
  BY DEF CountInv
<1> USE DEF Init, BusInit, MgrInit
<1>1. Written(q) = 0
  BY LenProperties, TwoThreads DEF Written, Pending, Idle
<1>2. emits = 0 /\ worker[q] = "new" OBVIOUS
<1>3. StageOf(q) = 0 BY <1>2 DEF StageOf, Early, Late
<1>4. QED BY <1>1, <1>2, <1>3 DEF Allowance, TerminalOf

LEMMA AlwaysCounted == Spec => [](Inv /\ MgrTyped /\ CountInv)
<1>1. Init => CountInv BY CountInit
<1>2. Inv /\ Inv' /\ MgrTyped /\ MgrTyped' /\ CountInv /\ [MgrNext]_serverVars
      => CountInv'
  BY CountKept
<1>3. QED BY <1>1, <1>2, Always, AlwaysTyped, PTL DEF Spec

\* No thread that is about to append an event finds the history full.
Fits == \A t \in Threads : pub[t].pc = "append" => Len(history[RunOf(t)]) < MaxHistory

LEMMA CountFits ==
    ASSUME Inv, MgrTyped, CountInv, MaxEmits + 4 <= MaxHistory
    PROVE  Fits
<1> SUFFICES ASSUME NEW t \in Threads, pub[t].pc = "append"
             PROVE  Len(history[RunOf(t)]) < MaxHistory
  BY DEF Fits
<1> DEFINE r == RunOf(t)
<1>1. r \in Runs /\ (t = W(r) \/ t = D(r)) BY ThreadOf
<1>2. Pending(t) = 1 BY DEF Pending
<1>3. Written(r) >= Len(history[r]) + 1
  BY <1>1, <1>2, CountTypes DEF MgrTyped, Written
<1>4. Written(r) <= MaxEmits + 4
  <2>1. Types /\ Spent BY DEF Inv, ClosureInv, MgrTyped
  <2>2. Allowance(r) \in Nat /\ Allowance(r) <= MaxEmits + 4
    BY <1>1, <2>1, AllowanceTypes
  <2>3. QED
    BY <1>1, <2>2, CountTypes, MaxEmitsAssumption DEF MgrTyped, CountInv
<1>5. QED
  BY <1>1, <1>3, <1>4, CountTypes, MaxEmitsAssumption, MaxHistoryAssumption
  DEF MgrTyped

-----------------------------------------------------------------------------
(* The event a closure promised, and the status that tells of it.           *)

\* Only what left the registry is purged.
PurgeInv == deletion.pc = "purge" => ~Registered(Head(deletion.todo))

LEMMA PurgeKept ==
    ASSUME Inv, PlaceInv, PurgeInv, [MgrNext]_serverVars
    PROVE  PurgeInv'
<1> USE DEF Inv, ClosureInv, PurgeInv
<1> SUFFICES ASSUME deletion'.pc = "purge"
             PROVE  status'[Head(deletion'.todo)] = "absent"
  BY DEF Registered
<1>1. CASE DropRun
  <2>1. Head(deletion.todo) \in Runs /\ deletion'.todo = deletion.todo
    BY <1>1, HeadTailProperties DEF DropRun, Types, ChatTypes
  <2>2. status'[Head(deletion.todo)] = "absent" BY <1>1, <2>1 DEF DropRun, Types, RunTypes
  <2>3. QED BY <2>1, <2>2
<1>2. CASE deletion' = deletion
  <2> DEFINE r == Head(deletion.todo)
  <2>1. deletion.todo \in Seq(Runs) /\ deletion.todo # <<>> /\ deletion.pc = "purge"
    BY <1>2 DEF Types, ChatTypes
  <2>2. r = deletion.todo[1] /\ 1 \in DOMAIN deletion.todo /\ r \in Runs
    BY <2>1, HeadTailProperties, LenProperties
  <2>3. IsAgent(r) BY <2>2 DEF PlaceInv, ListsInv
  <2>4. worker[r] # "new"
    BY <2>2, <2>3, PlacesAssumption DEF HomeInv, IsAgent, NoPlace
  <2> HIDE DEF r
  <2>5. status[r] = "absent" BY <2>1 DEF r, Registered
  <2>6. status'[r] = "absent" BY <2>2, <2>4, <2>5, RunGoesOn DEF GoesOn, Registered
  <2>7. QED BY <1>2, <2>6 DEF r
<1>3. CASE UNCHANGED serverVars BY <1>2, <1>3 DEF serverVars, mgrVars
<1>4. CASE Step
  <2>1. CASE \E c \in Chats : DeleteChat(c) BY <2>1 DEF DeleteChat
  <2>2. CASE PurgeRun
    <3>1. deletion'.pc = "cascade" BY <2>2 DEF PurgeRun, Types, ChatTypes
    <3>2. QED BY <3>1
  <2>3. CASE DropChat BY <2>3 DEF DropChat, NoDeletion
  <2>4. QED
    BY <1>1, <1>2, <1>4, <2>1, <2>2, <2>3
    DEF Step, ReserveChat, CreateRun, AddUserMessage, LinkRun, Begin, Turns,
        Conclude, Release, FinishBus, DeadlinePasses, CloseStepOf, ClaimClosure,
        EmitTerminal, SettleStatus, Reply, Serves, mgrVars, delVars
<1>5. QED BY <1>3, <1>4, Steps

\* A thread that is about to append is let alone until it does.
LEMMA AppendWaits ==
    ASSUME Types, BusTyped, [MgrNext]_serverVars, NEW t \in Threads,
           pub[t].pc = "append"
    PROVE  pub'[t] = pub[t] \/ AppendStep(t)
<1>1. BusStep BY ServerOnBus
<1>2. CASE UNCHANGED busVars BY <1>2 DEF busVars
<1>3. ASSUME NEW u \in Threads, Enters(u) PROVE pub'[t] = pub[t]
  BY <1>3 DEF Enters, StartPublish, StartTransient, StartFinish, Free, BusTyped
<1>4. ASSUME NEW u \in Threads, PublishStep(u)
      PROVE  pub'[t] = pub[t] \/ AppendStep(t)
  BY <1>4, OtherServes, WrittenAppends DEF PublishStep
<1>5. ASSUME NEW r \in Runs, Purge(r) PROVE pub'[t] = pub[t]
  BY <1>5 DEF Purge
<1>6. QED BY <1>1, <1>2, <1>3, <1>4, <1>5 DEF BusStep, CallStep

\* A history grows by what a thread of the run had to append, until the run is
\* deleted.
LEMMA HistoryMoves ==
    ASSUME Types, BusTyped, PurgeInv, [MgrNext]_serverVars, NEW q \in Runs
    PROVE  \/ history'[q] = history[q]
           \/ \E t \in ThreadsOf(q) :
                /\ AppendStep(t) /\ pub[t].event \in Events
                /\ history'[q] = Append(history[q], pub[t].event)
           \/ ~Registered(q)
<1>1. CASE history' = history BY <1>1
<1>2. ASSUME NEW t \in Threads, AppendStep(t)
      PROVE  \/ history'[q] = history[q]
             \/ /\ t \in ThreadsOf(q) /\ pub[t].event \in Events
                /\ history'[q] = Append(history[q], pub[t].event)
  BY <1>2, WrittenAppends, ThreadOf DEF BusTyped, ThreadsOf
<1>3. CASE PurgeRun
  <2>1. history' = [history EXCEPT ![Head(deletion.todo)] = <<>>]
        /\ ~Registered(Head(deletion.todo))
    BY <1>3 DEF PurgeRun, Purge, PurgeInv
  <2>2. QED BY <2>1 DEF BusTyped
<1>4. ASSUME NEW t \in Threads, Enters(t) PROVE history' = history
  BY <1>4 DEF Enters, StartPublish, StartTransient, StartFinish
<1>5. ASSUME NEW t \in Threads, PublishStep(t)
      PROVE  history' = history \/ AppendStep(t)
  BY <1>5, OtherServes DEF PublishStep
<1>6. CASE ~PurgeRun
  <2>1. CallStep BY <1>6, BusActs
  <2>2. QED BY <1>1, <1>2, <1>4, <1>5, <2>1 DEF CallStep, busVars
<1>7. QED BY <1>3, <1>6

\* A closure in progress moves by the steps of its thread alone.
LEMMA ClosureMoves ==
    ASSUME ClosureInv, [MgrNext]_serverVars, NEW t \in Threads
    PROVE  closing'[t] = closing[t] \/ CloseStepOf(t) \/ closing[t].step = "none"
<1> USE DEF ClosureInv
<1>1. CASE closing' = closing BY <1>1
<1>2. ASSUME NEW r \in Runs, Conclude(r)
      PROVE  closing'[t] = closing[t] \/ closing[t].step = "none"
  <2>1. worker[r] \in Middle
    BY <1>2 DEF Conclude, AgentOutcomes, Middle
  <2>2. closing[W(r)].step = "none" BY <2>1 DEF ClosingInv, Middle, Late
  <2>3. QED BY <1>2, <2>2 DEF Conclude, Types, RunTypes
<1>3. ASSUME NEW r \in Runs, DeadlinePasses(r)
      PROVE  closing'[t] = closing[t] \/ closing[t].step = "none"
  <2>1. closing[D(r)].step = "none" BY <1>3 DEF DeadlinePasses, ClosingInv
  <2>2. QED BY <1>3, <2>1 DEF DeadlinePasses, Types, RunTypes
<1>4. ASSUME NEW u \in Threads, CloseStepOf(u)
      PROVE  closing'[t] = closing[t] \/ CloseStepOf(t)
  BY <1>4, CloserSteps
<1>5. CASE UNCHANGED serverVars BY <1>1, <1>5 DEF serverVars, mgrVars
<1>6. CASE Step
  BY <1>1, <1>2, <1>3, <1>4, <1>6
  DEF Step, ReserveChat, CreateRun, AddUserMessage, LinkRun, Begin, Turns,
      Release, FinishBus, DeleteChat, DropRun, PurgeRun, DropChat, Serves, mgrVars,
      threadVars
<1>7. QED BY <1>5, <1>6, Steps

LEMMA GrownHistory ==
    ASSUME NEW h \in Seq(Events), NEW e \in Events
    PROVE  /\ \A i \in DOMAIN h : i \in DOMAIN Append(h, e) /\ Append(h, e)[i] = h[i]
           /\ \E i \in DOMAIN Append(h, e) : Append(h, e)[i] = e
<1>1. Len(Append(h, e)) = Len(h) + 1 /\ Len(h) \in Nat /\ DOMAIN h = 1 .. Len(h)
      /\ DOMAIN Append(h, e) = 1 .. Len(h) + 1
  BY AppendProperties, LenProperties
<1>2. \A i \in 1 .. Len(h) : Append(h, e)[i] = h[i]
  BY AppendProperties
<1>3. Append(h, e)[Len(h) + 1] = e BY AppendProperties
<1>4. QED BY <1>1, <1>2, <1>3

\* What a history holds it keeps, while its run is registered.
LEMMA HistoryKeeps ==
    ASSUME Types, BusTyped, PurgeInv, [MgrNext]_serverVars,
           NEW q \in Runs, Registered(q), NEW i \in DOMAIN history[q]
    PROVE  i \in DOMAIN history'[q] /\ history'[q][i] = history[q][i]
<1>1. history[q] \in Seq(Events) BY DEF BusTyped
<1>2. QED BY <1>1, HistoryMoves, GrownHistory

\* When there is room, what a thread appends is then in the history.
LEMMA AppendedIsThere ==
    ASSUME BusTyped, Fits, NEW t \in Threads, AppendStep(t)
    PROVE  \E i \in DOMAIN history'[RunOf(t)] :
              history'[RunOf(t)][i] = pub[t].event
<1>1. RunOf(t) \in Runs BY ThreadOf
<1>2. history'[RunOf(t)] = Append(history[RunOf(t)], pub[t].event)
      /\ pub[t].event \in Events
  BY <1>1, WrittenAppends DEF Fits, BusTyped
<1>3. history[RunOf(t)] \in Seq(Events) BY <1>1 DEF BusTyped
<1>4. QED BY <1>2, <1>3, GrownHistory

\* The run of a thread that closes has a request behind it.
LEMMA CloserIsOld ==
    ASSUME ClosureInv, NEW t \in Threads, closing[t].step # "none"
    PROVE  worker[RunOf(t)] # "new"
<1> USE DEF ClosureInv, ClosingInv
<1>1. RunOf(t) \in Runs BY ThreadOf
<1>2. CASE t = W(RunOf(t)) BY <1>1, <1>2 DEF Late
<1>3. CASE t = D(RunOf(t)) BY <1>1, <1>3 DEF Early
<1>4. QED BY <1>2, <1>3, ThreadOf

\* A run is marked finished by the thread that then has to publish its end.
LEMMA ClaimIsTaken ==
    ASSUME ClosureInv, [MgrNext]_serverVars, NEW r \in Runs,
           r \in finished', r \notin finished
    PROVE  \E t \in Threads : /\ CloseStepOf(t) /\ RunOf(t) = r
                              /\ closing'[t].step = "emit"
<1> USE DEF ClosureInv
<1>1. CASE \E t \in Threads : CloseStepOf(t)
  <2>1. PICK t \in Threads : CloseStepOf(t) BY <1>1
  <2>2. QED BY <2>1, CloserSteps
<1>2. CASE finished' = finished BY <1>2
<1>3. CASE UNCHANGED serverVars BY <1>2, <1>3 DEF serverVars, mgrVars
<1>4. CASE Step
  BY <1>1, <1>2, <1>4
  DEF Step, ReserveChat, CreateRun, AddUserMessage, LinkRun, Begin, Turns, Conclude,
      Release, FinishBus, DeadlinePasses, DeleteChat, DropRun, PurgeRun, DropChat,
      Serves, mgrVars, threadVars
<1>5. QED BY <1>3, <1>4, Steps

LEMMA CarriedOn ==
    ASSUME Inv, MgrTyped, PurgeInv, Fits, ClosureCarriedOut, [MgrNext]_serverVars
    PROVE  ClosureCarriedOut'
<1> USE DEF Inv, ClosureInv, MgrTyped
<1> DEFINE Kept(r) == HasTerminal(history[r]) \/ Closes(W(r)) \/ Closes(D(r))
<1> SUFFICES ASSUME NEW r \in Runs, r \in finished', Registered(r)'
             PROVE  Kept(r)'
  <2>1. Types' /\ finished' \subseteq Runs BY Invariance DEF Types, RunTypes
  <2>2. QED BY <2>1 DEF ClosureCarriedOut
<1>1. ASSUME NEW t \in Threads, RunOf(t) = r, Closes(t)', t = W(r) \/ t = D(r)
      PROVE  Kept(r)'
  BY <1>1
<1>2. CASE r \in finished
  <2>1. worker[r] # "new" BY <1>2 DEF ClosingInv, Early
  <2>2. Registered(r) BY <2>1, RunGoesOn DEF GoesOn
  <2>3. ASSUME HasTerminal(history[r]) PROVE HasTerminal(history[r])'
    BY <2>2, <2>3, HistoryKeeps DEF HasTerminal
  <2>4. ASSUME NEW t \in ThreadsOf(r), Closes(t)
        PROVE  Closes(t)' \/ HasTerminal(history[r])'
    <3>1. t \in Threads /\ RunOf(t) = r BY TwoThreads DEF ThreadsOf
    <3>2. CASE closing[t].step = "emit"
      <4>1. CASE closing'[t] = closing[t] BY <3>2, <4>1 DEF Closes
      <4>2. CASE CloseStepOf(t)
        <5>1. EmitTerminal(t)
          BY <3>2, <4>2
          DEF CloseStepOf, ClaimClosure, SettleStatus, Reply
        <5>2. StartPublish(t, r, closing[t].type) /\ closing[t].type \in TerminalTypes
          BY <3>1, <5>1 DEF EmitTerminal, Types, RunTypes
        <5>3. pub'[t].pc = "append" /\ pub'[t].event.type = closing[t].type
          BY <3>1, <5>2, StartsEvent DEF DurableTypes
        <5>4. QED BY <5>2, <5>3 DEF Closes, IsTerminal
      <4>3. QED BY <3>1, <3>2, <4>1, <4>2, ClosureMoves
    <3>3. CASE pub[t].pc = "append" /\ IsTerminal(pub[t].event)
      <4>1. CASE pub'[t] = pub[t] BY <3>3, <4>1 DEF Closes
      <4>2. CASE AppendStep(t)
        BY <3>1, <3>3, <4>2, AppendedIsThere DEF HasTerminal
      <4>3. QED BY <3>1, <3>3, <4>1, <4>2, AppendWaits
    <3>4. QED BY <2>4, <3>2, <3>3 DEF Closes
  <2>5. QED BY <1>2, <2>2, <2>3, <2>4 DEF ClosureCarriedOut, ThreadsOf
<1>3. CASE r \notin finished
  <2>1. PICK t \in Threads : CloseStepOf(t) /\ RunOf(t) = r /\ closing'[t].step = "emit"
    BY <1>3, ClaimIsTaken
  <2>2. t = W(r) \/ t = D(r) BY <2>1, ThreadOf
  <2>3. QED BY <1>1, <2>1, <2>2 DEF Closes
<1>4. QED BY <1>2, <1>3

\* A closure for a failure settles a failure.
Verdict(x) == x.type = "run_failed" => x.status = "failed"

\* The event a thread settles for is about to be appended, or in the history.
EventComes(t) == \/ pub[t].pc = "append" /\ pub[t].event.type = closing[t].type
            \/ \E i \in DOMAIN history[RunOf(t)] :
                  history[RunOf(t)][i].type = closing[t].type

TellInv ==
    /\ \A t \in Threads : closing[t].step \in {"claim", "emit", "settle"} =>
                             Verdict(closing[t])
    /\ \A t \in Threads : closing[t].step = "settle" /\ Registered(RunOf(t)) =>
                             EventComes(t)
    /\ StatusTellsEvent

LEMMA VerdictsBegin ==
    ASSUME Types, NEW r \in Runs, NEW t \in Threads,
           Conclude(r) \/ DeadlinePasses(r), closing'[t] # closing[t]
    PROVE  Verdict(closing'[t]) /\ closing'[t].step # "settle"
<1>1. CASE Conclude(r)
  <2>1. worker[r] \in {"unavailable", "answered", "work", "crash"}
    BY <1>1 DEF Conclude, AgentOutcomes
  <2> DEFINE O == IF IsAgent(r) THEN AgentOutcomes[worker[r]] ELSE DemoOutcomes
             step == IF IsAgent(r) THEN "claim" ELSE "emit"
  <2>2. \A o \in O : o[1] = "run_failed" => o[2] = "failed"
    BY <2>1 DEF AgentOutcomes, DemoOutcomes
  <2>3. PICK o \in O :
            closing' = [closing EXCEPT ![W(r)] =
                           [step |-> step, type |-> o[1], status |-> o[2]]]
    BY <1>1 DEF Conclude
  <2> HIDE DEF O
  <2>4. closing'[t] = [step |-> step, type |-> o[1], status |-> o[2]]
    BY <2>3 DEF Types, RunTypes
  <2>5. QED BY <2>2, <2>3, <2>4 DEF Verdict
<1>2. CASE DeadlinePasses(r)
  BY <1>2 DEF DeadlinePasses, Types, RunTypes, Verdict
<1>3. QED BY <1>1, <1>2

LEMMA VerdictsMove ==
    ASSUME ClosureInv, [MgrNext]_serverVars, NEW t \in Threads,
           closing'[t].step \in {"claim", "emit", "settle"}
    PROVE  \/ closing'[t] = closing[t]
           \/ /\ CloseStepOf(t)
              /\ closing[t].step \in {"claim", "emit"}
              /\ closing'[t].step = "settle" <=> EmitTerminal(t)
              /\ closing'[t].type = closing[t].type
              /\ closing'[t].status = closing[t].status
           \/ Verdict(closing'[t]) /\ closing'[t].step # "settle"
<1> USE DEF ClosureInv
<1>1. CASE closing' = closing BY <1>1
<1>2. ASSUME NEW r \in Runs, Conclude(r) \/ DeadlinePasses(r)
      PROVE  closing'[t] # closing[t] =>
                Verdict(closing'[t]) /\ closing'[t].step # "settle"
  BY <1>2, VerdictsBegin
<1>3. ASSUME NEW u \in Threads, CloseStepOf(u), u # t
      PROVE  closing'[t] = closing[t]
  BY <1>3, CloserSteps
<1>4. CASE CloseStepOf(t)
  <2>1. PICK step \in {"emit", "settle"} :
            /\ StepTo(t, step)
            /\ step = "emit" => closing[t].step = "claim" /\ ~EmitTerminal(t)
            /\ step = "settle" => closing[t].step = "emit" /\ EmitTerminal(t)
    <3>1. PICK step \in {"emit", "settle", "reply", "done"} :
            /\ StepTo(t, step)
            /\ step = "emit" => closing[t].step = "claim"
            /\ step = "settle" => EmitTerminal(t)
      BY <1>4 DEF CloseStepOf, ClaimClosure, EmitTerminal, SettleStatus, Reply
    <3>2. closing'[t].step = step BY <3>1, ClosingMoves DEF Types, CloseSteps
    <3>3. EmitTerminal(t) => closing[t].step = "emit" BY DEF EmitTerminal
    <3>4. QED BY <3>1, <3>2, <3>3
  <2>2. /\ closing'[t].step = step
        /\ closing'[t].type = closing[t].type
        /\ closing'[t].status = closing[t].status
    BY <2>1, ClosingMoves DEF Types, CloseSteps
  <2>3. QED BY <1>4, <2>1, <2>2
<1>5. CASE UNCHANGED serverVars BY <1>1, <1>5 DEF serverVars, mgrVars
<1>6. CASE Step
  BY <1>1, <1>2, <1>3, <1>4, <1>6
  DEF Step, ReserveChat, CreateRun, AddUserMessage, LinkRun, Begin, Turns,
      Release, FinishBus, DeleteChat, DropRun, PurgeRun, DropChat, Serves, mgrVars,
      threadVars
<1>7. QED BY <1>5, <1>6, Steps

\* A final status is written by the thread that settles.
LEMMA StatusMoves ==
    ASSUME Inv, [MgrNext]_serverVars, NEW r \in Runs, status'[r] \in FinalStatuses
    PROVE  \/ status[r] = status'[r]
           \/ \E t \in Threads : /\ RunOf(t) = r /\ SettleStatus(t) /\ Registered(r)
                                 /\ status'[r] = closing[t].status
<1> USE DEF Inv, ClosureInv
<1>1. CASE status' = status BY <1>1
<1>2. ASSUME NEW q \in Runs,
             \/ \E c \in Chats : ReserveChat(q, c)
             \/ \E k \in Cases : CreateRun(q, k)
             \/ Begin(q)
      PROVE  status[r] = status'[r]
  BY <1>2 DEF ReserveChat, CreateRun, Begin, Set, Types, RunTypes, FinalStatuses
<1>3. ASSUME NEW t \in Threads, SettleStatus(t)
      PROVE  \/ status[r] = status'[r]
             \/ RunOf(t) = r /\ Registered(r) /\ status'[r] = closing[t].status
  BY <1>3 DEF SettleStatus, Set, Types, RunTypes
<1>4. CASE DropRun BY <1>4 DEF DropRun, Types, RunTypes, FinalStatuses
<1>5. CASE UNCHANGED serverVars BY <1>1, <1>5 DEF serverVars, mgrVars
<1>6. CASE Step
  BY <1>1, <1>2, <1>3, <1>4, <1>6
  DEF Step, AddUserMessage, LinkRun, Turns, Conclude, Release, FinishBus,
      DeadlinePasses, CloseStepOf, ClaimClosure, EmitTerminal, Reply, DeleteChat,
      PurgeRun, DropChat, Serves, mgrVars, threadVars
<1>7. QED BY <1>5, <1>6, Steps

LEMMA TellKept ==
    ASSUME Inv, MgrTyped, PurgeInv, Fits, TellInv, [MgrNext]_serverVars
    PROVE  TellInv'
<1> USE DEF Inv, ClosureInv, MgrTyped
<1>1. ASSUME NEW t \in Threads, closing'[t].step \in {"claim", "emit", "settle"}
      PROVE  Verdict(closing'[t])
  <2>1. CASE closing'[t] = closing[t] BY <1>1, <2>1 DEF TellInv
  <2>2. CASE /\ closing[t].step \in {"claim", "emit"}
             /\ closing'[t].type = closing[t].type
             /\ closing'[t].status = closing[t].status
    BY <2>2 DEF TellInv, Verdict
  <2>3. QED BY <1>1, <2>1, <2>2, VerdictsMove
<1>2. ASSUME NEW t \in Threads, closing'[t].step = "settle", status'[RunOf(t)] # "absent"
      PROVE  \/ pub'[t].pc = "append" /\ pub'[t].event.type = closing'[t].type
             \/ \E i \in DOMAIN history'[RunOf(t)] :
                   history'[RunOf(t)][i].type = closing'[t].type
  <2>1. RunOf(t) \in Runs BY ThreadOf
  <2>2. CASE EmitTerminal(t) /\ closing'[t].type = closing[t].type
    <3>1. StartPublish(t, RunOf(t), closing[t].type) /\ closing[t].type \in TerminalTypes
      BY <2>2 DEF EmitTerminal, Types, RunTypes
    <3>2. pub'[t].pc = "append" /\ pub'[t].event.type = closing[t].type
      BY <2>1, <3>1, StartsEvent DEF DurableTypes
    <3>3. QED BY <2>2, <3>2
  <2>3. CASE closing'[t] = closing[t]
    <3>1. worker[RunOf(t)] # "new" BY <1>2, <2>3, CloserIsOld
    <3>2. Registered(RunOf(t)) BY <1>2, <2>1, <3>1, RunGoesOn DEF GoesOn, Registered
    <3>3. EventComes(t) BY <1>2, <2>3, <3>2 DEF TellInv
    <3>4. CASE pub[t].pc = "append" /\ pub[t].event.type = closing[t].type
      <4>1. CASE pub'[t] = pub[t] BY <2>3, <3>4, <4>1
      <4>2. CASE AppendStep(t) BY <2>3, <3>4, <4>2, AppendedIsThere
      <4>3. QED BY <3>4, <4>1, <4>2, AppendWaits
    <3>5. CASE \E i \in DOMAIN history[RunOf(t)] :
                  history[RunOf(t)][i].type = closing[t].type
      BY <2>1, <2>3, <3>2, <3>5, HistoryKeeps
    <3>6. QED BY <3>3, <3>4, <3>5 DEF EventComes
  <2>4. QED BY <1>2, <2>2, <2>3, VerdictsMove
<1>3. ASSUME NEW r \in Runs, status'[r] \in FinalStatuses
      PROVE  \E i \in DOMAIN history'[r] :
                /\ history'[r][i].type \in TerminalTypes
                /\ history'[r][i].type = "run_failed" => status'[r] = "failed"
  <2>1. CASE status[r] = status'[r]
    <3>1. Registered(r) BY <1>3, <2>1 DEF Registered, FinalStatuses
    <3>2. PICK i \in DOMAIN history[r] :
                /\ history[r][i].type \in TerminalTypes
                /\ history[r][i].type = "run_failed" => status[r] = "failed"
      BY <1>3, <2>1 DEF TellInv, StatusTellsEvent, IsTerminal
    <3>3. i \in DOMAIN history'[r] /\ history'[r][i] = history[r][i]
      BY <3>1, <3>2, HistoryKeeps
    <3>4. QED BY <2>1, <3>2, <3>3
  <2>2. ASSUME NEW t \in Threads, RunOf(t) = r, SettleStatus(t), Registered(r),
               status'[r] = closing[t].status
        PROVE  \E i \in DOMAIN history'[r] :
                  /\ history'[r][i].type \in TerminalTypes
                  /\ history'[r][i].type = "run_failed" => status'[r] = "failed"
    <3>1. closing[t].step = "settle" /\ pub[t].pc = "idle"
          /\ closing[t].type \in TerminalTypes /\ Verdict(closing[t])
          /\ history' = history
      BY <2>2 DEF SettleStatus, Free, busVars, Types, RunTypes, TellInv
    <3>2. PICK i \in DOMAIN history[r] : history[r][i].type = closing[t].type
      BY <2>2, <3>1 DEF TellInv, EventComes
    <3>3. QED BY <2>2, <3>1, <3>2 DEF Verdict
  <2>3. QED BY <1>3, <2>1, <2>2, StatusMoves
<1>4. StatusTellsEvent' BY <1>3 DEF StatusTellsEvent, IsTerminal
<1>5. QED BY <1>1, <1>2, <1>4 DEF TellInv, EventComes, Registered

LEMMA ClosuresBegin ==
    ASSUME Init
    PROVE  PurgeInv /\ ClosureCarriedOut /\ TellInv
<1> USE DEF Init, MgrInit
<1>1. PurgeInv BY DEF PurgeInv, NoDeletion
<1>2. ClosureCarriedOut BY DEF ClosureCarriedOut
<1>3. \A t \in Threads : closing[t].step = "none" BY DEF NotClosing
<1>4. StatusTellsEvent BY DEF StatusTellsEvent, FinalStatuses
<1>5. QED BY <1>1, <1>2, <1>3, <1>4 DEF TellInv

LEMMA AlwaysPurged == Spec => []PurgeInv
<1>1. Init => PurgeInv BY ClosuresBegin
<1>2. Inv /\ PlaceInv /\ PurgeInv /\ [MgrNext]_serverVars => PurgeInv' BY PurgeKept
<1>3. QED BY <1>1, <1>2, Always, PTL DEF Spec

-----------------------------------------------------------------------------
(***************************************************************************)
(* The theorems.                                                           *)
(***************************************************************************)

\* _finish_run is first-wins for any number of runs and any interleaving of
\* worker, crash handler, supervisor and deletion: the history of a run never
\* holds two terminal events.
THEOREM TerminalOnce == Spec => []OneTerminal
BY Always, PTL DEF Inv

\* A turn leaves one assistant message in its chat at most, and leaves it after
\* the status was settled.
THEOREM ReplyOnce == Spec => []OneReply
BY Always, PTL DEF Inv

\* The status of a completed or failed run changes only when the run is
\* deleted: neither _set of a late thread nor the start of another undoes it.
THEOREM FinalForGood == Spec => StatusIsFinal
<1>1. Inv /\ [MgrNext]_serverVars => StatusKept BY Invariance
<1>2. StatusKept => [\A r \in Runs : status[r] \in FinalStatuses =>
                         status'[r] \in {status[r], "absent"}]_serverVars
  BY DEF StatusKept
<1>3. QED BY <1>1, <1>2, Always, PTL DEF Spec, StatusIsFinal

\* A chat or a case is never busy with a run that is over.
THEOREM BusyMeansAtWork == Spec => []ReservationIsLive
BY Always, PTL DEF PlaceInv

\* One turn at a time: in a case always, in a chat until a chat is deleted.
THEOREM OneAtATime == Spec => []OneTurnPerPlace
<1>1. PlaceInv => OneTurnPerPlace BY DEF PlaceInv, HoldsInv, OneTurnPerPlace
<1>2. QED BY <1>1, Always, PTL

\* Every variable of the manager and of the bus holds a value of its kind; no
\* history outgrows its cap and no queue its size.
THEOREM ManagerTypes == Spec => []MgrTypeOK
<1>1. Inv /\ MgrTyped => MgrTypeOK BY TypesMeanTypeOK DEF Inv, ClosureInv
<1>2. QED BY <1>1, Always, AlwaysTyped, PTL

\* A turn announces at most three events besides those it emits, and its run
\* has one terminal event: where the cap of the history allows for that, no
\* event finds the history full.
THEOREM RoomForAll ==
    ASSUME MaxEmits + 4 <= MaxHistory
    PROVE  Spec => []Fits
<1>1. Inv /\ MgrTyped /\ CountInv => Fits BY CountFits
<1>2. QED BY <1>1, AlwaysCounted, PTL

\* While no history is full, a claimed closure is carried out: the thread that
\* claimed it has yet to publish, or the terminal event is in the history.
THEOREM ClosuresCarriedOut == Spec /\ []Fits => []ClosureCarriedOut
<1>1. Init => ClosureCarriedOut BY ClosuresBegin
<1>2. Inv /\ MgrTyped /\ PurgeInv /\ Fits /\ ClosureCarriedOut /\ [MgrNext]_serverVars
      => ClosureCarriedOut'
  BY CarriedOn
<1>3. QED BY <1>1, <1>2, Always, AlwaysTyped, AlwaysPurged, PTL DEF Spec

\* While no history is full, a final status has its terminal event beside it,
\* and a failure is not called completed.
THEOREM StatusesTell == Spec /\ []Fits => []StatusTellsEvent
<1>1. Init => TellInv BY ClosuresBegin
<1>2. Inv /\ MgrTyped /\ PurgeInv /\ Fits /\ TellInv /\ [MgrNext]_serverVars
      => TellInv'
  BY TellKept
<1>3. TellInv => StatusTellsEvent BY DEF TellInv
<1>4. QED BY <1>1, <1>2, <1>3, Always, AlwaysTyped, AlwaysPurged, PTL DEF Spec

\* Both hold without a condition on the run of the server where the cap leaves
\* room for what a turn may publish.
THEOREM ClosuresToldWithRoom ==
    ASSUME MaxEmits + 4 <= MaxHistory
    PROVE  Spec => [](ClosureCarriedOut /\ StatusTellsEvent)
<1>1. Spec => []Fits BY RoomForAll
<1>2. QED BY <1>1, ClosuresCarriedOut, StatusesTell, PTL
=============================================================================
