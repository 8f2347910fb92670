----------------------------- MODULE RunManager -----------------------------
(***************************************************************************)
(* RunManager of runtime/server.py with ChatManager of runtime/agent/      *)
(* chats.py: the runs of one server process, each carried first by the     *)
(* request that creates it and then by the worker thread that request      *)
(* starts, the supervisor thread that closes an agent run at its deadline, *)
(* and the deletion of a chat with the runs it lists.                      *)
(*                                                                         *)
(* A step is one critical section, or one call of the bus step.  What an   *)
(* agent turn says is left out: a turn is the path it takes, the events it *)
(* publishes, how it ends and the reply it leaves in the chat.             *)
(***************************************************************************)
EXTENDS EventBus

CONSTANTS Chats,      \* chat ids: one agent turn at a time each
          Cases,      \* demo cases: one demo run at a time each
          MaxEmits,   \* bound: progress events and deltas of turns
          MaxDeletes, \* bound: deletions of chats
          MaxExtras,  \* bound: emissions and deletions together
          MaxLates    \* bound: deadlines that pass

ASSUME MaxEmitsAssumption == MaxEmits \in Nat
ASSUME MaxDeletesAssumption == MaxDeletes \in Nat
ASSUME MaxLatesAssumption == MaxLates \in Nat
ASSUME PlacesAssumption == /\ Chats \cap Cases = {}
                           /\ "none" \notin Chats \cup Cases \cup Runs
ASSUME ThreadsAssumption == Threads = {"worker", "deadline"} \X Runs

Places == Chats \cup Cases
NoRun == "none"
NoPlace == "none"

VARIABLES status,      \* _runs: "absent" outside the registry
          home,        \* the chat or the case of each run
          occupant,    \* _active_chat and, for cases, _active
          finished,    \* _closed: runs whose closure somebody claimed
          known,       \* the chats that exist
          transcript,  \* messages of each chat: [who, run]
          chatRuns,    \* runs of each chat, as linked
          worker,      \* the request, then the worker thread, of each run
          deadline,    \* the supervisor thread of each agent run
          closing,     \* how far each thread is in closing its run
          deletion,    \* the DELETE request in progress
          emits,       \* how much of MaxEmits is spent
          deletes      \* how much of MaxDeletes is spent

mgrVars == <<status, home, occupant, finished, known, transcript,
             chatRuns, worker, deadline, closing, deletion, emits, deletes>>

W(r) == <<"worker", r>>
D(r) == <<"deadline", r>>
RunOf(t) == t[2]

FinalStatuses == {"completed", "failed"}
Registered(r) == status[r] # "absent"
IsAgent(r) == home[r] \in Chats

\* Where a run's request or worker is.
WorkerPCs == {"new", "say", "link", "raised",                     \* request
              "thread", "announce", "classify", "unavailable",    \* worker
              "qa", "answered", "work", "delta", "crash",
              "closing", "finish", "ended"}
\* run_done is set first in the finally block of the worker.
RunDone(r) == worker[r] \in {"finish", "ended"}

NotClosing == [step |-> "none", type |-> "none", status |-> "none"]
CloseSteps == {"none", "claim", "emit", "settle", "reply", "done"}
NoDeletion == [pc |-> "idle", chat |-> NoPlace, todo |-> <<>>]

MgrInit ==
    /\ status = [r \in Runs |-> "absent"]
    /\ home = [r \in Runs |-> NoPlace]
    /\ occupant = [p \in Places |-> NoRun]
    /\ finished = {}
    /\ known = {}
    /\ transcript = [c \in Chats |-> <<>>]
    /\ chatRuns = [c \in Chats |-> <<>>]
    /\ worker = [r \in Runs |-> "new"]
    /\ deadline = [r \in Runs |-> "none"]
    /\ closing = [t \in Threads |-> NotClosing]
    /\ deletion = NoDeletion
    /\ emits = 0
    /\ deletes = 0

\* _set: a run that left the registry is not written.
Set(r, s) == IF Registered(r) THEN [status EXCEPT ![r] = s] ELSE status

GoTo(r, pc) == worker' = [worker EXCEPT ![r] = pc]

\* The groups of variables the steps below leave alone.
chatVars == <<known, transcript, chatRuns>>
delVars == <<deletion, deletes>>
threadVars == <<deadline, closing, finished>>

-----------------------------------------------------------------------------
(***************************************************************************)
(* The request that creates a run.                                         *)
(***************************************************************************)

\* Mutant: a busy chat is not refused.
ReserveChatUnchecked(r, c) ==
    /\ worker[r] = "new"
    /\ status' = [status EXCEPT ![r] = "queued"]
    /\ home' = [home EXCEPT ![r] = c]
    /\ occupant' = [occupant EXCEPT ![c] = r]
    /\ known' = known \cup {c}
    /\ GoTo(r, "say")
    /\ UNCHANGED <<transcript, chatRuns, emits, threadVars, delVars, busVars>>

\* create_agent_run up to get_or_create: the chat is reserved and the run
\* registered under one lock.  A busy chat is answered 409.
ReserveChat(r, c) ==
    /\ worker[r] = "new"
    /\ occupant[c] = NoRun
    /\ status' = [status EXCEPT ![r] = "queued"]
    /\ home' = [home EXCEPT ![r] = c]
    /\ occupant' = [occupant EXCEPT ![c] = r]
    /\ known' = known \cup {c}
    /\ GoTo(r, "say")
    /\ UNCHANGED <<transcript, chatRuns, emits, threadVars, delVars, busVars>>

\* add_user_message: a chat deleted meanwhile is a KeyError, and the run is
\* left registered, its chat reserved and no thread started.
AddUserMessage(r) ==
    /\ worker[r] = "say"
    /\ IF home[r] \in known
       THEN /\ transcript' = [transcript EXCEPT ![home[r]] =
                                Append(@, [who |-> "user", run |-> r])]
            /\ GoTo(r, "link")
       ELSE GoTo(r, "raised") /\ UNCHANGED transcript
    /\ UNCHANGED <<status, home, occupant, known, chatRuns, emits, threadVars,
                   delVars, busVars>>

\* link_run and the start of the worker thread.
LinkRun(r) ==
    /\ worker[r] = "link"
    /\ IF home[r] \in known
       THEN /\ chatRuns' = [chatRuns EXCEPT ![home[r]] = Append(@, r)]
            /\ GoTo(r, "thread")
       ELSE GoTo(r, "raised") /\ UNCHANGED chatRuns
    /\ UNCHANGED <<status, home, occupant, known, transcript, emits, threadVars,
                   delVars, busVars>>

\* create_run: the demo run of a case.
CreateRun(r, k) ==
    /\ worker[r] = "new"
    /\ occupant[k] = NoRun
    /\ status' = [status EXCEPT ![r] = "queued"]
    /\ home' = [home EXCEPT ![r] = k]
    /\ occupant' = [occupant EXCEPT ![k] = r]
    /\ GoTo(r, "thread")
    /\ UNCHANGED <<chatVars, emits, threadVars, delVars, busVars>>

-----------------------------------------------------------------------------
(***************************************************************************)
(* The worker thread: _agent_worker, and _worker for a demo run.           *)
(***************************************************************************)

\* The run is running; an agent run gets its supervisor.
Begin(r) ==
    /\ worker[r] = "thread"
    /\ status' = Set(r, "running")
    /\ deadline' = IF IsAgent(r) THEN [deadline EXCEPT ![r] = "waiting"]
                                 ELSE deadline
    /\ GoTo(r, "announce")
    /\ UNCHANGED <<home, occupant, finished, closing, emits, chatVars,
                   delVars, busVars>>

Announce(r) ==
    /\ worker[r] = "announce"
    /\ StartPublish(W(r), r, "run_started")
    /\ GoTo(r, IF IsAgent(r) THEN "classify" ELSE "work")
    /\ UNCHANGED <<status, home, occupant, emits, chatVars, threadVars, delVars>>

\* The intent layer: its event, and the path the turn takes.
Classify(r) ==
    /\ worker[r] = "classify"
    /\ StartPublish(W(r), r, "progress")
    /\ \E path \in {"unavailable", "qa", "work"} : GoTo(r, path)
    /\ UNCHANGED <<status, home, occupant, emits, chatVars, threadVars, delVars>>

\* The intent layer raises: what follows it still reads its result, so the
\* turn crashes unless the result was there and names no product question.
ShadowFails(r) ==
    /\ worker[r] = "classify"
    /\ Free(W(r))
    /\ \E path \in {"crash", "work"} : GoTo(r, path)
    /\ UNCHANGED <<status, home, occupant, emits, chatVars, threadVars, delVars,
                   busVars>>

\* The tap of a demo run delivers while the run owns its case.
Tap(r) == Registered(r) /\ occupant[home[r]] = r

\* A durable event of the turn, published without a look at _closed.
Emit(r) ==
    /\ worker[r] \in {"qa", "work"}
    /\ emits < MaxEmits
    /\ emits + deletes < MaxExtras
    /\ IsAgent(r) \/ Tap(r)
    /\ StartPublish(W(r), r, "progress")
    /\ emits' = emits + 1
    /\ UNCHANGED <<status, home, occupant, worker, chatVars, threadVars, delVars>>

\* _qa_emit of a text delta: no look at _closed either.
QADelta(r) ==
    /\ worker[r] = "qa"
    /\ emits < MaxEmits
    /\ emits + deletes < MaxExtras
    /\ StartTransient(W(r), r)
    /\ emits' = emits + 1
    /\ UNCHANGED <<status, home, occupant, worker, chatVars, threadVars, delVars>>

\* emit of a text delta: the look at _closed under the lock ...
CheckDelta(r) ==
    /\ worker[r] = "work"
    /\ IsAgent(r)
    /\ Free(W(r))
    /\ emits < MaxEmits
    /\ emits + deletes < MaxExtras
    /\ r \notin finished
    /\ emits' = emits + 1
    /\ GoTo(r, "delta")
    /\ UNCHANGED <<status, home, occupant, chatVars, threadVars, delVars, busVars>>

\* ... and the publication outside it.
SendDelta(r) ==
    /\ worker[r] = "delta"
    /\ StartTransient(W(r), r)
    /\ GoTo(r, "work")
    /\ UNCHANGED <<status, home, occupant, emits, chatVars, threadVars, delVars>>

\* The QA turn ends without an answer, or raises: the agent path takes over.
QAFallsThrough(r) ==
    /\ worker[r] = "qa"
    /\ Free(W(r))
    /\ GoTo(r, "work")
    /\ UNCHANGED <<status, home, occupant, emits, chatVars, threadVars, delVars,
                   busVars>>

QAAnswered(r) ==
    /\ worker[r] = "qa"
    /\ StartPublish(W(r), r, "progress")
    /\ GoTo(r, "answered")
    /\ UNCHANGED <<status, home, occupant, emits, chatVars, threadVars, delVars>>

\* Mutant: the outcome of the turn is taken for the status of the run.
AgentOutcomesUnmapped ==
    [unavailable |-> {<<"run_failed", "failed">>},
     answered    |-> {<<"run_completed", "INSUFFICIENT_INFO">>},
     work        |-> {<<"run_completed", "completed">>},
     crash       |-> {<<"run_failed", "failed">>}]

\* How a worker's turn can end: from where, with which event and status.  A
\* demo run closes without _finish_run and takes the event from _TERMINAL.
AgentOutcomes ==
    [unavailable |-> {<<"run_failed", "failed">>},
     answered    |-> {<<"run_completed", "completed">>},
     work        |-> {<<"run_completed", "completed">>,
                      <<"run_completed", "failed">>, <<"run_failed", "failed">>},
     crash       |-> {<<"run_failed", "failed">>}]
DemoOutcomes == {<<"run_completed", "completed">>, <<"run_failed", "failed">>}

Conclude(r) ==
    /\ worker[r] \in DOMAIN AgentOutcomes
    /\ Free(W(r))
    /\ \E o \in IF IsAgent(r) THEN AgentOutcomes[worker[r]] ELSE DemoOutcomes :
          closing' = [closing EXCEPT ![W(r)] =
                        [step |-> IF IsAgent(r) THEN "claim" ELSE "emit",
                         type |-> o[1], status |-> o[2]]]
    /\ GoTo(r, "closing")
    /\ UNCHANGED <<status, home, occupant, finished, deadline, emits,
                   chatVars, delVars, busVars>>

\* Mutant: the finally block forgets the chat.
ReleaseKeeping(r) ==
    /\ worker[r] = "closing"
    /\ closing[W(r)].step = "done"
    /\ GoTo(r, "finish")
    /\ UNCHANGED <<status, home, occupant, finished, deadline, closing, emits,
                   chatVars, delVars, busVars>>

\* The finally block: run_done is set, and the chat or the case given back,
\* whoever occupies it by now.
Release(r) ==
    /\ worker[r] = "closing"
    /\ closing[W(r)].step = "done"
    /\ occupant' = [occupant EXCEPT ![home[r]] = NoRun]
    /\ GoTo(r, "finish")
    /\ UNCHANGED <<status, home, finished, deadline, closing, emits, chatVars,
                   delVars, busVars>>

FinishBus(r) ==
    /\ worker[r] = "finish"
    /\ StartFinish(W(r), r)
    /\ GoTo(r, "ended")
    /\ UNCHANGED <<status, home, occupant, emits, chatVars, threadVars, delVars>>

-----------------------------------------------------------------------------
(***************************************************************************)
(* The supervisor thread, and _finish_run as any thread runs it.           *)
(***************************************************************************)

\* Mutant: the supervisor marks the run closed before it calls _finish_run.
DeadlinePassesClosing(r) ==
    /\ deadline[r] = "waiting"
    /\ ~RunDone(r)
    /\ deadline' = [deadline EXCEPT ![r] = "late"]
    /\ finished' = finished \cup {r}
    /\ closing' = [closing EXCEPT ![D(r)] = [step |-> "claim",
                                 type |-> "run_failed", status |-> "failed"]]
    /\ UNCHANGED <<status, home, occupant, worker, emits, chatVars, delVars,
                   busVars>>

\* run_done.wait timed out; once run_done is set the thread just returns, and
\* it has no step here.
DeadlinePasses(r) ==
    /\ deadline[r] = "waiting"
    /\ ~RunDone(r)
    /\ Cardinality({q \in Runs : deadline[q] = "late"}) < MaxLates
    /\ deadline' = [deadline EXCEPT ![r] = "late"]
    /\ closing' = [closing EXCEPT ![D(r)] = [step |-> "claim",
                                 type |-> "run_failed", status |-> "failed"]]
    /\ UNCHANGED <<status, home, occupant, finished, worker, emits,
                   chatVars, delVars, busVars>>

StepTo(t, step) ==
    closing' = [closing EXCEPT ![t] =
                  IF step = "done" THEN [NotClosing EXCEPT !.step = step]
                                   ELSE [@ EXCEPT !.step = step]]

\* Mutants: _closed is not asked; it is written together with the status, before
\* the event; the loser skips the event and still writes status and reply.
ClaimClosureAlways(t) ==
    /\ closing[t].step = "claim"
    /\ StepTo(t, "emit")
    /\ finished' = finished \cup {RunOf(t)}
    /\ UNCHANGED <<status, home, occupant, worker, deadline, emits,
                   chatVars, delVars, busVars>>
ClaimClosureSettling(t) ==
    /\ closing[t].step = "claim"
    /\ RunOf(t) \notin finished
    /\ StepTo(t, "emit")
    /\ finished' = finished \cup {RunOf(t)}
    /\ status' = Set(RunOf(t), closing[t].status)
    /\ UNCHANGED <<home, occupant, worker, deadline, emits, chatVars, delVars,
                   busVars>>
ClaimClosureLoserSettles(t) ==
    /\ closing[t].step = "claim"
    /\ StepTo(t, IF RunOf(t) \in finished THEN "settle" ELSE "emit")
    /\ finished' = finished \cup {RunOf(t)}
    /\ UNCHANGED <<status, home, occupant, worker, deadline, emits,
                   chatVars, delVars, busVars>>

\* The first caller wins; a later one returns False.
ClaimClosure(t) ==
    /\ closing[t].step = "claim"
    /\ IF RunOf(t) \in finished
       THEN StepTo(t, "done") /\ UNCHANGED finished
       ELSE StepTo(t, "emit") /\ finished' = finished \cup {RunOf(t)}
    /\ UNCHANGED <<status, home, occupant, worker, deadline, emits,
                   chatVars, delVars, busVars>>

EmitTerminal(t) ==
    /\ closing[t].step = "emit"
    /\ StartPublish(t, RunOf(t), closing[t].type)
    /\ StepTo(t, "settle")
    /\ UNCHANGED <<status, home, occupant, finished, worker, deadline,
                   emits, chatVars, delVars>>

SettleStatus(t) ==
    /\ closing[t].step = "settle"
    /\ Free(t)
    /\ status' = Set(RunOf(t), closing[t].status)
    /\ StepTo(t, IF IsAgent(RunOf(t)) THEN "reply" ELSE "done")
    /\ UNCHANGED <<home, occupant, finished, worker, deadline, emits,
                   chatVars, delVars, busVars>>

\* add_assistant_message.  In a deleted chat it raises a KeyError, which ends
\* the supervisor, and which the worker answers with a second _finish_run
\* that returns False.
Reply(t) ==
    /\ closing[t].step = "reply"
    /\ transcript' =
         IF home[RunOf(t)] \in known
         THEN [transcript EXCEPT ![home[RunOf(t)]] =
                 Append(@, [who |-> "assistant", run |-> RunOf(t)])]
         ELSE transcript
    /\ StepTo(t, "done")
    /\ UNCHANGED <<status, home, occupant, finished, worker, deadline,
                   emits, known, chatRuns, delVars, busVars>>

CloseStepOf(t) == \/ ClaimClosure(t) \/ EmitTerminal(t)
                  \/ SettleStatus(t) \/ Reply(t)

-----------------------------------------------------------------------------
(***************************************************************************)
(* delete_consumer_chat.  Neither the worker nor the supervisor of a run   *)
(* it drops is told.                                                       *)
(***************************************************************************)

DeleteChat(c) ==
    /\ deletion.pc = "idle"
    /\ deletes < MaxDeletes
    /\ emits + deletes < MaxExtras
    /\ c \in known
    /\ deletion' = [pc |-> "cascade", chat |-> c, todo |-> chatRuns[c]]
    /\ deletes' = deletes + 1
    /\ UNCHANGED <<status, home, occupant, worker, emits, chatVars, threadVars,
                   busVars>>

\* The registry and the reservations, under the lock of the manager ...
DropRun ==
    LET r == Head(deletion.todo)
    IN  /\ deletion.pc = "cascade"
        /\ deletion.todo # <<>>
        /\ status' = [status EXCEPT ![r] = "absent"]
        /\ occupant' = [p \in Places |-> IF occupant[p] = r THEN NoRun
                                                            ELSE occupant[p]]
        /\ deletion' = [deletion EXCEPT !.pc = "purge"]
        /\ UNCHANGED <<home, worker, emits, deletes, chatVars, threadVars,
                       busVars>>

\* ... and then the events, under the lock of the bus.
PurgeRun ==
    /\ deletion.pc = "purge"
    /\ Purge(Head(deletion.todo))
    /\ deletion' = [deletion EXCEPT !.pc = "cascade", !.todo = Tail(@)]
    /\ UNCHANGED <<status, home, occupant, worker, emits, deletes, chatVars,
                   threadVars>>

DropChat ==
    LET c == deletion.chat
    IN  /\ deletion.pc = "cascade"
        /\ deletion.todo = <<>>
        /\ known' = known \ {c}
        /\ transcript' = [transcript EXCEPT ![c] = <<>>]
        /\ chatRuns' = [chatRuns EXCEPT ![c] = <<>>]
        /\ deletion' = NoDeletion
        /\ UNCHANGED <<status, home, occupant, worker, emits, deletes,
                       threadVars, busVars>>

-----------------------------------------------------------------------------
\* What a worker does between the creation of its thread and its turn's work.
WorkerStarts(r) == Begin(r) \/ Announce(r) \/ Classify(r) \/ ShadowFails(r)
\* What it does in the turn: no bound on how long.
WorkerWorks(r) == \/ Emit(r) \/ QADelta(r) \/ CheckDelta(r) \/ SendDelta(r)
                  \/ QAFallsThrough(r) \/ QAAnswered(r) \/ Conclude(r)
WorkerEnds(r) == CloseStepOf(W(r)) \/ Release(r) \/ FinishBus(r)
Request(r) == AddUserMessage(r) \/ LinkRun(r)
Supervise(r) == DeadlinePasses(r) \/ CloseStepOf(D(r))
Delete == DropRun \/ PurgeRun \/ DropChat

MgrNext ==
    \/ \E r \in Runs : \/ \E c \in Chats : ReserveChat(r, c)
                       \/ \E k \in Cases : CreateRun(r, k)
                       \/ Request(r) \/ WorkerStarts(r) \/ WorkerWorks(r)
                       \/ WorkerEnds(r) \/ Supervise(r)
    \/ \E c \in Chats : DeleteChat(c)
    \/ Delete
    \/ \E t \in Threads : PublishStep(t) /\ UNCHANGED mgrVars

serverVars == <<busVars, mgrVars>>
Init == BusInit /\ MgrInit
Spec == Init /\ [][MgrNext]_serverVars

-----------------------------------------------------------------------------
(***************************************************************************)
(* What holds of the server, deletions and deadlines included.             *)
(***************************************************************************)

\* Every variable holds a value of the kind its declaration describes.
MgrTypeOK ==
    /\ BusTypeOK
    /\ status \in [Runs -> {"absent", "queued", "running"} \cup FinalStatuses]
    /\ home \in [Runs -> Places \cup {NoPlace}]
    /\ occupant \in [Places -> Runs \cup {NoRun}]
    /\ finished \subseteq Runs
    /\ known \subseteq Chats
    /\ \A c \in Chats :
          /\ transcript[c] \in Seq([who : {"user", "assistant"}, run : Runs])
          /\ chatRuns[c] \in Seq(Runs)
    /\ worker \in [Runs -> WorkerPCs]
    /\ deadline \in [Runs -> {"none", "waiting", "late"}]
    /\ closing \in [Threads -> [step : CloseSteps,
                                type : TerminalTypes \cup {"none"},
                                status : FinalStatuses \cup {"none"}]]
    /\ deletion.pc \in {"idle", "cascade", "purge"}
    /\ deletion.chat \in Chats \cup {NoPlace}
    /\ deletion.todo \in Seq(Runs)
    /\ emits \in 0 .. MaxEmits
    /\ deletes \in 0 .. MaxDeletes

HasTerminal(events) == \E i \in DOMAIN events : IsTerminal(events[i])

\* The promise of _finish_run, "exactly one terminal event per run no matter
\* which path fires": the worker, its crash handler and the supervisor race to
\* close the run, and its history never holds two terminal events.
OneTerminal ==
    \A r \in Runs : \A i, j \in DOMAIN history[r] :
        IsTerminal(history[r][i]) /\ IsTerminal(history[r][j]) => i = j

\* A closure that was claimed is carried out: the thread that won still has
\* the terminal event to publish, or the event is in the history.  The loser
\* returns at once, so that if it had taken the claim the run would stay open.
Closes(t) == \/ closing[t].step = "emit"
             \/ pub[t].pc = "append" /\ IsTerminal(pub[t].event)
ClosureCarriedOut ==
    \A r \in finished : \/ HasTerminal(history[r])
                        \/ Closes(W(r)) \/ Closes(D(r))
                        \/ ~Registered(r)

\* A reader of GET /runs that is told a final status finds the terminal event
\* in the events, and a run that failed to finish is not called completed: the
\* status is written by the thread that published, after it published.
StatusTellsEvent ==
    \A r \in Runs : status[r] \in FinalStatuses =>
        \E i \in DOMAIN history[r] :
            /\ IsTerminal(history[r][i])
            /\ history[r][i].type = "run_failed" => status[r] = "failed"

\* The chat gets one answer per turn (the "single-write" of _finish_run),
\* and gets it after the status says that the turn is over.
Replies(c, r) == {i \in DOMAIN transcript[c] :
                    transcript[c][i] = [who |-> "assistant", run |-> r]}
OneReply ==
    \A c \in Chats, r \in Runs : Replies(c, r) # {} =>
        /\ \E i \in DOMAIN transcript[c] : Replies(c, r) = {i}
        /\ status[r] \in FinalStatuses \cup {"absent"}

\* One agent turn at a time per chat, one demo run at a time per case, from
\* the reservation to the end of the thread.  For chats it stops being true
\* with the first deletion: the turn goes on, its place is given away.
AtWork(r) == worker[r] \notin {"new", "raised", "finish", "ended"}
OneTurnPerPlace ==
    \A q, r \in Runs :
        /\ AtWork(q) /\ AtWork(r) /\ home[q] = home[r]
        /\ home[q] \in Cases \/ deletes = 0
        => q = r

\* A chat or a case is never found busy with a run that is over, whatever was
\* deleted meanwhile: only a request that failed half way keeps its chat.
ReservationIsLive ==
    \A p \in Places, r \in Runs :
        occupant[p] = r => home[r] = p /\ (AtWork(r) \/ worker[r] = "raised")

\* A run that is completed or failed stays so until it is deleted, whichever
\* thread comes late.
StatusIsFinal ==
    [][\A r \in Runs : status[r] \in FinalStatuses =>
                          status'[r] \in {status[r], "absent"}]_serverVars
=============================================================================
