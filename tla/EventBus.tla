------------------------------ MODULE EventBus ------------------------------
(***************************************************************************)
(* The event bus of runtime/event_bus.py: the history of each run, the     *)
(* bounded queue of each subscription, and the steps in which a thread     *)
(* publishes.  A thread reads the length of the history to number its      *)
(* event (RunManager._next_seq of server.py), appends the event under the  *)
(* lock, puts it into the queues outside the lock, and after a terminal    *)
(* event takes the lock once more to close the subscriptions.  Other       *)
(* threads may act between any two of these.                               *)
(*                                                                         *)
(* The actions here change the bus alone; RunManager conjoins them with    *)
(* what the calling thread does.                                           *)
(***************************************************************************)
EXTENDS SequencesExt, Naturals

CONSTANTS Runs,           \* run ids
          Threads,        \* threads that publish
          Subscriptions,  \* Subscription objects
          MaxHistory,     \* MAX_HISTORY_PER_RUN
          QueueSize       \* SUBSCRIBER_QUEUE_SIZE

ASSUME MaxHistoryAssumption == MaxHistory \in Nat \ {0}
ASSUME QueueSizeAssumption == QueueSize \in Nat \ {0}

VARIABLES history,  \* _history: run -> the events kept for replay
          done,     \* the keys of _done
          subs,     \* _subs: run -> its subscriptions
          closed,   \* the subscriptions whose flag closed is set
          queue,    \* the queue of each subscription
          dropped,  \* runs an event of which some Subscription counts as dropped
          pub       \* how far each thread is in a call of the bus

busVars == <<history, done, subs, closed, queue, dropped, pub>>

TerminalTypes == {"run_completed", "run_failed"}
DurableTypes == TerminalTypes \cup {"run_started", "progress"}

\* The only events without an event_id are the transient ones.
NoId == 0
Event(id, type) == [id |-> id, type |-> type]
Delta == Event(NoId, "delta")
CLOSED == Event(NoId, "CLOSED")
IsTerminal(e) == e.type \in TerminalTypes

Idle == [pc |-> "idle", run |-> "none", event |-> CLOSED, todo |-> {}]
PublishPCs == {"idle", "append", "snapshot", "put", "close", "sentinel"}

BusInit ==
    /\ history = [r \in Runs |-> <<>>]
    /\ done = {}
    /\ subs = [r \in Runs |-> {}]
    /\ closed = {}
    /\ queue = [s \in Subscriptions |-> <<>>]
    /\ dropped = {}
    /\ pub = [t \in Threads |-> Idle]

\* A thread acts on its own only while it is in no call of the bus.
Free(t) == pub[t].pc = "idle"

Live(r) == subs[r] \ closed

\* Mutant: a queue without a bound.
OfferUnbounded(q, item) == Append(q, item)

\* put_nowait: a full queue loses the item.
Offer(q, item) == IF Len(q) < QueueSize THEN Append(q, item) ELSE q

-----------------------------------------------------------------------------
(***************************************************************************)
(* publish, publish_transient and finish, one step at a time.              *)
(***************************************************************************)

\* _next_seq and the construction of the event: the id is the length the
\* history has now, not the one it has when the event is appended.
StartPublish(t, r, type) ==
    /\ Free(t)
    /\ pub' = [pub EXCEPT ![t] =
                 [pc |-> "append", run |-> r,
                  event |-> Event(Len(history[r]) + 1, type), todo |-> {}]]
    /\ UNCHANGED <<history, done, subs, closed, queue, dropped>>

StartTransient(t, r) ==
    /\ Free(t)
    /\ pub' = [pub EXCEPT ![t] = [pc |-> "snapshot", run |-> r,
                                  event |-> Delta, todo |-> {}]]
    /\ UNCHANGED <<history, done, subs, closed, queue, dropped>>

\* What a thread does once it holds the subscriptions to serve.
Serving(p, targets) ==
    IF targets # {} THEN [p EXCEPT !.todo = targets]
    ELSE IF p.pc = "put" /\ IsTerminal(p.event)
         THEN [p EXCEPT !.pc = "close", !.todo = {}]
         ELSE Idle

\* The locked part of publish.
AppendStep(t) ==
    LET p == pub[t]
        r == p.run
    IN  /\ p.pc = "append"
        /\ history' = [history EXCEPT ![r] =
                         IF Len(@) < MaxHistory THEN Append(@, p.event) ELSE @]
        /\ subs' = [subs EXCEPT ![r] = Live(r)]
        /\ done' = IF IsTerminal(p.event) THEN done \cup {r} ELSE done
        /\ pub' = [pub EXCEPT ![t] = Serving([p EXCEPT !.pc = "put"], Live(r))]
        /\ UNCHANGED <<closed, queue, dropped>>

\* The locked part of publish_transient.
SnapshotStep(t) ==
    /\ pub[t].pc = "snapshot"
    /\ pub' = [pub EXCEPT ![t] =
                 Serving([pub[t] EXCEPT !.pc = "put"], Live(pub[t].run))]
    /\ UNCHANGED <<history, done, subs, closed, queue, dropped>>

\* One put_nowait of publish or publish_transient, outside the lock.  In what
\* order the subscriptions are served is left open.
PutStep(t) ==
    LET p == pub[t]
    IN  /\ p.pc = "put"
        /\ \E s \in p.todo :
              /\ queue' = [queue EXCEPT ![s] = Offer(@, p.event)]
              /\ dropped' = IF Len(queue[s]) < QueueSize THEN dropped
                                                         ELSE dropped \cup {p.run}
              /\ pub' = [pub EXCEPT ![t] = Serving(p, p.todo \ {s})]
        /\ UNCHANGED <<history, done, subs, closed>>

\* finish: the run is done even if no terminal event was published.
StartFinish(t, r) ==
    /\ Free(t)
    /\ done' = done \cup {r}
    /\ pub' = [pub EXCEPT ![t] = [pc |-> "close", run |-> r,
                                  event |-> CLOSED, todo |-> {}]]
    /\ UNCHANGED <<history, subs, closed, queue, dropped>>

\* _close_subscribers: the copy of the list under the lock ...
CloseStep(t) ==
    /\ pub[t].pc = "close"
    /\ pub' = [pub EXCEPT ![t] =
                 Serving([pub[t] EXCEPT !.pc = "sentinel"], Live(pub[t].run))]
    /\ UNCHANGED <<history, done, subs, closed, queue, dropped>>

\* ... and the sentinel of one subscription outside it.
SentinelStep(t) ==
    LET p == pub[t]
    IN  /\ p.pc = "sentinel"
        /\ \E s \in p.todo :
              /\ queue' = [queue EXCEPT ![s] = Offer(@, CLOSED)]
              /\ closed' = closed \cup {s}
              /\ pub' = [pub EXCEPT ![t] = Serving(p, p.todo \ {s})]
        /\ UNCHANGED <<history, done, subs, dropped>>

PublishStep(t) == \/ AppendStep(t) \/ SnapshotStep(t) \/ PutStep(t)
                  \/ CloseStep(t) \/ SentinelStep(t)

-----------------------------------------------------------------------------
(***************************************************************************)
(* The side of the readers.                                                *)
(***************************************************************************)

\* events_for: strictly after the first event with that id; everything when
\* there is no cursor, nothing when the cursor is unknown.
EventsAfter(r, cursor) ==
    LET h == history[r]
        at == SelectInSeq(h, LAMBDA e : e.id = cursor)
    IN  IF cursor = NoId THEN h
        ELSE IF at = 0 THEN <<>> ELSE SubSeq(h, at + 1, Len(h))

\* A Subscription no thread is about to write to can stand for a new object.
Fresh(s) == /\ \A t \in Threads : s \notin pub[t].todo
            /\ \A r \in Runs : s \in subs[r] => s \in closed

\* subscribe.  What is left of an earlier use of s is garbage: a closed
\* subscription is filtered out wherever the list is read.
Subscribe(r, s) ==
    /\ Fresh(s)
    /\ subs' = [q \in Runs |-> IF q = r THEN subs[q] \cup {s}
                                        ELSE subs[q] \ {s}]
    /\ closed' = closed \ {s}
    /\ queue' = [queue EXCEPT ![s] = <<>>]
    /\ UNCHANGED <<history, done, dropped, pub>>

\* purge: what it calls on a subscription, close, no Subscription has.
Purge(r) ==
    /\ history' = [history EXCEPT ![r] = <<>>]
    /\ done' = done \ {r}
    /\ subs' = [subs EXCEPT ![r] = {}]
    /\ UNCHANGED <<closed, queue, dropped, pub>>

BusTypeOK ==
    LET Events == [id : Nat, type : DurableTypes]
        Items == Events \cup {Delta, CLOSED}
    IN  /\ \A r \in Runs : /\ history[r] \in Seq(Events)
                           /\ Len(history[r]) <= MaxHistory
                           /\ subs[r] \subseteq Subscriptions
        /\ done \subseteq Runs
        /\ closed \subseteq Subscriptions
        /\ dropped \subseteq Runs
        /\ \A s \in Subscriptions : /\ queue[s] \in Seq(Items)
                                    /\ Len(queue[s]) <= QueueSize
        /\ \A t \in Threads : /\ pub[t].pc \in PublishPCs
                              /\ pub[t].run \in Runs \cup {"none"}
                              /\ pub[t].event \in Items
                              /\ pub[t].todo \subseteq Subscriptions
=============================================================================
