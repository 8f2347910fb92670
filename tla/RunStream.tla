----------------------------- MODULE RunStream ------------------------------
(***************************************************************************)
(* The event stream of a run as its readers see it: the generator          *)
(* _sse_generator of runtime/server.py at one end and the hook             *)
(* useRunStream of web/src/hooks/useRunStream.ts at the other, which       *)
(* reconnects with a cursor, drops what it has already shown and stops at  *)
(* the terminal event.                                                     *)
(***************************************************************************)
EXTENDS RunManager

CONSTANTS Viewers,  \* pages that watch a run
          MaxCuts   \* bound: connections the network cuts

ASSUME MaxCutsAssumption == MaxCuts \in Nat

VARIABLES viewer,   \* each page with the generator that serves it
          cuts      \* how much of MaxCuts is spent

vars == <<serverVars, viewer, cuts>>

\* idle: no run watched.  ready: no response open.  asked: the request passed
\* _require_run.  Then the steps of the generator that serves it, until the
\* page has shown the end or the server has answered 404.
ViewerPCs == {"idle", "ready", "asked", "replay", "check", "live",
              "satisfied", "refused"}
Connected == {"replay", "check", "live"}
NoSub == "none"

\* url: the after_event_id in the URL.  last: the browser's Last-Event-ID.
\* seen: the durable events shown.  wire: what was sent and not shown yet.
\* cur: the cursor of the generator.  sub: its Subscription.
NewViewer == [pc |-> "idle", run |-> NoRun, url |-> NoId, last |-> NoId,
              seen |-> <<>>, wire |-> <<>>, cur |-> NoId, sub |-> NoSub]

StreamInit ==
    /\ Init
    /\ viewer = [v \in Viewers |-> NewViewer]
    /\ cuts = 0

LastId(events, default) == IF events = <<>> THEN default ELSE Last(events).id

\* saveCursor: the id of the last event shown, in sessionStorage.
Saved(x) == LastId(x.seen, NoId)

\* The end of a response: unsubscribe.  No one reads the queue any more.
Hangup(x) == /\ closed' = closed \cup {x.sub}
             /\ queue' = [queue EXCEPT ![x.sub] = <<>>]
NoResponse(x) == [x EXCEPT !.pc = "ready", !.cur = NoId, !.sub = NoSub]
Satisfied(x) == [NewViewer EXCEPT !.pc = "satisfied", !.run = x.run,
                                  !.seen = x.seen]

StreamUnchanged == UNCHANGED <<history, done, dropped, pub, mgrVars>>

-----------------------------------------------------------------------------
(***************************************************************************)
(* The page.                                                               *)
(***************************************************************************)

\* The answer to the request that created the run has its id.
Told(r) == Registered(r) /\ worker[r] \notin {"new", "say", "link", "raised"}

\* prime: the page shows GET /events and takes its last id for the URL.
Watch(v, r) ==
    LET x == [NewViewer EXCEPT !.pc = "ready", !.run = r, !.seen = history[r],
                               !.url = LastId(history[r], NoId)]
    IN  /\ viewer[v].pc = "idle"
        /\ Told(r)
        /\ viewer' = [viewer EXCEPT ![v] =
                        IF HasTerminal(x.seen) THEN Satisfied(x) ELSE x]
        /\ UNCHANGED <<busVars, mgrVars, cuts>>

\* stream_run: _require_run, then the cursor of the URL or of the header.
Connect(v) ==
    LET x == viewer[v]
    IN  /\ x.pc = "ready"
        /\ x.wire = <<>>
        /\ viewer' = [viewer EXCEPT ![v] =
                        IF Registered(x.run)
                        THEN [x EXCEPT !.pc = "asked",
                              !.cur = IF x.url # NoId THEN x.url ELSE x.last]
                        ELSE [x EXCEPT !.pc = "refused"]]
        /\ UNCHANGED <<busVars, mgrVars, cuts>>

\* Mutant: the listener does not compare the event with the saved cursor.
ShowAgain(v) ==
    LET x == viewer[v]
        e == Head(x.wire)
        isNew == e.id # NoId
    IN  /\ x.wire # <<>>
        /\ viewer' = [viewer EXCEPT
             ![v] = [x EXCEPT !.wire = Tail(@),
                              !.last = IF isNew THEN e.id ELSE @,
                              !.seen = IF isNew THEN Append(@, e) ELSE @]]
        /\ UNCHANGED <<closed, queue, subs, cuts>>
        /\ StreamUnchanged

\* The listener of the hook.  A durable event at or below the saved cursor is
\* taken for a repetition, a transient one is not kept, and at the terminal
\* event the page closes the connection.
Show(v) ==
    LET x == viewer[v]
        e == Head(x.wire)
        isNew == e.id > Saved(x)
        y == [x EXCEPT !.wire = Tail(@),
                       !.last = IF e.id # NoId THEN e.id ELSE @,
                       !.seen = IF isNew THEN Append(@, e) ELSE @]
        ends == isNew /\ IsTerminal(e)
    IN  /\ x.wire # <<>>
        /\ viewer' = [viewer EXCEPT ![v] = IF ends THEN Satisfied(y) ELSE y]
        /\ IF ends /\ x.pc \in Connected THEN Hangup(x)
                                         ELSE UNCHANGED <<closed, queue>>
        /\ UNCHANGED <<subs, cuts>>
        /\ StreamUnchanged

\* The network drops the connection and what is on it; the browser will ask
\* again.
Cut(v) ==
    /\ viewer[v].pc \in Connected
    /\ cuts < MaxCuts
    /\ viewer' = [viewer EXCEPT ![v] = [NoResponse(@) EXCEPT !.wire = <<>>]]
    /\ Hangup(viewer[v])
    /\ cuts' = cuts + 1
    /\ UNCHANGED subs
    /\ StreamUnchanged

-----------------------------------------------------------------------------
(***************************************************************************)
(* _sse_generator.  It goes on when the page has taken what it sent.       *)
(***************************************************************************)

Listen(v, s) ==
    /\ viewer[v].pc = "asked"
    /\ \A u \in Viewers : viewer[u].sub # s
    /\ Subscribe(viewer[v].run, s)
    /\ viewer' = [viewer EXCEPT ![v].pc = "replay", ![v].sub = s]
    /\ UNCHANGED <<mgrVars, cuts>>

Send(x, events) == [x EXCEPT !.wire = events, !.cur = LastId(events, @)]

\* events_for after the cursor.
Replay(v) ==
    LET x == viewer[v]
    IN  /\ x.pc = "replay"
        /\ viewer' = [viewer EXCEPT ![v] =
                        [Send(x, EventsAfter(x.run, x.cur)) EXCEPT !.pc = "check"]]
        /\ UNCHANGED <<closed, queue, subs, cuts>>
        /\ StreamUnchanged

\* is_run_done: the response ends, and the browser will ask again.
CheckDone(v) ==
    LET x == viewer[v]
    IN  /\ x.pc = "check"
        /\ x.wire = <<>>
        /\ IF x.run \in done
           THEN /\ viewer' = [viewer EXCEPT ![v] = NoResponse(x)]
                /\ Hangup(x)
           ELSE /\ viewer' = [viewer EXCEPT ![v].pc = "live"]
                /\ UNCHANGED <<closed, queue>>
        /\ UNCHANGED <<subs, cuts>>
        /\ StreamUnchanged

\* The rest of the history after the cursor, and the end of the response.
TopUp(v) ==
    LET x == viewer[v]
    IN  /\ viewer' = [viewer EXCEPT ![v] =
                        NoResponse(Send(x, EventsAfter(x.run, x.cur)))]
        /\ Hangup(x)

\* sub.get returned an item of the queue; a transient one clears the cursor.
Receive(v) ==
    LET x == viewer[v]
        item == Head(queue[x.sub])
    IN  /\ x.pc = "live"
        /\ x.wire = <<>>
        /\ queue[x.sub] # <<>>
        /\ IF item = CLOSED THEN TopUp(v)
           ELSE /\ viewer' = [viewer EXCEPT ![v] = Send(x, <<item>>)]
                /\ queue' = [queue EXCEPT ![x.sub] = Tail(@)]
                /\ UNCHANGED closed
        /\ UNCHANGED <<subs, cuts>>
        /\ StreamUnchanged

\* Mutant: after a time-out the generator does not ask whether the run is done.
TimeOutDeaf(v) ==
    /\ viewer[v].pc = "live"
    /\ viewer[v].wire = <<>>
    /\ queue[viewer[v].sub] = <<>>
    /\ UNCHANGED vars

\* sub.get timed out on the empty queue of a run that is done.
TimeOut(v) ==
    LET x == viewer[v]
    IN  /\ x.pc = "live"
        /\ x.wire = <<>>
        /\ queue[x.sub] = <<>>
        /\ x.run \in done
        /\ TopUp(v)
        /\ UNCHANGED <<subs, cuts>>
        /\ StreamUnchanged

ViewerStep(v) == \/ Connect(v) \/ Show(v) \/ (\E s \in Subscriptions : Listen(v, s))
                 \/ Replay(v) \/ CheckDone(v) \/ Receive(v) \/ TimeOut(v)

StreamNext ==
    \/ MgrNext /\ UNCHANGED <<viewer, cuts>>
    \/ \E v \in Viewers : \/ \E r \in Runs : Watch(v, r)
                          \/ ViewerStep(v)
                          \/ Cut(v)

StreamSpec == StreamInit /\ [][StreamNext]_vars

\* Every thread that can take a step takes one, but for two kinds of step: a
\* turn may be at work for ever, and no one has to ask for anything.
Publishes(t) == PublishStep(t) /\ UNCHANGED mgrVars
WorkerGoesOn(r) == /\ \/ Request(r) \/ WorkerStarts(r) \/ WorkerEnds(r)
                      \/ Publishes(W(r))
                   /\ UNCHANGED <<viewer, cuts>>
DeadlineGoesOn(r) == /\ Supervise(r) \/ Publishes(D(r))
                     /\ UNCHANGED <<viewer, cuts>>
DeletionGoesOn == Delete /\ UNCHANGED <<viewer, cuts>>
ServerFairness ==
    /\ \A r \in Runs : WF_vars(WorkerGoesOn(r)) /\ WF_vars(DeadlineGoesOn(r))
    /\ WF_vars(DeletionGoesOn)
ViewerFairness == \A v \in Viewers : WF_vars(ViewerStep(v))
FairSpec == StreamSpec /\ ServerFairness /\ ViewerFairness

-----------------------------------------------------------------------------
\* Every variable holds a value of the kind its declaration describes.
TypeOK ==
    /\ MgrTypeOK
    /\ \A v \in Viewers :
          /\ viewer[v].pc \in ViewerPCs
          /\ viewer[v].run \in Runs \cup {NoRun}
          /\ viewer[v].sub \in Subscriptions \cup {NoSub}
          /\ {viewer[v].url, viewer[v].last, viewer[v].cur} \subseteq Nat
    /\ cuts \in 0 .. MaxCuts

\* The supervisor did not close the run, and nobody is deleting it.  (When the
\* supervisor does, the worker may publish under the number its event has:
\* see the README.)
Undisturbed(r) == /\ deadline[r] # "late"
                  /\ Registered(r)

\* What a page has shown is the beginning of the history, with no gap, no
\* repetition and nothing out of order, however often it reconnects, whatever
\* is in flight, and however the replay overlaps with the live queue: as long
\* as no queue was full.  A page that lost an event to a full queue and then
\* got a later one never shows what it lost, for the listener takes it for a
\* repetition.
ShowsPrefix ==
    \A v \in Viewers :
        LET r == viewer[v].run
        IN  r # NoRun /\ Undisturbed(r) /\ r \notin dropped =>
                IsPrefix(viewer[v].seen, history[r])

\* Once the worker is ending its run, each page that watches it comes to show
\* the terminal event, even if queues were full or connections cut.
ViewerSatisfied ==
    \A v \in Viewers, r \in Runs :
        viewer[v].run = r /\ worker[r] = "closing" ~>
            viewer[v].pc = "satisfied" \/ ~Undisturbed(r)

\* A worker that is ending its run gives back the chat or the case.
PlaceReleased ==
    \A r \in Runs : worker[r] = "closing" ~>
                        \A p \in Places : occupant[p] # r
=============================================================================
