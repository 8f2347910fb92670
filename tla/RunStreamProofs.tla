-------------------------- MODULE RunStreamProofs ----------------------------
(***************************************************************************)
(* Theorems about RunStream, for any number of runs, pages, subscriptions  *)
(* and mishaps: what a page shows is the beginning of the history of its   *)
(* run, as long as no queue and no history was full, the supervisor did    *)
(* not close the run, and nobody deletes it.                               *)
(*                                                                         *)
(* The argument: the ids of the history are its positions; every event is  *)
(* shown by the page, on the wire to it, in its queue or about to be put   *)
(* there; and what is in the queue is in order.  So the first id the queue *)
(* holds is at most one above what the page has.                           *)
(***************************************************************************)
EXTENDS RunStream, RunManagerProofs, WellFoundedInduction

-----------------------------------------------------------------------------
(* The threads.                                                             *)

\* The worker has published all it will ever publish.
Sealed(r) == /\ worker[r] \in Late
             /\ closing[W(r)].step \in {"settle", "reply", "done"}
             /\ pub[W(r)].pc # "append"

\* Which events a call carries, and when it has subscriptions to serve.
CallInv ==
    \A t \in Threads :
        /\ pub[t].pc \notin {"put", "sentinel"} => pub[t].todo = {}
        /\ pub[t].pc = "snapshot" => pub[t].event = Delta
        /\ pub[t].pc = "put" => pub[t].event \in Events \cup {Delta}

\* Nothing is published before the worker begins; the supervisor publishes
\* nothing before it is late; a bus call closes subscriptions only when the
\* worker has published its last.
SealInv ==
    \A r \in Runs :
        /\ worker[r] \in Early => history[r] = <<>> /\ pub[W(r)].pc = "idle"
        /\ pub[D(r)].pc # "idle" => closing[D(r)].step # "none"
        /\ worker[r] \in {"finish", "ended"} => closing[W(r)].step = "done"
        /\ \/ pub[W(r)].pc \in {"close", "sentinel"}
           \/ pub[W(r)].pc = "put" /\ IsTerminal(pub[W(r)].event)
           => Sealed(r)

\* An event has its position in the history for an id, before and after the
\* worker appends it.
NumberInv ==
    \A r \in Runs : Undisturbed(r) =>
        /\ \A i \in DOMAIN history[r] : history[r][i].id = i
        /\ pub[W(r)].pc = "append" => pub[W(r)].event.id = Len(history[r]) + 1
        /\ pub[W(r)].pc = "put" /\ pub[W(r)].event # Delta =>
              /\ history[r] # <<>>
              /\ pub[W(r)].event = history[r][Len(history[r])]

-----------------------------------------------------------------------------
(* The pages.                                                               *)

Clean(r) == Undisturbed(r) /\ r \notin dropped

\* The worker of r is about to put the newest event of r into the queue of s.
Coming(r, s) == /\ pub[W(r)].pc = "put" /\ s \in pub[W(r)].todo
                /\ pub[W(r)].event # Delta

\* The page shows a beginning of the history, and its cursors are within.
ShownInv(x, h) ==
    /\ Len(x.seen) <= Len(h)
    /\ \A i \in 1 .. Len(x.seen) : x.seen[i] = h[i]
    /\ x.url <= Len(x.seen) /\ x.last <= Len(x.seen)

\* The wire carries a delta, or a stretch of the history that leaves no gap
\* after what is shown.
Stretch(x, h, k) == /\ k + Len(x.wire) <= Len(h) + 1
                    /\ \A i \in 1 .. Len(x.wire) : x.wire[i] = h[k + i - 1]
WireInv(x, h) ==
    /\ x.wire = <<Delta>> \/ \E k \in 1 .. Len(x.seen) + 1 : Stretch(x, h, k)
    /\ x.pc \in {"asked", "replay", "satisfied", "refused"} => x.wire = <<>>

\* The page has the event m, or will have it by what is on the wire.
Reaches(x, m) == m <= Len(x.seen) \/ \E i \in 1 .. Len(x.wire) : x.wire[i].id = m

\* The subscription of a response serves its run alone, and is not closed
\* before the worker published its last.
SubInv(r, s) ==
    /\ s \in Subscriptions
    /\ \A q \in Runs : s \in subs[q] <=> q = r
    /\ \A t \in Threads : s \in pub[t].todo => t = W(r)
    /\ s \in closed => Sealed(r)

\* How many events of r were put into the queue of s, or were there before it.
Queued(r, s) == Len(history[r]) - (IF Coming(r, s) THEN 1 ELSE 0)

\* The events in a queue are from the history, in order, and not past the n-th.
Ordered(q, h, n) ==
    /\ \A i \in 1 .. Len(q) :
          IF q[i].id = NoId THEN q[i] \in {Delta, CLOSED}
                            ELSE q[i].id <= n /\ q[i] = h[q[i].id]
    /\ \A i, j \in 1 .. Len(q) :
          i < j /\ q[i].id # NoId /\ q[j].id # NoId => q[i].id < q[j].id
QueueInv(r, s) == Ordered(queue[s], history[r], Queued(r, s))

\* Once the replay was sent nothing is missing.
Covered(x, q, n) ==
    \A m \in 1 .. n : Reaches(x, m) \/ \E i \in 1 .. Len(q) : q[i].id = m
NoneMissing(x, r) == Covered(x, queue[x.sub], Queued(r, x.sub))

PageInv(x) ==
    /\ x.run # NoRun => worker[x.run] # "new"
    /\ x.run # NoRun /\ Clean(x.run) =>
         /\ ShownInv(x, history[x.run])
         /\ WireInv(x, history[x.run])
         /\ Reaches(x, x.cur)
         /\ x.pc \in Connected => SubInv(x.run, x.sub) /\ QueueInv(x.run, x.sub)
         /\ x.pc \in {"check", "live"} => NoneMissing(x, x.run)

\* No two responses share a subscription.
Apart == \A u, v \in Viewers :
            /\ viewer[u].pc \in Connected /\ viewer[v].pc \in Connected
            /\ viewer[u].sub = viewer[v].sub
            => u = v

\* What each page holds.
Pages == [pc : ViewerPCs, run : Runs \cup {NoRun}, url : Nat, last : Nat,
          seen : Seq(Events), wire : Seq(Events \cup {Delta}), cur : Nat,
          sub : Subscriptions \cup {NoSub}]
PageTyped(x) ==
    /\ x \in Pages
    /\ x.pc \in Connected => x.sub \in Subscriptions
    /\ IF x.pc = "idle" THEN x = NewViewer ELSE x.run \in Runs
StreamTyped == /\ viewer \in [Viewers -> Pages]
               /\ \A v \in Viewers : PageTyped(viewer[v])
               /\ cuts \in 0 .. MaxCuts

\* The invariant of a page, for the page there is (x is a constant here: its
\* primed form is about the same page in the next state of the server).
PagesInv == Apart /\ \A v \in Viewers : \A x \in {viewer[v]} : PageInv(x)

ThreadInv == CallInv /\ SealInv /\ NumberInv
ServerInv == Inv /\ PlaceInv /\ MgrTyped /\ CountInv /\ PurgeInv
StreamInv == ServerInv /\ StreamTyped /\ ThreadInv /\ PagesInv
-----------------------------------------------------------------------------
(* The steps of the pages, and the server under them.                       *)

\* What a page does, and what it may do to the bus.
PageStep(v) == (\E r \in Runs : Watch(v, r)) \/ ViewerStep(v) \/ Cut(v)

LEMMA StreamSteps ==
    ASSUME [StreamNext]_vars
    PROVE  \/ [MgrNext]_serverVars /\ UNCHANGED <<viewer, cuts>>
           \/ \E v \in Viewers : PageStep(v)
BY DEF StreamNext, vars, PageStep

\* The connection of v ends.
Drops(v) == /\ viewer[v].pc \in Connected
            /\ closed' = closed \cup {viewer[v].sub}
            /\ queue' = [queue EXCEPT ![viewer[v].sub] = <<>>]
            /\ UNCHANGED subs

\* The generator takes an item from the queue.
Takes(v) == /\ viewer[v].pc \in Connected
            /\ queue[viewer[v].sub] # <<>>
            /\ queue' = [queue EXCEPT ![viewer[v].sub] = Tail(@)]
            /\ UNCHANGED <<subs, closed>>

LEMMA PagesOnBus ==
    ASSUME NEW v \in Viewers, PageStep(v)
    PROVE  /\ UNCHANGED <<history, done, dropped, pub, mgrVars>>
           /\ \/ UNCHANGED <<subs, closed, queue>>
              \/ Drops(v) \/ Takes(v)
              \/ \E s \in Subscriptions : Listen(v, s)
<1>1. CASE \E r \in Runs : Watch(v, r) BY <1>1 DEF Watch, busVars
<1>2. CASE Connect(v) BY <1>2 DEF Connect, busVars
<1>3. CASE Show(v) BY <1>3 DEF Show, Hangup, StreamUnchanged, Drops
<1>4. CASE \E s \in Subscriptions : Listen(v, s)
  BY <1>4 DEF Listen, Subscribe
<1>5. CASE Replay(v) BY <1>5 DEF Replay, StreamUnchanged
<1>6. CASE CheckDone(v)
  BY <1>6 DEF CheckDone, Hangup, StreamUnchanged, Drops, Connected
<1>7. CASE Receive(v)
  BY <1>7 DEF Receive, TopUp, Hangup, StreamUnchanged, Drops, Takes, Connected
<1>8. CASE TimeOut(v)
  BY <1>8 DEF TimeOut, TopUp, Hangup, StreamUnchanged, Drops, Connected
<1>9. CASE Cut(v) BY <1>9 DEF Cut, Hangup, StreamUnchanged, Drops
<1>10. QED
  BY <1>1, <1>2, <1>3, <1>4, <1>5, <1>6, <1>7, <1>8, <1>9 DEF PageStep, ViewerStep

LEMMA PagesKeepBusTyped ==
    ASSUME BusTyped, StreamTyped, NEW v \in Viewers, PageStep(v)
    PROVE  BusTyped'
<1> DEFINE x == viewer[v]
<1>1. UNCHANGED <<history, done, dropped, pub>> BY PagesOnBus
<1>2. SUFFICES /\ subs' \in [Runs -> SUBSET Subscriptions]
               /\ closed' \subseteq Subscriptions
               /\ queue' \in [Subscriptions -> Seq(Items)]
               /\ \A s \in Subscriptions : Len(queue'[s]) <= QueueSize
  BY <1>1 DEF BusTyped
<1>3. Len(<<>>) = 0 /\ <<>> \in Seq(Items) BY EmptySeq
<1>4. CASE UNCHANGED <<subs, closed, queue>> BY <1>4 DEF BusTyped
<1>5. CASE Drops(v)
  <2>1. x.sub \in Subscriptions BY <1>5 DEF Drops, StreamTyped, PageTyped
  <2>2. QED BY <1>3, <1>5, <2>1, QueueSizeAssumption DEF Drops, BusTyped
<1>6. CASE Takes(v)
  <2>1. x.sub \in Subscriptions BY <1>6 DEF Takes, StreamTyped, PageTyped
  <2> DEFINE q == queue[x.sub]
  <2>2. q \in Seq(Items) /\ q # <<>> /\ Len(q) <= QueueSize
    BY <1>6, <2>1 DEF Takes, BusTyped
  <2>3. Tail(q) \in Seq(Items) /\ Len(Tail(q)) <= QueueSize
    BY <2>2, HeadTailProperties, LenProperties, QueueSizeAssumption
  <2>4. QED BY <1>6, <2>1, <2>3 DEF Takes, BusTyped
<1>7. ASSUME NEW s \in Subscriptions, Listen(v, s)
      PROVE  /\ subs' \in [Runs -> SUBSET Subscriptions]
             /\ closed' \subseteq Subscriptions
             /\ queue' \in [Subscriptions -> Seq(Items)]
             /\ \A u \in Subscriptions : Len(queue'[u]) <= QueueSize
  BY <1>3, <1>7, QueueSizeAssumption DEF Listen, Subscribe, BusTyped
<1>8. QED BY <1>4, <1>5, <1>6, <1>7, PagesOnBus

\* What holds of the server holds of it under its pages.
LEMMA ServerKept ==
    ASSUME ServerInv, StreamTyped, [StreamNext]_vars
    PROVE  ServerInv'
<1>1. Inv /\ PlaceInv /\ MgrTyped /\ CountInv /\ PurgeInv BY DEF ServerInv
<1>2. CASE [MgrNext]_serverVars
  <2>1. Inv' /\ PlaceInv' BY <1>1, <1>2, Invariance, PlaceInvariance
  <2>2. MgrTyped' BY <1>1, <1>2, MgrTypedKept
  <2>3. CountInv' BY <1>1, <1>2, <2>1, <2>2, CountKept
  <2>4. PurgeInv' BY <1>1, <1>2, PurgeKept
  <2>5. QED BY <2>1, <2>2, <2>3, <2>4 DEF ServerInv
<1>3. ASSUME NEW v \in Viewers, PageStep(v) PROVE ServerInv'
  <2>1. Unmoved BY <1>3, PagesOnBus DEF Unmoved
  <2>2. Inv' /\ PlaceInv' BY <1>1, <2>1, Stutters, PlaceStutters
  <2>3. MgrTyped'
    <3>1. BusTyped' BY <1>1, <1>3, PagesKeepBusTyped DEF MgrTyped
    <3>2. UNCHANGED <<known, emits, deletes>> BY <2>1 DEF Unmoved, mgrVars
    <3>3. Spent' BY <1>1, <3>2 DEF MgrTyped, Spent
    <3>4. QED BY <3>1, <3>3 DEF MgrTyped
  <2>4. UNCHANGED <<history, pub, worker, closing, home, finished, emits, deletion,
                    status>>
    BY <2>1 DEF Unmoved, mgrVars
  <2>5. CountInv'
    BY <1>1, <2>4
    DEF CountInv, Written, Pending, Allowance, StageOf, TerminalOf, Announced,
        Claimed, IsAgent
  <2>6. PurgeInv' BY <1>1, <2>4 DEF PurgeInv, Registered
  <2>7. QED BY <2>2, <2>3, <2>5, <2>6 DEF ServerInv
<1>4. QED BY <1>2, <1>3, StreamSteps

-----------------------------------------------------------------------------
(* The types of the pages.                                                  *)

\* A set of numbers that is not empty has a least one.
LEMMA LeastOf ==
    ASSUME NEW I, I \subseteq Nat, I # {}
    PROVE  Min(I) \in I /\ \A i \in I : Min(I) <= i
<1> DEFINE R == OpToRel(<, Nat)
<1>1. IsWellFoundedOn(R, Nat) BY NatLessThanWellFounded
<1>2. \A i, j \in Nat : j < i => <<j, i>> \in R BY DEF OpToRel
<1> HIDE DEF R
<1>3. PICK i \in I : \A j \in I : ~ (<<j, i>> \in R) BY <1>1, WFMin
<1>4. \A j \in I : i \in Nat /\ j \in Nat /\ ~(j < i) BY <1>2, <1>3
<1>5. \A j \in I : i <= j BY <1>4
<1>6. QED BY <1>5 DEF Min

\* The first event with an id.
Place(h, c) == SelectInSeq(h, LAMBDA e : e.id = c)
LEMMA PlaceAt ==
    ASSUME NEW h \in Seq(Events), NEW c
    PROVE  LET at == Place(h, c)
           IN  /\ at \in 0 .. Len(h)
               /\ at = 0 => \A i \in 1 .. Len(h) : h[i].id # c
               /\ at # 0 => h[at].id = c
<1> DEFINE I == {i \in 1 .. Len(h) : h[i].id = c}
<1>1. Place(h, c) = IF I # {} THEN Min(I) ELSE 0 BY DEF Place, SelectInSeq
<1>2. Len(h) \in Nat BY LenProperties
<1>3. CASE I = {} BY <1>1, <1>2, <1>3
<1>4. CASE I # {}
  <2>1. I \subseteq Nat BY <1>2
  <2> HIDE DEF I
  <2>2. Min(I) \in I BY <1>4, <2>1, LeastOf
  <2> USE DEF I
  <2>3. QED BY <1>1, <1>2, <1>4, <2>2
<1>5. QED BY <1>3, <1>4

LEMMA AfterTyped ==
    ASSUME BusTyped, NEW r \in Runs, NEW c \in Nat
    PROVE  EventsAfter(r, c) \in Seq(Events)
<1> DEFINE h == history[r]
           at == Place(h, c)
<1>1. h \in Seq(Events) /\ Len(h) \in Nat BY LenProperties DEF BusTyped
<1>2. EventsAfter(r, c) = IF c = NoId THEN h
                          ELSE IF at = 0 THEN <<>> ELSE SubSeq(h, at + 1, Len(h))
  BY DEF EventsAfter, Place
<1> HIDE DEF h
<1>3. at \in 0 .. Len(h) BY <1>1, PlaceAt
<1> HIDE DEF at
<1>4. SubSeq(h, at + 1, Len(h)) \in Seq(Events)
  BY <1>1, <1>3, SubSeqProperties
<1>5. QED BY <1>1, <1>2, <1>4, EmptySeq

LEMMA LastIds ==
    ASSUME NEW events \in Seq(Events \cup {Delta}), NEW d \in Nat
    PROVE  /\ LastId(events, d) \in Nat
           /\ events = <<>> => LastId(events, d) = d
           /\ events # <<>> => /\ Len(events) \in Nat /\ Len(events) >= 1
                               /\ LastId(events, d) = events[Len(events)].id
<1>1. events = <<>> => LastId(events, d) = d BY DEF LastId
<1>2. CASE events # <<>>
  <2>1. Len(events) \in Nat /\ Len(events) >= 1 BY <1>2, EmptySeq, LenProperties
  <2>2. events[Len(events)] \in Events \cup {Delta} BY <2>1, ElementOfSeq
  <2>3. events[Len(events)].id \in Nat
    BY <2>2 DEF Events, Delta, Event, NoId
  <2>4. LastId(events, d) = events[Len(events)].id BY <1>2 DEF LastId, Last
  <2>5. QED BY <1>2, <2>1, <2>3, <2>4
<1>3. QED BY <1>1, <1>2

LEMMA WiderSeq == \A s \in Seq(Events) : s \in Seq(Events \cup {Delta})
BY SeqMonotonic

LEMMA NewPage ==
    ASSUME StreamTyped, NEW v \in Viewers, NEW y, PageTyped(y),
           viewer' = [viewer EXCEPT ![v] = y]
    PROVE  /\ viewer' \in [Viewers -> Pages]
           /\ \A u \in Viewers : PageTyped(viewer'[u])
           /\ viewer'[v] = y
           /\ \A u \in Viewers \ {v} : viewer'[u] = viewer[u]
<1>1. viewer \in [Viewers -> Pages] /\ y \in Pages
  BY DEF StreamTyped, PageTyped
<1>2. viewer'[v] = y /\ \A u \in Viewers \ {v} : viewer'[u] = viewer[u]
  BY <1>1
<1>3. \A u \in Viewers : PageTyped(viewer'[u])
  BY <1>2 DEF StreamTyped, PageTyped
<1>4. QED BY <1>1, <1>2, <1>3

\* A page as it may be.
LEMMA PageParts ==
    ASSUME StreamTyped, NEW v \in Viewers
    PROVE  LET x == viewer[v]
           IN  /\ x.pc \in ViewerPCs /\ x.run \in Runs \cup {NoRun}
               /\ x.url \in Nat /\ x.last \in Nat /\ x.cur \in Nat
               /\ x.seen \in Seq(Events) /\ x.wire \in Seq(Events \cup {Delta})
               /\ x.sub \in Subscriptions \cup {NoSub}
               /\ x.pc \in Connected => x.sub \in Subscriptions
               /\ x.pc = "idle" => x = NewViewer
               /\ x.pc # "idle" => x.run \in Runs
BY DEF StreamTyped, PageTyped, Pages

-----------------------------------------------------------------------------
(* What each step makes of its page.                                        *)

Becomes(v, y) == PageTyped(y) /\ viewer' = [viewer EXCEPT ![v] = y]

\* A page without a response keeps what it shows.
KeepsShown(x, y) == y.run = x.run /\ y.seen = x.seen /\ y.url = x.url /\ y.last = x.last

LEMMA NewViewerPage == NewViewer \in Pages
BY EmptySeq DEF NewViewer, Pages, ViewerPCs, NoId

LEMMA SatisfiedPage ==
    ASSUME NEW r \in Runs, NEW seen \in Seq(Events), NEW x, x.run = r, x.seen = seen
    PROVE  LET z == Satisfied(x)
           IN  /\ PageTyped(z)
               /\ z.pc = "satisfied" /\ z.run = r /\ z.seen = seen /\ z.wire = <<>>
               /\ z.url = NoId /\ z.cur = NoId /\ z.last = NoId
<1> DEFINE n == NewViewer
           z == [n EXCEPT !.pc = "satisfied", !.run = r, !.seen = seen]
<1>1. n \in Pages /\ n.wire = <<>> /\ n.url = NoId /\ n.cur = NoId /\ n.last = NoId
  BY NewViewerPage DEF NewViewer
<1>2. Satisfied(x) = z BY DEF Satisfied
<1> HIDE DEF n
<1>3. /\ z \in Pages /\ z.pc = "satisfied" /\ z.run = r /\ z.seen = seen
      /\ z.wire = <<>> /\ z.url = NoId /\ z.cur = NoId /\ z.last = NoId
  BY <1>1 DEF Pages, ViewerPCs
<1> HIDE DEF z
<1>4. QED BY <1>2, <1>3 DEF PageTyped, Connected

LEMMA WatchPage ==
    ASSUME BusTyped, StreamTyped, NEW v \in Viewers, NEW r \in Runs, Watch(v, r)
    PROVE  \E y : /\ Becomes(v, y)
                  /\ y.pc \in {"ready", "satisfied"} /\ y.run = r
                  /\ y.seen = history[r] /\ y.wire = <<>> /\ y.cur = NoId
                  /\ y.url \in {NoId, LastId(history[r], NoId)} /\ y.last = NoId
<1> DEFINE h == history[r]
           n == NewViewer
           y == [n EXCEPT !.pc = "ready", !.run = r, !.seen = h,
                          !.url = LastId(h, NoId)]
<1>1. h \in Seq(Events) /\ h \in Seq(Events \cup {Delta})
  BY WiderSeq DEF BusTyped
<1>2. LastId(h, NoId) \in Nat BY <1>1, LastIds DEF NoId
<1>3. \/ viewer' = [viewer EXCEPT ![v] = Satisfied(y)]
      \/ viewer' = [viewer EXCEPT ![v] = y]
  BY DEF Watch
<1>4. n \in Pages /\ n.wire = <<>> /\ n.cur = NoId /\ n.last = NoId
  BY NewViewerPage DEF NewViewer
<1> HIDE DEF h, n
<1>5. /\ y \in Pages /\ y.pc = "ready" /\ y.run = r /\ y.seen = h
      /\ y.url = LastId(h, NoId) /\ y.wire = <<>> /\ y.cur = NoId /\ y.last = NoId
  BY <1>1, <1>2, <1>4 DEF Pages, ViewerPCs
<1> HIDE DEF y
<1>6. PageTyped(y) BY <1>5 DEF PageTyped, Connected
<1>7. LET z == Satisfied(y)
      IN  /\ PageTyped(z)
          /\ z.pc = "satisfied" /\ z.run = r /\ z.seen = h /\ z.wire = <<>>
          /\ z.url = NoId /\ z.cur = NoId /\ z.last = NoId
  BY <1>1, <1>5, SatisfiedPage
<1>8. QED BY <1>3, <1>5, <1>6, <1>7 DEF Becomes, h

LEMMA ConnectPage ==
    ASSUME StreamTyped, NEW v \in Viewers, Connect(v)
    PROVE  LET x == viewer[v]
           IN  \E y : /\ Becomes(v, y) /\ KeepsShown(x, y)
                      /\ y.pc \in {"asked", "refused"}
                      /\ x.wire = <<>> /\ y.wire = <<>>
                      /\ y.cur \in {x.url, x.last, x.cur}
<1> DEFINE x == viewer[v]
           y == IF Registered(x.run)
                THEN [x EXCEPT !.pc = "asked",
                               !.cur = IF x.url # NoId THEN x.url ELSE x.last]
                ELSE [x EXCEPT !.pc = "refused"]
<1>1. viewer' = [viewer EXCEPT ![v] = y] /\ x.wire = <<>> /\ x.pc = "ready"
  BY DEF Connect
<1>2. x \in Pages /\ x.run \in Runs BY <1>1 DEF StreamTyped, PageTyped
<1> HIDE DEF x
<1>3. /\ y \in Pages /\ y.run \in Runs /\ y.pc \in {"asked", "refused"}
      /\ KeepsShown(x, y) /\ y.wire = x.wire /\ y.cur \in {x.url, x.last, x.cur}
  BY <1>2 DEF Pages, ViewerPCs, KeepsShown
<1>4. PageTyped(y) BY <1>3 DEF PageTyped, Connected
<1> HIDE DEF y
<1>5. QED BY <1>1, <1>3, <1>4 DEF Becomes, x

LEMMA ShowPage ==
    ASSUME StreamTyped, NEW v \in Viewers, Show(v)
    PROVE  LET x == viewer[v]
               e == Head(x.wire)
           IN  /\ x.wire # <<>> /\ x.run \in Runs
               /\ \E y :
                    /\ Becomes(v, y) /\ y.run = x.run
                    /\ y.seen = IF e.id > Saved(x) THEN Append(x.seen, e) ELSE x.seen
                    /\ \/ /\ y.pc = x.pc /\ y.sub = x.sub /\ y.wire = Tail(x.wire)
                          /\ y.url = x.url /\ y.cur = x.cur
                          /\ y.last = IF e.id # NoId THEN e.id ELSE x.last
                       \/ /\ y.pc = "satisfied" /\ y.wire = <<>>
                          /\ y.url = NoId /\ y.cur = NoId /\ y.last = NoId
<1> DEFINE x == viewer[v]
           e == Head(x.wire)
           isNew == e.id > Saved(x)
           seen == IF isNew THEN Append(x.seen, e) ELSE x.seen
           last == IF e.id # NoId THEN e.id ELSE x.last
           y == [x EXCEPT !.wire = Tail(@), !.last = last, !.seen = seen]
<1>1. x.wire # <<>> BY DEF Show
<1>2. x \in Pages /\ PageTyped(x) /\ x.pc # "idle" /\ x.run \in Runs
  BY <1>1 DEF StreamTyped, PageTyped, NewViewer
<1>3. \/ viewer' = [viewer EXCEPT ![v] = Satisfied(y)]
      \/ viewer' = [viewer EXCEPT ![v] = y]
  BY DEF Show
<1> HIDE DEF x
<1>4. /\ x.wire \in Seq(Events \cup {Delta}) /\ x.seen \in Seq(Events)
      /\ x.last \in Nat
  BY <1>2 DEF Pages
<1>5. e \in Events \cup {Delta} /\ Tail(x.wire) \in Seq(Events \cup {Delta})
  BY <1>1, <1>4, HeadTailProperties
<1>6. e.id \in Nat BY <1>5 DEF Events, Delta, Event, NoId
<1>7. Saved(x) \in Nat
  BY <1>4, WiderSeq, LastIds DEF Saved, NoId
<1>8. isNew => e \in Events
  BY <1>5, <1>6, <1>7 DEF Delta, Event, NoId
<1>9. seen \in Seq(Events) BY <1>4, <1>8, AppendProperties
<1>10. last \in Nat BY <1>4, <1>6
<1> HIDE DEF e, isNew, seen, last
<1>11. PageTyped(y) BY <1>2, <1>5, <1>9, <1>10 DEF PageTyped, Pages, NewViewer
<1>12. /\ y.pc = x.pc /\ y.sub = x.sub /\ y.wire = Tail(x.wire) /\ y.run = x.run
       /\ y.url = x.url /\ y.cur = x.cur /\ y.last = last /\ y.seen = seen
  BY <1>2 DEF Pages
<1> HIDE DEF y
<1>13. LET z == Satisfied(y)
       IN  /\ PageTyped(z)
           /\ z.pc = "satisfied" /\ z.run = x.run /\ z.seen = seen /\ z.wire = <<>>
           /\ z.url = NoId /\ z.cur = NoId /\ z.last = NoId
  BY <1>2, <1>9, <1>12, SatisfiedPage
<1>14. QED BY <1>1, <1>2, <1>3, <1>11, <1>12, <1>13
           DEF Becomes, x, e, isNew, seen, last

LEMMA CutPage ==
    ASSUME StreamTyped, NEW v \in Viewers, Cut(v)
    PROVE  LET x == viewer[v]
           IN  \E y : /\ Becomes(v, y) /\ KeepsShown(x, y)
                      /\ y.pc = "ready" /\ y.wire = <<>> /\ y.cur = NoId
<1> DEFINE x == viewer[v]
           y == [NoResponse(x) EXCEPT !.wire = <<>>]
<1>1. viewer' = [viewer EXCEPT ![v] = y] /\ x.pc \in Connected BY DEF Cut
<1>2. x \in Pages /\ x.run \in Runs
  BY <1>1 DEF StreamTyped, PageTyped, Connected
<1> HIDE DEF x
<1>3. /\ PageTyped(y) /\ KeepsShown(x, y)
      /\ y.pc = "ready" /\ y.wire = <<>> /\ y.cur = NoId
  BY <1>2, EmptySeq DEF PageTyped, Pages, ViewerPCs, Connected, NoId, NoResponse,
                        KeepsShown
<1> HIDE DEF y
<1>4. QED BY <1>1, <1>3 DEF Becomes, x

LEMMA ListenPage ==
    ASSUME StreamTyped, NEW v \in Viewers, NEW s \in Subscriptions, Listen(v, s)
    PROVE  LET x == viewer[v]
           IN  \E y : /\ Becomes(v, y) /\ KeepsShown(x, y)
                      /\ x.pc = "asked" /\ y.pc = "replay" /\ y.sub = s
                      /\ y.wire = x.wire /\ y.cur = x.cur
<1> DEFINE x == viewer[v]
           y == [x EXCEPT !.pc = "replay", !.sub = s]
<1>1. x \in Pages /\ x.pc = "asked" /\ x.run \in Runs
  BY DEF StreamTyped, PageTyped, Listen
<1>2. viewer' = [viewer EXCEPT ![v] = y]
  BY DEF Listen, StreamTyped
<1> HIDE DEF x
<1>3. /\ PageTyped(y) /\ KeepsShown(x, y) /\ y.pc = "replay" /\ y.sub = s
      /\ y.wire = x.wire /\ y.cur = x.cur
  BY <1>1 DEF PageTyped, Pages, ViewerPCs, Connected, KeepsShown
<1> HIDE DEF y
<1>4. QED BY <1>1, <1>2, <1>3 DEF Becomes, x

\* What the generator sends.
SentPage(x, events) ==
    LET y == Send(x, events)
    IN  /\ y \in Pages /\ KeepsShown(x, y)
        /\ y.pc = x.pc /\ y.sub = x.sub /\ y.wire = events
        /\ y.cur = LastId(events, x.cur)

LEMMA Sends ==
    ASSUME NEW x \in Pages, NEW events \in Seq(Events \cup {Delta})
    PROVE  SentPage(x, events)
<1> DEFINE y == [x EXCEPT !.wire = events, !.cur = LastId(events, @)]
<1>1. x.cur \in Nat BY DEF Pages
<1>2. LastId(events, x.cur) \in Nat BY <1>1, LastIds
<1>3. /\ y \in Pages /\ KeepsShown(x, y)
      /\ y.pc = x.pc /\ y.sub = x.sub /\ y.wire = events
      /\ y.cur = LastId(events, x.cur)
  BY <1>2 DEF Pages, KeepsShown
<1>4. QED BY <1>3 DEF SentPage, Send

\* The generator of v is at one of its steps.
LEMMA ServedPage ==
    ASSUME StreamTyped, NEW v \in Viewers, viewer[v].pc \in Connected
    PROVE  LET x == viewer[v]
           IN  x \in Pages /\ x.run \in Runs /\ x.sub \in Subscriptions /\ x.cur \in Nat
BY DEF StreamTyped, PageTyped, Connected, Pages

LEMMA ReplayPage ==
    ASSUME BusTyped, StreamTyped, NEW v \in Viewers, Replay(v)
    PROVE  LET x == viewer[v]
           IN  \E y : /\ Becomes(v, y) /\ KeepsShown(x, y)
                      /\ x.pc = "replay" /\ y.pc = "check" /\ y.sub = x.sub
                      /\ y.wire = EventsAfter(x.run, x.cur)
                      /\ y.cur = LastId(y.wire, x.cur)
<1> DEFINE x == viewer[v]
           events == EventsAfter(x.run, x.cur)
           z == Send(x, events)
           y == [z EXCEPT !.pc = "check"]
<1>1. x.pc = "replay" /\ viewer' = [viewer EXCEPT ![v] = y] BY DEF Replay
<1>2. x \in Pages /\ x.run \in Runs /\ x.sub \in Subscriptions /\ x.cur \in Nat
  BY <1>1, ServedPage DEF Connected
<1> HIDE DEF x
<1>3. events \in Seq(Events \cup {Delta}) BY <1>2, AfterTyped, WiderSeq
<1> HIDE DEF events
<1>4. SentPage(x, events) BY <1>2, <1>3, Sends
<1>5. /\ z \in Pages /\ KeepsShown(x, z) /\ z.pc = x.pc /\ z.sub = x.sub
      /\ z.wire = events /\ z.cur = LastId(events, x.cur)
  BY <1>4 DEF SentPage
<1> HIDE DEF z
<1>6. /\ PageTyped(y) /\ KeepsShown(x, y) /\ y.pc = "check" /\ y.sub = x.sub
      /\ y.wire = events /\ y.cur = LastId(events, x.cur)
  BY <1>2, <1>5 DEF PageTyped, Pages, ViewerPCs, Connected, KeepsShown
<1> HIDE DEF y
<1>7. QED BY <1>1, <1>6 DEF Becomes, x, events

LEMMA TopUpPage ==
    ASSUME BusTyped, StreamTyped, NEW v \in Viewers, viewer[v].pc \in Connected,
           TopUp(v)
    PROVE  LET x == viewer[v]
           IN  \E y : /\ Becomes(v, y) /\ KeepsShown(x, y)
                      /\ y.pc = "ready" /\ y.cur = NoId
                      /\ y.wire = EventsAfter(x.run, x.cur)
<1> DEFINE x == viewer[v]
           events == EventsAfter(x.run, x.cur)
           z == Send(x, events)
           y == NoResponse(z)
<1>1. viewer' = [viewer EXCEPT ![v] = y] BY DEF TopUp
<1>2. x \in Pages /\ x.run \in Runs /\ x.cur \in Nat BY ServedPage
<1> HIDE DEF x
<1>3. events \in Seq(Events \cup {Delta}) BY <1>2, AfterTyped, WiderSeq
<1> HIDE DEF events
<1>4. SentPage(x, events) BY <1>2, <1>3, Sends
<1>5. z \in Pages /\ KeepsShown(x, z) /\ z.wire = events BY <1>4 DEF SentPage
<1> HIDE DEF z
<1>6. /\ PageTyped(y) /\ KeepsShown(x, y) /\ y.pc = "ready" /\ y.cur = NoId
      /\ y.wire = events
  BY <1>2, <1>5 DEF NoResponse, PageTyped, Pages, ViewerPCs, Connected, KeepsShown, NoId
<1> HIDE DEF y
<1>7. QED BY <1>1, <1>6 DEF Becomes, x, events

LEMMA CheckDonePage ==
    ASSUME StreamTyped, NEW v \in Viewers, CheckDone(v)
    PROVE  LET x == viewer[v]
           IN  \E y : /\ Becomes(v, y) /\ KeepsShown(x, y) /\ x.pc = "check"
                      /\ x.wire = <<>> /\ y.wire = <<>>
                      /\ \/ y.pc = "ready" /\ y.cur = NoId
                         \/ /\ y.pc = "live" /\ y.sub = x.sub /\ y.cur = x.cur
                            /\ UNCHANGED <<closed, queue>>
<1> DEFINE x == viewer[v]
           y == NoResponse(x)
           z == [x EXCEPT !.pc = "live"]
<1>1. x.pc = "check" /\ x.wire = <<>> BY DEF CheckDone
<1>2. x \in Pages /\ x.run \in Runs /\ x.sub \in Subscriptions
  BY <1>1, ServedPage DEF Connected
<1>3. \/ viewer' = [viewer EXCEPT ![v] = y]
      \/ viewer' = [viewer EXCEPT ![v] = z] /\ UNCHANGED <<closed, queue>>
  BY DEF CheckDone
<1> HIDE DEF x
<1>4. PageTyped(y) /\ KeepsShown(x, y) /\ y.pc = "ready" /\ y.cur = NoId /\ y.wire = x.wire
  BY <1>2 DEF NoResponse, PageTyped, Pages, ViewerPCs, Connected, KeepsShown, NoId
<1>5. /\ PageTyped(z) /\ KeepsShown(x, z) /\ z.pc = "live" /\ z.cur = x.cur
      /\ z.wire = x.wire /\ z.sub = x.sub
  BY <1>2 DEF PageTyped, Pages, ViewerPCs, Connected, KeepsShown
<1> HIDE DEF y, z
<1>6. QED BY <1>1, <1>3, <1>4, <1>5 DEF Becomes, x

LEMMA ReceivePage ==
    ASSUME BusTyped, StreamTyped, NEW v \in Viewers, Receive(v)
    PROVE  LET x == viewer[v]
               item == Head(queue[x.sub])
           IN  /\ x.pc = "live" /\ x.wire = <<>>
               /\ \/ TopUp(v)
                  \/ /\ queue[x.sub] # <<>> /\ item \in Events \cup {Delta}
                     /\ queue' = [queue EXCEPT ![x.sub] = Tail(@)]
                     /\ UNCHANGED <<subs, closed>>
                     /\ \E y : /\ Becomes(v, y) /\ KeepsShown(x, y)
                               /\ y.pc = "live" /\ y.sub = x.sub
                               /\ y.wire = <<item>> /\ y.cur = item.id
<1> DEFINE x == viewer[v]
           q == queue[x.sub]
           item == Head(q)
           y == Send(x, <<item>>)
<1>1. x.pc = "live" /\ x.wire = <<>> /\ q # <<>> BY DEF Receive
<1>2. x \in Pages /\ x.run \in Runs /\ x.sub \in Subscriptions /\ x.cur \in Nat
  BY <1>1, ServedPage DEF Connected
<1>3. CASE item = CLOSED
  <2>1. TopUp(v) BY <1>3 DEF Receive
  <2>2. QED BY <1>1, <2>1
<1>4. CASE item # CLOSED
  <2>1. item \in Items BY <1>1, <1>2, HeadTailProperties DEF BusTyped
  <2>2. item \in Events \cup {Delta} BY <1>4, <2>1 DEF Items
  <2>3. /\ viewer' = [viewer EXCEPT ![v] = y]
        /\ queue' = [queue EXCEPT ![x.sub] = Tail(@)]
        /\ UNCHANGED <<subs, closed>>
    BY <1>4 DEF Receive
  <2> HIDE DEF x, item
  <2>4. <<item>> \in Seq(Events \cup {Delta}) BY <2>2
  <2>5. SentPage(x, <<item>>) BY <1>2, <2>4, Sends
  <2>6. LastId(<<item>>, x.cur) = item.id
    <3>1. <<item>> # <<>> /\ Len(<<item>>) = 1 /\ <<item>>[1] = item OBVIOUS
    <3>2. QED BY <1>2, <2>4, <3>1, LastIds
  <2>7. /\ y \in Pages /\ KeepsShown(x, y) /\ y.pc = "live" /\ y.sub = x.sub
        /\ y.wire = <<item>> /\ y.cur = item.id
    BY <1>1, <2>5, <2>6 DEF SentPage
  <2> HIDE DEF y
  <2>8. PageTyped(y) BY <1>2, <2>7 DEF PageTyped, Connected, KeepsShown
  <2>9. QED BY <1>1, <2>2, <2>3, <2>7, <2>8 DEF Becomes, x, item
<1>5. QED BY <1>3, <1>4

\* A page's step changes that page alone, into another that is typed.
LEMMA PagesBecome ==
    ASSUME BusTyped, StreamTyped, NEW v \in Viewers, PageStep(v)
    PROVE  \E y : Becomes(v, y)
<1>1. ASSUME NEW r \in Runs, Watch(v, r) PROVE \E y : Becomes(v, y)
  BY <1>1, WatchPage
<1>2. CASE Connect(v) BY <1>2, ConnectPage
<1>3. CASE Show(v) BY <1>3, ShowPage
<1>4. ASSUME NEW s \in Subscriptions, Listen(v, s) PROVE \E y : Becomes(v, y)
  BY <1>4, ListenPage
<1>5. CASE Replay(v) BY <1>5, ReplayPage
<1>6. CASE CheckDone(v) BY <1>6, CheckDonePage
<1>7. CASE Receive(v) BY <1>7, ReceivePage, TopUpPage DEF Connected
<1>8. CASE TimeOut(v) BY <1>8, TopUpPage DEF TimeOut, Connected
<1>9. CASE Cut(v) BY <1>9, CutPage
<1>10. QED
  BY <1>1, <1>2, <1>3, <1>4, <1>5, <1>6, <1>7, <1>8, <1>9 DEF PageStep, ViewerStep

LEMMA StreamTypedKept ==
    ASSUME BusTyped, StreamTyped, [StreamNext]_vars
    PROVE  StreamTyped'
<1>1. CASE UNCHANGED <<viewer, cuts>> BY <1>1 DEF StreamTyped
<1>2. ASSUME NEW v \in Viewers, PageStep(v) PROVE StreamTyped'
  <2>1. cuts' = cuts \/ (cuts < MaxCuts /\ cuts' = cuts + 1)
    BY <1>2 DEF PageStep, ViewerStep, Watch, Connect, Show, Listen, Replay, CheckDone,
                Receive, TimeOut, Cut
  <2>2. cuts' \in 0 .. MaxCuts BY <2>1, MaxCutsAssumption DEF StreamTyped
  <2>3. PICK y : Becomes(v, y) BY <1>2, PagesBecome
  <2>4. viewer' \in [Viewers -> Pages] /\ \A u \in Viewers : PageTyped(viewer'[u])
    BY <2>3, NewPage DEF Becomes
  <2>5. QED BY <2>2, <2>4 DEF StreamTyped
<1>3. QED BY <1>1, <1>2, StreamSteps

LEMMA StreamTypesBegin ==
    ASSUME StreamInit
    PROVE  ServerInv /\ StreamTyped
<1>1. Init BY DEF StreamInit
<1>2. ServerInv
  BY <1>1, Initially, MgrTypedInit, CountInit, ClosuresBegin DEF ServerInv
<1>3. PageTyped(NewViewer)
  BY NewViewerPage DEF PageTyped, NewViewer, Connected
<1>4. \A v \in Viewers : viewer[v] = NewViewer BY DEF StreamInit
<1>5. viewer \in [Viewers -> Pages] BY NewViewerPage DEF StreamInit
<1>6. QED BY <1>2, <1>3, <1>4, <1>5, MaxCutsAssumption DEF StreamTyped, StreamInit

LEMMA AlwaysServed == StreamSpec => [](ServerInv /\ StreamTyped)
<1>1. StreamInit => ServerInv /\ StreamTyped BY StreamTypesBegin
<1>2. ServerInv /\ StreamTyped /\ [StreamNext]_vars => (ServerInv /\ StreamTyped)'
  BY ServerKept, StreamTypedKept DEF ServerInv, MgrTyped
<1>3. QED BY <1>1, <1>2, PTL DEF StreamSpec

LEMMA PagesTypeOK ==
    ASSUME ServerInv, StreamTyped
    PROVE  TypeOK
<1>1. MgrTypeOK
  BY TypesMeanTypeOK DEF ServerInv, Inv, ClosureInv
<1>2. QED BY <1>1, PageParts DEF TypeOK, StreamTyped

-----------------------------------------------------------------------------
(* The steps of a call.                                                     *)

\* The call p2, which has the event e for the subscriptions in T.
Carries(p2, pc, e, T) ==
    /\ p2.todo = T
    /\ IF T # {} THEN p2.pc = pc /\ p2.event = e
       ELSE p2.pc = IF pc = "put" /\ IsTerminal(e) THEN "close" ELSE "idle"

Appends(t) == /\ AppendStep(t) /\ pub[t].pc = "append"
              /\ Carries(pub'[t], "put", pub[t].event, Live(RunOf(t)))
Snaps(t) == /\ pub[t].pc = "snapshot"
            /\ Carries(pub'[t], "put", pub[t].event, Live(RunOf(t)))
            /\ UNCHANGED <<history, subs, closed, queue, dropped>>
Puts(t, s) == /\ pub[t].pc = "put" /\ s \in pub[t].todo
              /\ Carries(pub'[t], "put", pub[t].event, pub[t].todo \ {s})
              /\ queue' = [queue EXCEPT ![s] = Offer(@, pub[t].event)]
              /\ dropped' = IF Len(queue[s]) < QueueSize THEN dropped
                                                  ELSE dropped \cup {RunOf(t)}
              /\ UNCHANGED <<history, subs, closed>>
Collects(t) == /\ pub[t].pc = "close"
            /\ Carries(pub'[t], "sentinel", pub[t].event, Live(RunOf(t)))
            /\ UNCHANGED <<history, subs, closed, queue, dropped>>
Rings(t, s) == /\ pub[t].pc = "sentinel" /\ s \in pub[t].todo
               /\ Carries(pub'[t], "sentinel", pub[t].event, pub[t].todo \ {s})
               /\ queue' = [queue EXCEPT ![s] = Offer(@, CLOSED)]
               /\ closed' = closed \cup {s}
               /\ UNCHANGED <<history, subs, dropped>>
Moves(t) == \/ Appends(t) \/ Snaps(t) \/ Collects(t)
            \/ \E s \in Subscriptions : Puts(t, s) \/ Rings(t, s)

LEMMA ServingCarries ==
    ASSUME NEW p \in Calls, NEW T \in SUBSET Subscriptions
    PROVE  Carries(Serving(p, T), p.pc, p.event, T)
<1>1. CASE T # {} BY <1>1 DEF Serving, Carries, Calls
<1>2. CASE T = {}
  <2>1. CASE p.pc = "put" /\ IsTerminal(p.event)
    BY <1>2, <2>1 DEF Serving, Carries, Calls
  <2>2. CASE ~(p.pc = "put" /\ IsTerminal(p.event))
    BY <1>2, <2>2 DEF Serving, Carries, Idle
  <2>3. QED BY <2>1, <2>2
<1>3. QED BY <1>1, <1>2

LEMMA CallMoves ==
    ASSUME BusTyped, NEW t \in Threads, PublishStep(t)
    PROVE  Moves(t) /\ \A u \in Threads \ {t} : pub'[u] = pub[u]
<1> DEFINE p == pub[t]
           r == RunOf(t)
           put == [p EXCEPT !.pc = "put"]
           ring == [p EXCEPT !.pc = "sentinel"]
<1>1. p \in Calls /\ pub = [u \in Threads |-> pub[u]] /\ (p.pc # "idle" => p.run = r)
  BY DEF BusTyped
<1>2. Live(r) \in SUBSET Subscriptions /\ p.todo \in SUBSET Subscriptions
  BY <1>1, ThreadOf DEF Live, BusTyped, Calls
<1>3. /\ put \in Calls /\ put.pc = "put" /\ put.event = p.event
      /\ ring \in Calls /\ ring.pc = "sentinel" /\ ring.event = p.event
  BY <1>1 DEF Calls, PublishPCs
<1>4. CASE AppendStep(t)
  <2>1. pub' = [pub EXCEPT ![t] = Serving(put, Live(r))] /\ p.pc = "append"
    BY <1>1, <1>4 DEF AppendStep
  <2> HIDE DEF put
  <2>2. Carries(Serving(put, Live(r)), "put", p.event, Live(r))
    BY <1>2, <1>3, ServingCarries
  <2>3. pub'[t] = Serving(put, Live(r)) /\ \A u \in Threads \ {t} : pub'[u] = pub[u]
    BY <1>1, <2>1
  <2>4. QED BY <1>4, <2>1, <2>2, <2>3 DEF Moves, Appends
<1>5. CASE SnapshotStep(t)
  <2>1. pub' = [pub EXCEPT ![t] = Serving(put, Live(r))] /\ p.pc = "snapshot"
    BY <1>1, <1>5 DEF SnapshotStep
  <2> HIDE DEF put
  <2>2. Carries(Serving(put, Live(r)), "put", p.event, Live(r))
    BY <1>2, <1>3, ServingCarries
  <2>3. pub'[t] = Serving(put, Live(r)) /\ \A u \in Threads \ {t} : pub'[u] = pub[u]
    BY <1>1, <2>1
  <2>4. QED BY <1>5, <2>1, <2>2, <2>3 DEF Moves, Snaps, SnapshotStep
<1>6. CASE CloseStep(t)
  <2>1. pub' = [pub EXCEPT ![t] = Serving(ring, Live(r))] /\ p.pc = "close"
    BY <1>1, <1>6 DEF CloseStep
  <2> HIDE DEF ring
  <2>2. Carries(Serving(ring, Live(r)), "sentinel", p.event, Live(r))
    BY <1>2, <1>3, ServingCarries
  <2>3. pub'[t] = Serving(ring, Live(r)) /\ \A u \in Threads \ {t} : pub'[u] = pub[u]
    BY <1>1, <2>1
  <2>4. QED BY <1>6, <2>1, <2>2, <2>3 DEF Moves, Collects, CloseStep
<1>7. CASE PutStep(t)
  <2>1. PICK s \in p.todo :
          /\ queue' = [queue EXCEPT ![s] = Offer(@, p.event)]
          /\ dropped' = IF Len(queue[s]) < QueueSize THEN dropped
                                                     ELSE dropped \cup {p.run}
          /\ pub' = [pub EXCEPT ![t] = Serving(p, p.todo \ {s})]
    BY <1>7 DEF PutStep
  <2>2. p.pc = "put" /\ p.run = r /\ UNCHANGED <<history, subs, closed>>
    BY <1>1, <1>7 DEF PutStep
  <2>3. pub'[t] = Serving(p, p.todo \ {s}) /\ \A u \in Threads \ {t} : pub'[u] = pub[u]
    BY <1>1, <2>1
  <2>4. Carries(Serving(p, p.todo \ {s}), "put", p.event, p.todo \ {s})
    BY <1>1, <1>2, <2>2, ServingCarries
  <2>5. Puts(t, s) BY <2>1, <2>2, <2>3, <2>4 DEF Puts
  <2>6. QED BY <1>2, <2>3, <2>5 DEF Moves
<1>8. CASE SentinelStep(t)
  <2>1. PICK s \in p.todo :
          /\ queue' = [queue EXCEPT ![s] = Offer(@, CLOSED)]
          /\ closed' = closed \cup {s}
          /\ pub' = [pub EXCEPT ![t] = Serving(p, p.todo \ {s})]
    BY <1>8 DEF SentinelStep
  <2>2. p.pc = "sentinel" /\ UNCHANGED <<history, subs, dropped>>
    BY <1>1, <1>8 DEF SentinelStep
  <2>3. pub'[t] = Serving(p, p.todo \ {s}) /\ \A u \in Threads \ {t} : pub'[u] = pub[u]
    BY <1>1, <2>1
  <2>4. Carries(Serving(p, p.todo \ {s}), "sentinel", p.event, p.todo \ {s})
    BY <1>1, <1>2, <2>2, ServingCarries
  <2>5. Rings(t, s) BY <2>1, <2>2, <2>3, <2>4 DEF Rings
  <2>6. QED BY <1>2, <2>3, <2>5 DEF Moves
<1>9. QED BY <1>4, <1>5, <1>6, <1>7, <1>8 DEF PublishStep

\* Which step of the server makes a thread enter a call, and which call.
EntersAs(t) ==
    LET r == RunOf(t)
    IN  /\ Free(t) /\ pub'[t].todo = {}
        /\ \/ /\ t = W(r) /\ worker[r] \in Middle /\ pub'[t].pc \in {"append", "snapshot"}
           \/ /\ closing[t].step = "emit" /\ closing'[t].step = "settle"
              /\ pub'[t].pc = "append"
           \/ t = W(r) /\ worker[r] = "finish" /\ pub'[t].pc = "close"
        /\ pub'[t].pc = "append" => pub'[t].event.id = Len(history[r]) + 1
        /\ pub'[t].pc = "snapshot" => pub'[t].event = Delta
        /\ UNCHANGED <<history, subs, closed, queue, dropped>>
        /\ \A u \in Threads \ {t} : pub'[u] = pub[u]

LEMMA StartsAs ==
    ASSUME BusTyped, NEW t \in Threads, Enters(t)
    PROVE  /\ Free(t) /\ pub'[t].todo = {}
           /\ \/ \E type \in DurableTypes :
                    StartPublish(t, RunOf(t), type) /\ pub'[t].pc = "append"
              \/ StartTransient(t, RunOf(t)) /\ pub'[t].pc = "snapshot"
              \/ StartFinish(t, RunOf(t)) /\ pub'[t].pc = "close"
           /\ pub'[t].pc = "append" => pub'[t].event.id = Len(history[RunOf(t)]) + 1
           /\ pub'[t].pc = "snapshot" => pub'[t].event = Delta
           /\ UNCHANGED <<history, subs, closed, queue, dropped>>
           /\ \A u \in Threads \ {t} : pub'[u] = pub[u]
BY DEF Enters, StartPublish, StartTransient, StartFinish, BusTyped, Free, Event

PublishesBy(t) == /\ PublishStep(t) /\ Moves(t) /\ UNCHANGED mgrVars
                  /\ \A u \in Threads \ {t} : pub'[u] = pub[u]

LEMMA WorkerEnters ==
    ASSUME BusTyped, NEW r \in Runs, WorkerStarts(r) \/ WorkerWorks(r)
    PROVE  UNCHANGED busVars \/ EntersAs(W(r))
<1> DEFINE t == W(r)
<1>1. t \in Threads /\ RunOf(t) = r BY TwoThreads
<1>2. \/ UNCHANGED busVars
      \/ /\ worker[r] \in Middle
         /\ \/ \E type \in DurableTypes : StartPublish(t, r, type)
            \/ StartTransient(t, r)
  BY DEF WorkerStarts, WorkerWorks, Begin, Announce, Classify, ShadowFails, Emit,
         QADelta, CheckDelta, SendDelta, QAFallsThrough, QAAnswered, Conclude,
         DurableTypes, Middle
<1>3. CASE /\ worker[r] \in Middle
           /\ \/ \E type \in DurableTypes : StartPublish(t, r, type)
              \/ StartTransient(t, r)
  <2>1. Enters(t) BY <1>1, <1>3 DEF Enters
  <2>2. pub'[t].pc \in {"append", "snapshot"}
    BY <1>1, <1>3 DEF StartPublish, StartTransient, BusTyped
  <2>3. QED BY <1>1, <1>3, <2>1, <2>2, StartsAs DEF EntersAs
<1>4. QED BY <1>2, <1>3

LEMMA CloserEnters ==
    ASSUME Types, BusTyped, NEW t \in Threads, CloseStepOf(t)
    PROVE  UNCHANGED busVars \/ EntersAs(t)
<1>1. CASE EmitTerminal(t)
  <2>1. /\ closing[t].step = "emit" /\ StepTo(t, "settle")
        /\ StartPublish(t, RunOf(t), closing[t].type)
    BY <1>1 DEF EmitTerminal
  <2>2. closing[t].type \in DurableTypes
    BY <2>1 DEF Types, RunTypes, DurableTypes
  <2>3. Enters(t) BY <2>1, <2>2 DEF Enters
  <2>4. closing'[t].step = "settle"
    BY <2>1, ClosingMoves DEF Types, CloseSteps
  <2>5. pub'[t].pc = "append" BY <2>1 DEF StartPublish, BusTyped
  <2>6. QED BY <2>1, <2>3, <2>4, <2>5, StartsAs DEF EntersAs
<1>2. CASE ~EmitTerminal(t)
  BY <1>2 DEF CloseStepOf, ClaimClosure, SettleStatus, Reply
<1>3. QED BY <1>1, <1>2

LEMMA FinishEnters ==
    ASSUME BusTyped, NEW r \in Runs, FinishBus(r)
    PROVE  EntersAs(W(r))
<1> DEFINE t == W(r)
<1>1. t \in Threads /\ RunOf(t) = r BY TwoThreads
<1>2. worker[r] = "finish" /\ StartFinish(t, r) BY DEF FinishBus
<1>3. Enters(t) BY <1>1, <1>2 DEF Enters
<1>4. pub'[t].pc = "close" BY <1>1, <1>2 DEF StartFinish, BusTyped
<1>5. QED BY <1>1, <1>2, <1>3, <1>4, StartsAs DEF EntersAs

\* What the server does on the bus, and by whom.
LEMMA BusCases ==
    ASSUME Types, BusTyped, [MgrNext]_serverVars
    PROVE  \/ UNCHANGED busVars
           \/ PurgeRun
           \/ \E t \in Threads : EntersAs(t) \/ PublishesBy(t)
<1>1. ASSUME NEW r \in Runs, WorkerStarts(r) \/ WorkerWorks(r)
      PROVE  UNCHANGED busVars \/ \E t \in Threads : EntersAs(t)
  BY <1>1, WorkerEnters, TwoThreads
<1>2. ASSUME NEW t \in Threads, CloseStepOf(t)
      PROVE  UNCHANGED busVars \/ \E u \in Threads : EntersAs(u)
  BY <1>2, CloserEnters
<1>3. ASSUME NEW r \in Runs, Release(r) \/ FinishBus(r) \/ DeadlinePasses(r)
      PROVE  UNCHANGED busVars \/ \E t \in Threads : EntersAs(t)
  <2>1. CASE FinishBus(r) BY <2>1, FinishEnters, TwoThreads
  <2>2. CASE ~FinishBus(r) BY <1>3, <2>2 DEF Release, DeadlinePasses
  <2>3. QED BY <2>1, <2>2
<1>4. CASE DropRun \/ DropChat BY <1>4 DEF DropRun, DropChat
<1>5. CASE UNCHANGED serverVars BY <1>5 DEF serverVars
<1>6. ASSUME NEW r \in Runs, WorkerEnds(r) \/ Supervise(r)
      PROVE  UNCHANGED busVars \/ \E t \in Threads : EntersAs(t)
  BY <1>2, <1>3, <1>6, TwoThreads DEF WorkerEnds, Supervise
<1>7. CASE \/ \E r \in Runs : \/ \E c \in Chats : ReserveChat(r, c)
                              \/ \E k \in Cases : CreateRun(r, k)
                              \/ AddUserMessage(r) \/ LinkRun(r)
           \/ \E c \in Chats : DeleteChat(c)
  BY <1>7 DEF ReserveChat, CreateRun, AddUserMessage, LinkRun, DeleteChat
<1>8. ASSUME NEW t \in Threads, PublishStep(t), UNCHANGED mgrVars
      PROVE  PublishesBy(t)
  BY <1>8, CallMoves DEF PublishesBy
<1>9. QED
  BY <1>1, <1>4, <1>5, <1>6, <1>7, <1>8 DEF MgrNext, Request, Delete

-----------------------------------------------------------------------------
(* The threads.                                                             *)

LEMMA CallsKept ==
    ASSUME Types, BusTyped, CallInv, [MgrNext]_serverVars
    PROVE  CallInv'
<1>1. CASE UNCHANGED busVars \/ PurgeRun
  BY <1>1 DEF busVars, PurgeRun, Purge, CallInv
<1>2. ASSUME NEW t \in Threads, EntersAs(t) PROVE CallInv'
  <2>1. SUFFICES ASSUME NEW u \in Threads
                 PROVE  /\ pub'[u].pc \notin {"put", "sentinel"} => pub'[u].todo = {}
                        /\ pub'[u].pc = "snapshot" => pub'[u].event = Delta
                        /\ pub'[u].pc = "put" => pub'[u].event \in Events \cup {Delta}
    BY DEF CallInv
  <2>2. CASE u = t BY <1>2, <2>2 DEF EntersAs
  <2>3. CASE u # t BY <1>2, <2>3 DEF EntersAs, CallInv
  <2>4. QED BY <2>2, <2>3
<1>3. ASSUME NEW t \in Threads, PublishesBy(t) PROVE CallInv'
  <2>1. SUFFICES ASSUME NEW u \in Threads
                 PROVE  /\ pub'[u].pc \notin {"put", "sentinel"} => pub'[u].todo = {}
                        /\ pub'[u].pc = "snapshot" => pub'[u].event = Delta
                        /\ pub'[u].pc = "put" => pub'[u].event \in Events \cup {Delta}
    BY DEF CallInv
  <2>2. CASE u # t BY <1>3, <2>2 DEF PublishesBy, CallInv
  <2>3. CASE u = t
    <3>1. CASE \/ Appends(t) \/ Snaps(t) \/ \E s \in Subscriptions : Puts(t, s)
      <4>1. /\ pub[t].event \in Events \cup {Delta}
            /\ \E T : Carries(pub'[t], "put", pub[t].event, T)
        BY <3>1 DEF Appends, Snaps, Puts, CallInv, BusTyped
      <4>2. QED BY <2>3, <4>1 DEF Carries
    <3>2. CASE Collects(t) \/ \E s \in Subscriptions : Rings(t, s)
      <4>1. \E T : Carries(pub'[t], "sentinel", pub[t].event, T)
        BY <3>2 DEF Collects, Rings
      <4>2. QED BY <2>3, <4>1 DEF Carries
    <3>3. QED BY <1>3, <3>1, <3>2 DEF PublishesBy, Moves
  <2>4. QED BY <2>2, <2>3
<1>4. QED BY <1>1, <1>2, <1>3, BusCases

LEMMA WorkersMove ==
    ASSUME Types, [MgrNext]_serverVars, NEW q \in Runs
    PROVE  /\ worker[q] = "new" => worker'[q] \in Early
           /\ worker'[q] \in {"finish", "ended"} =>
                 \/ worker[q] \in {"finish", "ended"}
                 \/ closing[W(q)].step = "done" /\ closing' = closing
<1> DEFINE Goal == /\ worker[q] = "new" => worker'[q] \in Early
                   /\ worker'[q] \in {"finish", "ended"} =>
                         \/ worker[q] \in {"finish", "ended"}
                         \/ closing[W(q)].step = "done" /\ closing' = closing
<1>1. CASE worker' = worker BY <1>1 DEF Early
<1>2. ASSUME NEW r \in Runs,
             \/ \E c \in Chats : ReserveChat(r, c)
             \/ \E k \in Cases : CreateRun(r, k)
             \/ AddUserMessage(r) \/ LinkRun(r)
      PROVE  Goal
  <2>1. \E pc \in Early : GoTo(r, pc)
    BY <1>2 DEF ReserveChat, CreateRun, AddUserMessage, LinkRun, Early
  <2>2. QED BY <2>1 DEF GoTo, Types, RunTypes, Early
<1>3. ASSUME NEW r \in Runs, Begin(r) \/ Turns(r) \/ Conclude(r) PROVE Goal
  <2>1. /\ \E pc \in Middle \cup {"closing"} : GoTo(r, pc)
        /\ worker[r] # "new"
    BY <1>3 DEF Begin, Turns, Conclude, GoTo, Middle, AgentOutcomes
  <2>2. QED BY <2>1 DEF GoTo, Types, RunTypes, Early, Middle
<1>4. ASSUME NEW r \in Runs, Release(r) PROVE Goal
  BY <1>4 DEF Release, GoTo, Types, RunTypes, Early
<1>5. ASSUME NEW r \in Runs, FinishBus(r) PROVE Goal
  BY <1>5 DEF FinishBus, GoTo, Types, RunTypes, Early
<1>6. CASE UNCHANGED serverVars BY <1>1, <1>6 DEF serverVars, mgrVars
<1>7. CASE Step
  BY <1>1, <1>2, <1>3, <1>4, <1>5, <1>7
  DEF Step, DeadlinePasses, CloseStepOf, ClaimClosure, EmitTerminal, SettleStatus,
      Reply, DeleteChat, DropRun, PurgeRun, DropChat, Serves, mgrVars
<1>8. QED BY <1>6, <1>7, Steps

\* A closure, once begun, goes on to its end and stays there.
LEMMA ClosuresGoOn ==
    ASSUME ClosureInv, [MgrNext]_serverVars, NEW t \in Threads
    PROVE  /\ closing[t].step # "none" => closing'[t].step # "none"
           /\ closing[t].step \in {"settle", "reply", "done"} =>
                 closing'[t].step \in {"settle", "reply", "done"}
           /\ closing[t].step = "done" => closing'[t].step = "done"
<1>1. CASE closing'[t] = closing[t] BY <1>1
<1>2. CASE closing[t].step = "none" BY <1>2
<1>3. CASE CloseStepOf(t)
  BY <1>3, CloserSteps DEF ClosureInv
<1>4. QED BY <1>1, <1>2, <1>3, ClosureMoves

LEMMA SealStays ==
    ASSUME ClosureInv, BusTyped, [MgrNext]_serverVars, NEW r \in Runs, Sealed(r)
    PROVE  Sealed(r)'
<1>1. W(r) \in Threads /\ RunOf(W(r)) = r BY TwoThreads
<1>2. worker'[r] \in Late /\ closing'[W(r)].step \in {"settle", "reply", "done"}
  <2>1. worker[r] # "new" BY DEF Sealed, Late
  <2>2. QED BY <1>1, <2>1, RunGoesOn, ClosuresGoOn DEF GoesOn, Sealed
<1>3. pub'[W(r)].pc # "append"
  <2>1. CASE UNCHANGED busVars \/ PurgeRun
    BY <2>1 DEF Sealed, busVars, PurgeRun, Purge
  <2>2. ASSUME NEW t \in Threads, EntersAs(t) PROVE pub'[W(r)].pc # "append"
    BY <1>1, <2>2 DEF EntersAs, Sealed, Late, Middle
  <2>3. ASSUME NEW t \in Threads, PublishesBy(t) PROVE pub'[W(r)].pc # "append"
    BY <1>1, <2>3 DEF PublishesBy, Moves, Appends, Snaps, Collects, Puts, Rings, Carries,
                      Sealed
  <2>4. QED BY <2>1, <2>2, <2>3, BusCases DEF ClosureInv
<1>4. QED BY <1>2, <1>3 DEF Sealed

LEMMA SealsKept ==
    ASSUME Inv, BusTyped, CallInv, SealInv, [MgrNext]_serverVars
    PROVE  SealInv'
<1>1. ClosureInv /\ Types /\ TerminalInv /\ ClosingInv BY DEF Inv, ClosureInv
<1>2. SUFFICES ASSUME NEW r \in Runs
               PROVE  /\ worker'[r] \in Early => history'[r] = <<>> /\ pub'[W(r)].pc = "idle"
                      /\ pub'[D(r)].pc # "idle" => closing'[D(r)].step # "none"
                      /\ worker'[r] \in {"finish", "ended"} => closing'[W(r)].step = "done"
                      /\ \/ pub'[W(r)].pc \in {"close", "sentinel"}
                         \/ pub'[W(r)].pc = "put" /\ IsTerminal(pub'[W(r)].event)
                         => Sealed(r)'
  BY DEF SealInv
<1>3. /\ W(r) \in Threads /\ RunOf(W(r)) = r /\ D(r) \in Threads /\ RunOf(D(r)) = r
      /\ W(r) # D(r)
  BY TwoThreads
<1>4. /\ worker[r] \in Early => history[r] = <<>> /\ pub[W(r)].pc = "idle"
      /\ pub[D(r)].pc # "idle" => closing[D(r)].step # "none"
      /\ worker[r] \in {"finish", "ended"} => closing[W(r)].step = "done"
      /\ \/ pub[W(r)].pc \in {"close", "sentinel"}
         \/ pub[W(r)].pc = "put" /\ IsTerminal(pub[W(r)].event)
         => Sealed(r)
  BY DEF SealInv
<1>5. ASSUME worker'[r] \in Early
      PROVE  history'[r] = <<>> /\ pub'[W(r)].pc = "idle"
  <2>1. worker[r] \in Early
    BY <1>1, <1>5, RunGoesOn DEF GoesOn, Early
  <2>2. pub[W(r)].pc = "idle" /\ pub[D(r)].pc = "idle" /\ history[r] = <<>>
    <3>1. closing[D(r)].step = "none" BY <1>1, <2>1 DEF ClosingInv
    <3>2. QED BY <1>4, <2>1, <3>1
  <2>3. CASE UNCHANGED busVars BY <2>2, <2>3 DEF busVars
  <2>4. CASE PurgeRun BY <2>2, <2>4 DEF PurgeRun, Purge, BusTyped
  <2>5. ASSUME NEW t \in Threads, EntersAs(t)
        PROVE  history'[r] = <<>> /\ pub'[W(r)].pc = "idle"
    <3>1. t # W(r)
      <4>1. closing[W(r)].step = "none"
        BY <1>1, <2>1 DEF ClosingInv, Early, Late
      <4>2. QED BY <1>3, <2>1, <2>5, <4>1 DEF EntersAs, Early, Middle
    <3>2. QED BY <1>3, <2>2, <2>5, <3>1 DEF EntersAs
  <2>6. ASSUME NEW t \in Threads, PublishesBy(t)
        PROVE  history'[r] = <<>> /\ pub'[W(r)].pc = "idle"
    <3>1. pub[t].pc # "idle"
      BY <2>6 DEF PublishesBy, Moves, Appends, Snaps, Collects, Puts, Rings
    <3>2. t # W(r) /\ t # D(r) BY <2>2, <3>1
    <3>3. RunOf(t) # r BY <3>2, ThreadOf
    <3>4. history'[r] = history[r]
      <4>1. CASE Appends(t)
        BY <1>1, <3>3, <4>1, WrittenAppends DEF Appends, BusTyped
      <4>2. CASE ~Appends(t)
        BY <2>6, <4>2 DEF PublishesBy, Moves, Snaps, Collects, Puts, Rings
      <4>3. QED BY <4>1, <4>2
    <3>5. QED BY <1>3, <2>2, <2>6, <3>2, <3>4 DEF PublishesBy
  <2>7. QED BY <1>1, <2>3, <2>4, <2>5, <2>6, BusCases
<1>6. ASSUME pub'[D(r)].pc # "idle"
      PROVE  closing'[D(r)].step # "none"
  <2>1. CASE pub[D(r)].pc # "idle"
    BY <1>1, <1>3, <1>4, <2>1, ClosuresGoOn
  <2>2. CASE pub[D(r)].pc = "idle"
    <3>1. EntersAs(D(r))
      <4>1. pub'[D(r)] # pub[D(r)] BY <1>6, <2>2
      <4>2. ~(UNCHANGED busVars \/ PurgeRun)
        BY <4>1 DEF busVars, PurgeRun, Purge
      <4>3. PICK t \in Threads : EntersAs(t) \/ PublishesBy(t)
        BY <1>1, <4>2, BusCases
      <4>4. t = D(r) BY <1>3, <4>1, <4>3 DEF EntersAs, PublishesBy
      <4>5. ~PublishesBy(t)
        BY <2>2, <4>4 DEF PublishesBy, Moves, Appends, Snaps, Collects, Puts, Rings
      <4>6. QED BY <4>3, <4>4, <4>5
    <3>2. closing'[D(r)].step = "settle"
      <4>1. D(r) # W(RunOf(D(r))) BY <1>3
      <4>2. QED BY <3>1, <4>1 DEF EntersAs
    <3>3. QED BY <3>2
  <2>3. QED BY <2>1, <2>2
<1>7. ASSUME worker'[r] \in {"finish", "ended"}
      PROVE  closing'[W(r)].step = "done"
  <2>1. CASE worker[r] \in {"finish", "ended"}
    BY <1>1, <1>3, <1>4, <2>1, ClosuresGoOn
  <2>2. CASE worker[r] \notin {"finish", "ended"}
    BY <1>1, <1>7, <2>2, WorkersMove
  <2>3. QED BY <2>1, <2>2
<1>8. ASSUME \/ pub'[W(r)].pc \in {"close", "sentinel"}
             \/ pub'[W(r)].pc = "put" /\ IsTerminal(pub'[W(r)].event)
      PROVE  Sealed(r)'
  <2>1. CASE Sealed(r) BY <1>1, <2>1, SealStays
  <2>2. CASE ~Sealed(r)
    <3>1. /\ pub[W(r)].pc \notin {"close", "sentinel"}
          /\ ~(pub[W(r)].pc = "put" /\ IsTerminal(pub[W(r)].event))
      BY <1>4, <2>2
    <3>2. pub'[W(r)] # pub[W(r)] BY <1>8, <3>1
    <3>3. ~(UNCHANGED busVars \/ PurgeRun)
      BY <3>2 DEF busVars, PurgeRun, Purge
    <3>4. PICK t \in Threads : EntersAs(t) \/ PublishesBy(t)
      BY <1>1, <3>3, BusCases
    <3>5. t = W(r) BY <1>3, <3>2, <3>4 DEF EntersAs, PublishesBy
    <3>6. CASE EntersAs(t)
      <4>1. worker[r] = "finish"
        BY <1>3, <1>8, <3>5, <3>6 DEF EntersAs
      <4>2. Sealed(r)
        BY <1>4, <3>5, <3>6, <4>1 DEF Sealed, Late, EntersAs, Free
      <4>3. QED BY <2>2, <4>2
    <3>7. CASE PublishesBy(t)
      <4>1. CASE Appends(t)
        <5>1. IsTerminal(pub[t].event)
          BY <1>8, <3>5, <4>1 DEF Appends, Carries
        <5>2. closing[t].step = "settle"
          BY <1>1, <4>1, <5>1 DEF Appends, TerminalInv, Announcing
        <5>3. worker[r] \in Late BY <1>1, <3>5, <5>2 DEF ClosingInv
        <5>4. UNCHANGED <<worker, closing>> BY <3>7 DEF PublishesBy, mgrVars
        <5>5. pub'[t].pc # "append" BY <1>8, <3>5
        <5>6. QED BY <3>5, <5>2, <5>3, <5>4, <5>5 DEF Sealed
      <4>2. CASE Snaps(t)
        <5>1. pub[t].event = Delta BY <4>2 DEF Snaps, CallInv
        <5>2. QED BY <1>8, <3>5, <4>2, <5>1 DEF Snaps, Carries, IsTerminal, Delta,
                                                Event, TerminalTypes
      <4>3. ASSUME NEW s \in Subscriptions, Puts(t, s) PROVE FALSE
        BY <1>8, <3>1, <3>5, <4>3 DEF Puts, Carries
      <4>4. ~Collects(t) /\ \A s \in Subscriptions : ~Rings(t, s)
        BY <3>1, <3>5 DEF Collects, Rings
      <4>5. QED BY <3>7, <4>1, <4>2, <4>3, <4>4 DEF PublishesBy, Moves
    <3>8. QED BY <3>4, <3>6, <3>7
  <2>3. QED BY <2>1, <2>2
<1>9. QED BY <1>5, <1>6, <1>7, <1>8

LEMMA UndisturbedBefore ==
    ASSUME ClosureInv, [MgrNext]_serverVars, NEW r \in Runs, worker[r] # "new",
           Undisturbed(r)'
    PROVE  Undisturbed(r)
BY RunGoesOn DEF GoesOn, Undisturbed, Registered

\* The supervisor of a run it does not close is in no call.
LEMMA SupervisorIdle ==
    ASSUME ClosingInv, SealInv, NEW r \in Runs, Undisturbed(r)
    PROVE  pub[D(r)].pc = "idle"
BY DEF ClosingInv, SealInv, Undisturbed

\* How the events of an undisturbed run come about: only its worker moves them.
OwnMoves(r) == \/ history'[r] = history[r] /\ pub'[W(r)] = pub[W(r)]
               \/ EntersAs(W(r))
               \/ PublishesBy(W(r))

LEMMA OthersKeepHistory ==
    ASSUME BusTyped, NEW t \in Threads, EntersAs(t) \/ PublishesBy(t),
           NEW r \in Runs, RunOf(t) # r
    PROVE  history'[r] = history[r]
<1>1. CASE history' = history BY <1>1
<1>2. CASE PublishesBy(t) /\ Appends(t)
  BY <1>2, WrittenAppends DEF Appends, BusTyped
<1>3. CASE ~(PublishesBy(t) /\ Appends(t))
  BY <1>1, <1>3 DEF EntersAs, PublishesBy, Moves, Snaps, Collects, Puts, Rings
<1>4. QED BY <1>2, <1>3

\* A deletion purges what left the registry.
LEMMA PurgesAbsent ==
    ASSUME Types, PurgeInv, PurgeRun
    PROVE  \E q \in Runs : ~Registered(q) /\ Purge(q)
BY HeadTailProperties DEF Types, ChatTypes, PurgeRun, PurgeInv

LEMMA OwnHistory ==
    ASSUME Inv, BusTyped, SealInv, PurgeInv, [MgrNext]_serverVars,
           NEW r \in Runs, Undisturbed(r)
    PROVE  OwnMoves(r)
<1>1. Types /\ ClosingInv BY DEF Inv, ClosureInv
<1>2. /\ W(r) \in Threads /\ RunOf(W(r)) = r /\ D(r) \in Threads /\ RunOf(D(r)) = r
      /\ W(r) # D(r)
  BY TwoThreads
<1>3. CASE UNCHANGED busVars BY <1>3 DEF OwnMoves, busVars
<1>4. CASE PurgeRun
  <2>1. PICK q \in Runs : ~Registered(q) /\ Purge(q)
    BY <1>1, <1>4, PurgesAbsent
  <2>2. q # r BY <2>1 DEF Undisturbed
  <2>3. QED BY <2>1, <2>2 DEF Purge, BusTyped, OwnMoves
<1>5. ASSUME NEW t \in Threads, EntersAs(t) \/ PublishesBy(t) PROVE OwnMoves(r)
  <2>1. CASE t = W(r) BY <1>5, <2>1 DEF OwnMoves
  <2>2. CASE t = D(r)
    <3>1. pub[t].pc = "idle" /\ closing[t].step # "emit"
      <4>1. closing[t].step = "none"
        BY <1>1, <2>2 DEF ClosingInv, Undisturbed
      <4>2. QED BY <1>1, <2>2, <4>1, SupervisorIdle
    <3>2. ~PublishesBy(t)
      BY <3>1 DEF PublishesBy, Moves, Appends, Snaps, Collects, Puts, Rings
    <3>3. ~EntersAs(t) BY <1>2, <2>2, <3>1 DEF EntersAs
    <3>4. QED BY <1>5, <3>2, <3>3
  <2>3. CASE t # W(r) /\ t # D(r)
    <3>1. RunOf(t) # r BY <2>3, ThreadOf
    <3>2. history'[r] = history[r] BY <1>5, <3>1, OthersKeepHistory
    <3>3. pub'[W(r)] = pub[W(r)]
      BY <1>2, <1>5, <2>3 DEF EntersAs, PublishesBy
    <3>4. QED BY <3>2, <3>3 DEF OwnMoves
  <2>4. QED BY <2>1, <2>2, <2>3
<1>6. QED BY <1>1, <1>3, <1>4, <1>5, BusCases

\* The append of a thread whose history has room.
LEMMA AppendsToHistory ==
    ASSUME BusTyped, Fits, NEW t \in Threads, Appends(t)
    PROVE  LET r == RunOf(t)
               e == pub[t].event
           IN  /\ r \in Runs /\ e \in Events /\ history[r] \in Seq(Events)
               /\ history'[r] = Append(history[r], e)
               /\ Len(history'[r]) = Len(history[r]) + 1 /\ Len(history[r]) \in Nat
               /\ \A i \in 1 .. Len(history[r]) : history'[r][i] = history[r][i]
               /\ history'[r][Len(history[r]) + 1] = e
<1> DEFINE r == RunOf(t)
           e == pub[t].event
           h == history[r]
<1>1. r \in Runs /\ AppendStep(t) BY ThreadOf DEF Appends
<1>2. e \in Events /\ h \in Seq(Events) /\ Len(h) \in Nat
  BY <1>1, LenProperties DEF BusTyped, Appends
<1>3. history'[r] = Append(h, e)
  BY <1>1, WrittenAppends DEF BusTyped, Appends, Fits
<1> HIDE DEF h, e
<1>4. /\ Len(Append(h, e)) = Len(h) + 1
      /\ \A i \in 1 .. Len(h) : Append(h, e)[i] = h[i]
      /\ Append(h, e)[Len(h) + 1] = e
  BY <1>2, AppendProperties
<1>5. QED BY <1>1, <1>2, <1>3, <1>4 DEF h, e

Numbered(r) ==
    /\ \A i \in DOMAIN history[r] : history[r][i].id = i
    /\ pub[W(r)].pc = "append" => pub[W(r)].event.id = Len(history[r]) + 1
    /\ pub[W(r)].pc = "put" /\ pub[W(r)].event # Delta =>
          /\ history[r] # <<>>
          /\ pub[W(r)].event = history[r][Len(history[r])]

LEMMA NumbersKept ==
    ASSUME Inv, BusTyped, BusTyped', Fits, CallInv, SealInv, SealInv', NumberInv,
           PurgeInv, [MgrNext]_serverVars
    PROVE  NumberInv'
<1>1. ClosureInv /\ Types /\ ClosingInv BY DEF Inv, ClosureInv
<1>2. SUFFICES ASSUME NEW r \in Runs, Undisturbed(r)'
               PROVE  Numbered(r)'
  BY DEF NumberInv, Numbered
<1>3. W(r) \in Threads /\ RunOf(W(r)) = r BY TwoThreads
<1> DEFINE t == W(r)
<1>4. CASE worker[r] = "new"
  <2>1. worker'[r] \in Early BY <1>1, <1>4, WorkersMove
  <2>2. history'[r] = <<>> /\ pub'[W(r)].pc = "idle"
    BY <2>1 DEF SealInv
  <2>3. DOMAIN history'[r] = {} BY <2>2
  <2>4. QED BY <2>2, <2>3 DEF Numbered
<1>5. CASE worker[r] # "new"
  <2>1. Undisturbed(r) BY <1>1, <1>2, <1>5, UndisturbedBefore
  <2>2. Numbered(r) BY <2>1 DEF NumberInv, Numbered
  <2>3. CASE history'[r] = history[r] /\ pub'[W(r)] = pub[W(r)]
    BY <2>2, <2>3 DEF Numbered
  <2>4. CASE EntersAs(W(r))
    <3>1. /\ history' = history /\ pub'[t].pc # "put"
          /\ pub'[t].pc = "append" => pub'[t].event.id = Len(history[r]) + 1
      BY <1>3, <2>4 DEF EntersAs
    <3>2. QED BY <2>2, <3>1 DEF Numbered
  <2>5. CASE Appends(t)
    <3> DEFINE h == history[r]
               e == pub[t].event
    <3>1. /\ h \in Seq(Events) /\ history'[r] = Append(h, e)
          /\ Len(history'[r]) = Len(h) + 1 /\ Len(h) \in Nat
          /\ \A i \in 1 .. Len(h) : history'[r][i] = h[i]
          /\ history'[r][Len(h) + 1] = e
      BY <1>3, <2>5, AppendsToHistory
    <3>2. e.id = Len(h) + 1 BY <2>2, <2>5 DEF Numbered, Appends
    <3>3. \A i \in 1 .. Len(h) : h[i].id = i
      BY <2>2, <3>1, LenProperties DEF Numbered
    <3>4. history'[r] \in Seq(Events) BY DEF BusTyped
    <3>5. DOMAIN history'[r] = 1 .. Len(h) + 1 BY <3>1, <3>4, LenProperties
    <3>6. /\ pub'[t].pc # "append"
          /\ pub'[t].pc = "put" => pub'[t].event = e
      BY <2>5 DEF Appends, Carries
    <3> HIDE DEF h, e
    <3>7. \A i \in 1 .. Len(h) + 1 : history'[r][i].id = i
      BY <3>1, <3>2, <3>3
    <3>8. history'[r] # <<>> BY <3>1, <3>5
    <3>9. QED BY <3>1, <3>5, <3>6, <3>7, <3>8 DEF Numbered
  <2>6. CASE PublishesBy(t) /\ ~Appends(t)
    <3>1. history' = history /\ pub'[t].pc # "append"
      BY <2>6 DEF PublishesBy, Moves, Snaps, Collects, Puts, Rings, Carries
    <3>2. pub'[t].pc = "put" =>
            \/ pub'[t].event = Delta
            \/ pub[t].pc = "put" /\ pub'[t].event = pub[t].event
      BY <1>3, <2>6 DEF PublishesBy, Moves, Snaps, Collects, Puts, Rings, Carries, CallInv
    <3>3. QED BY <2>2, <3>1, <3>2 DEF Numbered
  <2>7. QED BY <1>1, <2>1, <2>3, <2>4, <2>5, <2>6, OwnHistory DEF OwnMoves
<1>6. QED BY <1>4, <1>5

\* The pages change nothing of this.
LEMMA ThreadsStutter ==
    ASSUME CallInv, SealInv, NumberInv, Unmoved
    PROVE  CallInv' /\ SealInv' /\ NumberInv'
<1>1. UNCHANGED <<history, pub, worker, closing, deadline, status>>
  BY DEF Unmoved, mgrVars
<1>2. CallInv' BY <1>1 DEF CallInv
<1>3. SealInv' BY <1>1 DEF SealInv, Sealed
<1>4. NumberInv' BY <1>1 DEF NumberInv, Undisturbed, Registered
<1>5. QED BY <1>2, <1>3, <1>4


LEMMA ThreadsKept ==
    ASSUME ServerInv, ServerInv', Fits, StreamTyped, ThreadInv, [StreamNext]_vars
    PROVE  ThreadInv'
<1>1. Inv /\ Types /\ BusTyped /\ BusTyped' /\ PurgeInv
  BY DEF ServerInv, Inv, ClosureInv, MgrTyped
<1>2. CASE [MgrNext]_serverVars
  <2>1. CallInv' BY <1>1, <1>2, CallsKept DEF ThreadInv
  <2>2. SealInv' BY <1>1, <1>2, SealsKept DEF ThreadInv
  <2>3. NumberInv' BY <1>1, <1>2, <2>2, NumbersKept DEF ThreadInv
  <2>4. QED BY <2>1, <2>2, <2>3 DEF ThreadInv
<1>3. ASSUME NEW v \in Viewers, PageStep(v) PROVE ThreadInv'
  BY <1>3, PagesOnBus, ThreadsStutter DEF ThreadInv, Unmoved
<1>4. QED BY <1>2, <1>3, StreamSteps

LEMMA ThreadsBegin ==
    ASSUME Init
    PROVE  ThreadInv
<1>1. CallInv BY DEF Init, BusInit, Idle, CallInv
<1>2. SealInv
  BY TwoThreads DEF Init, BusInit, MgrInit, Idle, SealInv, IsTerminal
<1>3. NumberInv
  BY TwoThreads DEF Init, BusInit, MgrInit, NumberInv, Undisturbed, Registered
<1>4. QED BY <1>1, <1>2, <1>3 DEF ThreadInv

-----------------------------------------------------------------------------
(* The queues.                                                              *)

LEMMA ItemIds == \A e \in Items : e.id \in Nat
BY DEF Items, Events, Delta, CLOSED, Event, NoId

\* h2 goes on where h ends.
Grows(h, h2) == Len(h) <= Len(h2) /\ \A i \in 1 .. Len(h) : h2[i] = h[i]

LEMMA OrderedGrows ==
    ASSUME NEW h \in Seq(Events), NEW h2 \in Seq(Events), Grows(h, h2),
           NEW q \in Seq(Items), NEW n \in Nat, n <= Len(h), Ordered(q, h, n)
    PROVE  Ordered(q, h2, n)
<1>1. Len(h) \in Nat /\ \A i \in 1 .. Len(q) : q[i].id \in Nat
  BY ElementOfSeq, LenProperties, ItemIds
<1>2. ASSUME NEW i \in 1 .. Len(q), q[i].id # NoId
      PROVE  q[i].id <= n /\ q[i] = h2[q[i].id]
  <2>1. q[i].id <= n /\ q[i] = h[q[i].id] /\ q[i].id \in 1 .. Len(h)
    BY <1>1, <1>2 DEF Ordered, NoId
  <2>2. QED BY <2>1 DEF Grows
<1>3. QED BY <1>2 DEF Ordered

LEMMA OrderedNoise ==
    ASSUME NEW h, NEW q \in Seq(Items), NEW n \in Nat, Ordered(q, h, n),
           NEW item \in {Delta, CLOSED}
    PROVE  Ordered(Append(q, item), h, n)
<1> DEFINE p == Append(q, item)
<1>1. item \in Items /\ item.id = NoId BY DEF Items, Delta, CLOSED, Event
<1>2. /\ Len(p) = Len(q) + 1 /\ Len(q) \in Nat
      /\ \A i \in 1 .. Len(q) : p[i] = q[i]
      /\ p[Len(q) + 1] = item
  BY <1>1, AppendProperties, LenProperties
<1> HIDE DEF p
<1>3. \A i \in 1 .. Len(p) : i \in 1 .. Len(q) \/ i = Len(q) + 1 BY <1>2
<1>4. \A i \in 1 .. Len(p) : p[i].id # NoId => i \in 1 .. Len(q) /\ p[i] = q[i]
  BY <1>1, <1>2, <1>3
<1>5. \A i \in 1 .. Len(p) :
         IF p[i].id = NoId THEN p[i] \in {Delta, CLOSED}
                           ELSE p[i].id <= n /\ p[i] = h[p[i].id]
  BY <1>1, <1>2, <1>3 DEF Ordered
<1>6. \A i, j \in 1 .. Len(p) :
          i < j /\ p[i].id # NoId /\ p[j].id # NoId => p[i].id < p[j].id
  BY <1>4 DEF Ordered
<1>7. QED BY <1>5, <1>6 DEF Ordered, p

LEMMA OrderedPut ==
    ASSUME NEW h, NEW q \in Seq(Items), NEW n \in Nat, Ordered(q, h, n),
           NEW e \in Events, e = h[n + 1], e.id = n + 1
    PROVE  Ordered(Append(q, e), h, n + 1)
<1> DEFINE p == Append(q, e)
<1>1. e \in Items BY DEF Items
<1>2. /\ Len(p) = Len(q) + 1 /\ Len(q) \in Nat
      /\ \A i \in 1 .. Len(q) : p[i] = q[i]
      /\ p[Len(q) + 1] = e
  BY <1>1, AppendProperties, LenProperties
<1>3. \A i \in 1 .. Len(q) : q[i].id \in Nat BY ElementOfSeq, ItemIds
<1> HIDE DEF p
<1>4. \A i \in 1 .. Len(p) : i \in 1 .. Len(q) \/ i = Len(q) + 1 BY <1>2
<1>5. \A i \in 1 .. Len(q) : p[i].id # NoId => p[i].id <= n /\ p[i] = h[p[i].id]
  BY <1>2 DEF Ordered
<1>6. e.id # NoId BY DEF NoId
<1>7. ASSUME NEW i \in 1 .. Len(p)
      PROVE  IF p[i].id = NoId THEN p[i] \in {Delta, CLOSED}
                               ELSE p[i].id <= n + 1 /\ p[i] = h[p[i].id]
  <2>1. CASE i \in 1 .. Len(q) BY <1>2, <1>3, <1>5, <2>1 DEF Ordered
  <2>2. CASE i = Len(q) + 1 BY <1>2, <1>6, <2>2
  <2>3. QED BY <1>4, <2>1, <2>2
<1>8. ASSUME NEW i \in 1 .. Len(p), NEW j \in 1 .. Len(p),
             i < j, p[i].id # NoId, p[j].id # NoId
      PROVE  p[i].id < p[j].id
  <2>1. i \in 1 .. Len(q) BY <1>2, <1>4, <1>8
  <2>2. CASE j \in 1 .. Len(q) BY <1>2, <1>8, <2>1, <2>2 DEF Ordered
  <2>3. CASE j = Len(q) + 1 BY <1>2, <1>3, <1>5, <1>8, <2>1, <2>3
  <2>4. QED BY <1>4, <2>2, <2>3
<1>9. QED BY <1>7, <1>8 DEF Ordered, p

LEMMA OrderedTail ==
    ASSUME NEW h, NEW q \in Seq(Items), q # <<>>, NEW n \in Nat, Ordered(q, h, n)
    PROVE  Ordered(Tail(q), h, n)
<1> DEFINE p == Tail(q)
<1>1. Len(q) \in Nat /\ Len(p) = Len(q) - 1 /\ \A i \in 1 .. Len(p) : p[i] = q[i + 1]
  BY HeadTailProperties, LenProperties
<1> HIDE DEF p
<1>2. \A i \in 1 .. Len(p) : i + 1 \in 1 .. Len(q) BY <1>1
<1>3. \A i \in 1 .. Len(p) :
         IF p[i].id = NoId THEN p[i] \in {Delta, CLOSED}
                           ELSE p[i].id <= n /\ p[i] = h[p[i].id]
  BY <1>1, <1>2 DEF Ordered
<1>4. \A i, j \in 1 .. Len(p) :
          i < j /\ p[i].id # NoId /\ p[j].id # NoId => p[i].id < p[j].id
  BY <1>1, <1>2 DEF Ordered
<1>5. QED BY <1>3, <1>4 DEF Ordered, p

\* An item more does not uncover anything.
LEMMA CoveredMore ==
    ASSUME NEW x, NEW q \in Seq(Items), NEW item \in Items, NEW n \in Nat,
           Covered(x, q, n)
    PROVE  /\ Covered(x, Append(q, item), n)
           /\ item.id = n + 1 => Covered(x, Append(q, item), n + 1)
<1> DEFINE p == Append(q, item)
<1>1. /\ Len(p) = Len(q) + 1 /\ Len(q) \in Nat
      /\ \A i \in 1 .. Len(q) : p[i] = q[i]
      /\ p[Len(q) + 1] = item
  BY AppendProperties, LenProperties
<1> HIDE DEF p
<1>2. \A i \in 1 .. Len(q) : i \in 1 .. Len(p) /\ p[i] = q[i] BY <1>1
<1>3. Len(q) + 1 \in 1 .. Len(p) BY <1>1
<1>4. Covered(x, p, n) BY <1>2 DEF Covered
<1>5. ASSUME item.id = n + 1, NEW m \in 1 .. n + 1
      PROVE  Reaches(x, m) \/ \E i \in 1 .. Len(p) : p[i].id = m
  <2>1. CASE m \in 1 .. n BY <1>4, <2>1 DEF Covered
  <2>2. CASE m = n + 1 BY <1>1, <1>3, <1>5, <2>2
  <2>3. QED BY <2>1, <2>2
<1>6. QED BY <1>4, <1>5 DEF Covered, p

\* What a step may do to the queue of s.
QueueMoves(r, s) ==
    LET n == Queued(r, s)
    IN  \/ Queued(r, s)' = n /\ queue'[s] = queue[s]
        \/ /\ Queued(r, s)' = n
           /\ \E item \in {Delta, CLOSED} : queue'[s] = Append(queue[s], item)
        \/ /\ Queued(r, s)' = n + 1 /\ n + 1 <= Len(history'[r])
           /\ history'[r][n + 1].id = n + 1
           /\ queue'[s] = Append(queue[s], history'[r][n + 1])

LEMMA QueuedNumber ==
    ASSUME BusTyped, NumberInv, NEW r \in Runs, Undisturbed(r), NEW s
    PROVE  /\ Queued(r, s) \in Nat /\ Queued(r, s) <= Len(history[r])
           /\ history[r] \in Seq(Events) /\ Len(history[r]) \in Nat
           /\ Coming(r, s) => /\ history[r][Queued(r, s) + 1] = pub[W(r)].event
                              /\ pub[W(r)].event.id = Queued(r, s) + 1
                              /\ Queued(r, s) + 1 = Len(history[r])
           /\ ~Coming(r, s) => Queued(r, s) = Len(history[r])
<1>1. history[r] \in Seq(Events) /\ Len(history[r]) \in Nat
      /\ DOMAIN history[r] = 1 .. Len(history[r])
  BY LenProperties DEF BusTyped
<1>2. CASE ~Coming(r, s) BY <1>1, <1>2 DEF Queued
<1>3. CASE Coming(r, s)
  <2>1. /\ history[r] # <<>> /\ pub[W(r)].event = history[r][Len(history[r])]
        /\ \A i \in DOMAIN history[r] : history[r][i].id = i
    BY <1>3 DEF Coming, NumberInv
  <2>2. Len(history[r]) >= 1 BY <1>1, <2>1, EmptySeq
  <2>3. Queued(r, s) = Len(history[r]) - 1 BY <1>3 DEF Queued
  <2>4. QED BY <1>1, <1>3, <2>1, <2>2, <2>3
<1>4. QED BY <1>2, <1>3

LEMMA HistoryOnlyGrows ==
    ASSUME Inv, BusTyped, Fits, SealInv, PurgeInv, [MgrNext]_serverVars,
           NEW r \in Runs, Undisturbed(r)
    PROVE  Grows(history[r], history'[r])
<1>1. history[r] \in Seq(Events) /\ Len(history[r]) \in Nat
  BY LenProperties DEF BusTyped
<1>2. CASE history'[r] = history[r] BY <1>1, <1>2 DEF Grows
<1>3. CASE Appends(W(r))
  <2>1. W(r) \in Threads /\ RunOf(W(r)) = r BY TwoThreads
  <2>2. QED BY <1>1, <1>3, <2>1, AppendsToHistory DEF Grows
<1>4. PublishesBy(W(r)) /\ ~Appends(W(r)) => history' = history
  BY DEF PublishesBy, Moves, Snaps, Collects, Puts, Rings
<1>5. QED BY <1>2, <1>3, <1>4, OwnHistory DEF OwnMoves, EntersAs

LEMMA SubsShrink ==
    ASSUME Types, BusTyped, [MgrNext]_serverVars, NEW r \in Runs
    PROVE  subs'[r] \subseteq subs[r]
<1>1. CASE UNCHANGED busVars BY <1>1 DEF busVars
<1>2. CASE PurgeRun BY <1>2 DEF PurgeRun, Purge, BusTyped
<1>3. ASSUME NEW t \in Threads, EntersAs(t) PROVE subs' = subs
  BY <1>3 DEF EntersAs
<1>4. ASSUME NEW t \in Threads, PublishesBy(t)
      PROVE  subs'[r] \subseteq subs[r]
  <2>1. CASE Appends(t)
    BY <2>1 DEF Appends, AppendStep, Live, BusTyped
  <2>2. CASE ~Appends(t)
    BY <1>4, <2>2 DEF PublishesBy, Moves, Snaps, Collects, Puts, Rings
  <2>3. QED BY <2>1, <2>2
<1>5. QED BY <1>1, <1>2, <1>3, <1>4, BusCases

\* A call takes the subscriptions of its run.
LEMMA CallServes ==
    ASSUME NEW t \in Threads, PublishesBy(t), NEW s \in pub'[t].todo
    PROVE  s \in pub[t].todo \/ s \in subs[RunOf(t)]
BY DEF PublishesBy, Moves, Appends, Snaps, Collects, Puts, Rings, Carries, Live

LEMMA SubsKept ==
    ASSUME Inv, BusTyped, CallInv, SealInv, PurgeInv, [MgrNext]_serverVars,
           NEW r \in Runs, Undisturbed(r), NEW s, SubInv(r, s)
    PROVE  SubInv(r, s)'
<1>1. ClosureInv /\ Types /\ ClosingInv BY DEF Inv, ClosureInv
<1>2. /\ s \in Subscriptions
      /\ \A q \in Runs : s \in subs[q] <=> q = r
      /\ \A t \in Threads : s \in pub[t].todo => t = W(r)
      /\ s \in closed => Sealed(r)
  BY DEF SubInv
<1>3. /\ W(r) \in Threads /\ RunOf(W(r)) = r /\ pub[D(r)].pc = "idle"
  BY <1>1, TwoThreads, SupervisorIdle
<1>4. \A q \in Runs : s \in subs'[q] => q = r
  BY <1>1, <1>2, SubsShrink
<1>5. ASSUME NEW t \in Threads, PublishesBy(t), RunOf(t) = r
      PROVE  t = W(r)
  <2>1. pub[t].pc # "idle"
    BY <1>5 DEF PublishesBy, Moves, Appends, Snaps, Collects, Puts, Rings
  <2>2. QED BY <1>3, <1>5, <2>1, ThreadOf
<1>6. s \in subs'[r]
  <2>1. CASE UNCHANGED busVars BY <1>2, <2>1 DEF busVars
  <2>2. CASE PurgeRun
    <3>1. PICK q \in Runs : ~Registered(q) /\ Purge(q)
      BY <1>1, <2>2, PurgesAbsent
    <3>2. q # r BY <3>1 DEF Undisturbed
    <3>3. QED BY <1>2, <3>1, <3>2 DEF Purge, BusTyped
  <2>3. ASSUME NEW t \in Threads, EntersAs(t) PROVE s \in subs'[r]
    BY <1>2, <2>3 DEF EntersAs
  <2>4. ASSUME NEW t \in Threads, PublishesBy(t) PROVE s \in subs'[r]
    <3>1. CASE Appends(t)
      <4>1. CASE RunOf(t) = r
        <5>1. t = W(r) BY <1>5, <2>4, <4>1
        <5>2. s \notin closed BY <1>2, <3>1, <5>1 DEF Sealed, Appends
        <5>3. pub[t].run = r BY <3>1, <4>1 DEF Appends, BusTyped
        <5>4. subs'[r] = Live(r)
          BY <3>1, <5>3 DEF Appends, AppendStep, BusTyped
        <5>5. QED BY <1>2, <5>2, <5>4 DEF Live
      <4>2. CASE RunOf(t) # r
        <5>1. pub[t].run # r BY <3>1, <4>2 DEF Appends, BusTyped
        <5>2. subs'[r] = subs[r]
          BY <3>1, <5>1 DEF Appends, AppendStep, BusTyped
        <5>3. QED BY <1>2, <5>2
      <4>3. QED BY <4>1, <4>2
    <3>2. CASE ~Appends(t)
      BY <1>2, <2>4, <3>2 DEF PublishesBy, Moves, Snaps, Collects, Puts, Rings
    <3>3. QED BY <3>1, <3>2
  <2>5. QED BY <1>1, <2>1, <2>2, <2>3, <2>4, BusCases
<1>7. ASSUME NEW t \in Threads, s \in pub'[t].todo PROVE t = W(r)
  <2>1. CASE pub'[t] = pub[t] BY <1>2, <1>7, <2>1
  <2>2. CASE pub'[t] # pub[t]
    <3>1. ~(UNCHANGED busVars \/ PurgeRun)
      BY <2>2 DEF busVars, PurgeRun, Purge
    <3>2. PICK u \in Threads : EntersAs(u) \/ PublishesBy(u)
      BY <1>1, <3>1, BusCases
    <3>3. u = t BY <2>2, <3>2 DEF EntersAs, PublishesBy
    <3>4. PublishesBy(t) BY <1>7, <3>2, <3>3 DEF EntersAs
    <3>5. CASE s \in pub[t].todo BY <1>2, <3>5
    <3>6. CASE s \in subs[RunOf(t)]
      <4>1. RunOf(t) = r BY <1>2, <3>6, ThreadOf
      <4>2. QED BY <1>5, <3>4, <4>1
    <3>7. QED BY <1>7, <3>4, <3>5, <3>6, CallServes
  <2>3. QED BY <2>1, <2>2
<1>8. s \in closed' => Sealed(r)'
  <2>1. CASE s \in closed BY <1>1, <1>2, <2>1, SealStays
  <2>2. CASE s \notin closed
    <3>1. SUFFICES ASSUME s \in closed' PROVE Sealed(r)'
      OBVIOUS
    <3>2. closed' # closed BY <2>2, <3>1
    <3>3. ~(UNCHANGED busVars \/ PurgeRun)
      BY <3>2 DEF busVars, PurgeRun, Purge
    <3>4. PICK t \in Threads : PublishesBy(t)
      BY <1>1, <3>2, <3>3, BusCases DEF EntersAs
    <3>5. Rings(t, s)
      <4>1. ~Appends(t) BY <3>2 DEF Appends, AppendStep
      <4>2. PICK u : Rings(t, u)
        BY <3>2, <3>4, <4>1 DEF PublishesBy, Moves, Snaps, Collects, Puts
      <4>3. u = s BY <2>2, <3>1, <4>2 DEF Rings
      <4>4. QED BY <4>2, <4>3
    <3>6. t = W(r) /\ pub[t].pc = "sentinel" BY <1>2, <3>5 DEF Rings
    <3>7. Sealed(r) BY <3>6 DEF SealInv
    <3>8. QED BY <1>1, <3>7, SealStays
  <2>3. QED BY <2>1, <2>2
<1>9. QED BY <1>2, <1>4, <1>6, <1>7, <1>8 DEF SubInv

LEMMA WorkerMovesQueue ==
    ASSUME Inv, BusTyped, Fits, CallInv, SealInv, NumberInv,
           NEW r \in Runs, Undisturbed(r), r \notin dropped', NEW s, SubInv(r, s),
           PublishesBy(W(r))
    PROVE  QueueMoves(r, s)
<1> DEFINE t == W(r)
           h == history[r]
           q == queue[s]
<1>1. t \in Threads /\ RunOf(t) = r BY TwoThreads
<1>2. /\ s \in Subscriptions /\ s \in subs[r]
      /\ s \in closed => Sealed(r)
  BY DEF SubInv
<1>3. queue \in [Subscriptions -> Seq(Items)] BY DEF BusTyped
<1>4. CASE Appends(t)
  <2>1. ~Coming(r, s) BY <1>4 DEF Appends, Coming
  <2>2. Coming(r, s)'
    <3>1. s \notin closed BY <1>2, <1>4 DEF Sealed, Appends
    <3>2. s \in Live(r) BY <1>2, <3>1 DEF Live
    <3>3. pub[t].event \in Events BY <1>1, <1>4 DEF Appends, BusTyped
    <3>4. pub[t].event # Delta
      BY <3>3 DEF Events, Delta, Event, DurableTypes, TerminalTypes
    <3>5. pub'[t].pc = "put" /\ s \in pub'[t].todo /\ pub'[t].event = pub[t].event
      BY <1>1, <1>4, <3>2 DEF Appends, Carries
    <3>6. QED BY <3>4, <3>5 DEF Coming
  <2>3. Len(history'[r]) = Len(h) + 1 /\ Len(h) \in Nat
    BY <1>1, <1>4, AppendsToHistory
  <2>4. Queued(r, s) = Len(h) BY <2>1, <2>3 DEF Queued
  <2>5. Queued(r, s)' = Len(history'[r]) - 1 BY <2>2 DEF Queued
  <2>6. queue' = queue BY <1>4 DEF Appends, AppendStep
  <2>7. QED BY <2>3, <2>4, <2>5, <2>6 DEF QueueMoves
<1>5. CASE Snaps(t) \/ Collects(t)
  <2>1. ~Coming(r, s) BY <1>5 DEF Snaps, Collects, Coming
  <2>2. ~Coming(r, s)'
    <3>1. Snaps(t) => pub[t].event = Delta BY <1>1 DEF Snaps, CallInv
    <3>2. pub'[t].pc = "put" => pub'[t].event = Delta
      BY <1>5, <3>1 DEF Snaps, Collects, Carries
    <3>3. QED BY <3>2 DEF Coming
  <2>3. UNCHANGED <<history, queue>> BY <1>5 DEF Snaps, Collects
  <2>4. Queued(r, s)' = Queued(r, s) BY <2>1, <2>2, <2>3 DEF Queued
  <2>5. QED BY <2>3, <2>4 DEF QueueMoves
<1>6. ASSUME NEW u \in Subscriptions, Puts(t, u) PROVE QueueMoves(r, s)
  <2>1. /\ history' = history
        /\ pub[t].pc = "put"
        /\ pub'[t].todo = pub[t].todo \ {u}
        /\ pub'[t].todo # {} => pub'[t].pc = "put" /\ pub'[t].event = pub[t].event
        /\ pub'[t].todo = {} => pub'[t].pc # "put"
        /\ pub[t].event \in Events \cup {Delta}
    BY <1>1, <1>6 DEF Puts, Carries, CallInv
  <2>2. CASE u # s
    <3>1. queue'[s] = q BY <1>2, <1>3, <1>6, <2>2 DEF Puts
    <3>2. Coming(r, s)' <=> Coming(r, s)
      <4>1. s \in pub'[t].todo <=> s \in pub[t].todo BY <2>1, <2>2
      <4>2. QED BY <2>1, <4>1 DEF Coming
    <3>3. Queued(r, s)' = Queued(r, s) BY <2>1, <3>2 DEF Queued
    <3>4. QED BY <3>1, <3>3 DEF QueueMoves
  <2>3. CASE u = s
    <3>1. Len(q) < QueueSize BY <1>1, <1>6, <2>3 DEF Puts
    <3>2. queue'[s] = Append(q, pub[t].event)
      BY <1>2, <1>3, <1>6, <2>3, <3>1 DEF Puts, Offer
    <3>3. ~Coming(r, s)' BY <2>1, <2>3 DEF Coming
    <3>4. s \in pub[t].todo BY <1>6, <2>3 DEF Puts
    <3>5. CASE pub[t].event = Delta
      <4>1. ~Coming(r, s) BY <3>5 DEF Coming
      <4>2. Queued(r, s)' = Queued(r, s) BY <2>1, <3>3, <4>1 DEF Queued
      <4>3. QED BY <3>2, <3>5, <4>2 DEF QueueMoves
    <3>6. CASE pub[t].event # Delta
      <4>1. Coming(r, s) BY <2>1, <3>4, <3>6 DEF Coming
      <4>2. /\ Queued(r, s) \in Nat /\ Queued(r, s) + 1 = Len(h)
            /\ h[Queued(r, s) + 1] = pub[t].event
            /\ pub[t].event.id = Queued(r, s) + 1
        BY <4>1, QueuedNumber
      <4>3. Queued(r, s)' = Len(h)
        <5>1. Len(h) \in Nat BY QueuedNumber
        <5>2. QED BY <2>1, <3>3, <5>1 DEF Queued
      <4>4. QED BY <2>1, <3>2, <4>2, <4>3 DEF QueueMoves
    <3>7. QED BY <3>5, <3>6
  <2>4. QED BY <2>2, <2>3
<1>7. ASSUME NEW u \in Subscriptions, Rings(t, u) PROVE QueueMoves(r, s)
  <2>1. history' = history BY <1>7 DEF Rings
  <2>2. ~Coming(r, s) /\ ~Coming(r, s)' BY <1>7 DEF Rings, Carries, Coming
  <2>3. Queued(r, s)' = Queued(r, s) BY <2>1, <2>2 DEF Queued
  <2>4. queue'[s] = q \/ queue'[s] = Append(q, CLOSED)
    BY <1>2, <1>3, <1>7 DEF Rings, Offer
  <2>5. QED BY <2>3, <2>4 DEF QueueMoves
<1>8. QED BY <1>4, <1>5, <1>6, <1>7 DEF PublishesBy, Moves

LEMMA QueuesMove ==
    ASSUME Inv, BusTyped, Fits, CallInv, SealInv, NumberInv, PurgeInv,
           [MgrNext]_serverVars,
           NEW r \in Runs, Undisturbed(r), r \notin dropped', NEW s, SubInv(r, s)
    PROVE  QueueMoves(r, s)
<1>1. Types /\ ClosingInv BY DEF Inv, ClosureInv
<1>2. /\ W(r) \in Threads /\ RunOf(W(r)) = r /\ pub[D(r)].pc = "idle"
      /\ closing[D(r)].step = "none" /\ D(r) \in Threads
      /\ D(r) # W(r) /\ RunOf(D(r)) = r
  BY <1>1, TwoThreads, SupervisorIdle DEF ClosingInv, Undisturbed
<1>3. ASSUME /\ history'[r] = history[r] /\ queue'[s] = queue[s]
             /\ pub'[W(r)] = pub[W(r)]
      PROVE  QueueMoves(r, s)
  <2>1. Coming(r, s)' <=> Coming(r, s) BY <1>3 DEF Coming
  <2>2. Queued(r, s)' = Queued(r, s) BY <1>3, <2>1 DEF Queued
  <2>3. QED BY <1>3, <2>2 DEF QueueMoves
<1>4. CASE UNCHANGED busVars BY <1>3, <1>4 DEF busVars
<1>5. CASE PurgeRun
  <2>1. PICK q \in Runs : ~Registered(q) /\ Purge(q)
    BY <1>1, <1>5, PurgesAbsent
  <2>2. q # r BY <2>1 DEF Undisturbed
  <2>3. QED BY <1>3, <2>1, <2>2 DEF Purge, BusTyped
<1>6. ASSUME NEW t \in Threads, EntersAs(t) PROVE QueueMoves(r, s)
  <2>1. history' = history /\ queue' = queue BY <1>6 DEF EntersAs
  <2>2. CASE t # W(r) BY <1>2, <1>3, <1>6, <2>1, <2>2 DEF EntersAs
  <2>3. CASE t = W(r)
    <3>1. ~Coming(r, s) /\ ~Coming(r, s)'
      BY <1>6, <2>3 DEF EntersAs, Coming, Free
    <3>2. Queued(r, s)' = Queued(r, s) BY <2>1, <3>1 DEF Queued
    <3>3. QED BY <2>1, <3>2 DEF QueueMoves
  <2>4. QED BY <2>2, <2>3
<1>7. ASSUME NEW t \in Threads, PublishesBy(t), t # W(r) PROVE QueueMoves(r, s)
  <2>1. t # D(r)
    BY <1>2, <1>7 DEF PublishesBy, Moves, Appends, Snaps, Collects, Puts, Rings
  <2>2. RunOf(t) # r BY <1>7, <2>1, ThreadOf
  <2>3. history'[r] = history[r] BY <1>7, <2>2, OthersKeepHistory
  <2>4. pub'[W(r)] = pub[W(r)] BY <1>2, <1>7 DEF PublishesBy
  <2>5. queue'[s] = queue[s]
    <3>1. s \notin pub[t].todo /\ s \in Subscriptions BY <1>7 DEF SubInv
    <3>2. QED BY <1>7, <3>1
          DEF PublishesBy, Moves, Appends, AppendStep, Snaps, Collects, Puts, Rings, BusTyped
  <2>6. QED BY <1>3, <2>3, <2>4, <2>5
<1>8. QED BY <1>1, <1>4, <1>5, <1>6, <1>7, WorkerMovesQueue, BusCases

-----------------------------------------------------------------------------
(* The pages, while the server acts.                                        *)

LEMMA DroppedStays ==
    ASSUME Types, BusTyped, [MgrNext]_serverVars
    PROVE  dropped \subseteq dropped'
BY BusCases DEF busVars, PurgeRun, Purge, EntersAs, PublishesBy, Moves, Appends,
                AppendStep, Snaps, Collects, Puts, Rings

LEMMA ShownGrows ==
    ASSUME NEW x, PageTyped(x), NEW h \in Seq(Events), NEW h2 \in Seq(Events),
           Grows(h, h2), ShownInv(x, h), WireInv(x, h)
    PROVE  ShownInv(x, h2) /\ WireInv(x, h2)
<1>1. /\ Len(h) \in Nat /\ Len(h2) \in Nat /\ Len(x.seen) \in Nat
      /\ Len(x.wire) \in Nat
  BY LenProperties DEF PageTyped, Pages
<1>2. ShownInv(x, h2)
  BY <1>1 DEF ShownInv, Grows
<1>3. ASSUME NEW k \in 1 .. Len(x.seen) + 1, Stretch(x, h, k)
      PROVE  Stretch(x, h2, k)
  <2>1. \A i \in 1 .. Len(x.wire) : k + i - 1 \in 1 .. Len(h)
    BY <1>1, <1>3 DEF Stretch
  <2>2. QED BY <1>1, <1>3, <2>1 DEF Stretch, Grows
<1>4. WireInv(x, h2) BY <1>3 DEF WireInv
<1>5. QED BY <1>2, <1>4

\* The queue and what covers the history, as a step moves them.
LEMMA QueueGoesOn ==
    ASSUME BusTyped, BusTyped', NumberInv, NEW r \in Runs, Undisturbed(r),
           NEW s \in Subscriptions, Grows(history[r], history'[r]),
           QueueMoves(r, s), QueueInv(r, s)
    PROVE  /\ QueueInv(r, s)'
           /\ \A x : Covered(x, queue[s], Queued(r, s)) =>
                        Covered(x, queue'[s], Queued(r, s)')
<1> DEFINE h == history[r]
           h2 == history'[r]
           q == queue[s]
           n == Queued(r, s)
<1>1. /\ h \in Seq(Events) /\ h2 \in Seq(Events) /\ q \in Seq(Items)
      /\ n \in Nat /\ n <= Len(h) /\ Len(h2) \in Nat
  BY QueuedNumber, LenProperties DEF BusTyped
<1>2. Ordered(q, h, n) BY DEF QueueInv
<1>3. Ordered(q, h2, n) BY <1>1, <1>2, OrderedGrows
<1>4. SUFFICES /\ Ordered(queue'[s], h2, Queued(r, s)')
               /\ \A x : Covered(x, q, n) => Covered(x, queue'[s], Queued(r, s)')
  BY DEF QueueInv
<1>5. CASE Queued(r, s)' = n /\ queue'[s] = q BY <1>3, <1>5
<1>6. ASSUME NEW item \in {Delta, CLOSED}, Queued(r, s)' = n,
             queue'[s] = Append(q, item)
      PROVE  /\ Ordered(queue'[s], h2, Queued(r, s)')
             /\ \A x : Covered(x, q, n) => Covered(x, queue'[s], Queued(r, s)')
  <2>1. item \in Items BY DEF Items
  <2> HIDE DEF n, q, h, h2
  <2>2. Ordered(Append(q, item), h2, n) BY <1>1, <1>3, OrderedNoise
  <2>3. \A x : Covered(x, q, n) => Covered(x, Append(q, item), n)
    BY <1>1, <2>1, CoveredMore
  <2>4. QED BY <1>6, <2>2, <2>3
<1>7. ASSUME Queued(r, s)' = n + 1, n + 1 <= Len(h2), h2[n + 1].id = n + 1,
             queue'[s] = Append(q, h2[n + 1])
      PROVE  /\ Ordered(queue'[s], h2, Queued(r, s)')
             /\ \A x : Covered(x, q, n) => Covered(x, queue'[s], Queued(r, s)')
  <2> HIDE DEF n, q, h, h2
  <2> DEFINE e == h2[n + 1]
  <2>1. e \in Events BY <1>1, <1>7, ElementOfSeq
  <2>2. e \in Items /\ e.id = n + 1 BY <1>7, <2>1 DEF Items
  <2>3. Ordered(Append(q, e), h2, n + 1)
    BY <1>1, <1>3, <2>1, <2>2, OrderedPut
  <2> HIDE DEF e
  <2>4. \A x : Covered(x, q, n) => Covered(x, Append(q, e), n + 1)
    BY <1>1, <2>2, CoveredMore
  <2>5. QED BY <1>7, <2>3, <2>4 DEF e
<1>8. QED BY <1>5, <1>6, <1>7 DEF QueueMoves

LEMMA PageUnderServer ==
    ASSUME ServerInv, ServerInv', Fits, ThreadInv, [MgrNext]_serverVars,
           NEW x, PageTyped(x), PageInv(x)
    PROVE  PageInv(x)'
<1> DEFINE r == x.run
           s == x.sub
<1>1. /\ Inv /\ ClosureInv /\ Types /\ BusTyped /\ BusTyped' /\ PurgeInv
      /\ CallInv /\ SealInv /\ NumberInv
  BY DEF ServerInv, Inv, ClosureInv, MgrTyped, ThreadInv
<1>2. CASE r = NoRun BY <1>2 DEF PageInv
<1>3. CASE r # NoRun
  <2>1. r \in Runs /\ worker[r] # "new"
    BY <1>3 DEF PageTyped, PageInv, NewViewer
  <2>2. worker'[r] # "new" BY <1>1, <2>1, RunGoesOn DEF GoesOn
  <2>3. ASSUME Clean(r)'
        PROVE  /\ ShownInv(x, history'[r])
               /\ WireInv(x, history'[r])
               /\ x.pc \in Connected => SubInv(r, s)' /\ QueueInv(r, s)'
               /\ x.pc \in {"check", "live"} => NoneMissing(x, r)'
               /\ Reaches(x, x.cur)
    <3>1. Undisturbed(r)' /\ r \notin dropped' BY <2>3 DEF Clean
    <3>2. Undisturbed(r) BY <1>1, <2>1, <3>1, UndisturbedBefore
    <3>3. r \notin dropped BY <1>1, <3>1, DroppedStays
    <3>4. /\ ShownInv(x, history[r]) /\ WireInv(x, history[r]) /\ Reaches(x, x.cur)
          /\ x.pc \in Connected => SubInv(r, s) /\ QueueInv(r, s)
          /\ x.pc \in {"check", "live"} => NoneMissing(x, r)
      BY <1>3, <3>2, <3>3 DEF PageInv, Clean
    <3>5. Grows(history[r], history'[r])
      BY <1>1, <2>1, <3>2, HistoryOnlyGrows
    <3>6. history[r] \in Seq(Events) /\ history'[r] \in Seq(Events)
      BY <1>1, <2>1 DEF BusTyped
    <3>7. ShownInv(x, history'[r]) /\ WireInv(x, history'[r])
      BY <3>4, <3>5, <3>6, ShownGrows
    <3>8. ASSUME x.pc \in Connected
          PROVE  /\ SubInv(r, s)' /\ QueueInv(r, s)'
                 /\ NoneMissing(x, r) => NoneMissing(x, r)'
      <4>1. SubInv(r, s) /\ QueueInv(r, s) /\ s \in Subscriptions
        BY <3>4, <3>8 DEF SubInv
      <4>2. SubInv(r, s)' BY <1>1, <2>1, <3>2, <4>1, SubsKept
      <4>3. QueueMoves(r, s) BY <1>1, <2>1, <3>1, <3>2, <4>1, QueuesMove
      <4>4. /\ QueueInv(r, s)'
            /\ Covered(x, queue[s], Queued(r, s)) =>
                  Covered(x, queue'[s], Queued(r, s)')
        BY <1>1, <2>1, <3>2, <3>5, <4>1, <4>3, QueueGoesOn
      <4>5. NoneMissing(x, r) => NoneMissing(x, r)'
        BY <4>4 DEF NoneMissing
      <4>6. QED BY <4>2, <4>4, <4>5
    <3>9. x.pc \in {"check", "live"} => x.pc \in Connected BY DEF Connected
    <3>10. QED BY <3>4, <3>7, <3>8, <3>9
  <2>4. QED BY <2>2, <2>3 DEF PageInv
<1>4. QED BY <1>2, <1>3

-----------------------------------------------------------------------------
(* The pages, while a page acts.                                            *)

\* A page's step leaves the server alone.
Idles == UNCHANGED <<history, dropped, pub, mgrVars>>

LEMMA IdleParts ==
    ASSUME Idles
    PROVE  /\ UNCHANGED <<history, dropped, pub, worker, closing, deadline, status>>
           /\ \A r : Clean(r)' <=> Clean(r)
           /\ \A r : Sealed(r) => Sealed(r)'
           /\ \A r, s : Queued(r, s)' = Queued(r, s)
<1>1. UNCHANGED <<history, dropped, pub, worker, closing, deadline, status>>
  BY DEF Idles, mgrVars
<1>2. \A r : Clean(r)' <=> Clean(r)
  BY <1>1 DEF Clean, Undisturbed, Registered
<1>3. \A r : Sealed(r) => Sealed(r)' BY <1>1 DEF Sealed
<1>4. \A r, s : Coming(r, s)' <=> Coming(r, s) BY <1>1 DEF Coming
<1>5. \A r, s : Queued(r, s)' = Queued(r, s) BY <1>1, <1>4 DEF Queued
<1>6. QED BY <1>1, <1>2, <1>3, <1>5

\* What the invariant asks of a page, when the server idles.
LEMMA PageSuffices ==
    ASSUME Idles, NEW y,
           y.run # NoRun => worker[y.run] # "new",
           y.run # NoRun /\ Clean(y.run) =>
              /\ ShownInv(y, history[y.run])
              /\ WireInv(y, history[y.run])
              /\ Reaches(y, y.cur)
              /\ y.pc \in Connected => SubInv(y.run, y.sub)' /\ QueueInv(y.run, y.sub)'
              /\ y.pc \in {"check", "live"} => NoneMissing(y, y.run)'
    PROVE  PageInv(y)'
BY IdleParts DEF PageInv

\* The subscription of a page is let alone.
LetAlone(s) == /\ queue'[s] = queue[s]
               /\ s \in closed' => s \in closed
               /\ \A q \in Runs : s \in subs'[q] <=> s \in subs[q]

LEMMA LetAloneKeeps ==
    ASSUME Idles, NEW r \in Runs, NEW s, LetAlone(s)
    PROVE  /\ SubInv(r, s) => SubInv(r, s)'
           /\ QueueInv(r, s) => QueueInv(r, s)'
           /\ \A x : x.sub = s /\ NoneMissing(x, r) => NoneMissing(x, r)'
<1>1. UNCHANGED <<history, pub>> /\ (Sealed(r) => Sealed(r)')
      /\ Queued(r, s)' = Queued(r, s)
  BY IdleParts
<1>2. ASSUME SubInv(r, s) PROVE SubInv(r, s)'
  <2>1. s \in closed' => Sealed(r)' BY <1>1, <1>2 DEF SubInv, LetAlone
  <2>2. QED BY <1>1, <1>2, <2>1 DEF SubInv, LetAlone
<1>3. QueueInv(r, s) => QueueInv(r, s)' BY <1>1 DEF QueueInv, LetAlone
<1>4. ASSUME NEW x, x.sub = s, NoneMissing(x, r) PROVE NoneMissing(x, r)'
  BY <1>1, <1>4 DEF NoneMissing, LetAlone
<1>5. QED BY <1>2, <1>3, <1>4

\* A page that does not act, while another one does.
LEMMA OtherPage ==
    ASSUME BusTyped, StreamTyped, Apart, NEW v \in Viewers, PageStep(v),
           NEW u \in Viewers, u # v, NEW x, x = viewer[u], PageInv(x)
    PROVE  PageInv(x)'
<1>1. Idles BY PagesOnBus DEF Idles
<1>2. PageTyped(x) BY DEF StreamTyped
<1>3. ASSUME x.pc \in Connected PROVE LetAlone(x.sub)
  <2>1. x.sub \in Subscriptions /\ queue \in [Subscriptions -> Seq(Items)]
    BY <1>2, <1>3 DEF PageTyped, BusTyped
  <2>2. CASE UNCHANGED <<subs, closed, queue>> BY <2>2 DEF LetAlone
  <2>3. CASE Drops(v) \/ Takes(v)
    <3>1. viewer[v].sub # x.sub
      BY <1>3, <2>3 DEF Apart, Drops, Takes
    <3>2. QED BY <2>1, <2>3, <3>1 DEF Drops, Takes, LetAlone
  <2>4. ASSUME NEW s \in Subscriptions, Listen(v, s) PROVE LetAlone(x.sub)
    <3>1. s # x.sub BY <2>4 DEF Listen
    <3>2. QED BY <2>1, <2>4, <3>1 DEF Listen, Subscribe, LetAlone
  <2>5. QED BY <2>2, <2>3, <2>4, PagesOnBus
<1>4. x.run # NoRun => x.run \in Runs
  BY <1>2 DEF PageTyped, NewViewer
<1>5. x.run # NoRun => worker[x.run] # "new" BY DEF PageInv
<1>6. ASSUME x.run # NoRun, Clean(x.run)
      PROVE  /\ ShownInv(x, history[x.run])
             /\ WireInv(x, history[x.run])
             /\ Reaches(x, x.cur)
             /\ x.pc \in Connected => SubInv(x.run, x.sub)' /\ QueueInv(x.run, x.sub)'
             /\ x.pc \in {"check", "live"} => NoneMissing(x, x.run)'
  <2>1. /\ ShownInv(x, history[x.run])
        /\ WireInv(x, history[x.run])
        /\ Reaches(x, x.cur)
        /\ x.pc \in Connected => SubInv(x.run, x.sub) /\ QueueInv(x.run, x.sub)
        /\ x.pc \in {"check", "live"} => NoneMissing(x, x.run)
    BY <1>6 DEF PageInv
  <2>2. x.pc \in {"check", "live"} => x.pc \in Connected BY DEF Connected
  <2>3. QED BY <1>1, <1>3, <1>4, <1>6, <2>1, <2>2, LetAloneKeeps
<1>7. QED BY <1>1, <1>5, <1>6, PageSuffices

-----------------------------------------------------------------------------
(* The page that acts.                                                      *)

\* The history of an undisturbed run is numbered.
LEMMA Positions ==
    ASSUME BusTyped, NumberInv, NEW r \in Runs, Undisturbed(r)
    PROVE  LET h == history[r]
           IN  /\ h \in Seq(Events) /\ Len(h) \in Nat
               /\ \A i \in 1 .. Len(h) : h[i] \in Events /\ h[i].id = i
<1>1. history[r] \in Seq(Events) BY DEF BusTyped
<1>2. QED BY <1>1, LenProperties, ElementOfSeq DEF NumberInv

LEMMA EmptyWire ==
    ASSUME NEW y, y.wire = <<>>, NEW h, Len(h) \in Nat, y.seen \in Seq(Events),
           ShownInv(y, h)
    PROVE  WireInv(y, h)
<1>1. Len(y.seen) \in Nat /\ Len(y.wire) = 0 BY LenProperties
<1>2. Stretch(y, h, 1) /\ 1 \in 1 .. Len(y.seen) + 1 BY <1>1 DEF Stretch
<1>3. QED BY <1>2 DEF WireInv

LEMMA ReachesWhere ==
    ASSUME NEW x, x.wire = <<>>, NEW m
    PROVE  Reaches(x, m) <=> m <= Len(x.seen)
<1>1. 1 .. Len(x.wire) = {} OBVIOUS
<1>2. QED BY <1>1 DEF Reaches

\* The events after a cursor are the rest of the history.
LEMMA AfterCursor ==
    ASSUME BusTyped, NumberInv, NEW r \in Runs, Undisturbed(r),
           NEW c \in Nat, c <= Len(history[r])
    PROVE  LET a == EventsAfter(r, c)
           IN  /\ a \in Seq(Events) /\ Len(a) = Len(history[r]) - c
               /\ \A i \in 1 .. Len(a) : a[i] = history[r][c + i] /\ a[i].id = c + i
<1> DEFINE h == history[r]
           at == Place(h, c)
<1>1. /\ h \in Seq(Events) /\ Len(h) \in Nat
      /\ \A i \in 1 .. Len(h) : h[i] \in Events /\ h[i].id = i
  BY Positions
<1>2. EventsAfter(r, c) = IF c = NoId THEN h
                          ELSE IF at = 0 THEN <<>> ELSE SubSeq(h, at + 1, Len(h))
  BY DEF EventsAfter, Place
<1>3. /\ at \in 0 .. Len(h)
      /\ at = 0 => \A i \in 1 .. Len(h) : h[i].id # c
      /\ at # 0 => h[at].id = c
  BY <1>1, PlaceAt
<1> HIDE DEF h, at
<1>4. CASE c = 0
  BY <1>1, <1>2, <1>4 DEF NoId, h
<1>5. CASE c # 0
  <2>1. c \in 1 .. Len(h) BY <1>1, <1>5 DEF h
  <2>2. at = c BY <1>1, <1>3, <2>1
  <2>3. EventsAfter(r, c) = SubSeq(h, c + 1, Len(h)) BY <1>2, <1>5, <2>2 DEF NoId
  <2>4. \A i \in c + 1 .. Len(h) : h[i] \in Events BY <1>1
  <2>5. /\ SubSeq(h, c + 1, Len(h)) \in Seq(Events)
        /\ Len(SubSeq(h, c + 1, Len(h))) =
              IF c + 1 <= Len(h) THEN Len(h) - (c + 1) + 1 ELSE 0
        /\ \A i \in 1 .. Len(h) - (c + 1) + 1 :
              SubSeq(h, c + 1, Len(h))[i] = h[c + 1 + i - 1]
    BY <1>1, <2>4, SubSeqProperties
  <2>6. Len(EventsAfter(r, c)) = Len(h) - c BY <1>1, <2>1, <2>3, <2>5
  <2>7. ASSUME NEW i \in 1 .. Len(EventsAfter(r, c))
        PROVE  EventsAfter(r, c)[i] = h[c + i] /\ h[c + i].id = c + i
    <3>1. i \in 1 .. Len(h) - (c + 1) + 1 /\ c + 1 + i - 1 = c + i
          /\ c + i \in 1 .. Len(h)
      BY <1>1, <2>1, <2>6
    <3>2. QED BY <1>1, <2>3, <2>5, <3>1
  <2>8. QED BY <2>3, <2>5, <2>6, <2>7 DEF h
<1>6. QED BY <1>4, <1>5

\* A response that sends what is after the cursor leaves no gap.
LEMMA SendsRest ==
    ASSUME BusTyped, NumberInv, NEW r \in Runs, Undisturbed(r),
           NEW x, PageTyped(x), x.wire = <<>>, ShownInv(x, history[r]),
           Reaches(x, x.cur),
           NEW y, y.seen = x.seen, y.wire = EventsAfter(r, x.cur)
    PROVE  /\ \E k \in 1 .. Len(y.seen) + 1 : Stretch(y, history[r], k)
           /\ Reaches(y, LastId(y.wire, x.cur))
           /\ \A q : \A n \in Nat : n <= Len(history[r]) => Covered(y, q, n)
<1> DEFINE h == history[r]
           c == x.cur
           a == EventsAfter(r, c)
<1>1. /\ c \in Nat /\ x.seen \in Seq(Events) /\ Len(x.seen) \in Nat
  BY LenProperties DEF PageTyped, Pages
<1>2. c <= Len(x.seen) /\ Len(x.seen) <= Len(h) /\ Len(h) \in Nat
  BY ReachesWhere, Positions DEF ShownInv
<1>3. c <= Len(h) BY <1>1, <1>2
<1>4. /\ a \in Seq(Events) /\ Len(a) = Len(h) - c
      /\ \A i \in 1 .. Len(a) : a[i] = h[c + i] /\ a[i].id = c + i
  BY <1>1, <1>3, AfterCursor
<1> HIDE DEF a, h, c
<1>5. y.wire = a /\ y.seen = x.seen BY DEF a, c
<1>6. Stretch(y, h, c + 1) /\ c + 1 \in 1 .. Len(y.seen) + 1
  <2>1. \A i \in 1 .. Len(a) : c + 1 + i - 1 = c + i BY <1>1, <1>2, <1>4
  <2>2. QED BY <1>1, <1>2, <1>4, <1>5, <2>1 DEF Stretch
<1>7. Reaches(y, LastId(a, c))
  <2>1. a \in Seq(Events \cup {Delta}) BY <1>4, WiderSeq
  <2>2. CASE a = <<>> BY <1>1, <1>2, <1>5, <2>1, <2>2, LastIds DEF Reaches
  <2>3. CASE a # <<>>
    <3>1. Len(a) \in Nat /\ Len(a) >= 1 /\ LastId(a, c) = a[Len(a)].id
      BY <1>1, <2>1, <2>3, LastIds
    <3>2. Len(a) \in 1 .. Len(a) BY <3>1
    <3>3. QED BY <1>5, <3>1, <3>2 DEF Reaches
  <2>4. QED BY <2>2, <2>3
<1>8. ASSUME NEW q, NEW n \in Nat, n <= Len(h) PROVE Covered(y, q, n)
  <2>1. SUFFICES ASSUME NEW m \in 1 .. n PROVE Reaches(y, m)
    BY DEF Covered
  <2>2. CASE m <= c BY <1>1, <1>2, <1>5, <2>2 DEF Reaches
  <2>3. CASE m > c
    <3>1. m - c \in 1 .. Len(a) /\ c + (m - c) = m
      BY <1>1, <1>2, <1>4, <1>8, <2>3
    <3>2. a[m - c].id = m BY <1>4, <3>1
    <3>3. QED BY <1>5, <3>1, <3>2 DEF Reaches
  <2>4. QED BY <1>1, <2>2, <2>3
<1>9. QED BY <1>5, <1>6, <1>7, <1>8 DEF h, c, a

\* What a page is known to be.
LEMMA PageKnown ==
    ASSUME BusTyped, StreamTyped, NumberInv, NEW v \in Viewers,
           NEW x, x = viewer[v], PageInv(x), x.run \in Runs
    PROVE  /\ PageTyped(x) /\ x.run # NoRun /\ worker[x.run] # "new"
           /\ x.seen \in Seq(Events) /\ Len(x.seen) \in Nat /\ x.cur \in Nat
           /\ x.url \in Nat /\ x.last \in Nat /\ x.wire \in Seq(Events \cup {Delta})
           /\ Clean(x.run) =>
                 /\ ShownInv(x, history[x.run])
                 /\ WireInv(x, history[x.run])
                 /\ Reaches(x, x.cur)
                 /\ x.pc \in Connected => SubInv(x.run, x.sub) /\ QueueInv(x.run, x.sub)
                 /\ x.pc \in {"check", "live"} => NoneMissing(x, x.run)
                 /\ Undisturbed(x.run) /\ x.run \notin dropped
                 /\ Len(history[x.run]) \in Nat
<1>1. PageTyped(x) BY DEF StreamTyped
<1>2. x.run # NoRun BY PlacesAssumption DEF NoRun
<1>3. x \in Pages BY <1>1 DEF PageTyped
<1>4. Len(x.seen) \in Nat BY <1>3, LenProperties DEF Pages
<1>5. Len(history[x.run]) \in Nat BY LenProperties DEF BusTyped
<1>6. QED BY <1>1, <1>2, <1>3, <1>4, <1>5 DEF PageInv, Clean, Pages

\* A page without a response whose wire is empty.
LEMMA AtRest ==
    ASSUME BusTyped, StreamTyped, NumberInv, Idles, NEW v \in Viewers,
           NEW x, x = viewer[v], PageInv(x), x.run \in Runs,
           NEW y, KeepsShown(x, y), y.pc \notin Connected, y.wire = <<>>,
           y.cur \in {x.url, x.last, NoId} \/ (x.wire = <<>> /\ y.cur = x.cur)
    PROVE  PageInv(y)'
<1>1. y.run = x.run /\ y.run # NoRun /\ worker[y.run] # "new"
  BY PageKnown DEF KeepsShown
<1>2. ASSUME Clean(y.run)
      PROVE  /\ ShownInv(y, history[y.run])
             /\ WireInv(y, history[y.run])
             /\ Reaches(y, y.cur)
  <2>1. /\ ShownInv(x, history[x.run]) /\ Reaches(x, x.cur)
        /\ x.seen \in Seq(Events) /\ Len(x.seen) \in Nat /\ Len(history[x.run]) \in Nat
    BY <1>1, <1>2, PageKnown
  <2>2. ShownInv(y, history[y.run]) BY <1>1, <2>1 DEF ShownInv, KeepsShown
  <2>3. y.seen \in Seq(Events) BY <2>1 DEF KeepsShown
  <2>4. WireInv(y, history[y.run]) BY <1>1, <2>1, <2>2, <2>3, EmptyWire
  <2>5. y.cur <= Len(x.seen)
    BY <2>1, ReachesWhere DEF ShownInv, NoId
  <2>6. Reaches(y, y.cur) BY <2>5, ReachesWhere DEF KeepsShown
  <2>7. QED BY <2>2, <2>4, <2>6
<1>3. y.pc \notin {"check", "live"} BY DEF Connected
<1>4. QED BY <1>1, <1>2, <1>3, PageSuffices

LEMMA WatchKeeps ==
    ASSUME BusTyped, StreamTyped, NumberInv, Idles, NEW v \in Viewers, NEW r \in Runs,
           Watch(v, r)
    PROVE  \E y : Becomes(v, y) /\ PageInv(y)' /\ y.pc \notin Connected
<1>1. PICK y : /\ Becomes(v, y)
               /\ y.pc \in {"ready", "satisfied"} /\ y.run = r
               /\ y.seen = history[r] /\ y.wire = <<>> /\ y.cur = NoId
               /\ y.url \in {NoId, LastId(history[r], NoId)} /\ y.last = NoId
  BY WatchPage
<1>2. y.run # NoRun => worker[y.run] # "new" BY <1>1 DEF Watch, Told
<1>3. ASSUME Clean(r)
      PROVE  ShownInv(y, history[r]) /\ WireInv(y, history[r]) /\ Reaches(y, y.cur)
  <2> DEFINE h == history[r]
  <2>1. /\ h \in Seq(Events) /\ Len(h) \in Nat
        /\ \A i \in 1 .. Len(h) : h[i] \in Events /\ h[i].id = i
    BY <1>3, Positions DEF Clean
  <2> HIDE DEF h
  <2>2. LastId(h, NoId) <= Len(h)
    <3>1. h \in Seq(Events \cup {Delta}) /\ NoId \in Nat BY <2>1, WiderSeq DEF NoId
    <3>2. CASE h = <<>>
      <4>1. LastId(h, NoId) = NoId BY <3>1, <3>2, LastIds
      <4>2. QED BY <2>1, <4>1 DEF NoId
    <3>3. CASE h # <<>>
      <4>1. Len(h) >= 1 /\ LastId(h, NoId) = h[Len(h)].id BY <3>1, <3>3, LastIds
      <4>2. Len(h) \in 1 .. Len(h) BY <2>1, <4>1
      <4>3. LastId(h, NoId) = Len(h) BY <2>1, <4>1, <4>2
      <4>4. QED BY <2>1, <4>3
    <3>4. QED BY <3>2, <3>3
  <2>3. y.seen = h /\ y.url \in {NoId, LastId(h, NoId)} BY <1>1 DEF h
  <2>4. ShownInv(y, h) BY <1>1, <2>1, <2>2, <2>3 DEF ShownInv, NoId
  <2>5. WireInv(y, h) BY <1>1, <2>1, <2>3, <2>4, EmptyWire
  <2>6. Reaches(y, y.cur) BY <1>1, <2>1, <2>3, ReachesWhere DEF NoId
  <2>7. QED BY <2>4, <2>5, <2>6 DEF h
<1>4. y.pc \notin Connected /\ y.pc \notin {"check", "live"} BY <1>1 DEF Connected
<1>5. PageInv(y)' BY <1>1, <1>2, <1>3, <1>4, PageSuffices
<1>6. QED BY <1>1, <1>4, <1>5

LEMMA ConnectKeeps ==
    ASSUME BusTyped, StreamTyped, NumberInv, Idles, NEW v \in Viewers,
           NEW x, x = viewer[v], PageInv(x), Connect(v)
    PROVE  \E y : Becomes(v, y) /\ PageInv(y)' /\ y.pc \notin Connected
<1>1. PICK y : /\ Becomes(v, y) /\ KeepsShown(x, y)
               /\ y.pc \in {"asked", "refused"}
               /\ x.wire = <<>> /\ y.wire = <<>>
               /\ y.cur \in {x.url, x.last, x.cur}
  BY ConnectPage
<1>2. x.run \in Runs BY DEF Connect, StreamTyped, PageTyped
<1>3. y.pc \notin Connected BY <1>1 DEF Connected
<1>4. PageInv(y)' BY <1>1, <1>2, <1>3, AtRest
<1>5. QED BY <1>1, <1>3, <1>4

LEMMA CutKeeps ==
    ASSUME BusTyped, StreamTyped, NumberInv, Idles, NEW v \in Viewers,
           NEW x, x = viewer[v], PageInv(x), Cut(v)
    PROVE  \E y : Becomes(v, y) /\ PageInv(y)' /\ y.pc \notin Connected
<1>1. PICK y : /\ Becomes(v, y) /\ KeepsShown(x, y)
               /\ y.pc = "ready" /\ y.wire = <<>> /\ y.cur = NoId
  BY CutPage
<1>2. x.run \in Runs BY ServedPage DEF Cut
<1>3. y.pc \notin Connected BY <1>1 DEF Connected
<1>4. PageInv(y)' BY <1>1, <1>2, <1>3, AtRest
<1>5. QED BY <1>1, <1>3, <1>4

LEMMA ListenKeeps ==
    ASSUME BusTyped, StreamTyped, NumberInv, Idles, NEW v \in Viewers,
           NEW x, x = viewer[v], PageInv(x), NEW s \in Subscriptions, Listen(v, s)
    PROVE  \E y : Becomes(v, y) /\ PageInv(y)' /\ y.sub = s
<1>1. PICK y : /\ Becomes(v, y) /\ KeepsShown(x, y)
               /\ x.pc = "asked" /\ y.pc = "replay" /\ y.sub = s
               /\ y.wire = x.wire /\ y.cur = x.cur
  BY ListenPage
<1>2. x.run \in Runs BY <1>1 DEF StreamTyped, PageTyped
<1>3. y.run = x.run /\ y.run # NoRun /\ worker[y.run] # "new"
  BY <1>1, <1>2, PageKnown DEF KeepsShown
<1> DEFINE r == x.run
<1>4. ASSUME Clean(r)
      PROVE  /\ ShownInv(y, history[r]) /\ WireInv(y, history[r]) /\ Reaches(y, y.cur)
             /\ SubInv(r, s)' /\ QueueInv(r, s)'
  <2>1. /\ ShownInv(x, history[r]) /\ Reaches(x, x.cur) /\ WireInv(x, history[r])
        /\ x.seen \in Seq(Events) /\ Len(history[r]) \in Nat
    BY <1>2, <1>4, PageKnown
  <2>2. x.wire = <<>> BY <1>1, <2>1 DEF WireInv
  <2>3. ShownInv(y, history[r]) BY <1>1, <2>1 DEF ShownInv, KeepsShown
  <2>4. y.seen \in Seq(Events) BY <1>1, <2>1 DEF KeepsShown
  <2>5. WireInv(y, history[r]) BY <1>1, <2>1, <2>2, <2>3, <2>4, EmptyWire
  <2>6. Reaches(y, y.cur) BY <1>1, <2>1, <2>2, ReachesWhere DEF KeepsShown
  <2>7. Subscribe(r, s) BY DEF Listen
  <2>8. SubInv(r, s)'
    <3>1. \A q \in Runs : s \in subs'[q] <=> q = r
      BY <2>7 DEF Subscribe, BusTyped
    <3>2. \A t \in Threads : s \notin pub'[t].todo
      BY <2>7 DEF Subscribe, Fresh
    <3>3. s \notin closed' BY <2>7 DEF Subscribe
    <3>4. QED BY <3>1, <3>2, <3>3 DEF SubInv
  <2>9. QueueInv(r, s)'
    <3>1. queue'[s] = <<>> BY <2>7 DEF Subscribe, BusTyped
    <3>2. 1 .. Len(queue'[s]) = {} BY <3>1
    <3>3. QED BY <3>2 DEF QueueInv, Ordered
  <2>10. QED BY <2>3, <2>5, <2>6, <2>8, <2>9
<1>5. y.pc \notin {"check", "live"} BY <1>1
<1>6. PageInv(y)' BY <1>1, <1>3, <1>4, <1>5, PageSuffices
<1>7. QED BY <1>1, <1>6

\* A response that sends the rest of the history, and may go on.
LEMMA RestKeeps ==
    ASSUME BusTyped, StreamTyped, NumberInv, Idles, NEW v \in Viewers,
           NEW x, x = viewer[v], PageInv(x), x.pc \in Connected,
           Clean(x.run) => x.wire = <<>>,
           NEW y, KeepsShown(x, y), y.wire = EventsAfter(x.run, x.cur),
           \/ y.pc = "ready" /\ y.cur = NoId
           \/ /\ y.pc = "check" /\ y.sub = x.sub /\ y.cur = LastId(y.wire, x.cur)
              /\ LetAlone(x.sub)
    PROVE  PageInv(y)'
<1> DEFINE r == x.run
           h == history[r]
<1>1. r \in Runs /\ PageTyped(x) /\ y.run = r
  BY ServedPage DEF StreamTyped, KeepsShown
<1>2. y.run # NoRun /\ worker[y.run] # "new" BY <1>1, PageKnown
<1>3. ASSUME Clean(r)
      PROVE  /\ ShownInv(y, h) /\ WireInv(y, h) /\ Reaches(y, y.cur)
             /\ y.pc \in Connected => SubInv(r, y.sub)' /\ QueueInv(r, y.sub)'
             /\ y.pc \in {"check", "live"} => NoneMissing(y, r)'
  <2>1. /\ ShownInv(x, h) /\ Reaches(x, x.cur) /\ x.wire = <<>> /\ Undisturbed(r)
        /\ SubInv(r, x.sub) /\ QueueInv(r, x.sub)
    BY <1>1, <1>3, PageKnown
  <2>2. /\ \E k \in 1 .. Len(y.seen) + 1 : Stretch(y, h, k)
        /\ Reaches(y, LastId(y.wire, x.cur))
        /\ \A q : \A n \in Nat : n <= Len(h) => Covered(y, q, n)
    BY <1>1, <2>1, SendsRest DEF KeepsShown
  <2>3. ShownInv(y, h) BY <2>1 DEF ShownInv, KeepsShown
  <2>4. WireInv(y, h) BY <2>2 DEF WireInv
  <2>5. Reaches(y, NoId)
    <3>1. Len(y.seen) \in Nat BY <1>1, PageKnown DEF KeepsShown
    <3>2. QED BY <3>1 DEF Reaches, NoId
  <2>6. CASE y.pc = "ready" BY <2>3, <2>4, <2>5, <2>6 DEF Connected
  <2>7. CASE y.pc = "check"
    <3>1. y.sub = x.sub /\ LetAlone(x.sub) /\ Reaches(y, y.cur) BY <2>2, <2>7
    <3>2. SubInv(r, y.sub)' /\ QueueInv(r, y.sub)'
      BY <1>1, <2>1, <3>1, LetAloneKeeps
    <3>3. Queued(r, x.sub) \in Nat /\ Queued(r, x.sub) <= Len(h)
      BY <1>1, <2>1, QueuedNumber
    <3>4. NoneMissing(y, r) BY <2>2, <3>1, <3>3 DEF NoneMissing
    <3>5. NoneMissing(y, r)' BY <1>1, <3>1, <3>4, LetAloneKeeps
    <3>6. QED BY <2>3, <2>4, <3>1, <3>2, <3>5
  <2>8. QED BY <2>6, <2>7
<1>4. QED BY <1>1, <1>2, <1>3, PageSuffices

LEMMA ReplayKeeps ==
    ASSUME BusTyped, StreamTyped, NumberInv, Idles, NEW v \in Viewers,
           NEW x, x = viewer[v], PageInv(x), Replay(v)
    PROVE  \E y : Becomes(v, y) /\ PageInv(y)' /\ x.pc \in Connected /\ y.sub = x.sub
<1>1. PICK y : /\ Becomes(v, y) /\ KeepsShown(x, y)
               /\ x.pc = "replay" /\ y.pc = "check" /\ y.sub = x.sub
               /\ y.wire = EventsAfter(x.run, x.cur)
               /\ y.cur = LastId(y.wire, x.cur)
  BY ReplayPage
<1>2. x.pc \in Connected BY <1>1 DEF Connected
<1>3. LetAlone(x.sub) BY DEF Replay, LetAlone
<1>4. ASSUME Clean(x.run) PROVE x.wire = <<>>
  <2>1. x.run \in Runs BY <1>2, ServedPage
  <2>2. WireInv(x, history[x.run]) BY <1>4, <2>1, PageKnown
  <2>3. QED BY <1>1, <2>2 DEF WireInv
<1>5. PageInv(y)' BY <1>1, <1>2, <1>3, <1>4, RestKeeps
<1>6. QED BY <1>1, <1>2, <1>5

LEMMA TopUpKeeps ==
    ASSUME BusTyped, StreamTyped, NumberInv, Idles, NEW v \in Viewers,
           NEW x, x = viewer[v], PageInv(x), x.pc = "live", x.wire = <<>>, TopUp(v)
    PROVE  \E y : Becomes(v, y) /\ PageInv(y)' /\ y.pc \notin Connected
<1>1. x.pc \in Connected BY DEF Connected
<1>2. PICK y : /\ Becomes(v, y) /\ KeepsShown(x, y)
               /\ y.pc = "ready" /\ y.cur = NoId
               /\ y.wire = EventsAfter(x.run, x.cur)
  BY <1>1, TopUpPage
<1>3. PageInv(y)' BY <1>1, <1>2, RestKeeps
<1>4. QED BY <1>2, <1>3 DEF Connected

LEMMA CheckDoneKeeps ==
    ASSUME BusTyped, StreamTyped, NumberInv, Idles, NEW v \in Viewers,
           NEW x, x = viewer[v], PageInv(x), CheckDone(v)
    PROVE  \E y : /\ Becomes(v, y) /\ PageInv(y)'
                  /\ y.pc \notin Connected \/ (x.pc \in Connected /\ y.sub = x.sub)
<1>1. PICK y : /\ Becomes(v, y) /\ KeepsShown(x, y) /\ x.pc = "check"
               /\ x.wire = <<>> /\ y.wire = <<>>
               /\ \/ y.pc = "ready" /\ y.cur = NoId
                  \/ /\ y.pc = "live" /\ y.sub = x.sub /\ y.cur = x.cur
                     /\ UNCHANGED <<closed, queue>>
  BY CheckDonePage
<1>2. x.pc \in Connected BY <1>1 DEF Connected
<1>3. x.run \in Runs BY <1>2, ServedPage
<1>4. CASE y.pc = "ready"
  <2>1. y.pc \notin Connected /\ y.cur \in {x.url, x.last, NoId}
    BY <1>1, <1>4 DEF Connected
  <2>2. PageInv(y)' BY <1>1, <1>3, <2>1, AtRest
  <2>3. QED BY <1>1, <2>1, <2>2
<1>5. CASE y.pc = "live"
  <2>1. y.sub = x.sub /\ y.cur = x.cur /\ LetAlone(x.sub) /\ y.run = x.run
    BY <1>1, <1>5 DEF CheckDone, LetAlone, KeepsShown
  <2>2. y.run # NoRun /\ worker[y.run] # "new" BY <1>3, <2>1, PageKnown
  <2>3. ASSUME Clean(x.run)
        PROVE  LET r == x.run
               IN  /\ ShownInv(y, history[r]) /\ WireInv(y, history[r])
                   /\ Reaches(y, y.cur)
                   /\ SubInv(r, y.sub)' /\ QueueInv(r, y.sub)' /\ NoneMissing(y, r)'
    <3> DEFINE r == x.run
    <3>1. /\ ShownInv(x, history[r]) /\ WireInv(x, history[r]) /\ Reaches(x, x.cur)
          /\ SubInv(r, x.sub) /\ QueueInv(r, x.sub) /\ NoneMissing(x, r)
      BY <1>1, <1>2, <1>3, <2>3, PageKnown
    <3>2. ShownInv(y, history[r]) /\ Reaches(y, y.cur) /\ WireInv(y, history[r])
      BY <1>1, <1>5, <2>1, <3>1 DEF ShownInv, Reaches, WireInv, Stretch, KeepsShown
    <3>3. NoneMissing(y, r)
      BY <1>1, <2>1, <3>1 DEF NoneMissing, Covered, Reaches, KeepsShown
    <3>4. SubInv(r, y.sub)' /\ QueueInv(r, y.sub)' /\ NoneMissing(y, r)'
      BY <1>3, <2>1, <3>1, <3>3, LetAloneKeeps
    <3>5. QED BY <3>2, <3>4
  <2>4. PageInv(y)' BY <2>1, <2>2, <2>3, PageSuffices
  <2>5. QED BY <1>1, <1>2, <2>1, <2>4
<1>6. QED BY <1>1, <1>4, <1>5

\* What is shown of a wire without a gap is the next of the history.
ShowsNext(x, seen, h) ==
    /\ Len(seen) \in Nat /\ Len(x.seen) <= Len(seen) /\ Len(seen) <= Len(h)
    /\ \A i \in 1 .. Len(seen) : seen[i] = h[i]
    /\ Head(x.wire).id \in Nat /\ Head(x.wire).id <= Len(seen)
    /\ \E k \in 1 .. Len(seen) + 1 :
          /\ k + Len(Tail(x.wire)) <= Len(h) + 1
          /\ \A i \in 1 .. Len(Tail(x.wire)) : Tail(x.wire)[i] = h[k + i - 1]

LEMMA ShownNext ==
    ASSUME NEW h \in Seq(Events), Len(h) \in Nat,
           \A i \in 1 .. Len(h) : h[i] \in Events /\ h[i].id = i,
           NEW x, x.seen \in Seq(Events), x.wire \in Seq(Events \cup {Delta}),
           x.wire # <<>>, ShownInv(x, h), WireInv(x, h),
           NEW seen, seen = IF Head(x.wire).id > Saved(x)
                            THEN Append(x.seen, Head(x.wire)) ELSE x.seen
    PROVE  ShowsNext(x, seen, h)
<1> DEFINE e == Head(x.wire)
           t == Tail(x.wire)
           l == Len(x.seen)
           w == Len(x.wire)
<1>1. /\ l \in Nat /\ w \in Nat /\ w >= 1 /\ e = x.wire[1]
      /\ t \in Seq(Events \cup {Delta})
      /\ Len(t) = w - 1 /\ \A i \in 1 .. Len(t) : t[i] = x.wire[i + 1]
  BY LenProperties, HeadTailProperties, EmptySeq
<1>2. l <= Len(h) /\ \A i \in 1 .. l : x.seen[i] = h[i] BY DEF ShownInv
<1>3. Saved(x) = l
  <2>1. x.seen \in Seq(Events \cup {Delta}) /\ NoId \in Nat BY WiderSeq DEF NoId
  <2>2. CASE x.seen = <<>>
    <3>1. LastId(x.seen, NoId) = NoId /\ l = 0 BY <2>1, <2>2, LastIds
    <3>2. QED BY <3>1 DEF Saved, NoId
  <2>3. CASE x.seen # <<>>
    <3>1. l >= 1 /\ LastId(x.seen, NoId) = x.seen[l].id BY <2>1, <2>3, LastIds
    <3>2. l \in 1 .. l /\ l \in 1 .. Len(h) BY <1>1, <1>2, <3>1
    <3>3. LastId(x.seen, NoId) = l BY <1>2, <3>1, <3>2
    <3>4. QED BY <3>3 DEF Saved
  <2>4. QED BY <2>2, <2>3
<1>4. seen = IF e.id > l THEN Append(x.seen, e) ELSE x.seen BY <1>3
<1> HIDE DEF e, t
<1>5. CASE x.wire = <<Delta>>
  <2>1. e.id = 0 /\ w = 1 BY <1>1, <1>5 DEF Delta, Event, NoId
  <2>2. seen = x.seen BY <1>1, <1>4, <2>1
  <2>3. 1 + Len(t) <= Len(h) + 1 /\ 1 \in 1 .. Len(seen) + 1
    BY <1>1, <2>1, <2>2
  <2>4. \A i \in 1 .. Len(t) : t[i] = h[1 + i - 1] BY <1>1, <2>1
  <2>5. \E k \in 1 .. Len(seen) + 1 :
           k + Len(t) <= Len(h) + 1 /\ \A i \in 1 .. Len(t) : t[i] = h[k + i - 1]
    BY <2>3, <2>4
  <2>6. Len(seen) \in Nat /\ l <= Len(seen) /\ Len(seen) <= Len(h) /\ e.id <= Len(seen)
    BY <1>1, <1>2, <2>1, <2>2
  <2>7. \A i \in 1 .. Len(seen) : seen[i] = h[i] BY <1>2, <2>2
  <2>8. QED BY <2>1, <2>5, <2>6, <2>7 DEF ShowsNext, e, t
<1>6. ASSUME NEW k \in 1 .. l + 1, Stretch(x, h, k)
      PROVE  /\ Len(seen) \in Nat /\ l <= Len(seen) /\ Len(seen) <= Len(h)
             /\ \A i \in 1 .. Len(seen) : seen[i] = h[i]
             /\ e.id = k /\ k <= Len(seen)
             /\ k + 1 \in 1 .. Len(seen) + 1
             /\ k + 1 + Len(t) <= Len(h) + 1
             /\ \A i \in 1 .. Len(t) : t[i] = h[k + 1 + i - 1]
  <2>1. /\ k \in Nat /\ k + w <= Len(h) + 1
        /\ \A i \in 1 .. w : x.wire[i] = h[k + i - 1]
    BY <1>1, <1>6 DEF Stretch
  <2>2. k \in 1 .. Len(h) /\ 1 \in 1 .. w /\ k + 1 - 1 = k BY <1>1, <1>6, <2>1
  <2>3. e = h[k] /\ e.id = k /\ e \in Events
    <3>1. x.wire[1] = h[k + 1 - 1] BY <2>1, <2>2
    <3>2. QED BY <1>1, <2>2, <3>1
  <2>4. /\ Len(seen) \in Nat /\ l <= Len(seen) /\ Len(seen) <= Len(h)
        /\ \A i \in 1 .. Len(seen) : seen[i] = h[i]
        /\ k <= Len(seen)
    <3>1. CASE k > l
      <4>1. k = l + 1 BY <1>1, <1>6, <3>1
      <4>2. /\ Len(seen) = l + 1 /\ \A i \in 1 .. l : seen[i] = x.seen[i]
            /\ seen[l + 1] = e
        BY <1>4, <2>3, <3>1, AppendProperties
      <4>3. \A i \in 1 .. Len(seen) : i \in 1 .. l \/ i = l + 1 BY <1>1, <4>2
      <4>4. QED BY <1>1, <1>2, <2>2, <2>3, <4>1, <4>2, <4>3
    <3>2. CASE ~(k > l)
      <4>1. seen = x.seen BY <1>4, <2>3, <3>2
      <4>2. QED BY <1>1, <1>2, <2>1, <3>2, <4>1
    <3>3. QED BY <3>1, <3>2
  <2>5. k + 1 \in 1 .. Len(seen) + 1 /\ k + 1 + Len(t) <= Len(h) + 1
    <3>1. k + 1 \in 1 .. Len(seen) + 1 BY <2>1, <2>2, <2>4
    <3> DEFINE m == Len(t)
               n == Len(h)
    <3>2. k \in Nat /\ m \in Nat /\ n \in Nat /\ k + w <= n + 1 /\ m = w - 1 /\ w \in Nat
      BY <1>1, <2>1
    <3> HIDE DEF m, n, w
    <3>3. k + 1 + m <= n + 1 BY <3>2
    <3>4. QED BY <3>1, <3>3 DEF m, n
  <2>6. ASSUME NEW i \in 1 .. Len(t) PROVE t[i] = h[k + 1 + i - 1]
    <3>1. i + 1 \in 1 .. w /\ k + (i + 1) - 1 = k + 1 + i - 1 BY <1>1, <2>1
    <3>2. QED BY <1>1, <2>1, <3>1
  <2>7. QED BY <2>3, <2>4, <2>5, <2>6
<1>7. CASE \E k \in 1 .. l + 1 : Stretch(x, h, k)
  <2>1. PICK k \in 1 .. l + 1 : Stretch(x, h, k) BY <1>7
  <2>2. k \in Nat BY <1>1, <2>1
  <2>3. QED BY <1>6, <2>1, <2>2 DEF ShowsNext, e, t
<1>8. QED BY <1>5, <1>7 DEF WireInv

LEMMA ShowKeeps ==
    ASSUME BusTyped, StreamTyped, NumberInv, Idles, NEW v \in Viewers,
           NEW x, x = viewer[v], PageInv(x), Show(v)
    PROVE  \E y : /\ Becomes(v, y) /\ PageInv(y)'
                  /\ y.pc \notin Connected \/ (x.pc \in Connected /\ y.sub = x.sub)
<1> DEFINE e == Head(x.wire)
           r == x.run
           h == history[r]
<1>1. x.wire # <<>> /\ r \in Runs BY ShowPage
<1>2. PICK y : /\ Becomes(v, y) /\ y.run = r
               /\ y.seen = IF e.id > Saved(x) THEN Append(x.seen, e) ELSE x.seen
               /\ \/ /\ y.pc = x.pc /\ y.sub = x.sub /\ y.wire = Tail(x.wire)
                     /\ y.url = x.url /\ y.cur = x.cur
                     /\ y.last = IF e.id # NoId THEN e.id ELSE x.last
                  \/ /\ y.pc = "satisfied" /\ y.wire = <<>>
                     /\ y.url = NoId /\ y.cur = NoId /\ y.last = NoId
  BY ShowPage
<1>3. y.run # NoRun /\ worker[y.run] # "new" BY <1>1, <1>2, PageKnown
<1>4. ASSUME y.pc \in Connected
      PROVE  x.pc = y.pc /\ x.pc \in Connected /\ y.sub = x.sub /\ LetAlone(x.sub)
  <2>1. x.pc = y.pc /\ y.sub = x.sub BY <1>2, <1>4 DEF Connected
  <2>2. viewer'[v] = y BY <1>2, NewPage DEF Becomes
  <2>3. y.pc # "satisfied" BY <1>4 DEF Connected
  <2>4. UNCHANGED <<closed, queue, subs>>
    <3>1. \A z : Satisfied(z).pc = "satisfied" BY DEF Satisfied, NewViewer
    <3>2. ASSUME NEW z, viewer' = [viewer EXCEPT ![v] = Satisfied(z)] PROVE FALSE
      <4>1. viewer'[v] = Satisfied(z) BY <3>2 DEF StreamTyped
      <4>2. QED BY <2>2, <2>3, <3>1, <4>1
    <3>3. QED BY <3>2 DEF Show
  <2>5. QED BY <1>4, <2>1, <2>4 DEF LetAlone
<1>5. ASSUME Clean(r)
      PROVE  /\ ShownInv(y, h) /\ WireInv(y, h) /\ Reaches(y, y.cur)
             /\ y.pc \in Connected => SubInv(r, y.sub)' /\ QueueInv(r, y.sub)'
             /\ y.pc \in {"check", "live"} => NoneMissing(y, r)'
  <2>1. /\ ShownInv(x, h) /\ WireInv(x, h) /\ Reaches(x, x.cur) /\ Undisturbed(r)
        /\ x.pc \in Connected => SubInv(r, x.sub) /\ QueueInv(r, x.sub)
        /\ x.pc \in {"check", "live"} => NoneMissing(x, r)
        /\ x.seen \in Seq(Events) /\ x.wire \in Seq(Events \cup {Delta})
        /\ x.cur \in Nat /\ x.url \in Nat /\ x.last \in Nat /\ Len(x.seen) \in Nat
    BY <1>1, <1>5, PageKnown
  <2>2. /\ h \in Seq(Events) /\ Len(h) \in Nat
        /\ \A i \in 1 .. Len(h) : h[i] \in Events /\ h[i].id = i
    BY <1>1, <2>1, Positions
  <2> HIDE DEF h
  <2> DEFINE t == Tail(x.wire)
             l == Len(y.seen)
  <2>3. /\ l \in Nat /\ Len(x.seen) <= l /\ l <= Len(h)
        /\ \A i \in 1 .. l : y.seen[i] = h[i]
        /\ e.id \in Nat /\ e.id <= l
        /\ \E k \in 1 .. l + 1 : /\ k + Len(t) <= Len(h) + 1
                                 /\ \A i \in 1 .. Len(t) : t[i] = h[k + i - 1]
    <3> DEFINE seen == y.seen
    <3>1. seen = IF Head(x.wire).id > Saved(x)
                 THEN Append(x.seen, Head(x.wire)) ELSE x.seen
      BY <1>2
    <3> HIDE DEF seen
    <3>2. x.wire # <<>> /\ x.seen \in Seq(Events) /\ x.wire \in Seq(Events \cup {Delta})
      BY <1>1, <2>1
    <3>3. ShownInv(x, h) /\ WireInv(x, h) BY <2>1
    <3>4. ShowsNext(x, seen, h) BY <2>2, <3>1, <3>2, <3>3, ShownNext
    <3>5. QED BY <3>4 DEF ShowsNext, seen
  <2>4. /\ Len(x.wire) \in Nat /\ e = x.wire[1] /\ Len(t) = Len(x.wire) - 1
        /\ \A i \in 1 .. Len(t) : t[i] = x.wire[i + 1]
    BY <1>1, <2>1, LenProperties, HeadTailProperties
  <2> HIDE DEF t, e
  <2>5. ShownInv(y, h)
    <3>1. y.url <= l /\ y.last <= l
      BY <1>2, <2>1, <2>3 DEF ShownInv, NoId
    <3>2. QED BY <2>3, <3>1 DEF ShownInv
  <2>6. CASE y.pc = "satisfied" /\ y.wire = <<>> /\ y.cur = NoId
    <3>1. Reaches(y, y.cur) BY <2>3, <2>6 DEF Reaches, NoId
    <3>2. 1 .. Len(y.wire) = {} /\ Len(y.wire) = 0 BY <2>6
    <3>3. Stretch(y, h, 1) /\ 1 \in 1 .. l + 1 BY <2>2, <2>3, <3>2 DEF Stretch
    <3>4. WireInv(y, h) BY <2>6, <3>3 DEF WireInv
    <3>5. QED BY <2>5, <2>6, <3>1, <3>4 DEF Connected
  <2>7. CASE y.pc = x.pc /\ y.wire = t /\ y.cur = x.cur
    <3>1. WireInv(y, h)
      <4>1. \E k \in 1 .. l + 1 : Stretch(y, h, k) BY <2>3, <2>7 DEF Stretch
      <4>2. x.pc \notin {"asked", "replay", "satisfied", "refused"}
        BY <1>1, <2>1 DEF WireInv
      <4>3. QED BY <2>7, <4>1, <4>2 DEF WireInv
    <3>2. \A m \in Nat : Reaches(x, m) => Reaches(y, m)
      <4>1. SUFFICES ASSUME NEW m \in Nat, Reaches(x, m) PROVE Reaches(y, m)
        OBVIOUS
      <4>2. CASE m <= Len(x.seen)
        <5>1. m <= l BY <2>1, <2>3, <4>2
        <5>2. QED BY <5>1 DEF Reaches
      <4>3. ASSUME NEW i \in 1 .. Len(x.wire), x.wire[i].id = m PROVE Reaches(y, m)
        <5>1. CASE i = 1 BY <2>3, <2>4, <4>3, <5>1 DEF Reaches
        <5>2. CASE i # 1
          <6>1. i - 1 \in 1 .. Len(t) /\ i - 1 + 1 = i BY <2>4, <5>2
          <6>2. t[i - 1].id = m BY <2>4, <4>3, <6>1
          <6>3. QED BY <2>7, <6>1, <6>2 DEF Reaches
        <5>3. QED BY <5>1, <5>2
      <4>4. QED BY <4>1, <4>2, <4>3 DEF Reaches
    <3>3. Reaches(y, y.cur) BY <2>1, <2>7, <3>2
    <3>4. ASSUME y.pc \in Connected PROVE SubInv(r, y.sub)' /\ QueueInv(r, y.sub)'
      <4>1. LetAlone(x.sub) /\ y.sub = x.sub /\ x.pc \in Connected BY <1>4, <3>4
      <4>2. QED BY <1>1, <2>1, <4>1, LetAloneKeeps
    <3>5. ASSUME y.pc \in {"check", "live"} PROVE NoneMissing(y, r)'
      <4>1. y.pc \in Connected BY <3>5 DEF Connected
      <4>2. LetAlone(x.sub) /\ y.sub = x.sub /\ NoneMissing(x, r)
        BY <1>4, <2>1, <2>7, <3>5, <4>1
      <4>3. \A m \in 1 .. Queued(r, x.sub) : m \in Nat
        BY <1>1, <2>1, QueuedNumber
      <4>4. NoneMissing(y, r) BY <3>2, <4>2, <4>3 DEF NoneMissing, Covered
      <4>5. QED BY <1>1, <4>2, <4>4, LetAloneKeeps
    <3>6. QED BY <2>5, <3>1, <3>3, <3>4, <3>5
  <2>8. QED BY <1>2, <2>6, <2>7 DEF t
<1>6. PageInv(y)' BY <1>2, <1>3, <1>5, PageSuffices
<1>7. QED BY <1>2, <1>4, <1>6

\* The first event of a queue is the next one of the history at most.
LEMMA FirstOfQueue ==
    ASSUME NEW h, NEW q \in Seq(Items), q # <<>>, NEW n \in Nat, Ordered(q, h, n),
           NEW x, x.wire = <<>>, Len(x.seen) \in Nat, Covered(x, q, n),
           Head(q).id # NoId
    PROVE  /\ Head(q).id \in 1 .. Len(x.seen) + 1
           /\ Head(q).id <= n /\ Head(q) = h[Head(q).id]
<1> DEFINE l == Len(x.seen)
           m == q[1].id
<1>1. Len(q) \in Nat /\ Len(q) >= 1 /\ Head(q) = q[1] /\ 1 \in 1 .. Len(q)
  BY LenProperties, HeadTailProperties, EmptySeq
<1>2. \A i \in 1 .. Len(q) : q[i].id \in Nat BY ElementOfSeq, ItemIds
<1>3. m \in Nat /\ m # 0 /\ m <= n /\ q[1] = h[m]
  BY <1>1, <1>2 DEF Ordered, NoId
<1>4. m <= l + 1
  <2>1. SUFFICES ASSUME m > l + 1 PROVE FALSE BY <1>3
  <2>2. m - 1 \in 1 .. n /\ ~(m - 1 <= l) BY <1>3, <2>1
  <2>3. ~ Reaches(x, m - 1) BY <2>2, ReachesWhere
  <2>4. PICK i \in 1 .. Len(q) : q[i].id = m - 1
    BY <2>2, <2>3 DEF Covered
  <2>5. i # 1 /\ 1 < i BY <1>1, <1>3, <2>4
  <2>6. q[i].id # NoId /\ m # NoId BY <1>3, <2>2, <2>4 DEF NoId
  <2>7. m < q[i].id BY <1>1, <2>4, <2>5, <2>6 DEF Ordered
  <2>8. QED BY <1>3, <2>4, <2>7
<1>5. QED BY <1>1, <1>3, <1>4

\* What leaves the queue is on the wire.
LEMMA CoveredTail ==
    ASSUME NEW q \in Seq(Items), q # <<>>, NEW n \in Nat,
           NEW x, x.wire = <<>>, Covered(x, q, n),
           NEW y, y.seen = x.seen, y.wire = <<Head(q)>>
    PROVE  Covered(y, Tail(q), n)
<1> DEFINE t == Tail(q)
<1>1. /\ Len(q) \in Nat /\ Len(t) = Len(q) - 1 /\ Head(q) = q[1]
      /\ \A i \in 1 .. Len(t) : t[i] = q[i + 1]
  BY LenProperties, HeadTailProperties
<1> HIDE DEF t
<1>2. Len(y.wire) = 1 /\ y.wire[1] = q[1] /\ 1 \in 1 .. 1 BY <1>1
<1>3. SUFFICES ASSUME NEW m \in 1 .. n
               PROVE  Reaches(y, m) \/ \E i \in 1 .. Len(t) : t[i].id = m
  BY DEF Covered, t
<1>4. CASE Reaches(x, m)
  <2>1. m <= Len(x.seen) BY <1>4, ReachesWhere
  <2>2. QED BY <2>1 DEF Reaches
<1>5. ASSUME NEW i \in 1 .. Len(q), q[i].id = m
      PROVE  Reaches(y, m) \/ \E j \in 1 .. Len(t) : t[j].id = m
  <2>1. CASE i = 1 BY <1>2, <1>5, <2>1 DEF Reaches
  <2>2. CASE i # 1
    <3>1. i - 1 \in 1 .. Len(t) /\ i - 1 + 1 = i BY <1>1, <2>2
    <3>2. t[i - 1].id = m BY <1>1, <1>5, <3>1
    <3>3. QED BY <3>1, <3>2
  <2>3. QED BY <2>1, <2>2
<1>6. QED BY <1>3, <1>4, <1>5 DEF Covered

LEMMA ReceiveKeeps ==
    ASSUME BusTyped, StreamTyped, NumberInv, Idles, NEW v \in Viewers,
           NEW x, x = viewer[v], PageInv(x), Receive(v)
    PROVE  \E y : /\ Becomes(v, y) /\ PageInv(y)'
                  /\ y.pc \notin Connected \/ (x.pc \in Connected /\ y.sub = x.sub)
<1> DEFINE s == x.sub
           q == queue[s]
           item == Head(q)
           r == x.run
           h == history[r]
<1>1. x.pc = "live" /\ x.wire = <<>> /\ x.pc \in Connected
  BY ReceivePage DEF Connected
<1>2. CASE TopUp(v) BY <1>1, <1>2, TopUpKeeps
<1>3. ASSUME /\ q # <<>> /\ item \in Events \cup {Delta}
             /\ queue' = [queue EXCEPT ![s] = Tail(@)]
             /\ UNCHANGED <<subs, closed>>,
             NEW y, Becomes(v, y) /\ KeepsShown(x, y)
                    /\ y.pc = "live" /\ y.sub = s
                    /\ y.wire = <<item>> /\ y.cur = item.id
      PROVE  PageInv(y)'
  <2>1. r \in Runs /\ s \in Subscriptions BY <1>1, ServedPage
  <2>2. y.run = r /\ y.run # NoRun /\ worker[y.run] # "new"
    BY <1>3, <2>1, PageKnown DEF KeepsShown
  <2>3. ASSUME Clean(r)
        PROVE  /\ ShownInv(y, h) /\ WireInv(y, h) /\ Reaches(y, y.cur)
               /\ SubInv(r, s)' /\ QueueInv(r, s)' /\ NoneMissing(y, r)'
    <3> DEFINE n == Queued(r, s)
    <3>1. /\ ShownInv(x, h) /\ SubInv(r, s) /\ Ordered(q, h, n) /\ Covered(x, q, n)
          /\ Len(x.seen) \in Nat
      BY <1>1, <2>1, <2>3, PageKnown DEF QueueInv, NoneMissing
    <3>2. n \in Nat /\ n <= Len(h) /\ Len(h) \in Nat
      BY <2>1, <2>3, QueuedNumber DEF Clean
    <3>3. q \in Seq(Items) /\ queue'[s] = Tail(q) BY <1>3, <2>1 DEF BusTyped
    <3>4. Queued(r, s)' = n /\ UNCHANGED <<history, pub>> /\ (Sealed(r) => Sealed(r)')
      BY IdleParts
    <3> HIDE DEF q, n, h
    <3>5. SubInv(r, s)' BY <1>3, <3>1, <3>4 DEF SubInv
    <3>6. Ordered(Tail(q), h, n) BY <1>3, <3>1, <3>2, <3>3, OrderedTail
    <3>7. QueueInv(r, s)' BY <3>3, <3>4, <3>6 DEF QueueInv, h
    <3>8. Covered(y, Tail(q), n)
      BY <1>1, <1>3, <3>1, <3>2, <3>3, CoveredTail DEF KeepsShown
    <3>9. NoneMissing(y, r)' BY <1>3, <3>3, <3>4, <3>8 DEF NoneMissing
    <3>10. Len(y.wire) = 1 /\ y.wire[1] = item /\ 1 \in 1 .. 1 BY <1>3
    <3>11. Reaches(y, y.cur) BY <1>3, <3>10 DEF Reaches
    <3>12. ShownInv(y, h) BY <1>3, <3>1 DEF ShownInv, KeepsShown
    <3>13. WireInv(y, h)
      <4>1. CASE item = Delta BY <1>3, <4>1 DEF WireInv
      <4>2. CASE item # Delta
        <5>1. item \in Events /\ item \in Items BY <1>3, <4>2 DEF Items
        <5>2. item.id # NoId
          <6>1. Len(q) >= 1 /\ q[1] = item /\ 1 \in 1 .. Len(q)
            BY <1>3, <3>3, LenProperties, HeadTailProperties, EmptySeq
          <6>2. item.id = NoId => item \in {Delta, CLOSED}
            BY <3>1, <6>1 DEF Ordered
          <6>3. CLOSED \notin Events
            BY DEF CLOSED, Events, Event, DurableTypes, TerminalTypes
          <6>4. QED BY <4>2, <5>1, <6>2, <6>3
        <5>3. item.id \in 1 .. Len(x.seen) + 1 /\ item.id <= n /\ item = h[item.id]
          BY <1>1, <1>3, <3>1, <3>2, <3>3, <5>2, FirstOfQueue
        <5>4. item.id \in Nat /\ item.id + 1 <= Len(h) + 1 /\ item.id + 1 - 1 = item.id
          BY <3>1, <3>2, <5>3
        <5>5. Stretch(y, h, item.id)
          <6>1. \A i \in 1 .. Len(y.wire) : i = 1 BY <3>10
          <6>2. QED BY <3>10, <5>3, <5>4, <6>1 DEF Stretch
        <5>6. item.id \in 1 .. Len(y.seen) + 1 BY <1>3, <5>3 DEF KeepsShown
        <5>7. QED BY <1>3, <5>5, <5>6 DEF WireInv
      <4>3. QED BY <4>1, <4>2
    <3>14. QED BY <3>5, <3>7, <3>9, <3>11, <3>12, <3>13 DEF h
  <2>4. QED BY <1>3, <2>2, <2>3, PageSuffices
<1>4. QED BY <1>1, <1>2, <1>3, ReceivePage

LEMMA TimeOutKeeps ==
    ASSUME BusTyped, StreamTyped, NumberInv, Idles, NEW v \in Viewers,
           NEW x, x = viewer[v], PageInv(x), TimeOut(v)
    PROVE  \E y : Becomes(v, y) /\ PageInv(y)' /\ y.pc \notin Connected
BY TopUpKeeps DEF TimeOut

-----------------------------------------------------------------------------
(* All the pages.                                                           *)

\* The page that acts keeps the invariant; when it still has a response, that
\* is the one it had or one of its own.
OwnPage(v, y) ==
    /\ Becomes(v, y) /\ PageInv(y)'
    /\ \/ y.pc \notin Connected
       \/ viewer[v].pc \in Connected /\ y.sub = viewer[v].sub
       \/ \A u \in Viewers : viewer[u].sub # y.sub

LEMMA OwnPages ==
    ASSUME BusTyped, StreamTyped, NumberInv, NEW v \in Viewers, PageStep(v),
           PageInv(viewer[v])
    PROVE  \E y : OwnPage(v, y)
<1> DEFINE x == viewer[v]
<1>1. Idles BY PagesOnBus DEF Idles
<1> USE <1>1
<1>2. PICK z : z = x OBVIOUS
<1>3. PageInv(z) BY <1>2
<1>4. ASSUME NEW r \in Runs, Watch(v, r) PROVE \E y : OwnPage(v, y)
  BY <1>4, WatchKeeps DEF OwnPage
<1>5. CASE Connect(v) BY <1>2, <1>3, <1>5, ConnectKeeps DEF OwnPage
<1>6. CASE Show(v) BY <1>2, <1>3, <1>6, ShowKeeps DEF OwnPage
<1>7. ASSUME NEW s \in Subscriptions, Listen(v, s) PROVE \E y : OwnPage(v, y)
  <2>1. \A u \in Viewers : viewer[u].sub # s BY <1>7 DEF Listen
  <2>2. PICK y : Becomes(v, y) /\ PageInv(y)' /\ y.sub = s
    BY <1>2, <1>3, <1>7, ListenKeeps
  <2>3. QED BY <2>1, <2>2 DEF OwnPage
<1>8. CASE Replay(v) BY <1>2, <1>3, <1>8, ReplayKeeps DEF OwnPage
<1>9. CASE CheckDone(v) BY <1>2, <1>3, <1>9, CheckDoneKeeps DEF OwnPage
<1>10. CASE Receive(v) BY <1>2, <1>3, <1>10, ReceiveKeeps DEF OwnPage
<1>11. CASE TimeOut(v) BY <1>2, <1>3, <1>11, TimeOutKeeps DEF OwnPage
<1>12. CASE Cut(v) BY <1>2, <1>3, <1>12, CutKeeps DEF OwnPage
<1>13. QED
  BY <1>4, <1>5, <1>6, <1>7, <1>8, <1>9, <1>10, <1>11, <1>12 DEF PageStep, ViewerStep

LEMMA PagesKept ==
    ASSUME BusTyped, StreamTyped, NumberInv, PagesInv, NEW v \in Viewers, PageStep(v)
    PROVE  PagesInv'
<1>1. PICK y : OwnPage(v, y) BY OwnPages DEF PagesInv
<1>2. /\ viewer'[v] = y /\ \A u \in Viewers \ {v} : viewer'[u] = viewer[u]
      /\ PageInv(y)'
  BY <1>1, NewPage DEF OwnPage, Becomes
<1>3. Apart'
  <2>1. SUFFICES ASSUME NEW u \in Viewers, NEW w \in Viewers,
                        viewer'[u].pc \in Connected, viewer'[w].pc \in Connected,
                        viewer'[u].sub = viewer'[w].sub
                 PROVE  u = w
    BY DEF Apart
  <2>2. ASSUME NEW a \in Viewers \ {v}, viewer'[a].pc \in Connected,
               y.pc \in Connected, viewer'[a].sub = y.sub
        PROVE  FALSE
    <3>1. viewer[a].pc \in Connected /\ viewer[a].sub = y.sub BY <1>2, <2>2
    <3>2. viewer[v].pc \in Connected /\ y.sub = viewer[v].sub
      BY <1>1, <2>2, <3>1 DEF OwnPage
    <3>3. QED BY <2>2, <3>1, <3>2 DEF PagesInv, Apart
  <2>3. CASE u = v BY <1>2, <2>1, <2>2, <2>3
  <2>4. CASE w = v BY <1>2, <2>1, <2>2, <2>4
  <2>5. CASE u # v /\ w # v BY <1>2, <2>1, <2>5 DEF PagesInv, Apart
  <2>6. QED BY <2>3, <2>4, <2>5
<1>4. ASSUME NEW u \in Viewers, NEW x \in {viewer'[u]} PROVE PageInv(x)'
  <2>1. CASE u = v
    <3>1. x = y BY <1>2, <1>4, <2>1
    <3>2. QED BY <1>2, <3>1
  <2>2. CASE u # v
    <3>1. x = viewer[u] BY <1>2, <1>4, <2>2
    <3>2. PageInv(x) BY <3>1 DEF PagesInv
    <3>3. QED BY <2>2, <3>1, <3>2, OtherPage DEF PagesInv
  <2>3. QED BY <2>1, <2>2
<1>5. QED BY <1>3, <1>4 DEF PagesInv

-----------------------------------------------------------------------------
(* The invariant of the stream.                                             *)

LEMMA StreamBegins == StreamInit => StreamInv
<1> SUFFICES ASSUME StreamInit PROVE StreamInv
  OBVIOUS
<1>1. ServerInv /\ StreamTyped BY StreamTypesBegin
<1>2. ThreadInv BY ThreadsBegin DEF StreamInit
<1>3. \A v \in Viewers : viewer[v] = NewViewer BY DEF StreamInit
<1>4. Apart BY <1>3 DEF Apart, NewViewer, Connected
<1>5. \A v \in Viewers : \A x \in {viewer[v]} : PageInv(x)
  <2>1. \A x : x = NewViewer => PageInv(x) BY DEF NewViewer, PageInv
  <2>2. QED BY <1>3, <2>1
<1>6. QED BY <1>1, <1>2, <1>4, <1>5 DEF StreamInv, PagesInv

LEMMA StreamKept ==
    ASSUME StreamInv, Fits, [StreamNext]_vars
    PROVE  StreamInv'
<1>1. ServerInv /\ StreamTyped /\ ThreadInv /\ PagesInv /\ NumberInv /\ BusTyped
  BY DEF StreamInv, ThreadInv, ServerInv, MgrTyped
<1>2. ServerInv' /\ StreamTyped'
  BY <1>1, ServerKept, StreamTypedKept DEF ServerInv, MgrTyped
<1>3. ThreadInv' BY <1>1, <1>2, ThreadsKept
<1>4. PagesInv'
  <2>1. CASE [MgrNext]_serverVars /\ UNCHANGED <<viewer, cuts>>
    <3>1. Apart' BY <1>1, <2>1 DEF PagesInv, Apart
    <3>2. ASSUME NEW v \in Viewers, NEW x \in {viewer'[v]} PROVE PageInv(x)'
      <4>1. x = viewer[v] BY <2>1, <3>2
      <4>2. PageTyped(x) /\ PageInv(x) BY <1>1, <4>1 DEF PagesInv, StreamTyped
      <4>3. QED BY <1>1, <1>2, <2>1, <4>2, PageUnderServer
    <3>3. QED BY <3>1, <3>2 DEF PagesInv
  <2>2. CASE \E v \in Viewers : PageStep(v) BY <1>1, <2>2, PagesKept
  <2>3. QED BY <2>1, <2>2, StreamSteps
<1>5. QED BY <1>2, <1>3, <1>4 DEF StreamInv

LEMMA AlwaysStreams == StreamSpec /\ []Fits => []StreamInv
<1>1. StreamInit => StreamInv BY StreamBegins
<1>2. StreamInv /\ Fits /\ [StreamNext]_vars => StreamInv' BY StreamKept
<1>3. QED BY <1>1, <1>2, PTL DEF StreamSpec

\* What it says of a page is what ShowsPrefix asks of it.
LEMMA PagesShowPrefix == StreamInv => ShowsPrefix
<1> SUFFICES ASSUME StreamInv, NEW v \in Viewers, viewer[v].run # NoRun,
                    Undisturbed(viewer[v].run), viewer[v].run \notin dropped
             PROVE  IsPrefix(viewer[v].seen, history[viewer[v].run])
  BY DEF ShowsPrefix
<1> DEFINE s == viewer[v].seen
           h == history[viewer[v].run]
<1>1. PageTyped(viewer[v]) /\ \A x \in {viewer[v]} : PageInv(x)
  BY DEF StreamInv, StreamTyped, PagesInv
<1>2. viewer[v].run \in Runs /\ s \in Seq(Events)
  BY <1>1 DEF PageTyped, Pages, NewViewer
<1>3. h \in Seq(Events)
  BY <1>2 DEF StreamInv, ServerInv, MgrTyped, BusTyped
<1>4. ShownInv(viewer[v], h) BY <1>1 DEF PageInv, Clean
<1>5. Len(s) <= Len(h) /\ \A i \in 1 .. Len(s) : s[i] = h[i]
  BY <1>4 DEF ShownInv
<1> HIDE DEF s, h
<1>6. Len(s) \in Nat /\ Len(h) \in Nat BY <1>2, <1>3, LenProperties
<1>7. SubSeq(s, 1, Len(s)) = SubSeq(h, 1, Len(s))
  <2>1. \A i \in 1 .. Len(s) : s[i] \in Events /\ h[i] \in Events
    BY <1>2, <1>5, ElementOfSeq DEF s
  <2>2. QED BY <1>5, <1>6
<1>8. IsPrefix(s, h) BY <1>5, <1>7 DEF IsPrefix
<1>9. QED BY <1>8 DEF s, h

LEMMA RoomOnStreams ==
    ASSUME MaxEmits + 4 <= MaxHistory PROVE StreamSpec => []Fits
<1>1. ServerInv /\ StreamTyped => Fits BY CountFits DEF ServerInv
<1>2. QED BY <1>1, AlwaysServed, PTL

-----------------------------------------------------------------------------
\* Every variable of the server and of the pages holds a value of its kind.
THEOREM StreamTypes == StreamSpec => []TypeOK
<1>1. ServerInv /\ StreamTyped => TypeOK BY PagesTypeOK
<1>2. QED BY <1>1, AlwaysServed, PTL

\* What a page shows is the beginning of the history of its run: no gap, no
\* repetition and nothing out of order, through every replay, live item, closed
\* queue, time-out, cut and reconnection, for a run that is not deleted, nor
\* closed by the supervisor, and none of whose events found a queue or the
\* history full (_sse_generator, publish, useRunStream).
THEOREM PrefixShown == StreamSpec /\ []Fits => []ShowsPrefix
BY AlwaysStreams, PagesShowPrefix, PTL

\* The same without the hypothesis on the behaviour, when the history has room
\* for every event a run publishes: what its turn emits, the three events the
\* turn announces at most, and the terminal one.
THEOREM PrefixShownWithRoom ==
    ASSUME MaxEmits + 4 <= MaxHistory PROVE StreamSpec => []ShowsPrefix
BY RoomOnStreams, PrefixShown, PTL
==============================================================================
