------------------------------- MODULE EventBus -------------------------------
(***************************************************************************)
(* The live stream: threads publish invalidation events, the event loop    *)
(* delivers them into bounded buffers, each stream checks its session now  *)
(* and then, and a page reloads what it may have missed                    *)
(* (app/services/event_bus.py, app/api/events.py,                          *)
(* app/static/js/live-events.js).                                          *)
(***************************************************************************)
EXTENDS Integers, Sequences, FiniteSets

CONSTANTS
    Pages,                  \* browser pages with a live client
    Backlog,                \* MAX_PENDING_PUBLISHES
    Buffer,                 \* SUBSCRIBER_QUEUE_SIZE
    MaxStreams,             \* MAX_SUBSCRIBERS
    Recheck,                \* ticks between two looks at the session
    MaxEvents, MaxBreaks    \* bounds on events, lost connections

ASSUME EventBusAssumption ==
    {Backlog, Buffer, MaxStreams, Recheck, MaxEvents} \subseteq Nat \ {0} /\ MaxBreaks \in Nat

VARIABLES
    bus,        \* counted but not yet scheduled, scheduled, backlog lost, closed
    streams,    \* per page: the server's end of its stream, or of the request for it
    pages,      \* per page: what the browser shows
    sessions,   \* per page: role, and ticks since its session was revoked, or
                \* since a stream was opened for it all the same
    traffic     \* events published, connections broken

busVars == <<bus, streams, pages, sessions, traffic>>

Unrevoked == -1
NoStream == [resolved |-> FALSE, open |-> FALSE, closed |-> FALSE, admin |-> FALSE,
             items |-> <<>>, resync |-> FALSE, age |-> 0]
BusEvents == [id : 1 .. MaxEvents, adminOnly : BOOLEAN]

BusInit ==
    /\ bus = [counted |-> {}, scheduled |-> <<>>, lost |-> FALSE, closed |-> FALSE]
    /\ streams = [p \in Pages |-> NoStream]
    /\ pages = [p \in Pages |-> [pc |-> "loaded", behind |-> {}, gap |-> {}]]
    /\ sessions \in [Pages -> [admin : BOOLEAN, revoked : {Unrevoked}, leaked : {FALSE}]]
    /\ traffic = [events |-> 0, breaks |-> 0]

VisibleTo(event, admin) == admin \/ ~event.adminOnly
Valid(p) == sessions[p].revoked = Unrevoked
Pending == Cardinality(bus.counted) + Len(bus.scheduled)
LoggedOut(p) == pages[p].pc = "login"

(* publish: counted under the lock; a full backlog drops the event and     *)
(* leaves a note for the next delivery.                                    *)
Publish(event) ==
    /\ event.id = traffic.events + 1 /\ ~bus.closed
    /\ traffic' = [traffic EXCEPT !.events = @ + 1]
    /\ bus' = IF Pending >= Backlog THEN [bus EXCEPT !.lost = TRUE]
              ELSE [bus EXCEPT !.counted = @ \union {event}]
    /\ pages' = [p \in Pages |->
                   IF VisibleTo(event, sessions[p].admin) /\ Valid(p) /\ ~LoggedOut(p)
                   THEN [pages[p] EXCEPT !.behind = @ \union {event}] ELSE pages[p]]
    /\ UNCHANGED <<streams, sessions>>

(* call_soon_threadsafe, outside the lock.                                 *)
Schedule(event) ==
    /\ event \in bus.counted
    /\ bus' = [bus EXCEPT !.counted = @ \ {event}, !.scheduled = Append(@, event)]
    /\ UNCHANGED <<streams, pages, sessions, traffic>>

(* Subscription._offer, for those who may see the event.                   *)
OfferedTo(s, event) ==
    IF s.closed \/ s.resync \/ ~VisibleTo(event, s.admin) THEN s
    ELSE IF Len(s.items) >= Buffer THEN [s EXCEPT !.items = <<>>, !.resync = TRUE]
    ELSE [s EXCEPT !.items = Append(@, event)]

Resynced(s) == IF s.closed THEN s ELSE [s EXCEPT !.items = <<>>, !.resync = TRUE]

Deliver ==
    LET event == Head(bus.scheduled)
        before(p) == IF bus.lost THEN Resynced(streams[p]) ELSE streams[p]
    IN /\ bus.scheduled # <<>>
       /\ bus' = [bus EXCEPT !.scheduled = Tail(@), !.lost = FALSE]
       /\ streams' = [p \in Pages |->
                        IF streams[p].open /\ ~bus.closed THEN OfferedTo(before(p), event) ELSE streams[p]]
       /\ UNCHANGED <<pages, sessions, traffic>>

---------------------------------------------------------------------------
(* The stream of one page.                                                 *)
Subscribed == {p \in Pages : streams[p].open}

StreamEnds(p) ==
    /\ streams' = [streams EXCEPT ![p] = NoStream]
    /\ pages' = [pages EXCEPT ![p].pc = "down"]

(* events: a thread looks the session up while the request waits; what it  *)
(* found is not looked at again when the stream is opened.                 *)
ResolveSession(p) ==
    /\ pages[p].pc \in {"loaded", "down"} /\ streams[p] = NoStream
    /\ Valid(p)
    /\ streams' = [streams EXCEPT ![p] = [NoStream EXCEPT !.resolved = TRUE, !.admin = sessions[p].admin]]
    /\ UNCHANGED <<bus, pages, sessions, traffic>>

(* The first frame tells a page that had a problem to reload everything.   *)
OpenStream(p) ==
    /\ streams[p].resolved
    /\ ~bus.closed /\ Cardinality(Subscribed) < MaxStreams
    /\ streams' = [streams EXCEPT ![p].resolved = FALSE, ![p].open = TRUE]
    /\ pages' = [pages EXCEPT ![p] =
                   [pc |-> "live", behind |-> IF @.pc = "down" THEN {} ELSE @.behind,
                    gap |-> IF @.pc = "down" THEN {} ELSE @.behind]]
    /\ sessions' = [sessions EXCEPT ![p].revoked = IF Valid(p) THEN Unrevoked ELSE 0]
    /\ UNCHANGED <<bus, traffic>>

(* The attempt is refused: from now on the page knows of a problem.        *)
OpenStreamFails(p) ==
    /\ streams[p].resolved
    /\ bus.closed \/ Cardinality(Subscribed) >= MaxStreams
    /\ StreamEnds(p)
    /\ UNCHANGED <<bus, sessions, traffic>>

(* The probe after a lost stream finds the session gone: to the login.     *)
GoLogin(p) ==
    /\ pages[p].pc \in {"loaded", "down"} /\ streams[p] = NoStream /\ ~Valid(p)
    /\ pages' = [pages EXCEPT ![p] = [pc |-> "login", behind |-> {}, gap |-> {}]]
    /\ UNCHANGED <<bus, streams, sessions, traffic>>

(* Mutant: the session is looked at only when there is nothing to send.    *)
LookWhenIdle(p) == streams[p].age >= Recheck /\ streams[p].items = <<>> /\ ~streams[p].resync

LookDue(p) == streams[p].age >= Recheck

(* stream_frames: what next() returned is sent only after a due look at    *)
(* the session.                                                            *)
SendFrame(p) ==
    LET s == streams[p]
        shown == pages[p]
        sent == IF s.resync THEN [s EXCEPT !.resync = FALSE] ELSE [s EXCEPT !.items = Tail(@)]
    IN /\ s.open /\ (s.resync \/ s.items # <<>>)
       /\ IF LookDue(p) /\ ~Valid(p) THEN StreamEnds(p) /\ UNCHANGED sessions
          ELSE /\ streams' = [streams EXCEPT ![p] =
                                IF LookDue(p) THEN [sent EXCEPT !.age = 0] ELSE sent]
               /\ pages' = [pages EXCEPT ![p] =
                              IF s.resync THEN [@ EXCEPT !.behind = {}, !.gap = {}]
                              ELSE [@ EXCEPT !.behind = shown.behind \ {Head(s.items)},
                                             !.gap = shown.gap \ {Head(s.items)}]]
               /\ sessions' = [sessions EXCEPT ![p].leaked = @ \/ sessions[p].revoked >= Recheck]
       /\ UNCHANGED <<bus, traffic>>

(* The wait for an event ends with the deadline of the check.              *)
CheckSession(p) ==
    /\ streams[p].open /\ LookDue(p) /\ streams[p].items = <<>> /\ ~streams[p].resync
    /\ IF Valid(p) THEN streams' = [streams EXCEPT ![p].age = 0] /\ UNCHANGED pages
       ELSE StreamEnds(p)
    /\ UNCHANGED <<bus, sessions, traffic>>

EndClosed(p) ==
    /\ streams[p].open /\ streams[p].closed /\ streams[p].items = <<>> /\ ~streams[p].resync
    /\ StreamEnds(p)
    /\ UNCHANGED <<bus, sessions, traffic>>

(* The safety timer of a page that is connected, the fallback timer of one *)
(* that is not: reload everything.                                         *)
ReloadNow(p) ==
    /\ pages[p].pc \in {"live", "down"} /\ Valid(p) /\ pages[p].behind # {}
    /\ pages' = [pages EXCEPT ![p].behind = {}, ![p].gap = {}]
    /\ UNCHANGED <<bus, streams, sessions, traffic>>

(* The connection breaks, or the page misses the heartbeats.               *)
BreakStream(p) ==
    /\ streams[p].open /\ traffic.breaks < MaxBreaks
    /\ StreamEnds(p)
    /\ traffic' = [traffic EXCEPT !.breaks = @ + 1]
    /\ UNCHANGED <<bus, sessions>>

(* Logout, deletion or a change of the role: the identity captured by the  *)
(* stream no longer holds.                                                 *)
Revoke(p) ==
    /\ Valid(p)
    /\ sessions' = [sessions EXCEPT ![p].revoked = 0]
    /\ UNCHANGED <<bus, streams, pages, traffic>>

BusTick ==
    /\ \E p \in Pages : ~LoggedOut(p)
    /\ streams' = [p \in Pages |->
                     IF streams[p].open /\ streams[p].age < Recheck
                     THEN [streams[p] EXCEPT !.age = @ + 1] ELSE streams[p]]
    /\ sessions' = [p \in Pages |->
                      IF Valid(p) \/ sessions[p].revoked = Recheck THEN sessions[p]
                      ELSE [sessions[p] EXCEPT !.revoked = @ + 1]]
    /\ UNCHANGED <<bus, pages, traffic>>

(* Shutdown: every stream is closed, what was buffered is gone.            *)
CloseBus ==
    /\ ~bus.closed
    /\ bus' = [bus EXCEPT !.closed = TRUE]
    /\ streams' = [p \in Pages |->
                     IF streams[p].open THEN [streams[p] EXCEPT !.closed = TRUE, !.items = <<>>]
                     ELSE streams[p]]
    /\ UNCHANGED <<pages, sessions, traffic>>

StreamStep(p) == SendFrame(p) \/ CheckSession(p) \/ EndClosed(p)
PageStep(p) == ResolveSession(p) \/ OpenStream(p) \/ OpenStreamFails(p) \/ GoLogin(p)
BusStep == Deliver \/ \E event \in BusEvents : Schedule(event)

BusNext ==
    \/ BusStep \/ BusTick \/ CloseBus
    \/ \E event \in BusEvents : Publish(event)
    \/ \E p \in Pages : StreamStep(p) \/ PageStep(p) \/ ReloadNow(p) \/ BreakStream(p) \/ Revoke(p)

BusSpec == BusInit /\ [][BusNext]_busVars
BusFairSpec ==
    /\ BusSpec /\ WF_busVars(BusStep) /\ WF_busVars(BusTick)
    /\ \A p \in Pages : WF_busVars(StreamStep(p)) /\ WF_busVars(PageStep(p)) /\ WF_busVars(ReloadNow(p))

---------------------------------------------------------------------------
BusTypeOK ==
    /\ Pending <= Backlog
    /\ \A p \in Pages : Len(streams[p].items) <= Buffer /\ Cardinality(Subscribed) <= MaxStreams

(* What a live page has not seen is on its way: in its buffer, in a        *)
(* scheduled delivery, or replaced by a resync; only what was published    *)
(* between the page's load and its first stream is left to its timer.      *)
OnTheWay(p) ==
    {event \in BusEvents :
        \/ event \in bus.counted
        \/ \E i \in DOMAIN bus.scheduled : bus.scheduled[i] = event
        \/ \E i \in DOMAIN streams[p].items : streams[p].items[i] = event}
NothingMissed ==
    \A p \in Pages : streams[p].open /\ ~streams[p].closed =>
        \/ pages[p].behind \subseteq OnTheWay(p) \union pages[p].gap
        \/ streams[p].resync
        \/ bus.lost /\ Pending > 0

(* A session that was revoked is sent nothing later than one interval      *)
(* between two looks at it: counted from the revocation, or from the start *)
(* of the stream where the request had been let in before the revocation.  *)
RevokedHearsNothing == \A p \in Pages : ~sessions[p].leaked

(* A page shows in the end what was published, or its user is logged out.  *)
PagesCatchUp ==
    \A p \in Pages : [](pages[p].behind # {} => <>(pages[p].behind = {}))
=============================================================================
