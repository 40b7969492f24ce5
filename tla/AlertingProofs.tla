--------------------------- MODULE AlertingProofs ---------------------------
(***************************************************************************)
(* Proofs about Alerting, for every set of services and settings and every *)
(* bound: the inductive invariant IndInv, and from it that no event is     *)
(* lost and none is told too early, that the monitor tracks the incident   *)
(* that is going on, and how far DOWN alerts keep apart.                   *)
(***************************************************************************)
EXTENDS Alerting, TLAPS

-----------------------------------------------------------------------------
(* Events, alert rows and the queue                                          *)

LEMMA EventFacts ==
    /\ NoAlert \notin AlertIds
    /\ AlertIds \subseteq Nat
    /\ \A a \in AlertIds : OpenOf(a) \in Event /\ ResolvedOf(a) \in Event
    /\ \A e \in Event : e.alert \in AlertIds /\ e.kind \in {"open", "resolved"}
BY AlertingAssumption DEF NoAlert, AlertIds, Event, OpenOf, ResolvedOf

LEMMA QueuedRange ==
    ASSUME NEW e \in Event, queue \in Seq(Event), Queued(e)
    PROVE  queue' \in Seq(Event) /\ Range(queue') = Range(queue) \cup {e}
<1>1. CASE e \in Range(queue)
  BY <1>1 DEF Queued
<1>2. CASE e \notin Range(queue)
  <2>1. queue' = Append(queue, e) /\ queue' \in Seq(Event)
    BY <1>2 DEF Queued
  <2>2. /\ Len(queue) \in Nat
        /\ DOMAIN queue = 1..Len(queue)
        /\ DOMAIN queue' = 1..(Len(queue) + 1)
        /\ \A i \in 1..Len(queue) : queue'[i] = queue[i]
        /\ queue'[Len(queue) + 1] = e
    BY <2>1
  <2>3. DOMAIN queue' = DOMAIN queue \cup {Len(queue) + 1}
    BY <2>2
  <2>4. Range(queue') = {queue'[i] : i \in DOMAIN queue} \cup {queue'[Len(queue) + 1]}
    BY <2>3 DEF Range
  <2>5. {queue'[i] : i \in DOMAIN queue} = {queue[i] : i \in DOMAIN queue}
    BY <2>2
  <2> QED BY <2>1, <2>2, <2>4, <2>5 DEF Range
<1> QED BY <1>1, <1>2

LEMMA QueueEvents ==
    ASSUME queue \in Seq(Event)
    PROVE  Range(queue) \subseteq Event
BY DEF Range

LEMMA DispatchedFacts ==
    ASSUME TypeOK, NEW e \in Event, NEW outcome, Dispatched(e, outcome)
    PROVE  /\ queue' \in Seq(Event)
           /\ Range(queue) \subseteq Range(queue')
           /\ Range(queue') \subseteq Range(queue) \cup {e}
           /\ unaddressed' \subseteq Event
           /\ unaddressed \subseteq unaddressed'
           /\ outcome \in {"queued", "nobody"} =>
                  e \in Range(queue') \cup unaddressed'
<1> USE DEF TypeOK
<1>1. CASE Queued(e) /\ UNCHANGED unaddressed
  BY <1>1, QueuedRange
<1>2. CASE UNCHANGED <<queue, unaddressed>> /\ outcome \notin {"queued", "nobody"}
  BY <1>2
<1>3. CASE unaddressed' = unaddressed \cup {e} /\ UNCHANGED queue
  BY <1>3
<1> QED BY <1>1, <1>2, <1>3 DEF Dispatched

Boxes == {"none", "pending", "backoff", "completed"}

LEMMA RecordedFacts ==
    ASSUME TypeOK, NEW e \in Event, outbox' = Recorded(outbox, e)
    PROVE  /\ outbox' \in [Event -> Boxes]
           /\ outbox'[e] # "none"
           /\ \A f \in Event : f # e => outbox'[f] = outbox[f]
           /\ \A f \in Event : outbox'[f] = "completed" => outbox[f] = "completed"
           /\ \A f \in Event : outbox[f] # "none" => outbox'[f] # "none"
BY DEF TypeOK, Recorded, Boxes

LEMMA CreateFacts ==
    ASSUME TypeOK, NEW services \in SUBSET Services, nextAlert \in AlertIds,
           CreateAlert(services)
    PROVE  /\ alerts' \in [AlertIds -> Alert]
           /\ nextAlert' = nextAlert + 1
           /\ outbox' = Recorded(outbox, OpenOf(nextAlert))
           /\ alerts'[nextAlert].status = "open"
           /\ \A a \in AlertIds \ {nextAlert} : alerts'[a] = alerts[a]
           /\ ActiveAlerts' = ActiveAlerts \cup {nextAlert}
<1> DEFINE new == [NoRow EXCEPT !.status = "open", !.active = TRUE, !.services = services]
<1>1. new \in Alert /\ new.status = "open" /\ new.active
  BY DEF NoRow, Alert
<1>2. alerts' = [alerts EXCEPT ![nextAlert] = new]
  BY DEF CreateAlert
<1> HIDE DEF new
<1>3. /\ alerts' \in [AlertIds -> Alert]
      /\ alerts'[nextAlert] = new
      /\ \A a \in AlertIds \ {nextAlert} : alerts'[a] = alerts[a]
  BY <1>1, <1>2 DEF TypeOK
<1>4. ActiveAlerts' = ActiveAlerts \cup {nextAlert}
  BY <1>1, <1>3 DEF ActiveAlerts
<1> QED BY <1>1, <1>3, <1>4 DEF CreateAlert

(* resolve_alert and deactivate_alert change no other row, and nothing of  *)
(* this row but that its incident is over.                                 *)
LEMMA ResolveFacts ==
    ASSUME TypeOK, NEW a \in AlertIds, ResolveAlert(a)
    PROVE  /\ alerts' \in [AlertIds -> Alert]
           /\ \/ UNCHANGED outbox /\ alerts[a].status = "none"
              \/ outbox' = Recorded(outbox, ResolvedOf(a))
           /\ \A b \in AlertIds :
                 /\ (alerts'[b].status = "none") <=> (alerts[b].status = "none")
                 /\ alerts'[b].acknowledged = alerts[b].acknowledged
                 /\ b # a => alerts'[b].status = alerts[b].status
           /\ ActiveAlerts' = ActiveAlerts \ {a}
<1>1. CASE alerts[a].status = "none"
  BY <1>1 DEF ResolveAlert, ActiveAlerts, TypeOK
<1>2. CASE alerts[a].status # "none"
  <2>1. /\ alerts' = [alerts EXCEPT ![a].status = "resolved", ![a].active = FALSE]
        /\ outbox' = Recorded(outbox, ResolvedOf(a))
    BY <1>2 DEF ResolveAlert
  <2>2. /\ alerts' \in [AlertIds -> Alert]
        /\ alerts'[a].status = "resolved"
        /\ alerts'[a].acknowledged = alerts[a].acknowledged
        /\ \A b \in AlertIds \ {a} : alerts'[b] = alerts[b]
    BY <2>1, ZenonT(60) DEF TypeOK, Alert
  <2>3. ActiveAlerts' = ActiveAlerts \ {a}
    BY <2>2 DEF ActiveAlerts
  <2> QED BY <1>2, <2>1, <2>2, <2>3
<1> QED BY <1>1, <1>2

LEMMA DeactivateFacts ==
    ASSUME TypeOK, NEW a \in AlertIds, DeactivateAlert(a)
    PROVE  /\ alerts' \in [AlertIds -> Alert]
           /\ UNCHANGED outbox
           /\ \A b \in AlertIds : /\ alerts'[b].status = alerts[b].status
                                  /\ alerts'[b].acknowledged = alerts[b].acknowledged
           /\ ActiveAlerts' = ActiveAlerts \ {a}
<1>1. /\ alerts' \in [AlertIds -> Alert]
      /\ alerts'[a].status = alerts[a].status
      /\ alerts'[a].acknowledged = alerts[a].acknowledged
      /\ alerts[a].status = "open" => ~alerts'[a].active
      /\ \A b \in AlertIds \ {a} : alerts'[b] = alerts[b]
  BY ZenonT(60) DEF DeactivateAlert, TypeOK, Alert
<1>2. ActiveAlerts' = ActiveAlerts \ {a}
  BY <1>1 DEF ActiveAlerts
<1> QED BY <1>1, <1>2 DEF DeactivateAlert

LEMMA AcknowledgedFacts ==
    ASSUME NEW r \in Alert
    PROVE  /\ Acknowledged(r) \in Alert
           /\ Acknowledged(r).status = "resolved"
           /\ Acknowledged(r).acknowledged
           /\ ~Acknowledged(r).active
BY DEF Acknowledged, Alert

LEMMA TimersFacts ==
    ASSUME TypeOK, NEW timers \in Timers
    PROVE  /\ timers \in [Services -> Downtimes]
           /\ Alerting(timers) \in SUBSET Services
           /\ \A s \in Services \ Enabled : timers[s] = down[s]
<1>1. Measured \in [Services -> Downtimes]
  BY DEF Measured, TypeOK, Downtimes
<1>2. \A s \in Services \ Enabled : Measured[s] = down[s]
  BY DEF Measured
<1> QED BY <1>1, <1>2 DEF Timers, Alerting, TypeOK

LEMMA KnownEvents ==
    ASSUME TypeOK
    PROVE  Known \subseteq Event /\ nextAlert \in Nat \ {0}
BY QueueEvents, AlertingAssumption DEF Known, TypeOK

(* No event becomes known, no alert becomes active, read or tracked.       *)
LEMMA NothingNew ==
    ASSUME TypeOK, KnownIsTrue, Known' \subseteq Known, nextAlert' = nextAlert,
           ActiveAlerts' \subseteq ActiveAlerts,
           snapshot' \subseteq snapshot, pc' # "loaded" => snapshot' = {},
           current' \in {current, NoAlert}
    PROVE  KnownIsTrue'
<1>1. \A e \in Known : e.alert # NoAlert
  BY KnownEvents, EventFacts
<1> QED BY <1>1, KnownEvents DEF KnownIsTrue, NoAlert

LEMMA KnownAlerts ==
    ASSUME TypeOK, EventsKept, KnownIsTrue
    PROVE  \A a \in ActiveAlerts : a < nextAlert
<1>1. \A a \in ActiveAlerts : OpenOf(a) \in Known
  BY EventFacts DEF ActiveAlerts, EventsKept, NoEventLost, Known
<1> QED BY <1>1 DEF KnownIsTrue, OpenOf

-----------------------------------------------------------------------------
(* Start-up and refresh                                                    *)

LEMMA LoadKeeps ==
    ASSUME IndInv, Load
    PROVE  IndInv'
<1> USE DEF IndInv, Load, database, monitor, worker, world, history
<1>1. TypeOK'
  BY DEF TypeOK, ActiveAlerts
<1>2. EventsKept'
  BY EventFacts DEF TypeOK, EventsKept, NoEventLost, Alert
<1>3. KnownIsTrue'
  <2>1. Known' = Known /\ ActiveAlerts' = ActiveAlerts /\ snapshot' \subseteq ActiveAlerts
    BY DEF Known, ActiveAlerts
  <2> QED BY <2>1, KnownAlerts DEF KnownIsTrue
<1>4. Tracked'
  BY EventFacts DEF TypeOK, Tracked, ActiveIsTracked, ActiveAlerts, KnownIsTrue
<1>5. Cooled'
  BY AlertingAssumption DEF TypeOK, Cooled
<1>6. Held'
  BY EventFacts, AlertingAssumption DEF TypeOK, Held
<1>7. TimersEnabled'
  BY AlertingAssumption DEF TypeOK, TimersEnabled, Enabled
<1> QED BY <1>1, <1>2, <1>3, <1>4, <1>5, <1>6, <1>7

LEMMA ApplyKeeps ==
    ASSUME IndInv, Apply
    PROVE  IndInv'
<1> USE DEF IndInv, Apply, Restorable, database, monitor, worker, world, history
<1>1. TypeOK'
  BY EventFacts, AlertingAssumption DEF TypeOK, Target, Alert, Downtimes
<1>2. EventsKept'
  BY EventFacts DEF TypeOK, EventsKept, NoEventLost, Alert
<1>3. KnownIsTrue'
  <2>1. Known' = Known /\ ActiveAlerts' = ActiveAlerts
    BY DEF Known, ActiveAlerts
  <2>2. snapshot' = {} /\ current' \in snapshot \cup {current}
    OBVIOUS
  <2> QED BY <2>1, <2>2 DEF KnownIsTrue
<1>4. Tracked'
  BY EventFacts DEF TypeOK, Tracked, ActiveIsTracked, ActiveAlerts, KnownIsTrue
<1>5. Cooled'
  BY AlertingAssumption DEF TypeOK, Cooled
<1>6. Held'
  BY EventFacts, AlertingAssumption DEF TypeOK, Held
<1>7. TimersEnabled'
  BY AlertingAssumption DEF TypeOK, TimersEnabled, Enabled
<1> QED BY <1>1, <1>2, <1>3, <1>4, <1>5, <1>6, <1>7

LEMMA RefreshKeeps ==
    ASSUME IndInv, Refresh
    PROVE  IndInv'
<1> USE DEF IndInv, Refresh, database, monitor, worker, world, history
<1>1. TypeOK'
  BY EventFacts, AlertingAssumption DEF TypeOK, Target, Alert, Downtimes
<1>2. EventsKept'
  BY EventFacts DEF TypeOK, EventsKept, NoEventLost, Alert
<1>3. KnownIsTrue'
  BY EventFacts DEF TypeOK, EventsKept, NoEventLost, KnownIsTrue, Known,
     ActiveAlerts
<1>4. Tracked'
  BY EventFacts DEF TypeOK, Tracked, ActiveIsTracked, ActiveAlerts, KnownIsTrue
<1>5. Cooled'
  BY AlertingAssumption DEF TypeOK, Cooled
<1>6. Held'
  BY EventFacts, AlertingAssumption DEF TypeOK, Held
<1>7. TimersEnabled'
  BY AlertingAssumption DEF TypeOK, TimersEnabled, Enabled
<1> QED BY <1>1, <1>2, <1>3, <1>4, <1>5, <1>6, <1>7

-----------------------------------------------------------------------------
(* The check cycle                                                         *)

LEMMA BeginCheckKeeps ==
    ASSUME IndInv, BeginCheck
    PROVE  IndInv'
<1> USE DEF IndInv, BeginCheck, database, monitor, worker, world, history
<1>1. TypeOK'
  BY EventFacts, AlertingAssumption DEF TypeOK, Target, Alert, Downtimes
<1>2. EventsKept'
  BY EventFacts DEF TypeOK, EventsKept, NoEventLost, Alert
<1>3. KnownIsTrue'
  BY EventFacts DEF TypeOK, EventsKept, NoEventLost, KnownIsTrue, Known,
     ActiveAlerts
<1>4. Tracked'
  BY EventFacts DEF TypeOK, Tracked, ActiveIsTracked, ActiveAlerts, KnownIsTrue
<1>5. Cooled'
  BY AlertingAssumption DEF TypeOK, Cooled
<1>6. Held'
  BY EventFacts, AlertingAssumption DEF TypeOK, Held
<1>7. TimersEnabled'
  BY AlertingAssumption DEF TypeOK, TimersEnabled, Enabled
<1> QED BY <1>1, <1>2, <1>3, <1>4, <1>5, <1>6, <1>7

LEMMA ConnectivityIssueKeeps ==
    ASSUME IndInv, ConnectivityIssue
    PROVE  IndInv'
<1> USE DEF IndInv, ConnectivityIssue, database, monitor, worker, world, history
<1>1. TypeOK'
  BY DEF TypeOK, AllUp, Downtimes
<1>2. EventsKept'
  BY EventFacts DEF TypeOK, EventsKept, NoEventLost, Alert
<1>3. KnownIsTrue'
  BY EventFacts DEF TypeOK, EventsKept, NoEventLost, KnownIsTrue, Known,
     ActiveAlerts
<1>4. Tracked'
  BY EventFacts DEF TypeOK, Tracked, ActiveIsTracked, ActiveAlerts, KnownIsTrue
<1>5. Cooled'
  BY AlertingAssumption DEF TypeOK, Cooled
<1>6. Held'
  BY EventFacts, AlertingAssumption DEF TypeOK, Held
<1>7. TimersEnabled'
  BY DEF TimersEnabled, Enabled, AllUp
<1> QED BY <1>1, <1>2, <1>3, <1>4, <1>5, <1>6, <1>7

LEMMA DiscardKeeps ==
    ASSUME IndInv, Discard
    PROVE  IndInv'
<1> USE DEF IndInv, Discard, database, monitor, worker, world, history
<1>1. TypeOK'
  BY EventFacts, AlertingAssumption DEF TypeOK, Target, Alert, Downtimes
<1>2. EventsKept'
  BY EventFacts DEF TypeOK, EventsKept, NoEventLost, Alert
<1>3. KnownIsTrue'
  BY EventFacts DEF TypeOK, EventsKept, NoEventLost, KnownIsTrue, Known,
     ActiveAlerts
<1>4. Tracked'
  BY EventFacts DEF TypeOK, Tracked, ActiveIsTracked, ActiveAlerts, KnownIsTrue
<1>5. Cooled'
  BY AlertingAssumption DEF TypeOK, Cooled
<1>6. Held'
  BY EventFacts, AlertingAssumption DEF TypeOK, Held
<1>7. TimersEnabled'
  BY AlertingAssumption DEF TypeOK, TimersEnabled, Enabled
<1> QED BY <1>1, <1>2, <1>3, <1>4, <1>5, <1>6, <1>7

LEMMA NothingToTellKeeps ==
    ASSUME IndInv, NothingToTell
    PROVE  IndInv'
<1> USE DEF IndInv, NothingToTell, Checked, Observed, database, monitor,
        worker, world, history
<1>1. TypeOK'
  BY TimersFacts DEF TypeOK
<1>2. EventsKept'
  BY EventFacts DEF TypeOK, EventsKept, NoEventLost, Alert
<1>3. KnownIsTrue'
  BY EventFacts DEF TypeOK, EventsKept, NoEventLost, KnownIsTrue, Known,
     ActiveAlerts
<1>4. Tracked'
  BY EventFacts DEF TypeOK, Tracked, ActiveIsTracked, ActiveAlerts, KnownIsTrue
<1>5. Cooled'
  BY AlertingAssumption DEF TypeOK, Cooled
<1>6. Held'
  BY EventFacts, AlertingAssumption DEF TypeOK, Held
<1>7. TimersEnabled'
  BY TimersFacts DEF TimersEnabled, Enabled
<1> QED BY <1>1, <1>2, <1>3, <1>4, <1>5, <1>6, <1>7

LEMMA OpenAlertKeeps ==
    ASSUME IndInv, OpenAlert
    PROVE  IndInv'
<1> USE DEF IndInv, OpenAlert, Checked, Await, database, monitor, worker,
        world, history
<1>1. TypeOK'
  <2>1. alerts' \in [AlertIds -> Alert] /\ nextAlert' = nextAlert + 1
    BY TimersFacts, CreateFacts
  <2>2. outbox' \in [Event -> Boxes]
    BY TimersFacts, CreateFacts, RecordedFacts, EventFacts
  <2>3. nextAlert' \in 1..(MaxAlerts + 1)
    BY <2>1, AlertingAssumption DEF AlertIds
  <2>4. down' \in [Services -> Downtimes]
    BY TimersFacts
  <2>5. threads' \subseteq Event /\ awaited' \in Event
    BY EventFacts DEF TypeOK
  <2> QED BY <2>1, <2>2, <2>3, <2>4, <2>5 DEF TypeOK, Boxes
<1>2. EventsKept'
  <2>1. /\ alerts'[nextAlert].status = "open"
        /\ \A a \in AlertIds \ {nextAlert} : alerts'[a] = alerts[a]
        /\ outbox' = Recorded(outbox, OpenOf(nextAlert))
    BY TimersFacts, CreateFacts
  <2>2. /\ outbox'[OpenOf(nextAlert)] # "none"
        /\ \A f \in Event : outbox'[f] = "completed" => outbox[f] = "completed"
        /\ \A f \in Event : outbox[f] # "none" => outbox'[f] # "none"
    BY <2>1, RecordedFacts, EventFacts
  <2> QED BY <2>1, <2>2, EventFacts DEF EventsKept, NoEventLost
<1>3. KnownIsTrue'
  <2>1. /\ nextAlert' = nextAlert + 1
        /\ outbox' = Recorded(outbox, OpenOf(nextAlert))
        /\ ActiveAlerts' = ActiveAlerts \cup {nextAlert}
    BY TimersFacts, CreateFacts
  <2>2. Known' \subseteq Known \cup {OpenOf(nextAlert)}
    BY <2>1, RecordedFacts, EventFacts DEF Known
  <2>3. /\ current' = nextAlert /\ snapshot' = {} /\ pc' # "loaded"
        /\ nextAlert \in Nat
    BY KnownEvents DEF KnownIsTrue
  <2>4. \A e \in Known : e.alert \in Nat
    BY KnownEvents, EventFacts
  <2> QED BY <2>1, <2>2, <2>3, <2>4 DEF KnownIsTrue, OpenOf
<1>4. Tracked'
  <2>1. ActiveAlerts' = ActiveAlerts \cup {nextAlert}
    BY TimersFacts, CreateFacts
  <2>2. "load" \notin faults => ActiveAlerts = {}
    BY EventFacts DEF Tracked, ActiveIsTracked, ActiveAlerts, MayOpen
  <2> QED BY <2>1, <2>2 DEF Tracked, ActiveIsTracked, KnownIsTrue
<1>5. Cooled'
  BY DEF Cooled, OpenOf
<1>6. Held'
  BY EventFacts, AlertingAssumption DEF TypeOK, Held
<1>7. TimersEnabled'
  BY TimersFacts DEF TimersEnabled, Enabled
<1> QED BY <1>1, <1>2, <1>3, <1>4, <1>5, <1>6, <1>7

LEMMA AlertFailsKeeps ==
    ASSUME IndInv, AlertFails
    PROVE  IndInv'
<1> USE DEF IndInv, AlertFails, Checked, Observed, database, monitor, worker,
        world, history
<1>1. TypeOK'
  BY TimersFacts DEF TypeOK
<1>2. EventsKept'
  BY EventFacts DEF TypeOK, EventsKept, NoEventLost, Alert
<1>3. KnownIsTrue'
  BY EventFacts DEF TypeOK, EventsKept, NoEventLost, KnownIsTrue, Known,
     ActiveAlerts
<1>4. Tracked'
  BY EventFacts DEF TypeOK, Tracked, ActiveIsTracked, ActiveAlerts, KnownIsTrue
<1>5. Cooled'
  BY AlertingAssumption DEF TypeOK, Cooled
<1>6. Held'
  BY EventFacts, AlertingAssumption DEF TypeOK, Held
<1>7. TimersEnabled'
  BY TimersFacts DEF TimersEnabled, Enabled
<1> QED BY <1>1, <1>2, <1>3, <1>4, <1>5, <1>6, <1>7

LEMMA EndIncidentKeeps ==
    ASSUME IndInv, EndIncident
    PROVE  IndInv'
<1> USE DEF IndInv, EndIncident, Checked, Observed, Await, database, monitor,
        worker, world, history
<1>1. TypeOK'
  <2>1. current \in AlertIds
    BY DEF TypeOK, MustResolve
  <2>2. alerts' \in [AlertIds -> Alert] /\ outbox' \in [Event -> Boxes]
    BY <2>1, ResolveFacts, DeactivateFacts, RecordedFacts, EventFacts DEF
       TypeOK, Boxes
  <2>3. down' \in [Services -> Downtimes]
    BY DEF AllUp, Downtimes
  <2>4. threads' \subseteq Event /\ awaited' \in Event \cup {NoEvent}
    BY <2>1, EventFacts DEF TypeOK
  <2> QED BY <2>2, <2>3, <2>4 DEF TypeOK, Boxes
<1>2. EventsKept'
  <2>1. current \in AlertIds
    BY DEF TypeOK, MustResolve
  <2>2. \A b \in AlertIds :
           /\ (alerts'[b].status = "none") <=> (alerts[b].status = "none")
           /\ alerts'[b].acknowledged = alerts[b].acknowledged
           /\ b # current => alerts'[b].status = alerts[b].status
    <3>1. CASE cfg.settings.autoClose
      BY <2>1, <3>1, ResolveFacts
    <3>2. CASE ~cfg.settings.autoClose
      BY <2>1, <3>2, DeactivateFacts
    <3> QED BY <3>1, <3>2
  <2>3. /\ \A f \in Event : outbox'[f] = "completed" => outbox[f] = "completed"
        /\ \A f \in Event : outbox[f] # "none" => outbox'[f] # "none"
    BY <2>1, ResolveFacts, DeactivateFacts, RecordedFacts, EventFacts
  <2>4. \/ outbox'[ResolvedOf(current)] # "none"
        \/ alerts'[current].status = "none"
        \/ alerts'[current].status = alerts[current].status
    BY <2>1, ResolveFacts, DeactivateFacts, RecordedFacts, EventFacts
  <2>5. ASSUME NEW a \in AlertIds
        PROVE  /\ alerts'[a].status # "none" => outbox'[OpenOf(a)] # "none"
               /\ alerts'[a].status = "resolved" /\ ~alerts'[a].acknowledged =>
                     outbox'[ResolvedOf(a)] # "none"
    BY <2>2, <2>3, <2>4, EventFacts DEF EventsKept, NoEventLost
  <2> QED BY <2>3, <2>5 DEF EventsKept, NoEventLost
<1>3. KnownIsTrue'
  <2>1. current \in AlertIds
    BY DEF TypeOK, MustResolve
  <2>2. ActiveAlerts' = ActiveAlerts \ {current}
    BY <2>1, ResolveFacts, DeactivateFacts
  <2>3. Known' \subseteq Known \cup {ResolvedOf(current)}
    BY <2>1, ResolveFacts, DeactivateFacts, RecordedFacts, EventFacts DEF Known
  <2>4. /\ current' = NoAlert /\ snapshot' = {} /\ pc' # "loaded"
        /\ UNCHANGED nextAlert /\ current < nextAlert /\ NoAlert < nextAlert
    BY KnownEvents DEF KnownIsTrue, NoAlert
  <2>5. \A e \in Known : e.alert # NoAlert
    BY KnownEvents, EventFacts
  <2> QED BY <2>1, <2>2, <2>3, <2>4, <2>5, EventFacts DEF KnownIsTrue, ResolvedOf
<1>4. Tracked'
  <2>1. current \in AlertIds
    BY DEF TypeOK, MustResolve
  <2>2. ActiveAlerts' = ActiveAlerts \ {current}
    BY <2>1, ResolveFacts, DeactivateFacts
  <2> QED BY <2>2 DEF Tracked, ActiveIsTracked
<1>5. Cooled'
  BY AlertingAssumption DEF TypeOK, Cooled
<1>6. Held'
  BY DEF Held, MustResolve
<1>7. TimersEnabled'
  BY DEF TimersEnabled, Enabled, AllUp
<1> QED BY <1>1, <1>2, <1>3, <1>4, <1>5, <1>6, <1>7

LEMMA ThreadDoneKeeps ==
    ASSUME IndInv, NEW e \in Event, ThreadDone(e)
    PROVE  IndInv'
<1> USE DEF IndInv, ThreadDone, database, monitor, worker, world, history
<1>1. TypeOK'
  <2>1. queue' \in Seq(Event) /\ unaddressed' \subseteq Event
    BY DispatchedFacts
  <2> QED BY <2>1 DEF TypeOK
<1>2. EventsKept'
  <2>1. Range(queue) \subseteq Range(queue') /\ unaddressed \subseteq unaddressed'
    BY DispatchedFacts
  <2> QED BY <2>1 DEF EventsKept, NoEventLost
<1>3. KnownIsTrue'
  <2>1. Range(queue') \subseteq Range(queue) \cup {e}
    BY DispatchedFacts
  <2>2. Known' \subseteq Known
    BY <2>1 DEF Known
  <2> QED BY <2>2, NothingNew DEF KnownIsTrue, ActiveAlerts
<1>4. Tracked'
  BY EventFacts DEF TypeOK, Tracked, ActiveIsTracked, ActiveAlerts, KnownIsTrue
<1>5. Cooled'
  <2>1. awaited = e /\ "maintenance" \notin faults => "refused" \notin ThreadOutcomes(TRUE)
    BY DEF ThreadOutcomes, Outcomes
  <2> QED BY <2>1 DEF Cooled, TypeOK, ThreadOutcomes, Outcomes
<1>6. Held'
  BY EventFacts, AlertingAssumption DEF TypeOK, Held
<1>7. TimersEnabled'
  BY AlertingAssumption DEF TypeOK, TimersEnabled, Enabled
<1> QED BY <1>1, <1>2, <1>3, <1>4, <1>5, <1>6, <1>7

-----------------------------------------------------------------------------
(* The notification worker                                                 *)

LEMMA ListPendingKeeps ==
    ASSUME IndInv, ListPending
    PROVE  IndInv'
<1> USE DEF IndInv, ListPending, database, monitor, worker, world, history
<1>1. TypeOK'
  BY EventFacts, AlertingAssumption DEF TypeOK, Target, Alert, Downtimes
<1>2. EventsKept'
  BY EventFacts DEF TypeOK, EventsKept, NoEventLost, Alert
<1>3. KnownIsTrue'
  BY EventFacts DEF TypeOK, EventsKept, NoEventLost, KnownIsTrue, Known,
     ActiveAlerts
<1>4. Tracked'
  BY EventFacts DEF TypeOK, Tracked, ActiveIsTracked, ActiveAlerts, KnownIsTrue
<1>5. Cooled'
  BY AlertingAssumption DEF TypeOK, Cooled
<1>6. Held'
  BY EventFacts, AlertingAssumption DEF TypeOK, Held
<1>7. TimersEnabled'
  BY AlertingAssumption DEF TypeOK, TimersEnabled, Enabled
<1> QED BY <1>1, <1>2, <1>3, <1>4, <1>5, <1>6, <1>7

LEMMA DispatchNextKeeps ==
    ASSUME IndInv, NEW outcome \in Outcomes, DispatchNext(outcome)
    PROVE  IndInv'
<1> USE DEF IndInv, DispatchNext, database, monitor, worker, world, history
<1>1. TypeOK'
  <2>1. queue' \in Seq(Event) /\ unaddressed' \subseteq Event
    BY DispatchedFacts DEF TypeOK
  <2>2. taken' \in Event /\ batch' \subseteq Event
    BY DEF TypeOK
  <2> QED BY <2>1, <2>2 DEF TypeOK
<1>2. EventsKept'
  <2>1. /\ Range(queue) \subseteq Range(queue') /\ unaddressed \subseteq unaddressed'
        /\ outcome \in {"queued", "nobody"} => taken' \in Range(queue') \cup unaddressed'
    BY DispatchedFacts DEF TypeOK
  <2>2. wok' => outcome \in {"queued", "nobody"}
    BY DEF Outcomes
  <2> QED BY <2>1, <2>2 DEF EventsKept, NoEventLost
<1>3. KnownIsTrue'
  <2>1. \E e \in batch : Range(queue') \subseteq Range(queue) \cup {e}
    BY DispatchedFacts DEF TypeOK
  <2>2. Known' \subseteq Known
    BY <2>1 DEF Known
  <2> QED BY <2>2, NothingNew DEF KnownIsTrue, ActiveAlerts
<1>4. Tracked'
  BY EventFacts DEF TypeOK, Tracked, ActiveIsTracked, ActiveAlerts, KnownIsTrue
<1>5. Cooled'
  BY AlertingAssumption DEF TypeOK, Cooled
<1>6. Held'
  BY EventFacts, AlertingAssumption DEF TypeOK, Held
<1>7. TimersEnabled'
  BY AlertingAssumption DEF TypeOK, TimersEnabled, Enabled
<1> QED BY <1>1, <1>2, <1>3, <1>4, <1>5, <1>6, <1>7

LEMMA RecordAttemptKeeps ==
    ASSUME IndInv, RecordAttempt
    PROVE  IndInv'
<1> USE DEF IndInv, RecordAttempt, RecordedAttempt, database, monitor, worker,
        world, history
<1>1. TypeOK'
  BY EventFacts, AlertingAssumption, ZenonT(60) DEF TypeOK, Target, Alert, Downtimes
<1>2. EventsKept'
  BY EventFacts DEF TypeOK, EventsKept, NoEventLost, Alert
<1>3. KnownIsTrue'
  BY EventFacts DEF TypeOK, EventsKept, NoEventLost, KnownIsTrue, Known,
     ActiveAlerts
<1>4. Tracked'
  BY EventFacts DEF TypeOK, Tracked, ActiveIsTracked, ActiveAlerts, KnownIsTrue
<1>5. Cooled'
  BY AlertingAssumption DEF TypeOK, Cooled
<1>6. Held'
  BY EventFacts, AlertingAssumption DEF TypeOK, Held
<1>7. TimersEnabled'
  BY AlertingAssumption DEF TypeOK, TimersEnabled, Enabled
<1> QED BY <1>1, <1>2, <1>3, <1>4, <1>5, <1>6, <1>7

LEMMA WorkerRefusedKeeps ==
    ASSUME IndInv, WorkerRefused
    PROVE  IndInv'
<1> USE DEF IndInv, WorkerRefused, database, monitor, worker, world, history
<1>1. TypeOK'
  BY EventFacts, AlertingAssumption DEF TypeOK, Target, Alert, Downtimes
<1>2. EventsKept'
  BY EventFacts DEF TypeOK, EventsKept, NoEventLost, Alert
<1>3. KnownIsTrue'
  BY EventFacts DEF TypeOK, EventsKept, NoEventLost, KnownIsTrue, Known,
     ActiveAlerts
<1>4. Tracked'
  BY EventFacts DEF TypeOK, Tracked, ActiveIsTracked, ActiveAlerts, KnownIsTrue
<1>5. Cooled'
  BY AlertingAssumption DEF TypeOK, Cooled
<1>6. Held'
  BY EventFacts, AlertingAssumption DEF TypeOK, Held
<1>7. TimersEnabled'
  BY AlertingAssumption DEF TypeOK, TimersEnabled, Enabled
<1> QED BY <1>1, <1>2, <1>3, <1>4, <1>5, <1>6, <1>7

-----------------------------------------------------------------------------
(* The API, the environment and time                                       *)

LEMMA AcknowledgeAlertKeeps ==
    ASSUME IndInv, NEW a \in AlertIds, AcknowledgeAlert(a)
    PROVE  IndInv'
<1> USE DEF IndInv, AcknowledgeAlert, database, monitor, worker, world, history
<1>1. TypeOK'
  <2>1. alerts' \in [AlertIds -> Alert]
    BY AcknowledgedFacts DEF TypeOK
  <2> QED BY <2>1 DEF TypeOK
<1>2. EventsKept'
  BY AcknowledgedFacts, EventFacts DEF TypeOK, EventsKept, NoEventLost
<1>3. KnownIsTrue'
  <2>1. ActiveAlerts' \subseteq ActiveAlerts /\ Known' = Known
    BY AcknowledgedFacts DEF TypeOK, ActiveAlerts, Known
  <2> QED BY <2>1, NothingNew DEF KnownIsTrue
<1>4. Tracked'
  <2>1. ActiveAlerts' \subseteq ActiveAlerts
    BY AcknowledgedFacts DEF TypeOK, ActiveAlerts
  <2> QED BY <2>1 DEF Tracked, ActiveIsTracked
<1>5. Cooled'
  BY AlertingAssumption DEF TypeOK, Cooled
<1>6. Held'
  BY EventFacts, AlertingAssumption DEF TypeOK, Held
<1>7. TimersEnabled'
  BY AlertingAssumption DEF TypeOK, TimersEnabled, Enabled
<1> QED BY <1>1, <1>2, <1>3, <1>4, <1>5, <1>6, <1>7

LEMMA AcknowledgeAllKeeps ==
    ASSUME IndInv, AcknowledgeAll
    PROVE  IndInv'
<1> USE DEF IndInv, AcknowledgeAll, database, monitor, worker, world, history
<1>1. TypeOK'
  <2>1. alerts' \in [AlertIds -> Alert]
    BY AcknowledgedFacts DEF TypeOK
  <2> QED BY <2>1 DEF TypeOK
<1>2. EventsKept'
  BY AcknowledgedFacts, EventFacts DEF TypeOK, EventsKept, NoEventLost
<1>3. KnownIsTrue'
  <2>1. ActiveAlerts' \subseteq ActiveAlerts /\ Known' = Known
    BY AcknowledgedFacts DEF TypeOK, ActiveAlerts, Known
  <2> QED BY <2>1, NothingNew DEF KnownIsTrue
<1>4. Tracked'
  <2>1. ActiveAlerts' \subseteq ActiveAlerts
    BY AcknowledgedFacts DEF TypeOK, ActiveAlerts
  <2> QED BY <2>1 DEF Tracked, ActiveIsTracked
<1>5. Cooled'
  BY AlertingAssumption DEF TypeOK, Cooled
<1>6. Held'
  BY EventFacts, AlertingAssumption DEF TypeOK, Held
<1>7. TimersEnabled'
  BY AlertingAssumption DEF TypeOK, TimersEnabled, Enabled
<1> QED BY <1>1, <1>2, <1>3, <1>4, <1>5, <1>6, <1>7

LEMMA PurgeAlertsKeeps ==
    ASSUME IndInv, PurgeAlerts
    PROVE  IndInv'
<1> USE DEF IndInv, PurgeAlerts, NoRow, database, monitor, worker, world,
        history
<1>1. TypeOK'
  BY EventFacts, AlertingAssumption DEF TypeOK, Target, Alert, Downtimes
<1>2. EventsKept'
  BY EventFacts DEF TypeOK, EventsKept, NoEventLost, Alert
<1>3. KnownIsTrue'
  BY EventFacts DEF TypeOK, EventsKept, NoEventLost, KnownIsTrue, Known,
     ActiveAlerts
<1>4. Tracked'
  BY EventFacts DEF TypeOK, Tracked, ActiveIsTracked, ActiveAlerts, KnownIsTrue
<1>5. Cooled'
  BY AlertingAssumption DEF TypeOK, Cooled
<1>6. Held'
  BY EventFacts, AlertingAssumption DEF TypeOK, Held
<1>7. TimersEnabled'
  BY AlertingAssumption DEF TypeOK, TimersEnabled, Enabled
<1> QED BY <1>1, <1>2, <1>3, <1>4, <1>5, <1>6, <1>7

LEMMA EditTargetKeeps ==
    ASSUME IndInv, EditTarget
    PROVE  IndInv'
<1> USE DEF IndInv, EditTarget, database, monitor, worker, world, history
<1>1. TypeOK'
  BY EventFacts, AlertingAssumption DEF TypeOK, Target, Alert, Downtimes
<1>2. EventsKept'
  BY EventFacts DEF TypeOK, EventsKept, NoEventLost, Alert
<1>3. KnownIsTrue'
  BY EventFacts DEF TypeOK, EventsKept, NoEventLost, KnownIsTrue, Known,
     ActiveAlerts
<1>4. Tracked'
  BY EventFacts DEF TypeOK, Tracked, ActiveIsTracked, ActiveAlerts, KnownIsTrue
<1>5. Cooled'
  BY AlertingAssumption DEF TypeOK, Cooled
<1>6. Held'
  BY EventFacts, AlertingAssumption DEF TypeOK, Held
<1>7. TimersEnabled'
  BY AlertingAssumption DEF TypeOK, Target, TimersEnabled
<1> QED BY <1>1, <1>2, <1>3, <1>4, <1>5, <1>6, <1>7

LEMMA BreakKeeps ==
    ASSUME IndInv, NEW s \in Services, Break(s)
    PROVE  IndInv'
<1> USE DEF IndInv, Break, database, monitor, worker, world, history
<1>1. TypeOK'
  BY EventFacts, AlertingAssumption DEF TypeOK, Target, Alert, Downtimes
<1>2. EventsKept'
  BY EventFacts DEF TypeOK, EventsKept, NoEventLost, Alert
<1>3. KnownIsTrue'
  BY EventFacts DEF TypeOK, EventsKept, NoEventLost, KnownIsTrue, Known,
     ActiveAlerts
<1>4. Tracked'
  BY EventFacts DEF TypeOK, Tracked, ActiveIsTracked, ActiveAlerts, KnownIsTrue
<1>5. Cooled'
  BY AlertingAssumption DEF TypeOK, Cooled
<1>6. Held'
  BY EventFacts, AlertingAssumption DEF TypeOK, Held
<1>7. TimersEnabled'
  BY AlertingAssumption DEF TypeOK, TimersEnabled, Enabled
<1> QED BY <1>1, <1>2, <1>3, <1>4, <1>5, <1>6, <1>7

LEMMA RepairKeeps ==
    ASSUME IndInv, NEW s \in Services, Repair(s)
    PROVE  IndInv'
<1> USE DEF IndInv, Repair, database, monitor, worker, world, history
<1>1. TypeOK'
  BY EventFacts, AlertingAssumption DEF TypeOK, Target, Alert, Downtimes
<1>2. EventsKept'
  BY EventFacts DEF TypeOK, EventsKept, NoEventLost, Alert
<1>3. KnownIsTrue'
  BY EventFacts DEF TypeOK, EventsKept, NoEventLost, KnownIsTrue, Known,
     ActiveAlerts
<1>4. Tracked'
  BY EventFacts DEF TypeOK, Tracked, ActiveIsTracked, ActiveAlerts, KnownIsTrue
<1>5. Cooled'
  BY AlertingAssumption DEF TypeOK, Cooled
<1>6. Held'
  BY EventFacts, AlertingAssumption DEF TypeOK, Held
<1>7. TimersEnabled'
  BY AlertingAssumption DEF TypeOK, TimersEnabled, Enabled
<1> QED BY <1>1, <1>2, <1>3, <1>4, <1>5, <1>6, <1>7

LEMMA TimeoutPassesKeeps ==
    ASSUME IndInv, NEW s \in Services, TimeoutPasses(s)
    PROVE  IndInv'
<1> USE DEF IndInv, TimeoutPasses, database, monitor, worker, world, history
<1>1. TypeOK'
  BY EventFacts, AlertingAssumption DEF TypeOK, Target, Alert, Downtimes
<1>2. EventsKept'
  BY EventFacts DEF TypeOK, EventsKept, NoEventLost, Alert
<1>3. KnownIsTrue'
  BY EventFacts DEF TypeOK, EventsKept, NoEventLost, KnownIsTrue, Known,
     ActiveAlerts
<1>4. Tracked'
  BY EventFacts DEF TypeOK, Tracked, ActiveIsTracked, ActiveAlerts, KnownIsTrue
<1>5. Cooled'
  BY AlertingAssumption DEF TypeOK, Cooled
<1>6. Held'
  BY EventFacts, AlertingAssumption DEF TypeOK, Held
<1>7. TimersEnabled'
  BY AlertingAssumption DEF TypeOK, TimersEnabled, Enabled
<1> QED BY <1>1, <1>2, <1>3, <1>4, <1>5, <1>6, <1>7

LEMMA BackoffEndsKeeps ==
    ASSUME IndInv, NEW e \in Event, BackoffEnds(e)
    PROVE  IndInv'
<1> USE DEF IndInv, BackoffEnds, database, monitor, worker, world, history
<1>1. TypeOK'
  BY EventFacts, AlertingAssumption DEF TypeOK, Target, Alert, Downtimes
<1>2. EventsKept'
  BY EventFacts DEF TypeOK, EventsKept, NoEventLost, Alert
<1>3. KnownIsTrue'
  BY EventFacts DEF TypeOK, EventsKept, NoEventLost, KnownIsTrue, Known,
     ActiveAlerts
<1>4. Tracked'
  BY EventFacts DEF TypeOK, Tracked, ActiveIsTracked, ActiveAlerts, KnownIsTrue
<1>5. Cooled'
  BY AlertingAssumption DEF TypeOK, Cooled
<1>6. Held'
  BY EventFacts, AlertingAssumption DEF TypeOK, Held
<1>7. TimersEnabled'
  BY AlertingAssumption DEF TypeOK, TimersEnabled, Enabled
<1> QED BY <1>1, <1>2, <1>3, <1>4, <1>5, <1>6, <1>7

LEMMA CooldownEndsKeeps ==
    ASSUME IndInv, CooldownEnds
    PROVE  IndInv'
<1> USE DEF IndInv, CooldownEnds, database, monitor, worker, world, history
<1>1. TypeOK'
  BY EventFacts, AlertingAssumption, ZenonT(60) DEF TypeOK, Target, Alert, Downtimes
<1>2. EventsKept'
  BY EventFacts DEF TypeOK, EventsKept, NoEventLost, Alert
<1>3. KnownIsTrue'
  BY EventFacts DEF TypeOK, EventsKept, NoEventLost, KnownIsTrue, Known,
     ActiveAlerts
<1>4. Tracked'
  BY EventFacts DEF TypeOK, Tracked, ActiveIsTracked, ActiveAlerts, KnownIsTrue
<1>5. Cooled'
  BY AlertingAssumption DEF TypeOK, Cooled
<1>6. Held'
  BY EventFacts, AlertingAssumption DEF TypeOK, Held
<1>7. TimersEnabled'
  BY AlertingAssumption DEF TypeOK, TimersEnabled, Enabled
<1> QED BY <1>1, <1>2, <1>3, <1>4, <1>5, <1>6, <1>7

-----------------------------------------------------------------------------
(* Restarts                                                                *)

LEMMA ReplaceRunKeeps ==
    ASSUME IndInv, ReplaceRun
    PROVE  IndInv'
<1> USE DEF IndInv, ReplaceRun, database, monitor, worker, world, history
<1>1. TypeOK'
  BY EventFacts, AlertingAssumption DEF TypeOK, Target, Alert, Downtimes
<1>2. EventsKept'
  BY EventFacts DEF TypeOK, EventsKept, NoEventLost, Alert
<1>3. KnownIsTrue'
  BY EventFacts DEF TypeOK, EventsKept, NoEventLost, KnownIsTrue, Known,
     ActiveAlerts
<1>4. Tracked'
  BY EventFacts DEF TypeOK, Tracked, ActiveIsTracked, ActiveAlerts, KnownIsTrue
<1>5. Cooled'
  BY AlertingAssumption DEF TypeOK, Cooled
<1>6. Held'
  BY EventFacts, AlertingAssumption DEF TypeOK, Held
<1>7. TimersEnabled'
  BY AlertingAssumption DEF TypeOK, TimersEnabled, Enabled
<1> QED BY <1>1, <1>2, <1>3, <1>4, <1>5, <1>6, <1>7

LEMMA CrashKeeps ==
    ASSUME IndInv, Crash
    PROVE  IndInv'
<1> USE DEF IndInv, Crash, AllUp, database, monitor, worker, world, history
<1>1. TypeOK'
  <2>1. down' \in [Services -> Downtimes]
    BY DEF Downtimes
  <2>2. crashes' \in 0..MaxCrashes
    BY AlertingAssumption DEF TypeOK
  <2> QED BY <2>1, <2>2 DEF TypeOK
<1>2. EventsKept'
  BY EventFacts DEF TypeOK, EventsKept, NoEventLost, Alert
<1>3. KnownIsTrue'
  <2>1. Known' \subseteq Known /\ ActiveAlerts' = ActiveAlerts
    BY DEF Known, ActiveAlerts
  <2> QED BY <2>1, NothingNew
<1>4. Tracked'
  BY EventFacts DEF TypeOK, Tracked, ActiveIsTracked, ActiveAlerts, KnownIsTrue
<1>5. Cooled'
  BY AlertingAssumption DEF TypeOK, Cooled
<1>6. Held'
  BY EventFacts, AlertingAssumption DEF TypeOK, Held
<1>7. TimersEnabled'
  BY AlertingAssumption DEF TypeOK, TimersEnabled, Enabled
<1> QED BY <1>1, <1>2, <1>3, <1>4, <1>5, <1>6, <1>7

-----------------------------------------------------------------------------
(* The invariant holds                                                       *)

LEMMA InitIndInv == Init => IndInv
<1> SUFFICES ASSUME Init PROVE IndInv
  OBVIOUS
<1>1. TypeOK
  <2>1. alerts \in [AlertIds -> Alert]
    BY DEF Init, NoRow, Alert
  <2>2. down \in [Services -> Downtimes]
    BY DEF Init, AllUp, Downtimes
  <2>3. row \in Target /\ cfg \in Target
    BY AlertingAssumption DEF Init, Target
  <2>4. nextAlert \in 1..(MaxAlerts + 1) /\ replaced \in 0..MaxReplaced /\ crashes \in 0..MaxCrashes
    BY AlertingAssumption DEF Init
  <2>5. queue \in Seq(Event) /\ outbox \in [Event -> Boxes]
    BY DEF Init, Boxes
  <2> QED BY <2>1, <2>2, <2>3, <2>4, <2>5 DEF Init, TypeOK, Boxes
<1>2. Range(queue) = {} /\ \A a \in AlertIds : alerts[a].status = "none"
  BY DEF Init, Range, NoRow
<1>3. EventsKept
  BY <1>2, EventFacts DEF Init, EventsKept, NoEventLost
<1>4. Known = {} /\ ActiveAlerts = {}
  BY <1>2 DEF Init, Known, ActiveAlerts
<1>5. KnownIsTrue
  BY <1>4 DEF Init, KnownIsTrue, NoAlert
<1>6. Tracked /\ Cooled /\ Held
  BY <1>4 DEF Init, Tracked, ActiveIsTracked, Cooled, Held
<1>7. TimersEnabled
  BY DEF Init, TimersEnabled, AllUp
<1> QED BY <1>1, <1>3, <1>5, <1>6, <1>7 DEF IndInv

LEMMA StutterKeeps ==
    ASSUME IndInv, UNCHANGED vars
    PROVE  IndInv'
<1> USE DEF IndInv, vars, database, monitor, worker, world, history
<1>1. TypeOK' /\ EventsKept'
  BY DEF TypeOK, EventsKept, NoEventLost
<1>2. KnownIsTrue'
  BY DEF KnownIsTrue, Known, ActiveAlerts
<1>3. Tracked' /\ Cooled' /\ Held' /\ TimersEnabled'
  BY DEF Tracked, ActiveIsTracked, ActiveAlerts, Cooled, Held, TimersEnabled,
     Enabled
<1> QED BY <1>1, <1>2, <1>3

LEMMA NextKeeps == IndInv /\ [Next]_vars => IndInv'
<1> SUFFICES ASSUME IndInv, [Next]_vars PROVE IndInv'
  OBVIOUS
<1>1. CASE UNCHANGED vars
  BY <1>1, StutterKeeps
<1>2. CASE Check
  BY <1>2, NothingToTellKeeps, OpenAlertKeeps, AlertFailsKeeps,
     EndIncidentKeeps, DiscardKeeps DEF Check
<1>3. CASE MonitorStep
  BY <1>2, <1>3, LoadKeeps, ApplyKeeps, RefreshKeeps, BeginCheckKeeps,
     ConnectivityIssueKeeps DEF MonitorStep
<1>4. ASSUME NEW e \in Event, ThreadDone(e) PROVE IndInv'
  BY <1>4, ThreadDoneKeeps
<1>5. CASE WorkerStep
  BY <1>5, ListPendingKeeps, RecordAttemptKeeps, WorkerRefusedKeeps,
     DispatchNextKeeps DEF WorkerStep
<1>6. CASE ApiStep
  BY <1>6, AcknowledgeAlertKeeps, AcknowledgeAllKeeps, PurgeAlertsKeeps,
     EditTargetKeeps DEF ApiStep
<1>7. CASE Time
  BY <1>7, BreakKeeps, RepairKeeps, TimeoutPassesKeeps, BackoffEndsKeeps,
     CooldownEndsKeeps DEF Time
<1>8. CASE ReplaceRun \/ Crash
  BY <1>8, ReplaceRunKeeps, CrashKeeps
<1> QED BY <1>1, <1>3, <1>4, <1>5, <1>6, <1>7, <1>8 DEF Next

(* The inductive invariant: the rows, the outbox, the queue, the memory of *)
(* the monitor and the run of the worker fit together after every step of  *)
(* scheduler.py and of the alert API, under every fault.                   *)
THEOREM AlwaysIndInv == Spec => []IndInv
<1>1. Init => IndInv
  BY InitIndInv
<1>2. IndInv /\ [Next]_vars => IndInv'
  BY NextKeeps
<1> QED BY <1>1, <1>2, PTL DEF Spec

(* Every variable keeps its type, the queue that of a sequence of events.  *)
THEOREM TypeCorrect == Spec => []TypeOK
<1>1. IndInv => TypeOK
  BY DEF IndInv
<1> QED BY <1>1, AlwaysIndInv, PTL

(* create_alert and resolve_alert store the event with the alert, and the  *)
(* outbox closes it only after a dispatch that succeeded: no crash and no  *)
(* failure loses it.                                                       *)
THEOREM NoEventIsLost == Spec => []NoEventLost
<1>1. IndInv => NoEventLost
  BY DEF IndInv, EventsKept
<1> QED BY <1>1, AlwaysIndInv, PTL

(* What reaches the spooler is true: whatever the monitor, its left-over   *)
(* threads, the worker and the API do in between, a resolved event is of   *)
(* an incident that has ended.                                             *)
THEOREM WhatIsToldIsTrue == Spec => []ToldIsTrue
<1>1. IndInv => ToldIsTrue
  BY DEF IndInv, KnownIsTrue, Known, ToldIsTrue
<1> QED BY <1>1, AlwaysIndInv, PTL

(* As long as the reads at start-up succeed, _apply_target_refresh_snapshot*)
(* and _maybe_alert keep at most one incident active, and it is the one    *)
(* the monitor will end.                                                   *)
THEOREM IncidentIsTracked == Spec => []OneIncident
<1>1. IndInv => OneIncident
  BY DEF IndInv, Tracked, OneIncident
<1> QED BY <1>1, AlwaysIndInv, PTL

-----------------------------------------------------------------------------
(* When a DOWN alert is opened                                               *)

LEMMA OnlyOpenAlertCreates ==
    ASSUME [Next]_vars, nextAlert' # nextAlert
    PROVE  OpenAlert
<1>1. ~UNCHANGED vars
  BY DEF vars, database
<1>2. MonitorStep => OpenAlert
  BY DEF MonitorStep, Load, Apply, Refresh, BeginCheck, ConnectivityIssue,
     Check,
         NothingToTell, AlertFails, EndIncident, Discard, database
<1>3. \A e \in Event : ~ThreadDone(e)
  BY DEF ThreadDone
<1>4. ~WorkerStep
  BY DEF WorkerStep, ListPending, RecordAttempt, WorkerRefused, DispatchNext,
     database
<1>5. ~ApiStep
  BY DEF ApiStep, AcknowledgeAlert, AcknowledgeAll, PurgeAlerts, EditTarget,
     database
<1>6. ~Time /\ ~ReplaceRun /\ ~Crash
  BY DEF Time, Break, Repair, TimeoutPasses, BackoffEnds, CooldownEnds,
         ReplaceRun, Crash, database
<1> QED BY <1>1, <1>2, <1>3, <1>4, <1>5, <1>6 DEF Next

(* ALERT_COOLDOWN_SECONDS pass between two DOWN alerts, if the process and *)
(* its monitor live on and no maintenance window cuts off a dispatch:      *)
(* _last_alert_at is set after the dispatch and is kept in memory only.    *)
THEOREM CooldownIsKept == Spec => CooldownKept
<1> DEFINE Remembered == crashes = 0 /\ replaced = 0 /\ "maintenance" \notin faults
<1>1. IndInv /\ [Next]_vars => (nextAlert' # nextAlert /\ Remembered => ~recent)
  <2> SUFFICES ASSUME IndInv, [Next]_vars, nextAlert' # nextAlert, Remembered
               PROVE  ~recent
    OBVIOUS
  <2>1. pc = "checking" /\ ~cooling
    BY OnlyOpenAlertCreates DEF OpenAlert, Checked, MayOpen
  <2> QED BY <2>1 DEF IndInv, Cooled
<1>2. IndInv /\ [Next]_vars =>
        [nextAlert' # nextAlert /\ crashes = 0 /\ replaced = 0 /\ "maintenance" \notin faults
         => ~recent]_vars
  BY <1>1
<1> QED BY <1>2, AlwaysIndInv, PTL DEF Spec, CooldownKept

(* _maybe_alert emits one DOWN alert per outage: current_alert_id is held  *)
(* until the first full OK, through edits, acknowledgements, purges and    *)
(* replaced runs; only a restart of the process forgets it.                *)
THEOREM OneAlertPerOutage == Spec => OncePerOutage
<1>1. IndInv /\ [Next]_vars => (nextAlert' # nextAlert /\ crashes = 0 => recovered)
  BY OnlyOpenAlertCreates DEF OpenAlert, MayOpen, IndInv, Held
<1>2. IndInv /\ [Next]_vars => [nextAlert' # nextAlert /\ crashes = 0 => recovered]_vars
  BY <1>1
<1> QED BY <1>2, AlwaysIndInv, PTL DEF Spec, OncePerOutage

(* While no check is switched off and status writes succeed, a DOWN alert  *)
(* of _maybe_alert means that an enabled check fails in that very cycle.   *)
THEOREM NoFalseAlarm == Spec => AlarmIsTrue
<1>1. IndInv /\ [Next]_vars =>
        (nextAlert' # nextAlert /\ row.version = 0 /\ "status" \notin faults => Failing # {})
  <2> SUFFICES ASSUME IndInv, [Next]_vars, nextAlert' # nextAlert,
                      row.version = 0, "status" \notin faults
               PROVE  Failing # {}
    OBVIOUS
  <2>1. MayOpen(Measured)
    BY OnlyOpenAlertCreates DEF OpenAlert, Timers
  <2>2. PICK s \in Services : Measured[s] = "long"
    BY <2>1 DEF MayOpen, Alerting
  <2>3. s \in Failing
    BY <2>2 DEF Measured, IndInv, TimersEnabled
  <2> QED BY <2>3
<1>2. IndInv /\ [Next]_vars =>
        [nextAlert' # nextAlert /\ row.version = 0 /\ "status" \notin faults => Failing # {}]_vars
  BY <1>1
<1> QED BY <1>2, AlwaysIndInv, PTL DEF Spec, AlarmIsTrue
=============================================================================
