------------------------------ MODULE Alerting ------------------------------
(***************************************************************************)
(* The alerts of one target: the check cycle of the monitor and its alert  *)
(* state machine, the alert rows and the dispatch outbox in the database,  *)
(* the two writers that hand an event to the spooler (the monitor itself   *)
(* and the notification worker), acknowledgement and purge, restarts of    *)
(* the monitor by its supervisor and of the whole process.                 *)
(*                                                                         *)
(* app/monitor/scheduler.py, app/db/sqlite/alerts.py, app/api/alerts.py.   *)
(*                                                                         *)
(* Each action is one transaction or one stretch of the event loop between *)
(* two awaits.  Times are abstracted to the comparisons made with them:    *)
(* how long a service has been down against metrics_timeout_minutes, and   *)
(* whether the last DOWN alert lies within ALERT_COOLDOWN_SECONDS.         *)
(***************************************************************************)
EXTENDS Integers, Sequences, Functions

CONSTANTS
    Services,       \* the availability checks: http, ping, tcp
    Configs,        \* the settings an edit of the target may choose
    MaxAlerts,      \* bound: how many alerts are ever created
    MaxEdits,       \* bound: how often the target is edited
    MaxReplaced,    \* bound: how often the supervisor replaces the monitor's run
    MaxCrashes,     \* bound: how often the process dies
    Faults          \* bound: which transactions may fail, and whether a
                    \* dispatch may find nobody to tell

ASSUME AlertingAssumption ==
    /\ Configs \subseteq [services : SUBSET Services, autoClose : BOOLEAN]
    /\ Configs # {}
    /\ MaxAlerts \in Nat
    /\ MaxEdits \in Nat
    /\ MaxReplaced \in Nat
    /\ MaxCrashes \in Nat
    /\ Faults \subseteq {"load", "status", "create", "resolve", "dispatch",
                  "nobody", "maintenance"}

AlertIds == 1..MaxAlerts
NoAlert == 0

VARIABLES
    broken,     \* environment: the services that really do not answer
    faults,     \* environment: the failures that occur in this behaviour
    row,        \* the target in the database: settings and updated_at
    alerts,     \* table alerts, by id
    nextAlert,  \* ids are random; the model numbers them in order
    outbox,     \* table alert_dispatch_outbox, by event
    queue,      \* the events of the spooler's rows, in the order of their ids
    cfg,        \* self._targets: the settings the monitor works with
    down,       \* rt.down_since_by_service, against the timeout
    current,    \* rt.current_alert_id
    cooling,    \* _last_alert_at lies within ALERT_COOLDOWN_SECONDS
    pc,         \* where the monitor is with this target
    awaited,    \* the event whose dispatch the monitor awaits
    snapshot,   \* the alert rows read at start-up, not yet applied
    threads,    \* the events that worker threads of the monitor dispatch
    wpc,        \* where the notification worker is with the outbox
    batch,      \* the events of its run that are still ahead
    taken,      \* the event it dispatched and has yet to record
    wok,        \* whether that dispatch succeeded
    replaced,   \* how often the run was replaced
    crashes,    \* how often the process died
    recent,     \* history: the last DOWN alert lies within the cooldown
    recovered,  \* history: a full OK was measured since the last DOWN alert
    unaddressed \* history: events dispatched while nobody was to be told

database == <<alerts, nextAlert, outbox, queue>>
monitor == <<cfg, down, current, cooling, pc, awaited, snapshot, threads>>
worker == <<wpc, batch, taken, wok>>
world == <<broken, faults, row, replaced, crashes>>
history == <<recent, recovered, unaddressed>>
vars == <<database, monitor, worker, world, history>>

-----------------------------------------------------------------------------
(* Types *)

Event == [alert : AlertIds, kind : {"open", "resolved"}]
NoEvent == [alert |-> NoAlert, kind |-> "open"]
OpenOf(a) == [alert |-> a, kind |-> "open"]
ResolvedOf(a) == [alert |-> a, kind |-> "resolved"]

(* The order of the outbox, by created_at: an alert is opened after every  *)
(* event of the earlier ones.                                              *)
Before(e, f) == \/ e.alert < f.alert
                \/ e.alert = f.alert /\ e.kind = "open" /\ f.kind = "resolved"

Alert == [status : {"none", "open", "resolved"}, active : BOOLEAN,
          acknowledged : BOOLEAN, services : SUBSET Services]
NoRow == [status |-> "none", active |-> FALSE, acknowledged |-> FALSE, services |-> {}]

Target == [settings : Configs, version : 0..MaxEdits]

(* down_since is unset, set, or set for longer than the metrics timeout.   *)
Downtimes == {"up", "recent", "long"}
AllUp == [s \in Services |-> "up"]

TypeOK ==
    /\ broken \subseteq Services
    /\ faults \subseteq Faults
    /\ row \in Target
    /\ alerts \in [AlertIds -> Alert]
    /\ nextAlert \in 1..(MaxAlerts + 1)
    /\ outbox \in [Event -> {"none", "pending", "backoff", "completed"}]
    /\ queue \in Seq(Event)
    /\ cfg \in Target
    /\ down \in [Services -> Downtimes]
    /\ current \in AlertIds \cup {NoAlert}
    /\ cooling \in BOOLEAN
    /\ pc \in {"off", "loaded", "idle", "checking", "dispatching"}
    /\ awaited \in Event \cup {NoEvent}
    /\ snapshot \subseteq AlertIds
    /\ threads \subseteq Event
    /\ wpc \in {"idle", "next", "record"}
    /\ batch \subseteq Event
    /\ taken \in Event \cup {NoEvent}
    /\ wok \in BOOLEAN
    /\ replaced \in 0..MaxReplaced
    /\ crashes \in 0..MaxCrashes
    /\ recent \in BOOLEAN
    /\ recovered \in BOOLEAN
    /\ unaddressed \subseteq Event

-----------------------------------------------------------------------------
(* The database operations of alerts.py                                    *)

ActiveAlerts == {a \in AlertIds : alerts[a].status = "open" /\ alerts[a].active}

(* enqueue_alert_dispatch: INSERT OR IGNORE.                               *)
Recorded(box, e) == IF box[e] = "none" THEN [box EXCEPT ![e] = "pending"] ELSE box

(* Mutant: the alert is stored without its event.                          *)
CreateAlertOnly(services) ==
    /\ alerts' = [alerts EXCEPT ![nextAlert] =
            [NoRow EXCEPT !.status = "open", !.active = TRUE, !.services = services]]
    /\ nextAlert' = nextAlert + 1
    /\ outbox' = outbox

(* create_alert: the alert and its event, in one transaction.              *)
CreateAlert(services) ==
    /\ alerts' = [alerts EXCEPT ![nextAlert] =
            [NoRow EXCEPT !.status = "open", !.active = TRUE, !.services = services]]
    /\ nextAlert' = nextAlert + 1
    /\ outbox' = Recorded(outbox, OpenOf(nextAlert))

(* Mutant: the event is stored, the alert stays as it is.                  *)
ResolveEventOnly(a) ==
    /\ alerts' = alerts
    /\ outbox' = Recorded(outbox, ResolvedOf(a))

(* resolve_alert: nothing, not even the event, if the row is gone.         *)
ResolveAlert(a) ==
    IF alerts[a].status = "none" THEN UNCHANGED <<alerts, outbox>>
    ELSE /\ alerts' = [alerts EXCEPT ![a].status = "resolved", ![a].active = FALSE]
         /\ outbox' = Recorded(outbox, ResolvedOf(a))

(* deactivate_alert: it stays open for review, its incident is over.       *)
DeactivateAlert(a) ==
    /\ alerts' = [alerts EXCEPT ![a].active = IF alerts[a].status = "open" THEN FALSE ELSE @]
    /\ UNCHANGED outbox

Acknowledged(r) == [r EXCEPT !.status = "resolved", !.active = FALSE, !.acknowledged = TRUE]

(* dispatch_alert, for one recipient and channel: the spooler takes an     *)
(* event of an alert once, nobody may be assigned, or the dispatch fails   *)
(* as a whole, be it before or after this channel was queued.              *)
Queued(e) == queue' = IF e \in Range(queue) THEN queue ELSE Append(queue, e)

Dispatched(e, outcome) ==
    CASE outcome = "queued" -> Queued(e) /\ UNCHANGED unaddressed
      [] outcome = "nobody" -> /\ unaddressed' = unaddressed \cup {e}
                               /\ UNCHANGED queue
      [] outcome = "dispatch" -> /\ Queued(e) \/ UNCHANGED queue
                                 /\ UNCHANGED unaddressed
      [] OTHER -> UNCHANGED <<queue, unaddressed>>

Outcomes == {"queued"} \cup (faults \cap {"nobody", "dispatch"})

(* A thread that begins during a maintenance window, or after its run was  *)
(* replaced, is refused.                                                   *)
ThreadOutcomes(awaiting) ==
    Outcomes \cup (IF ~awaiting \/ "maintenance" \in faults THEN {"refused"} ELSE {})

-----------------------------------------------------------------------------
(* Start-up and refresh of the targets                                     *)

(* _load_target_refresh_snapshot: a failure to read the alerts is logged   *)
(* and taken for "no alerts".                                              *)
Load ==
    /\ pc = "off"
    /\ \/ snapshot' = ActiveAlerts
       \/ "load" \in faults /\ snapshot' = {}
    /\ cfg' = row
    /\ pc' = "loaded"
    /\ UNCHANGED <<database, down, current, cooling, awaited, threads, worker, world, history>>

(* _restorable_services: the enabled checks the alert names, else all.     *)
Restorable(a) ==
    LET enabled == cfg.settings.services
        named == enabled \cap alerts[a].services
    IN  IF named # {} THEN named ELSE enabled

(* Mutant: a restart starts over without the open alerts.                  *)
ForgetAlerts ==
    /\ pc = "loaded"
    /\ UNCHANGED <<current, down>>
    /\ pc' = "idle"
    /\ snapshot' = {}
    /\ UNCHANGED <<database, cfg, cooling, awaited, threads, worker, world, history>>

(* _apply_target_refresh_snapshot, for a target without a runtime.         *)
Apply ==
    /\ pc = "loaded"
    /\ IF snapshot = {} THEN UNCHANGED <<current, down>>
       ELSE \E a \in snapshot :
              /\ current' = a
              /\ down' = [s \in Services |->
                            IF \E b \in snapshot : s \in Restorable(b) THEN "recent" ELSE "up"]
    /\ pc' = "idle"
    /\ snapshot' = {}
    /\ UNCHANGED <<database, cfg, cooling, awaited, threads, worker, world, history>>

(* A later refresh takes over the settings only.                           *)
Refresh ==
    /\ pc = "idle"
    /\ cfg # row
    /\ cfg' = row
    /\ UNCHANGED <<database, down, current, cooling, pc, awaited, snapshot, threads,
                   worker, world, history>>

-----------------------------------------------------------------------------
(* One check cycle: _run_target, then _maybe_alert                         *)

BeginCheck ==
    /\ pc = "idle"
    /\ cfg.version = row.version
    /\ pc' = "checking"
    /\ UNCHANGED <<database, cfg, down, current, cooling, awaited, snapshot, threads,
                   worker, world, history>>

(* The quality gate: no check now; without an open alert the timers of the *)
(* services start over.                                                    *)
ConnectivityIssue ==
    /\ pc = "idle"
    /\ down' = IF current = NoAlert THEN AllUp ELSE down
    /\ UNCHANGED <<database, cfg, current, cooling, pc, awaited, snapshot, threads,
                   worker, world, history>>

(* The result of a check is dropped: the target was edited meanwhile, or a *)
(* maintenance window is active.                                           *)
Discard ==
    /\ pc = "checking"
    /\ cfg.version # row.version \/ "maintenance" \in faults
    /\ pc' = "idle"
    /\ UNCHANGED <<database, cfg, down, current, cooling, awaited, snapshot, threads,
                   worker, world, history>>

Enabled == cfg.settings.services
Failing == broken \cap Enabled

(* Mutant: a service that answers again keeps its timer.                   *)
MeasuredSticky ==
    [s \in Services |-> IF s \in Failing /\ down[s] = "up" THEN "recent" ELSE down[s]]

(* _update_service, for the enabled checks.                                *)
Measured ==
    [s \in Services |-> IF s \notin Enabled THEN down[s]
                        ELSE IF s \notin Failing THEN "up"
                        ELSE IF down[s] = "up" THEN "recent" ELSE down[s]]

(* A failed status write is logged; the timers may miss this measurement.  *)
Timers == IF "status" \in faults THEN {Measured, down} ELSE {Measured}

Alerting(timers) == {s \in Services : timers[s] = "long"}

Checked == /\ pc = "checking"
           /\ cfg.version = row.version

(* Mutant: a DOWN alert is not limited.                                    *)
MayOpenAlways(timers) == Enabled # {} /\ Alerting(timers) # {} /\ current = NoAlert

MayOpen(timers) ==
    Enabled # {} /\ Alerting(timers) # {} /\ current = NoAlert /\ ~cooling

(* Mutant: any cycle without a service past the timeout ends the incident. *)
MustResolveEarly(timers) ==
    Enabled # {} /\ Alerting(timers) = {} /\ current # NoAlert

MustResolve(timers) ==
    Enabled # {} /\ Alerting(timers) = {} /\ Failing = {} /\ current # NoAlert

Observed == recovered' = (recovered \/ Failing = {})

(* No alert is opened or ended in this cycle: all is well, the delay is    *)
(* not over, an alert is open already, or the cooldown holds it back.      *)
(* Without any enabled check the target counts as disabled.                *)
NothingToTell ==
    /\ Checked
    /\ \E timers \in Timers :
          /\ ~MayOpen(timers) /\ ~MustResolve(timers)
          /\ down' = timers
    /\ pc' = "idle"
    /\ Observed
    /\ UNCHANGED <<database, cfg, current, cooling, awaited, snapshot, threads,
                   worker, world, recent, unaddressed>>

Await(e) ==
    /\ pc' = "dispatching"
    /\ awaited' = e
    /\ threads' = threads \cup {e}

OpenAlert ==
    /\ Checked
    /\ nextAlert \in AlertIds
    /\ \E timers \in Timers :
          /\ MayOpen(timers)
          /\ down' = timers
          /\ CreateAlert(Alerting(timers))
    /\ current' = nextAlert
    /\ Await(OpenOf(nextAlert))
    /\ recent' = TRUE
    /\ recovered' = FALSE
    /\ UNCHANGED <<queue, cfg, cooling, snapshot, worker, world, unaddressed>>

(* The insert failed, or the transaction that ends the incident: nothing   *)
(* but the timers has changed, the next cycle tries again.                 *)
AlertFails ==
    /\ Checked
    /\ \E timers \in Timers :
          /\ down' = timers
          /\ \/ faults \cap {"create", "maintenance"} # {} /\ MayOpen(timers)
             \/ faults \cap {"resolve", "maintenance"} # {} /\ MustResolve(timers)
    /\ pc' = "idle"
    /\ Observed
    /\ UNCHANGED <<database, cfg, current, cooling, awaited, snapshot, threads,
                   worker, world, recent, unaddressed>>

(* The first full OK: resolve the alert and tell so, or without auto-close *)
(* only end its incident.                                                  *)
EndIncident ==
    /\ Checked
    /\ \E timers \in Timers : MustResolve(timers)
    /\ IF cfg.settings.autoClose
       THEN ResolveAlert(current) /\ Await(ResolvedOf(current))
       ELSE DeactivateAlert(current) /\ pc' = "idle" /\ UNCHANGED <<awaited, threads>>
    /\ current' = NoAlert
    /\ down' = AllUp
    /\ Observed
    /\ UNCHANGED <<nextAlert, queue, cfg, cooling, snapshot, worker, world,
                   recent, unaddressed>>

Check == NothingToTell \/ OpenAlert \/ AlertFails \/ EndIncident \/ Discard

(* A worker thread of the monitor hands the event to the spooler; if the   *)
(* run that started it still waits, it goes on.  The cooldown starts after *)
(* a DOWN alert, unless a maintenance window refused the dispatch.         *)
ThreadDone(e) ==
    /\ e \in threads
    /\ LET awaiting == pc = "dispatching" /\ awaited = e
       IN  \E outcome \in ThreadOutcomes(awaiting) :
              /\ Dispatched(e, outcome)
              /\ IF awaiting
                 THEN /\ pc' = "idle"
                      /\ awaited' = NoEvent
                      /\ cooling' = (cooling \/ (/\ e.kind = "open" /\ recent
                                                 /\ outcome # "refused"))
                 ELSE UNCHANGED <<pc, awaited, cooling>>
    /\ threads' = threads \ {e}
    /\ UNCHANGED <<alerts, nextAlert, outbox, cfg, down, current, snapshot,
                   worker, world, recent, recovered>>

-----------------------------------------------------------------------------
(* The notification worker and the outbox                                  *)

(* list_pending_alert_dispatches: what is due, the oldest first.           *)
ListPending ==
    /\ wpc = "idle"
    /\ batch' = {e \in Event : outbox[e] = "pending"}
    /\ batch' # {}
    /\ wpc' = "next"
    /\ UNCHANGED <<database, monitor, taken, wok, world, history>>

(* The events of a batch are dispatched one by one, the oldest first.      *)
DispatchNext(outcome) ==
    /\ wpc = "next"
    /\ \E e \in batch :
          /\ \A f \in batch \ {e} : Before(e, f)
          /\ taken' = e
          /\ batch' = batch \ {e}
          /\ Dispatched(e, outcome)
    /\ wok' = (outcome # "dispatch")
    /\ wpc' = "record"
    /\ UNCHANGED <<alerts, nextAlert, outbox, monitor, world, recent, recovered>>

(* record_alert_dispatch_attempt *)
RecordedAttempt ==
    [outbox EXCEPT ![taken] =
        IF @ = "pending" THEN (IF wok THEN "completed" ELSE "backoff") ELSE @]

RecordAttempt ==
    /\ wpc = "record"
    /\ outbox' = RecordedAttempt
    /\ taken' = NoEvent
    /\ wok' = FALSE
    /\ wpc' = IF batch = {} THEN "idle" ELSE "next"
    /\ UNCHANGED <<alerts, nextAlert, queue, monitor, batch, world, history>>

(* A maintenance window ends the run of the worker where it stands.        *)
WorkerRefused ==
    /\ "maintenance" \in faults
    /\ wpc # "idle"
    /\ wpc' = "idle"
    /\ batch' = {}
    /\ taken' = NoEvent
    /\ wok' = FALSE
    /\ UNCHANGED <<database, monitor, world, history>>

(* Mutant: only open events are tried again.                               *)
BackoffEndsOpen(e) ==
    /\ outbox[e] = "backoff"
    /\ e.kind = "open"
    /\ outbox' = [outbox EXCEPT ![e] = "pending"]
    /\ UNCHANGED <<alerts, nextAlert, queue, monitor, worker, world, history>>

BackoffEnds(e) ==
    /\ outbox[e] = "backoff"
    /\ outbox' = [outbox EXCEPT ![e] = "pending"]
    /\ UNCHANGED <<alerts, nextAlert, queue, monitor, worker, world, history>>

-----------------------------------------------------------------------------
(* The API, the environment and time                                       *)

AcknowledgeAlert(a) ==
    /\ alerts[a].status # "none" /\ ~alerts[a].acknowledged
    /\ alerts' = [alerts EXCEPT ![a] = Acknowledged(@)]
    /\ UNCHANGED <<nextAlert, outbox, queue, monitor, worker, world, history>>

AcknowledgeAll ==
    /\ \E a \in AlertIds : alerts[a].status = "open"
    /\ alerts' = [a \in AlertIds |-> IF alerts[a].status = "open"
                                     THEN Acknowledged(alerts[a]) ELSE alerts[a]]
    /\ UNCHANGED <<nextAlert, outbox, queue, monitor, worker, world, history>>

(* purge_alerts and the reset of a target: the monitor is not told.        *)
PurgeAlerts ==
    /\ \E a \in AlertIds : alerts[a].status # "none"
    /\ alerts' = [a \in AlertIds |-> NoRow]
    /\ UNCHANGED <<nextAlert, outbox, queue, monitor, worker, world, history>>

EditTarget ==
    /\ row.version < MaxEdits
    /\ \E settings \in Configs :
          row' = [settings |-> settings, version |-> row.version + 1]
    /\ UNCHANGED <<database, monitor, worker, broken, faults, replaced, crashes, history>>

Break(s) ==
    /\ s \notin broken
    /\ broken' = broken \cup {s}
    /\ UNCHANGED <<database, monitor, worker, faults, row, replaced, crashes, history>>

Repair(s) ==
    /\ s \in broken
    /\ broken' = broken \ {s}
    /\ UNCHANGED <<database, monitor, worker, faults, row, replaced, crashes, history>>

(* metrics_timeout_minutes pass since down_since.                          *)
TimeoutPasses(s) ==
    /\ down[s] = "recent"
    /\ down' = [down EXCEPT ![s] = "long"]
    /\ UNCHANGED <<database, cfg, current, cooling, pc, awaited, snapshot, threads,
                   worker, world, history>>

(* ALERT_COOLDOWN_SECONDS pass since the last DOWN alert.                  *)
CooldownEnds ==
    /\ recent
    /\ recent' = FALSE
    /\ cooling' = FALSE
    /\ UNCHANGED <<database, cfg, down, current, pc, awaited, snapshot, threads,
                   worker, world, recovered, unaddressed>>

(* The supervisor replaces the run of a hung monitor.  Its memory stays,   *)
(* its tasks are cancelled, a thread that is under way finishes.           *)
ReplaceRun ==
    /\ pc \in {"loaded", "idle", "checking", "dispatching"}
    /\ replaced < MaxReplaced
    /\ replaced' = replaced + 1
    /\ pc' = IF pc = "loaded" THEN "off" ELSE "idle"
    /\ snapshot' = {}
    /\ awaited' = NoEvent
    /\ UNCHANGED <<database, cfg, down, current, cooling, threads, worker,
                   broken, faults, row, crashes, history>>

(* The process dies: everything but the database is lost.                  *)
Crash ==
    /\ crashes < MaxCrashes
    /\ crashes' = crashes + 1
    /\ pc' = "off"
    /\ down' = AllUp
    /\ current' = NoAlert
    /\ cooling' = FALSE
    /\ awaited' = NoEvent
    /\ snapshot' = {}
    /\ threads' = {}
    /\ wpc' = "idle"
    /\ batch' = {}
    /\ taken' = NoEvent
    /\ wok' = FALSE
    /\ UNCHANGED <<database, cfg, broken, faults, row, replaced, history>>

-----------------------------------------------------------------------------
Init ==
    /\ broken = {}
    /\ faults \in SUBSET Faults
    /\ row \in [settings : Configs, version : {0}]
    /\ alerts = [a \in AlertIds |-> NoRow]
    /\ nextAlert = 1
    /\ outbox = [e \in Event |-> "none"]
    /\ queue = <<>>
    /\ cfg = row
    /\ down = AllUp
    /\ current = NoAlert
    /\ cooling = FALSE
    /\ pc = "off"
    /\ awaited = NoEvent
    /\ snapshot = {}
    /\ threads = {}
    /\ wpc = "idle"
    /\ batch = {}
    /\ taken = NoEvent
    /\ wok = FALSE
    /\ replaced = 0
    /\ crashes = 0
    /\ recent = FALSE
    /\ recovered = TRUE
    /\ unaddressed = {}

MonitorStep == Load \/ Apply \/ Refresh \/ BeginCheck \/ ConnectivityIssue \/ Check

WorkerStep ==
    \/ ListPending \/ RecordAttempt \/ WorkerRefused
    \/ \E outcome \in Outcomes : DispatchNext(outcome)

ApiStep ==
    \/ \E a \in AlertIds : AcknowledgeAlert(a)
    \/ AcknowledgeAll \/ PurgeAlerts \/ EditTarget

Time ==
    \/ \E s \in Services : Break(s) \/ Repair(s) \/ TimeoutPasses(s)
    \/ \E e \in Event : BackoffEnds(e)
    \/ CooldownEnds

Next ==
    \/ MonitorStep \/ \E e \in Event : ThreadDone(e)
    \/ WorkerStep
    \/ ApiStep
    \/ Time
    \/ ReplaceRun \/ Crash

Spec == Init /\ [][Next]_vars

(* The loops of the monitor and of the worker go on and their threads end; *)
(* the quality gate does not pause checks for ever; a transaction that is  *)
(* tried again and again succeeds in the end.  Time passes.                *)
Fairness ==
    /\ WF_vars(Load) /\ WF_vars(Apply) /\ WF_vars(Refresh) /\ WF_vars(BeginCheck)
    /\ WF_vars(Check) /\ SF_vars(EndIncident)
    /\ \A e \in Event : WF_vars(ThreadDone(e)) /\ WF_vars(BackoffEnds(e))
    /\ WF_vars(ListPending) /\ WF_vars(RecordAttempt)
    /\ WF_vars(WorkerStep) /\ SF_vars(DispatchNext("queued"))

FairSpec == Spec /\ Fairness

-----------------------------------------------------------------------------
(* Safety                                                                  *)

(* The monitor knows the incident that is going on: there is at most one,  *)
(* also across restarts, and it is the one the monitor will end.           *)
ActiveIsTracked ==
    /\ \A a, b \in ActiveAlerts : a = b
    /\ pc = "loaded" => ActiveAlerts \subseteq snapshot
    /\ pc \notin {"off", "loaded"} => ActiveAlerts \subseteq {current}

(* So it is as long as the reads of the open alerts succeed.               *)
OneIncident == "load" \notin faults => ActiveIsTracked

(* No event is lost between the alert and the spooler: whatever crashes or *)
(* fails in between, the event of an alert is on record, and it is only    *)
(* done when the spooler has it or there was nobody to tell.               *)
NoEventLost ==
    /\ \A a \in AlertIds :
          /\ alerts[a].status # "none" => outbox[OpenOf(a)] # "none"
          /\ alerts[a].status = "resolved" /\ ~alerts[a].acknowledged =>
                outbox[ResolvedOf(a)] # "none"
    /\ \A e \in Event :
          outbox[e] = "completed" => e \in Range(queue) \cup unaddressed

(* "back online" is only told of an incident that has ended, and nothing   *)
(* is told of an alert that was never opened.                              *)
ToldIsTrue ==
    \A e \in Range(queue) :
        /\ e.alert < nextAlert
        /\ e.kind = "resolved" => e.alert \notin ActiveAlerts /\ e.alert # current

(* Two DOWN alerts of a target keep ALERT_COOLDOWN_SECONDS apart, until    *)
(* the monitor's memory of the last one is lost with its run or process,   *)
(* and unless a maintenance window refused the dispatch of the last one.   *)
CooldownKept ==
    [][nextAlert' # nextAlert /\ crashes = 0 /\ replaced = 0 /\ "maintenance" \notin faults
       => ~recent]_vars

(* A DOWN alert is emitted once per outage: before the next one there was  *)
(* a full OK.  A restart of the process forgets the outage.                *)
OncePerOutage == [][nextAlert' # nextAlert /\ crashes = 0 => recovered]_vars

(* A DOWN alert is only opened while an enabled check of the target fails. *)
NoAlarmWhenUp == [][nextAlert' # nextAlert => Failing # {}]_vars

(* So it is as long as no edit has switched checks off and the writes of   *)
(* their status succeed.                                                   *)
AlarmIsTrue ==
    [][nextAlert' # nextAlert /\ row.version = 0 /\ "status" \notin faults => Failing # {}]_vars

(* Once the target is well for good its incident ends, through crashes,    *)
(* replaced runs and failed transactions.                                  *)
RecoveryEnds == <>[](broken = {}) => <>[](current = NoAlert)

(* Every recorded event is handed to the spooler in the end.               *)
OutboxDrains ==
    \A e \in Event : outbox[e] \in {"pending", "backoff"} ~> outbox[e] = "completed"

-----------------------------------------------------------------------------
(* The inductive invariant behind the safety properties, by topic.         *)

(* A dispatch that succeeded is on its way to "completed".                 *)
EventsKept ==
    /\ NoEventLost
    /\ wpc = "record" /\ wok => taken \in Range(queue) \cup unaddressed

(* Every event that was ever recorded, or is under way to the spooler.     *)
Known == {e \in Event : outbox[e] # "none"} \cup threads \cup batch \cup Range(queue)

KnownIsTrue ==
    /\ \A e \in Known :
          /\ e.alert < nextAlert
          /\ e.kind = "resolved" => e.alert \notin ActiveAlerts \cup snapshot \cup {current}
    /\ \A a \in snapshot \cup {current} : a < nextAlert
    /\ pc # "loaded" => snapshot = {}

(* The reads of the open alerts succeed: see the findings for when not.    *)
Tracked ==
    "load" \notin faults => /\ ActiveIsTracked
                            /\ \A a, b \in snapshot : a = b

(* The cooldown begins with the dispatch of a DOWN alert, which nothing    *)
(* cuts short, and is kept in memory.                                      *)
Cooled ==
    crashes = 0 /\ replaced = 0 /\ "maintenance" \notin faults =>
        (recent => cooling \/ (pc = "dispatching" /\ awaited.kind = "open"))

(* Until the first full OK the monitor holds on to the alert.              *)
Held == crashes = 0 => (recovered \/ current # NoAlert)

(* Before the first edit a timer that runs is one of an enabled check.     *)
TimersEnabled ==
    row.version = 0 => /\ cfg = row
                       /\ \A s \in Services \ Enabled : down[s] = "up"

IndInv ==
    /\ TypeOK
    /\ EventsKept
    /\ KnownIsTrue
    /\ Tracked
    /\ Cooled
    /\ Held
    /\ TimersEnabled

-----------------------------------------------------------------------------
(* What the documentation says, and the code does not do                   *)

(* docs/features/notifications.md: "back online" never arrives before      *)
(* "offline".  The spooler only holds a resolved message behind an older   *)
(* open one, and the monitor queues the resolved event directly while the  *)
(* open one may still be retried by the worker.                            *)
OpenQueuedFirst ==
    \A i, j \in DOMAIN queue :
        i < j /\ queue[i].kind = "resolved" => queue[j] # OpenOf(queue[i].alert)
=============================================================================
