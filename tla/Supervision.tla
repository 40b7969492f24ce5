----------------------------- MODULE Supervision -----------------------------
(***************************************************************************)
(* The watchdog of one background service and the inbox it reports to      *)
(* (app/utils/supervisor.py, app/services/service_alerts.py,               *)
(* app/db/notifications.py).  A tick is the uptime that counts as stable;  *)
(* the histories hold the ages of crashes and hangs in ticks.              *)
(***************************************************************************)
EXTENDS Integers, Sequences, FiniteSets

CONSTANTS
    StableAfter, HangRecovery,      \* uptimes that prove health
    CrashWindow, HangWindow,        \* how long the histories reach back
    FailSpan,                       \* least length of a failure series
    CrashLimit, HangLimit, FailLimit,
    MaxPending, MaxWrites,          \* of the sink: queue and attempts
    MaxSvcFaults                    \* bound on crashes, hangs, failures, kills

ASSUME SupervisionAssumption ==
    /\ {StableAfter, HangRecovery, CrashWindow, HangWindow, FailSpan} \subseteq Nat \ {0}
    /\ {CrashLimit, HangLimit, FailLimit, MaxPending, MaxWrites} \subseteq Nat \ {0}
    /\ MaxSvcFaults \in Nat

VARIABLES
    svc,        \* the watched service: _Service and its supervising task
    tasks,      \* running instances of the service, and whether one hangs
    mode,       \* maintenance window, shutdown
    sink,       \* the alert sink: queue, the alert being written, attempts
    incident,   \* the open incident in the inbox: none, warning or error
    blips       \* bound on faults; history: an alert was lost, or denied the state

supVars == <<svc, tasks, mode, sink, incident, blips>>

Never == -1
NewService(beats) ==
    [beats |-> beats, phase |-> "loop", state |-> "starting", before |-> "starting",
     attempt |-> FALSE, age |-> 0, needsLog |-> FALSE, settled |-> FALSE, watched |-> FALSE,
     streak |-> 0, failAge |-> Never, failDegraded |-> FALSE, okAge |-> Never,
     crashes |-> <<>>, hangs |-> <<>>, out |-> <<>>]
NoServiceAlert == [kind |-> "none", degraded |-> FALSE]
IdleSink == [queue |-> <<>>, writing |-> NoServiceAlert, gone |-> FALSE, tries |-> 0]

SupInit ==
    /\ svc \in {NewService(beats) : beats \in BOOLEAN}
    /\ tasks = [running |-> 0, hung |-> FALSE]
    /\ mode = [window |-> FALSE, stopping |-> FALSE]
    /\ sink = IdleSink
    /\ incident = "none"
    /\ blips = [faults |-> 0, missed |-> FALSE, denied |-> FALSE]

Spent == blips' = [blips EXCEPT !.faults = @ + 1]
MayBlip == blips.faults < MaxSvcFaults

(* ServiceAlertSink.__call__: a full queue drops its oldest alerts, also   *)
(* the one that is being written.                                          *)
Missed(k, alerts) == Len(k.queue) + Len(alerts) > MaxPending
Queued(k, alerts) ==
    LET all == k.queue \o alerts IN
    IF Missed(k, alerts)
    THEN [k EXCEPT !.queue = SubSeq(all, Len(all) - MaxPending + 1, Len(all)),
                   !.gone = k.writing # NoServiceAlert]
    ELSE [k EXCEPT !.queue = all]

ServiceAlert(s, kind) == [kind |-> kind, degraded |-> s.state = "degraded"]
Notified(s, kind) == [s EXCEPT !.out = Append(@, ServiceAlert(s, kind))]
Degraded(s) ==
    IF s.state = "degraded" THEN s ELSE Notified([s EXCEPT !.state = "degraded"], "degraded")
BackToRunning(s) == Notified([s EXCEPT !.state = "running"], "recovered")

(* What a step of the supervisor leaves: the service, the alerts handed on.*)
Leaves(s) ==
    /\ svc' = [s EXCEPT !.out = <<>>]
    /\ sink' = Queued(sink, s.out)

(* What is remembered of them: whether one was dropped, and whether the    *)
(* last one called a service recovered that is degraded.                   *)
Heard(s) ==
    [faults |-> blips.faults, missed |-> blips.missed \/ Missed(sink, s.out),
     denied |-> IF s.out = <<>> THEN blips.denied
                ELSE s.out[Len(s.out)].kind = "recovered" /\ s.state = "degraded"]
Loses(s) == blips' = Heard(s)

(* A history keeps what is recent; its oldest entries come first.          *)
Recent(ages, window) ==
    SubSeq(ages, 1 + Cardinality({i \in DOMAIN ages : ages[i] > window}), Len(ages))
RecentHangs(s) == [s EXCEPT !.hangs = Recent(s.hangs, HangWindow)]
Watching(s) ==
    s.beats \/ s.needsLog \/ s.attempt \/ s.hangs # <<>> \/ s.failDegraded \/ ~s.settled

---------------------------------------------------------------------------
(* _supervise: a restart waits for the end of a maintenance window.        *)
Started(s) ==
    LET t == [s EXCEPT !.phase = "running", !.age = 0, !.streak = 0, !.failAge = Never,
                       !.okAge = Never, !.state = IF @ = "degraded" THEN @ ELSE "running"]
    IN [t EXCEPT !.watched = Watching(t)]

StartService ==
    /\ svc.phase = "loop" /\ ~mode.stopping /\ ~mode.window
    /\ svc' = Started(svc)
    /\ tasks' = [running |-> tasks.running + 1, hung |-> FALSE]
    /\ UNCHANGED <<mode, sink, incident, blips>>

PauseService ==
    /\ svc.phase = "loop" /\ ~mode.stopping /\ mode.window
    /\ svc' = [svc EXCEPT !.phase = "paused", !.before = svc.state, !.state = "paused"]
    /\ UNCHANGED <<tasks, mode, sink, incident, blips>>

ResumeService ==
    /\ svc.phase = "paused" /\ ~mode.window /\ ~mode.stopping
    /\ svc' = Started([svc EXCEPT !.state = svc.before])
    /\ tasks' = [running |-> tasks.running + 1, hung |-> FALSE]
    /\ UNCHANGED <<mode, sink, incident, blips>>

Ended(s) == [s EXCEPT !.phase = "ended", !.state = "stopped"]

EndService ==
    /\ svc.phase \in {"loop", "paused"} /\ mode.stopping
    /\ svc' = Ended(svc)
    /\ UNCHANGED <<tasks, mode, sink, incident, blips>>

(* _record_crash and _next_delay.                                          *)
RecordCrash(s, hung) ==
    LET old == IF s.age >= StableAfter THEN <<>> ELSE s.crashes
        t == [s EXCEPT
                !.attempt = TRUE, !.needsLog = TRUE, !.settled = TRUE,
                !.crashes = Recent(Append(old, 0), CrashWindow),
                !.hangs = IF hung THEN Append(@, 0) ELSE @,
                !.state = IF @ = "degraded" THEN @ ELSE "backoff"]
    IN Notified(t, "crashed")

NextDelay(s) ==
    LET t == [RecentHangs(s) EXCEPT !.phase = "sleeping"] IN
    IF Len(t.crashes) >= CrashLimit \/ Len(t.hangs) >= HangLimit THEN Degraded(t) ELSE t

(* What follows the end of a run: the shutdown, a maintenance window that  *)
(* interrupted it, or a crash.                                             *)
AfterRun(s, hung) ==
    IF mode.stopping THEN Ended(s)
    ELSE IF mode.window THEN [s EXCEPT !.phase = "loop"]
    ELSE NextDelay(RecordCrash(s, hung))

OneLess == [running |-> tasks.running - 1, hung |-> FALSE]

RunCrashes ==
    /\ svc.phase = "running" /\ ~tasks.hung /\ MayBlip
    /\ LET s == AfterRun(svc, FALSE) IN
         /\ Leaves(s)
         /\ blips' = [Heard(s) EXCEPT !.faults = blips.faults + 1]
    /\ tasks' = OneLess
    /\ UNCHANGED <<mode, incident>>

(* A service asked to stop returns.                                        *)
RunReturns ==
    /\ svc.phase = "running" /\ ~tasks.hung /\ mode.stopping
    /\ svc' = Ended(svc)
    /\ tasks' = OneLess
    /\ UNCHANGED <<mode, sink, incident, blips>>

ServiceHangs ==
    /\ svc.phase = "running" /\ svc.beats /\ ~tasks.hung /\ MayBlip
    /\ tasks' = [tasks EXCEPT !.hung = TRUE]
    /\ Spent
    /\ UNCHANGED <<svc, mode, sink, incident>>

(* No heartbeat: the task is cancelled; it ends within the grace or stays. *)
HangReaped ==
    /\ svc.phase = "running" /\ tasks.hung
    /\ LET s == AfterRun(svc, TRUE) IN Leaves(s) /\ Loses(s)
    /\ tasks' = OneLess
    /\ UNCHANGED <<mode, incident>>

HangIgnoresCancel ==
    /\ svc.phase = "running" /\ tasks.hung
    /\ LET s == [Degraded(svc) EXCEPT !.phase = "stuck"] IN Leaves(s) /\ Loses(s)
    /\ UNCHANGED <<tasks, mode, incident>>

(* Mutant: the wait for a stuck task is given up after one grace.          *)
StuckGivenUp ==
    /\ svc.phase = "stuck"
    /\ LET s == AfterRun(svc, TRUE) IN Leaves(s) /\ Loses(s)
    /\ UNCHANGED <<tasks, mode, incident>>

(* _wait_until_ended: no second instance next to the stuck one.            *)
StuckEnds ==
    /\ svc.phase = "stuck"
    /\ LET s == AfterRun(svc, TRUE) IN Leaves(s) /\ Loses(s)
    /\ tasks' = OneLess
    /\ UNCHANGED <<mode, incident>>

WakeService ==
    /\ svc.phase = "sleeping"
    /\ svc' = [svc EXCEPT !.phase = "loop"]
    /\ UNCHANGED <<tasks, mode, sink, incident, blips>>

---------------------------------------------------------------------------
(* What the service says of itself.                                        *)
ReportFailure ==
    LET streak == IF svc.streak < FailLimit THEN svc.streak + 1 ELSE FailLimit
        since == IF svc.streak = 0 THEN 0 ELSE svc.failAge
        t == [svc EXCEPT !.streak = streak, !.failAge = since, !.okAge = Never]
        s == IF streak = FailLimit /\ since >= FailSpan /\ ~svc.failDegraded
             THEN Degraded([t EXCEPT !.failDegraded = TRUE]) ELSE t
    IN /\ svc.phase = "running" /\ ~tasks.hung /\ MayBlip
       /\ ~mode.stopping /\ ~mode.window
       /\ Leaves(s)
       /\ blips' = [Heard(s) EXCEPT !.faults = blips.faults + 1]
       /\ UNCHANGED <<tasks, mode, incident>>

(* Mutant: a success ends the streak and forgets when health began.        *)
ReportSuccessUndated ==
    /\ svc.phase = "running" /\ ~tasks.hung
    /\ svc.streak > 0
    /\ svc' = [svc EXCEPT !.streak = 0, !.failAge = Never]
    /\ UNCHANGED <<tasks, mode, sink, incident, blips>>

ReportSuccess ==
    /\ svc.phase = "running" /\ ~tasks.hung
    /\ svc.streak > 0 \/ (svc.failDegraded /\ svc.okAge = Never)
    /\ svc' = [svc EXCEPT !.streak = 0, !.failAge = Never,
                          !.okAge = IF svc.failDegraded /\ @ = Never THEN 0 ELSE @]
    /\ UNCHANGED <<tasks, mode, sink, incident, blips>>

---------------------------------------------------------------------------
(* The checks of _run_once, in their order.                                *)
MarkStable(s) ==
    LET t == [s EXCEPT !.attempt = FALSE, !.crashes = <<>>]
        u == [RecentHangs(t) EXCEPT !.needsLog = FALSE, !.settled = TRUE]
    IN IF s.streak > 0 \/ s.age < StableAfter \/ ~(s.attempt \/ s.needsLog \/ ~s.settled) THEN s
       ELSE IF t.failDegraded THEN t
       ELSE IF t.needsLog THEN IF Len(u.hangs) < HangLimit THEN BackToRunning(u) ELSE u
       ELSE IF ~t.settled THEN Notified([t EXCEPT !.settled = TRUE], "recovered")
       ELSE t

ClearFailureSeries(s) ==
    LET t == [s EXCEPT !.failDegraded = FALSE, !.okAge = Never]
        u == IF t.state = "degraded" /\ t.crashes = <<>> THEN RecentHangs(t) ELSE t
    IN IF ~s.failDegraded \/ s.okAge < StableAfter THEN s
       ELSE IF u.state = "degraded" /\ u.crashes = <<>> /\ Len(u.hangs) < HangLimit
            THEN BackToRunning(u) ELSE u

ClearHangs(s) ==
    LET t == [s EXCEPT !.hangs = <<>>] IN
    IF s.hangs = <<>> \/ s.age < HangRecovery THEN s
    ELSE IF t.state = "degraded" /\ t.crashes = <<>> /\ ~t.failDegraded THEN BackToRunning(t) ELSE t

WatchChecks(s) == ClearHangs(ClearFailureSeries(MarkStable(s)))
WatchDue ==
    svc.phase = "running" /\ svc.watched /\ (WatchChecks(svc) # svc \/ ~Watching(svc))

(* The next wait has a timeout only if there is something to watch.        *)
Watch ==
    LET s == WatchChecks(svc) IN
    /\ WatchDue
    /\ Leaves([s EXCEPT !.watched = Watching(s)]) /\ Loses(s)
    /\ UNCHANGED <<tasks, mode, incident>>

(* snapshot, for the health endpoint, drops hangs that are too old.        *)
Healthz ==
    /\ RecentHangs(svc) # svc
    /\ svc' = RecentHangs(svc)
    /\ UNCHANGED <<tasks, mode, sink, incident, blips>>

Older(age, cap) == IF age = Never \/ age = cap THEN age ELSE age + 1
SupTick ==
    LET s == [svc EXCEPT !.age = Older(@, HangRecovery), !.failAge = Older(@, FailSpan),
                !.okAge = Older(@, StableAfter),
                !.crashes = [i \in DOMAIN @ |-> Older(@[i], CrashWindow + 1)],
                !.hangs = [i \in DOMAIN @ |-> Older(@[i], HangWindow + 1)]]
    IN /\ ~WatchDue /\ s # svc /\ svc.phase # "ended"
       /\ svc' = s
       /\ UNCHANGED <<tasks, mode, sink, incident, blips>>

---------------------------------------------------------------------------
(* The sink: the head is written by a thread and stays queued meanwhile.   *)
TakeAlert ==
    /\ sink.queue # <<>> /\ sink.writing = NoServiceAlert
    /\ sink' = [sink EXCEPT !.writing = Head(sink.queue), !.gone = FALSE]
    /\ UNCHANGED <<svc, tasks, mode, incident, blips>>

(* _discard: the queue may have dropped the alert while it was written.    *)
Discarded(k) == [queue |-> IF k.gone THEN k.queue ELSE Tail(k.queue), writing |-> NoServiceAlert,
               gone |-> FALSE, tries |-> 0]

(* _apply: one open incident; a crash rewrites its entry now and then, the *)
(* escalation at once.                                                     *)
ShownAs(shown, alert) ==
    LET severity == IF alert.kind = "degraded" \/ alert.degraded THEN "error" ELSE "warning" IN
    IF alert.kind = "recovered" THEN {"none"}
    ELSE IF alert.kind = "degraded" \/ shown = "none" THEN {severity}
    ELSE {shown, severity}

StoreAlert ==
    /\ sink.writing # NoServiceAlert
    /\ incident' \in ShownAs(incident, sink.writing)
    /\ sink' = Discarded(sink)
    /\ UNCHANGED <<svc, tasks, mode, blips>>

FailAlert ==
    LET last == sink.gone \/ sink.tries + 1 = MaxWrites IN
    /\ sink.writing # NoServiceAlert /\ MayBlip
    /\ sink' = IF sink.tries + 1 = MaxWrites THEN Discarded(sink)
               ELSE [sink EXCEPT !.writing = NoServiceAlert, !.gone = FALSE, !.tries = @ + 1]
    /\ blips' = [blips EXCEPT !.faults = @ + 1, !.missed = @ \/ last]
    /\ UNCHANGED <<svc, tasks, mode, incident>>

---------------------------------------------------------------------------
(* Maintenance, shutdown, a killed process.                                *)
OpenWindow ==
    /\ ~mode.window /\ ~mode.stopping /\ MayBlip
    /\ mode' = [mode EXCEPT !.window = TRUE] /\ Spent
    /\ UNCHANGED <<svc, tasks, sink, incident>>

CloseWindow ==
    /\ mode.window
    /\ mode' = [mode EXCEPT !.window = FALSE]
    /\ UNCHANGED <<svc, tasks, sink, incident, blips>>

BeginShutdown ==
    /\ ~mode.stopping
    /\ mode' = [mode EXCEPT !.stopping = TRUE]
    /\ UNCHANGED <<svc, tasks, sink, incident, blips>>

(* stop: the supervising task is cancelled; what ignores that is left.     *)
StopService ==
    /\ mode.stopping /\ svc.phase \in {"running", "stuck", "sleeping"}
    /\ svc' = Ended(svc)
    /\ \/ UNCHANGED tasks
       \/ svc.phase # "sleeping" /\ tasks' = OneLess
    /\ UNCHANGED <<mode, sink, incident, blips>>

(* The process ends; the incident stays and a new process knows nothing.   *)
NewProcess ==
    /\ MayBlip
    /\ svc' = NewService(svc.beats)
    /\ tasks' = [running |-> 0, hung |-> FALSE]
    /\ mode' = [window |-> FALSE, stopping |-> FALSE]
    /\ sink' = IdleSink
    /\ blips' = [faults |-> blips.faults + 1, missed |-> FALSE, denied |-> FALSE]
    /\ UNCHANGED incident

SuperviseStep ==
    StartService \/ ResumeService \/ PauseService \/ EndService \/ WakeService
SinkStep == TakeAlert \/ StoreAlert

SupNext ==
    \/ SuperviseStep \/ SinkStep \/ Watch \/ SupTick \/ Healthz
    \/ RunCrashes \/ RunReturns \/ ServiceHangs \/ HangReaped \/ HangIgnoresCancel \/ StuckEnds
    \/ ReportFailure \/ ReportSuccess \/ FailAlert
    \/ OpenWindow \/ CloseWindow \/ BeginShutdown \/ StopService \/ NewProcess

HangHandled == HangReaped \/ HangIgnoresCancel \/ StuckEnds

SupSpec == SupInit /\ [][SupNext]_supVars
SupFairSpec ==
    /\ SupSpec
    /\ WF_supVars(SuperviseStep) /\ WF_supVars(SinkStep) /\ WF_supVars(Watch) /\ WF_supVars(SupTick)
    /\ WF_supVars(HangHandled) /\ WF_supVars(ReportSuccess) /\ WF_supVars(CloseWindow)
    /\ WF_supVars(StopService)

---------------------------------------------------------------------------
SupTypeOK ==
    /\ svc.phase \in {"loop", "running", "paused", "stuck", "sleeping", "ended"}
    /\ svc.state \in {"starting", "running", "paused", "backoff", "degraded", "stopped"}
    /\ incident \in {"none", "warning", "error"}
    /\ Len(sink.queue) <= MaxPending
    /\ svc.out = <<>>

(* There is never a second instance of a service: a hung one that ignores  *)
(* its cancellation keeps the restart away.                                *)
OneInstance == tasks.running \in 0 .. 1 /\ (svc.phase \in {"loop", "sleeping"} => tasks.running = 0)

(* A healthy service that nothing can lift out of degraded any more.       *)
Stranded ==
    /\ svc.state = "degraded" /\ svc.phase = "running"
    /\ \/ ~svc.watched
       \/ ~svc.needsLog /\ ~svc.failDegraded /\ svc.hangs = <<>>

(* What the inbox shows is what the service is, once every alert is in it  *)
(* and unless the last one denied it: a hang that outlasts its grace in a  *)
(* maintenance window leaves no crash to recover from, and the first       *)
(* stable run then reports a recovery and stays degraded.                  *)
InboxTellsTheTruth ==
    sink.queue = <<>> /\ sink.writing = NoServiceAlert /\ ~blips.missed =>
        /\ svc.state = "running" /\ svc.settled /\ ~svc.needsLog => incident = "none"
        /\ svc.state = "backoff" => incident # "none"
        /\ svc.state = "degraded" /\ ~blips.denied => incident = "error"

(* A degraded service that is well again is running again, but for the two *)
(* ways to be stranded.                                                    *)
DegradedUnlessStranded ==
    [](svc.state = "degraded" => <>(svc.state # "degraded" \/ mode.stopping \/ Stranded))

(* docs/features/notifications.md: after a failure series, a completed     *)
(* iteration and a clean minute, the service counts as recovered.          *)
FailureSeriesEnds ==
    [](svc.failDegraded /\ svc.okAge # Never =>
          <>(~svc.failDegraded \/ svc.okAge = Never \/ mode.stopping))
=============================================================================
