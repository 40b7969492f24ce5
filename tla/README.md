# justUp! in TLA+

A verification development of the server side of justUp!, an uptime monitor that
runs as one Python process on SQLite and a file-based time series store. The
modules describe the parts of `app/` whose correctness depends on the order of
things: what the monitor measures and whom it tells, what is stored and for how
long, what an admin may change meanwhile, and what a restart or a restore does to
all of it. TLC checks them on small instances; TLAPS proves what matters most for
every value of the constants.

Paths in this document are relative to `src/`.

## The system

One process holds an asyncio event loop with the API and the supervised
services, and thread pools for everything that blocks. What outlives a step is
in SQLite, in the time series files, or in module-level variables guarded by
locks.

```
 supervisor --- starts, watches, replaces ---> every service below ---> service alerts --> inbox

 probes ------> monitor ------ alert + event, one transaction -----> alerts, outbox
   |            |  \                                                  |
   |            |   `-- dispatch in a thread ---.                     |
   v            |                               v                     v
 time series    |                        notification_queue <-- notification worker
   |            |                               |                     |
 rollups,       |                               `---- claim, pace, send, finalize --> SMTP, signal-cli
 charts         |
                |
 API: targets, recipients, settings, users, reports, locations ---- events ---> event bus --> pages

 restore request: begin_maintenance -> begin_quiesce -> rename directories -> restart
                  (refuses and waits for everything above)
```

### Components

| Component | State it keeps | Operations | What is hard about it | What makes it correct |
|---|---|---|---|---|
| Notification spooler (`app/services/notifications/spooler.py`, `delivery_policy.py`) | `notification_queue`, `notification_delivery_state`; per run: the claimed items, the paths that hit a limit | `enqueue`, `get_pending_items`, `_reserve_send`, `_finalize`, `release`, `flush_queue`, `clear_log`, pruning | Every phase is its own transaction, the send is outside of all of them; claims time out; crashes between send and record; restores replace the table under the worker | Sent means accepted; resolved waits for open; duplicates only after an unrecorded send; bounded retries; final is final; everything settles |
| Monitor and alerts (`app/monitor/scheduler.py`, `app/db/sqlite/alerts.py`, `app/api/alerts.py`), with the alert dispatcher | in memory: settings, timers of the services, `current_alert_id`, `_last_alert_at`; in the database: `alerts`, `alert_dispatch_outbox` | start-up and refresh, check cycle, `_maybe_alert`, dispatch threads, the outbox worker, acknowledgement, purge, edits | Two writers hand one event to the spooler; the API changes rows behind the monitor's memory; transactions fail; the run is replaced while its threads go on; restart from the rows alone | At most one incident, and it is the one the monitor will end; no event lost; nothing told that is not so; alerts keep their distance; recovery ends the incident |
| Target locks and scheduler runs (`app/db/sqlite/scheduler_runs.py`, `scheduler.py`) | epochs, leases, in-flight checks | try, beat, fence, hand over, compare, store | a lease that expires during a slow check; a thread that outlives its run; edits and deletes meanwhile | one measurer at a time; the status fits the settings; files of a deleted target come from late writes only |
| Checks (`app/monitor/checks.py`) | pauses after failed lookups | lookup, HEAD, GET, TCP, ping, certificate; retries | every lookup may answer differently | only checked addresses are contacted; down only after every address that may be tried, or a status that ends the search; readings of one attempt |
| Maintenance window and restore (`app/utils/maintenance.py`, `app/db/sqlite/connection.py`, `app/api/settings.py`, `app/utils/backup.py`) | `_ACTIVE`, `_GENERATION`, `_INFLIGHT`, `_QUIESCED`, `_PENDING_CONNECTS`, `_OPEN_CONNECTIONS`, `_RESTORE_GUARD`; directories and `.rollback_*` | `work_section`, `connect`, `begin_/end_maintenance`, `begin_/end_quiesce`, `_quiesced_swap`, `apply_restore` | Check-then-act across threads; timeouts with the lifting of refusals on every path; a rename that fails in the middle; a kill in the middle | Nobody is inside during the swap; no work crosses it; refusals end exactly when they should; all old or all new |
| Migrations and archives (`app/utils/backup.py`, `app/db/sqlite/migrations.py`) | schema version, archives with a signature | back up, validate, migrate | crashes between steps, other releases, other keys | an accepted archive can be started with; a crash leaves a version that goes on |
| Service supervisor and sink (`app/utils/supervisor.py`, `app/services/service_alerts.py`) | per service: task, crash, hang and failure histories; a queue of 50 | start, restart with backoff, hang detection, pause, shutdown; put, drain | A cancelled service that does not end; three histories that must agree before "degraded" ends; overflow | one instance at a time; the inbox shows the truth; degraded ends |
| Inbox (`app/db/notifications.py`) | rows, read and hidden marks, incidents | deliver, group, read, hide, open, resolve, prune | grouping against reading; several writers of one incident | the bell counts what is unseen; one open row per incident |
| Event bus (`app/services/event_bus.py`, `app/api/events.py`, `live-events.js`) | backlog, buffers of subscribers | publish, deliver, resync, revoke, reload | overflow on either side, revoked sessions | who missed an event reloads; who was revoked hears nothing |
| Time series store (`app/db/tsdb.py`, `tsdb_segments.py`, `app/utils/uptime_metric.py`) | active file, segments, manifest; three resolutions | append, compact, prune, read, roll up, stitch | crash between publish and replace; late or repeated rollups; boundaries | nothing lost or read twice; an outage neither vanishes nor appears |
| Report jobs (`app/services/pdf_worker.py`, `app/db/sqlite/report_jobs.py`) | queue in memory, rows, files | request, render, complete, expire, restart | expiry against a late write | one notice per end; what is offered exists |
| Accounts and sessions (`app/api/users.py`, `app/main.py`, `bootstrap_credentials.py`, `rate_limit.py`) | accounts, tokens, login attempts, the first start's gate and file | login, change, reset, promote, delete, bootstrap | reads before writes; crashes during the first start | temporary passwords are changed; sessions end with their password; an admin remains |
| Targets, groups, recipients, settings (`app/api/targets.py`, `recipients.py`, `app/utils/settings_cache.py`) | rows, two caches, welcome tasks | create, patch, delete, group, assign, welcome | reads outside of the writing transaction; caches against commits | unique identities; no number twice; a cache never keeps what a commit has replaced |
| Signal device (`signal_cli_backend.py`, `app/api/signal.py`) | accounts, link process, sender, send times | link, confirm, cancel, register, unlink, send, test | a confirm that waits without the lock | see `SignalKept` below |
| Locations (`app/services/pop_refresh.py`, `app/db/pop_*.py`, `traceroute_geo.py`, `ip_lookup.py`, `geo_resolver.py`) | runs, imported and learned codes, reader and caches, pauses | plan, download, import, observe, review, look up, resolve | crashes, replacement under a reader, answers out of order | learned codes rest on evidence; answers are of one file; everybody is woken |
| Release check (`app/services/release_check.py`) | schedule, notices | ask, notify, reconcile | upgrades and restores between answers | notices only of newer releases |
| Retention (`app/db/retention.py`), Web interface and reports | - | deletes of old rows; rendering | - | finished rows only |

`PROJECT.json` lists every component with its status, and every hazard of the
code at the line where it bites, with the properties that cover it.

### How the parts interact

* The monitor writes an alert and its event in one transaction (`create_alert`,
  `resolve_alert`), then hands the event to the spooler itself; the notification
  worker does the same from the outbox. The spooler's `enqueue` makes the two
  idempotent.
* The supervisor replaces the run of a service that hangs; its threads cannot be
  cancelled and finish later. That is why runs have epochs (`TargetRuns`).
* Background work asks `work_section(epoch)` before every database phase; a
  restore refuses and drains sections, then connections, renames the
  directories, and ends the process. After a restart nothing but the disk is
  left. Every component that keeps something in memory therefore has a restart
  among its actions, and those whose rows are restored while work is under way
  (`Spooler`, `ReportJobs`, `ReleaseCheck`) a restore.
* Handlers of the API read first and write in a transaction later. Two that
  cross are the subject of `Access`, `Recipients`, `TargetAdmin`,
  `SettingsCache` and `SignalDevice`.

## Modules

| Module | Models | Role |
|---|---|---|
| `SpoolerMessages`, `Spooler` | the spooler, its API, time, crashes and the restore it sees | component |
| `Delivery` | what the queue promises | abstract specification of `Spooler` |
| `Alerting` | the alerts of one target, from the check to the spooler | component |
| `TargetRuns` | one target between the processes that measure it and the API | component |
| `Probes` | one measurement | component |
| `Maintenance` | window, generations, connections, restore guard, swap and rollback | component, composes `maintenance.py`, `connection.py`, the endpoint and `backup.py` |
| `AtomicRestore` | what a restore promises | abstract specification of `Maintenance` |
| `Archive` | archives, their acceptance, the schema at a start | component |
| `Supervision` | the watchdog of one service with the sink of its alerts | component |
| `EventBus` | publication, buffers, streams, pages, sessions | component |
| `ReportJobs` | rows, queue, worker, files, cleanup of the PDF jobs | component |
| `SeriesStore`, `Rollups` | the files of a series; its three resolutions | components |
| `Availability` | downtimes, availability lines, charts | algorithms against reference definitions |
| `Access`, `RateLimit` | accounts, passwords, sessions, first start; the login's window | components |
| `TargetAdmin`, `Recipients`, `SettingsCache` | what an admin configures | components |
| `SignalDevice` | the Signal account, its link process, senders and tests | component |
| `Inbox`, `ReleaseCheck` | rows for the users; release notices | components |
| `PopRefresh`, `PopCandidates` | the import of locations; learned codes | components |
| `GeoDatabase`, `GeoOnline`, `GeoResolver` | local lookups; online lookups; the choice | components |
| `MCSpooler`, `MCSpoolerScenes`, `MCAlerting`, `MCAlertingScenes`, `MCRuntime`, `MCServices`, `MCStorage`, `MCAdministration` | - | instances and compositions for TLC |
| `SpoolerProofs`, `AlertingProofs`, `MaintenanceProofs`, `StorageProofs`, `TargetRunsProofs`, `ServicesProofs`, `UpkeepProofs`, `AdministrationProofs` | - | theorems |

### Spooler

An action is one transaction of the code or one step of a worker thread between
two of them.

| Code | Model |
|---|---|
| a row of `notification_queue` | `rows[i]`: status, whether it was retried, attempts, whether it is due, its age class, whether its claim has timed out, whose stamp it carries |
| `notification_delivery_state` | `cooldown`, `gap` |
| `process_queue_sync` | `Claim`, then per item `TakeItem`, `ReadPacing`, (pacing), `RenewLease`, `Send`, `SetCooldown`, `MarkResult`, and `EndRun` |
| the refusals of `work_section(epoch)` | `PacingRefused`, `LeaseRefused`, `DropResult`, and the "deferred" outcomes |
| `enqueue`, `flush_queue`, `clear_log`, `prune_notification_queue` | `Enqueue`, `FlushQueue`, `ClearLog`, `Prune` |
| `time.time()` | `BecomesDue`, `Lapses`, `GrowsOld`, `GapElapses`, `CooldownEnds`: clocks are abstracted to the comparisons the code makes |
| backup and restore | `TakeBackup`, `BeginMaintenance`, `AbortRestore`, `SwapDatabase` |
| the process dies | `Crash`, a send under way may or may not have reached the provider |

`Claim` is all of `get_pending_items`: expiry and the guard for tests, the
choice of a batch per path, the count of an attempt for a recovered claim, the
hold of resolved behind open. `SwapDatabase` brings back any archived table with
its `nextId`, so ids are reused; that is what `wgen` against `gen` must survive.
The histories (`accepted`, `delivered`, `unconfirmed`, `burnt`) influence no
action; the view `SceneView` leaves out those that no property of a scene reads.

`Delivery` knows only phases (none, waiting, sent, failed), what the provider
accepted, and saved queues. The refinement maps pending and processing to
waiting, and archives to saved queues.

Abstracted or left out: `mark_processing` has no caller; the branch for payloads
that do not parse; the total batch limit, which the limits per path keep from
binding; the order by `next_retry_at` within a batch (any choice of the right
size); one Signal path per sending account; the two windows of the Signal test
limit are one; the admin incident about repeated SMTP hand-off failures.

### Alerting

One target with its services, one recipient and channel.

| Code | Model |
|---|---|
| `alerts`, `alert_dispatch_outbox` | `alerts`, `outbox` |
| rows of the spooler, by the event they carry | `queue`, a sequence: the order of ids is the order of delivery |
| `rt.down_since_by_service`, `rt.current_alert_id`, `_last_alert_at` | `down` (up, recent, long), `current`, `cooling` |
| `_load_target_refresh_snapshot`, `_apply_target_refresh_snapshot` | `Load`, `Apply`, later `Refresh` |
| `_run_target`, `_update_service`, `_maybe_alert` | `BeginCheck`, then one of `NothingToTell`, `OpenAlert`, `AlertFails`, `EndIncident`, `Discard` |
| the quality gate | `ConnectivityIssue` |
| `_dispatch_alert` in a thread | `threads`, `ThreadDone` |
| `list_pending_alert_dispatches`, `record_alert_dispatch_attempt` | `ListPending`, `DispatchNext`, `RecordAttempt`, `BackoffEnds` |
| acknowledge, acknowledge all, purge, edit | `AcknowledgeAlert`, `AcknowledgeAll`, `PurgeAlerts`, `EditTarget` |
| a hung monitor is replaced; the process dies | `ReplaceRun` (memory stays, threads go on), `Crash` |

The variable `faults`, chosen once from the constant `Faults`, says which
transactions may fail: the read of the alerts at start-up, the status write, the
creation, the resolution, the dispatch; whether a dispatch may find nobody to
tell, and whether a maintenance window may refuse a phase. Several properties
are conditional on it: they say what holds as long as a certain failure does not
occur, and the findings say what happens when it does.

Abstracted or left out: the certificate alert, which has a state machine of its
own; deletion of the target; `is_enabled = False` (a target without enabled
checks behaves the same); exceptions inside a check; `flush_queue` and
`clear_log`, so `queue` holds every event ever queued. The fence of the target
lock is in `TargetRuns`.

### Maintenance

| Code | Model |
|---|---|
| `work_section(epoch)` | `BeginWork` notes the generation, `EnterSection`, `LeaveSection`, `EndWork` |
| `connect` | `Connect` (counted as pending), `ConnectEnds` (failed or registered), `Close` |
| the restore endpoint | `Upload`, `Reject`, `Stage`, `BeginMaintenance`, `Drained` or `DrainTimeout`, `BeginQuiesce`, `Quiet` or `QuiesceTimeout` |
| `apply_restore` | `PrepareSwap` or `PrepareFails`; per directory `MoveAway`, `MoveIn`, `SkipDirectory`, `SwapFails`; then `RollBack` per directory and `RolledBack`, or `Replaced` |
| the process ends and starts | `Restart`, also in the middle of a swap |

What a directory holds is its version: 0 at the start, n for the n-th archive,
`Absent` if it does not exist. A rename is one step. `Quiet` includes that the
request closes its own handle. `seen` is a history: what a piece of work has met
in its sections so far.

`AtomicRestore` has four kinds of step: somebody is admitted, somebody leaves,
an archive is offered, and the data is replaced while nobody is inside. Its
fifth, `Damage`, is what the code admits to: a rollback that failed, or a
process that was killed in the middle. The refinement shows the data to be the
old one until the last rename is done.

Abstracted or left out: the connection of the staging directory; the "already
active" results of `begin_maintenance` and `begin_quiesce`, which cannot occur
under the guard; `LiftRefusals` is `end_quiesce` and `end_maintenance` in one
step, with nothing between them that looks at either; a failing
`close_connection` of the request's own handle; creation and validation of
archives (`Archive`). The database is always in the plan of a restore.

### The monitor's runs and measurements

| Code | Model |
|---|---|
| `begin_scheduler_run`, the drain of old threads, the refresh | `TargetRuns`: `StartRun`, `DrainOldThreads`, `ReadTargets`, `ApplyTargets` |
| `try_acquire_target_lock`, heartbeat, the fence | `TryLock`, `Beat`, `Fence` (which renews), `EndCheck` |
| the storage thread, the comparison of settings, the status | `HandOver`, `StartThread`, `WritePoint`; `MatchStatus`, then `StoreStatus` in a transaction of its own |
| edit, reset, delete of the target | `PatchTarget`, `ResetMetrics`, `DeleteFiles`, `CommitDelete` |
| a run that is cancelled, a process that is killed or stalls | `CancelRun`, `KillProcess`, `StallProcess`, `WakeProcess` |

The record `fuss` holds the histories: who was disturbed (stalled, or replaced
while a thread of it wrote), whether a check was storing at a delete (`late`),
whether an edit fell between comparison and write (`raced`). The properties say
that nothing else leads to an overlap, an orphan or a wrong status.

`Probes` is one measurement: every lookup chooses its answer anew, `Pin` keeps
the addresses that were checked, `TryAddress` is HEAD and then GET of one
address, `Judge` what `http_head` makes of the tries. The loop over the addresses
goes by 400 alone (`app/monitor/checks.py:647`), the verdict by the target's
success codes (656), so the answers are four kinds of status: below 400 or not,
counted as a success or not. With the default codes (200-399) the two agree; with
codes of its own (`setup.custom`) a target may be down after a status below 400
that does not count, with its other addresses untried, and a status from 400 that
would count is passed over for the answer of a later address. `DownIsTried` says
that there is no other way.

### The services

`Supervision` has the three histories (crashes, hangs, failures) as ages in
ticks, the state machine of `_supervise` and `_run_once`, and the sink with the
incident it writes; `Stranded` names the two ways in which the code leaves a
healthy service degraded, and `denied` is the history of an alert that called a
degraded service recovered. `EventBus` has publishing threads, the event loop's
deliveries, one stream per page with its buffer and its look at the session, and
the page of `live-events.js`: loaded, live, down, at the login. The request for a
stream looks its session up in a thread (`ResolveSession`) and subscribes later
(`OpenStream`) with what it found, so a session that was revoked in between gets a
stream, until its first recheck. `pages[p].behind` is what was published for the
page and not shown yet. `ReportJobs` separates what the code separates: the row,
the queue in memory, the worker's stage, the file; `copy` is a backup, which takes
the rows first and the files afterwards (`BackUpRows`, `BackUpFiles`) while the
worker and the cleanup go on. A restore puts back both, and includes the start
that follows it, as everything is refused until then; an archive without the
directory of the files leaves the files that are there.

### What is stored

`SeriesStore`: appends, readers and the backup hold the series lock, the
compaction takes it only to publish and to replace (`CompactionStep` is its next
step), a crash leaves inodes as they are. `Rollups` has the daily job as five
steps between which it may stop. `Availability` holds no protocol: its actions add
measurements, and its properties compare each algorithm with what it stands for
(a downtime is a maximal stretch of known failures, a chart has the points of its
buckets).

### Accounts and configuration

Every handler is split at its transactions, with the record of a request keeping
what it has read. `Access`: a password is a number drawn when it is set; `hash`
in a request is the one it verified. `crossed` is the history of an edit that met a
role which had changed since it was read; two admins who demote each other are
such a pair, and only then may none remain. `Recipients`: `omitted` is the
history of those whom the last list of a target left out. `SettingsCache`: the two
caches with generations, the callbacks after commit, savepoints. `TargetAdmin`:
a patch is a partial record (`OneField`, `TwoFields`), merged and normalised as
`_patch_locked` does; points are handed to a thread (`writing`), which may write
them when the target is gone, and `overtaken` is the history of the targets that were
deleted under such a thread. `SignalDevice`: signal-cli is external, a run of it answers,
fails, or is killed with its effect done or not; `_CLI_PROCESS_LOCK` makes these
runs single steps, `_state_lock` is `stateLock`.

### Data that is fetched, and notices

`PopRefresh` (loop and manual refresh against one lock, the import inside a work
section), `PopCandidates` (observation, approval, rejection, revocation; positions
are points with a distance `Km`, each compared with the first that was proposed, so
that "within 250 km" need not be transitive; `basis` is the history of what an
approval rested on),
`GeoDatabase` (each lock section a step, the file replaced at any time),
`GeoOnline` (one leader per address, a pause after a failure or a 429; the look at
the breaker and the request are two steps, `paused` is the history of what the
provider said, from the moment it said it, and `told` what of it a caller found),
`GeoResolver` (`Select` over claims as a function). `Inbox` has a row's `count`
and severity, and for each read mark what was shown then. `ReleaseCheck` has the
plan that is persisted, and what was heard as a history. `Archive` has one
database that any sequence of releases, migrations, crashes and accepted archives
may meet. `RateLimit` has hits per client and a history of the admitted ones.

### Compositions for TLC

Components that share no variable are checked in one run: the initial state
chooses the `part` (or `scene`) that moves, and the others stay where they are.
Such a run asks of each component the same question as a run of its own would;
the state spaces add up and do not multiply. A scene also restricts which of the
faults occur together. `MCServices`, `MCStorage`, `MCRuntime` and
`MCAdministration` are sums of this kind; components that do share state are
composed in a module of their own (`Maintenance`, `Supervision`, `TargetRuns`,
`ReportJobs`, `SeriesStore`).

## Runs

| Run | Instance | Shows |
|---|---|---|
| `spooler_safety` | three scenes of an open and a resolved event: one worker under crashes, broken connections and queue edits; two workers that take over each other's claims; a backup and two restores while messages are sent | order, no false "sent", duplicates only after an unrecorded send, bounded budget, final is final, refinement of `Delivery` |
| `spooler_live` | email and a Signal test with a long gap, provider limits, fairness | pacing and cooldowns are kept, every row settles |
| `alerting` | three scenes: one alert under every fault with an edit, a replaced run and a crash; two services and two alerts; two alerts through a crash | no event lost, nothing untrue told, one tracked incident, cooldown, one alert per outage, no alarm without a failure |
| `runtime` | one alert with fairness; one target between two processes; one measurement with three addresses, of which one is blocked | recovery ends incidents, the outbox drains; leases, orphans, statuses, the target is measured again; `ProbesKept` |
| `services` | one service with two faults; one page, three events, a buffer of one; two report jobs and a queue of one, or one job with backups and restores, with three faults; two restores against work and a request, with every fault | `OneInstance`, `InboxTellsTheTruth`, `NothingMissed`, `RevokedHearsNothing`, `OneNotice`, `OfferedHasFile`, the safety of the restore, the refinement of `AtomicRestore`, everything settles |
| `storage` | four days of one series; twelve ticks of rollups; three measurement cycles; two accounts with two requests and two starts | `SeriesKept`, `ReadersSeeAState`, `HistoryKept`, `AvailabilityIsTrue`, `AccessKept`, closed days leave the active file |
| `administration` | the thirteen components of what an admin keeps and what is fetched, with two or three crossing requests each | one `...Kept` property per component, grouped into six |
| `alerting_order` | expected violation | a resolved event enters the queue before its open event |
| `alerting_disabled` | expected violation | a check that is switched off while it fails raises an alarm |
| `alerting_forgotten` | expected violation | a failed read at start-up loses track of an incident |
| `services_degraded` | expected violation | a service without a heartbeat stays degraded after its failure series |
| `pop_first_import` | expected violation | the first install plans and waits, and never downloads |

Deadlock is checked in the runs of `Spooler` with fairness and of `Alerting`. In
the others the system may really stop: a process waits for the restart that the
bound no longer grants, or all requests of the instance have been served.

### Bounds, and why they are enough

* *Messages and rows.* The spooler's guarantees relate at most two rows (open
  and resolved of one alert) or one row to an item of a worker. Two rows, and
  for the restores one row id that means different messages at different times,
  let every such relation occur.
* *`MaxRetries` 0 or 1.* The budget is compared, never computed with; 1 has a
  retry within the budget and one beyond it.
* *Two archives and two restores.* A worker's item must meet another message
  under its own id; the shortest way there restores an empty queue, then another
  one. The second restore of `Maintenance` starts from the damage, the
  replacement or the timeout of the first.
* *Alerts 1 or 2.* What happens within an incident needs one, what one incident
  does to the next needs two.
* *Edits, replaced runs, crashes, restarts: one each*, two for the runs of a
  target. Each resets what the next would meet; every property that speaks of
  them relates the time before to the time after one.
* *Two directories.* A swap can then fail in the first, between the two, and in
  the second, in each case with the directory present or absent before.
* *Two processes, two requests, two connections.* Every race in the list of
  hazards is one of two; where a third could matter (a lease that is handed on
  twice, tests that cross), the theorem holds for any number.
* *A lease of two beats.* It can be renewed, be about to expire and expire; the
  theorems hold from two on, which the period of the renewals guarantees
  (`_lock_renew_period`: a third of the lock's lifetime).
* *Buffers of one or two.* The smallest that can be empty, full and overflowing.
* *`MaxGrouped` 2.* Deliveries are counted into one row; the second is the one that
  rewrites it. `MaxSvcFaults` 2: a hang and a window, or a crash after a crash; the
  theorems on the supervisor hold for any number.
* *Three positions, 40, 220 and 260 km apart.* One pair is near enough for an anchor,
  one only for a proposal, and two positions that are each near the third are not near
  each other.
* *Ages that stop at a horizon.* Beyond it every comparison of the code has the
  same outcome.

The theorems need none of these bounds.

### Fairness

* `MCSpooler!LiveSpec`: weak fairness of each worker's step (the notification
  service loops every second, and is restarted by the supervisor; every send has
  a timeout) and of the passing of time. No fairness for the API or for crashes;
  no restores, as these end in a process that waits to be restarted from outside.
  A crash that comes again and again is not excluded: the attempts it costs end
  the row.
* `Alerting`: weak fairness of the loops of the monitor and of the worker and of
  their threads. Strong fairness of `EndIncident` and of a successful dispatch: a
  transaction that is tried again in every cycle succeeds in the end, otherwise
  nothing can be promised. Weak fairness of `BeginCheck` also says that the
  quality gate does not hold the checks back for ever; while it does, nothing is
  known of the target.
* `TargetRuns`: weak fairness of the steps of a process that is awake, of waking
  up, and of the passing of beats. No fairness for edits, stalls and kills.
* `Supervision`, `EventBus`, `ReportJobs`: weak fairness of the event loop's
  tasks, of their threads and of time. The supervised function must succeed now
  and then (`ReportSuccess`), a maintenance window must end (its waits have
  deadlines), a page reloads when its timer is due.
* `SeriesStore`: weak fairness of the compaction, a daily supervised job.
* `Maintenance`: weak fairness of the restore request only. Its waits have
  deadlines, modelled as timeouts that are always possible while the wait is not
  over. Sections, requests and background work are not assumed to end:
  `RestoreEnds` holds without them.
* `PopRefresh`: weak fairness of the loop. The violation is one of an unending
  loop, not of a loop that stops.

## Proofs

`tlapm` proves, for all values of the constants that satisfy the named
assumptions of the modules:

| Module | Theorem | Result |
|---|---|---|
| `SpoolerProofs` | `AlwaysIndInv`, `TypeCorrect` | the inductive invariant, the types |
| | `SentWasAccepted` | `NoFalseSent` |
| | `ResolvedWaits` | `ResolvedBehindOpen` |
| | `FinalStays` | `FinalIsFinal` |
| | `PromiseIsKept` | `KeepsPromise`: `Spooler` implements `Delivery` |
| | `PoisonBudget` | `PoisonIsBounded`, for any number of workers |
| | `SentOnce`, `PacedAlone` | `DuplicateOnlyIfUnconfirmed`, `PacingKept`, for one worker |
| `MaintenanceProofs` | `AlwaysIndInv`, `TypeCorrect` | the inductive invariant, the types |
| | `SwapIsQuiet`, `RefusalsAreRight`, `WorkIsNeverStale` | `QuietSwap`, `RefusalsMatch`, `NoStaleWork` |
| | `RestoreIsAtomic` | `Maintenance` implements `AtomicRestore` |
| `AlertingProofs` | `AlwaysIndInv`, `TypeCorrect` | the inductive invariant, the types |
| | `NoEventIsLost`, `WhatIsToldIsTrue` | `NoEventLost`, `ToldIsTrue`, under every fault |
| | `IncidentIsTracked` | `OneIncident` |
| | `CooldownIsKept`, `OneAlertPerOutage`, `NoFalseAlarm` | `CooldownKept`, `OncePerOutage`, `AlarmIsTrue` |
| `StorageProofs` | `AccessIsKept`, `AccessIsKeptBesideTheRest` | `AccessKept`, all five parts, alone and in the composition |
| | `HistoryIsKept`, `HistoryIsKeptBesideTheRest` | `HistoryKept`, both parts, alone and in the composition |
| | `SeriesIsKept`, `ReadersSeeOneState`, `SeriesIsKeptBesideTheRest` | `SeriesKept`, all three parts, and `ReadersSeeAState`, alone and in the composition |
| `TargetRunsProofs` | `MeasuredByOne`, `OrphansAreLate` | `OneMeasurer`, `OrphansAreLateWrites` |
| | `ProbesAreKept` | `ProbesKept`, all four parts |
| | `RunsAreKept` | `RunsKept` of the composition |
| | `StatusFits` | `StatusFitsSettings` |
| `ServicesProofs` | `EndIsToldOnce`, `OfferIsServed` | `OneNotice`, `OfferedHasFile` of `ReportJobs` |
| | `PagesMissNothing`, `RevokedIsSilent` | `NothingMissed`, `RevokedHearsNothing` of `EventBus` |
| | `OneInstanceRuns`, `InboxIsTrue` | `OneInstance`, `InboxTellsTheTruth` of `Supervision` |
| | `ReportsAreKept`, `StreamsAreKept`, `SupervisionIsKept` | `ReportsKept`, `StreamsKept`, `SupervisionKept` of the composition |
| `UpkeepProofs` | `ArchivesAreKept` | `ArchivesKept`, all three parts |
| | `GeoDatabaseIsKept`, `DecisionsAreKept` | `GeoDatabaseKept`, `DecisionsKept` |
| | `OnlineIsKept` | `OnlineKept`, all four parts |
| | `RateIsKept` | `RateKept`, all three parts |
| | `RefreshIsKept`, `CandidatesAreKept` | `RefreshKept`, `CandidatesKept`, all their parts |
| | `ReleaseIsKept`, `InboxIsKept` | `ReleaseKept`, `InboxKept`, all their parts |
| `AdministrationProofs` | `DeviceIsKept` | `SignalKept`, all five parts |
| | `RecipientsAreKept` | `RecipientsKept`, all four parts |
| | `SettingsAreKept` | `SettingsKept`, all four parts |
| | `TargetsAreKept` | `TargetsKept`, all four parts |
| | `ChannelsAreKept`, `PeopleAreKept` | `ChannelsKept`, `PeopleKept` of the composition |
| | `ConfigurationIsKept`, `UpkeepIsKept` | `ConfigurationKept`, `UpkeepKept` of the composition |
| | `LocationsAreKept`, `NoticesAreKept` | `LocationsKept`, `NoticesKept` of the composition |

The assumptions on the constants are the `ASSUME`s of the modules: sets are
disjoint from the values that stand for "none", bounds are natural numbers, a
lease has at least two beats, the set of requests is finite where one counts
them, the set of readers where a new file must differ from what they hold. Conditions
that are not always true are part of the properties and of
nothing else: `OneIncident` and the three properties of alarms speak of the
failures in `faults`, `SessionsAreCurrent` of late tokens, `AnAdminRemains` of
crossed edits, `OneMeasurer` of disturbed processes, `OfferedHasFile` of
restores, `SenderHasAccount` of strays. `SentOnce` and `PacedAlone` alone have a
hypothesis of their own, that there is one worker: it is the deployment the
program supports. Both are false otherwise: `release` does not look at the stamp of
a claim, and the gap between two sends is read in one transaction and recorded in
another.

### The inductive invariants

*Spooler.* `NoFalseSent` is about rows, but a row becomes "sent" because of what
a worker holds. So the invariant says of every worker whose generation is the
current one that the row with the id of each of its items has the item's message
or is gone, and that a worker about to record a success has seen it accepted. A
restore may bring back any archive, so what holds of the table must hold of
every archive too (`TableConsistent`, `TableOrdered`). That ids are not reused
within a generation is the bound `it.id < nextId`. The order of the two events
is inductive once every claimed row is known not to be held back: a new row gets
a higher id than all others. The proof has one lemma for what each change of a
row preserves (`Evolves`), and one per action for the rest.

*The spooler's histories.* `PoisonIsBounded` counts lost sends (`burnt`). What
is conserved is their number together with the workers that still hold an item
of the row (`Holders`), also those whose claim another has taken over: it stays
within what the row's books entitle it to (`Budget`: one more than the attempts
while it is claimed). Each of the ways to lose a row moves one holder to `burnt`
or books an attempt first. `SentOnce` rests on `OnceInv`: a row without an
unaccounted send is delivered at most once, and from the delivery to the record
it is the worker's (`Delivering`). `PacedAlone` rests on `Paced`: a worker that is
on its way to a send on a paced path has found the path free, as long as its
database is the current one.

*The promise of the spooler.* A row maps to what `Delivery` knows of its message:
nothing, waiting, sent, or given up. Claims, renewals, pacing and releases are
stutters. The steps that are not need `IndInv`: a success is recorded only of the
row whose message was accepted, and what is given up was waiting. A restore brings
back a whole queue that was saved.

*Maintenance.* The window and the registry are two counters that are checked
under a lock and waited for without one. `WaitsHold` says that what a wait has
established stays true because the refusal is still in force
(`RefusalsFollow`), which in turn is because the one restore that could lift it
holds the guard (`GuardMatches`). `SwapConsistent` says of every directory how
it can be recovered: not touched, moved away, or replaced; its part about the
rollback says that the directories already rolled back hold the original unless
a step failed. `WorkConsistent` says that work whose generation is current has
seen only the data in use. It needs that no worker is admitted while `stay`
holds, since a successful restore counts a generation, and a failed rollback
does not.

*The refinement* maps the data to the directories before the restore for as long
as the swap or the rollback runs, and to the directories otherwise. All renames
are then stutters, `Replaced` is the replacement, `RolledBack` is a stutter, as
the rollback has brought back the original, or a damage.

*Alerting.* `NoEventLost` needs only that the event the worker is about to
record as done was dispatched (`EventsKept`). `ToldIsTrue` needs to know the
same of every event that may still reach the spooler (`Known`: recorded, in a
thread, in a batch, queued): a known resolved event is never of an alert that is
active, tracked, or read at start-up and not yet applied. A new alert is none of
them since its id is new. `Tracked`, `Cooled`, `Held` and `TimersEnabled` are
implications whose hypotheses are the conditions of the properties, so that one
invariant serves all instances.

*Access.* A request writes later than it reads, so the invariant says of every
request what of its reading still holds when it writes (`Fits`). Passwords are
drawn in order (`DrawnInOrder`): a new one is then in nobody's hands, and no
request can hold its hash. `FirstStart` ties the gate, the file and the initial
password to the step the process has reached, which a crash may cut off anywhere.

*Rollups.* The invariant is about each sample that is still to be kept. It is in a
series, and whatever shows it shows it down if it was (`OnShow`). A roll-up starts
behind its newest point, so `NotRevisited` says that nothing is missing before it: a
sample that lies before the newest 5-minute point is rolled up, one before the newest
hourly point is in an hour, and one that has lost its 5-minute point has no raw sample
left in that bucket, or a later run would make the point again from a part of it.
`OnTime` says what the run under way and the last complete one have covered, in
numbers: the end of what they rolled up (`FineEnd`, `CoarseEnd`). Pruning is then safe
because its cutoff is not behind that end, by a comparison of a day with a bucket
(`RolledUpTo`), which also holds when a retention is shorter than the caps or is edited
during the run.

*The files of a series.* A compaction reads, plans and stages without the lock, so
what it has in hand is compared with what the files have become (`CompactionFits`).
While the active file is still the one it scanned (`Matches`), the scanned prefix is
of closed days and every line of it is in the plan of some period (`PlansFit`); the
plan of a period that is not published holds all its segment does, so the rename
loses nothing, and what is published is on disk but for what was damaged since. What
is staged for the new active file is exactly what follows the prefix (`RestFits`).
`FileFits` is what makes a crash between the renames harmless: a line that is in a
segment too lies before the first line of the current day, where the next scan takes
it away. Nothing planned is a line that was deleted, and a deletion ends the
compaction, from which `DeletedStaysDeleted` follows. Without a crash and late
measurements what is compressed precedes what is active (`Precede`), so that a chunk
goes behind its segment, and segments and active file opened together are in order.
A query that reads on has the lines of the file it opened, as long as that file is
the active one (`ReaderFits`): a new inode is none that anybody still knows, for
which the set of readers must be finite.

*Runs of a target.* `Steady` says that a check that nobody disturbed measures
only while it holds the lease with at least one beat to spare, and that its
thread is the only one; two holders of one lease are the same process. The
renewal is due before the lease can expire, which is where two beats are needed.
`Compared` and `LateWrites` say of a check in its last step what the two
histories say of one that has done it.

*One measurement.* `InTurn` says that what a probe has tried are the first of its
candidates, one by one, and that none of them answered well while there are others to
try. So the last try decides whether the tries ended early, and if it did not, all
candidates were tried; the status that is judged is the one of the last try if that
had one (`LastAnswerIsJudged`). `ReadNow` says that each service that is measured has
a reading of this attempt or its turn is still to come, which is why a service whose
probe is refused must get a reading too. An unverified second read of a certificate
only ever follows a first one (`RereadsCertificates`), and never says "left".

*Report jobs and streams.* `Told` is of a single row and holds of the rows in the
backup too. `FileWaits` carries the file from the write to the completion, past a
cleanup that may run between them. `Young` says that a file is not older than its
job, so the sweep of orphans takes none that a backup under way counts on, and
`CopyServes` that a copied row has its file among those still to be copied, or in
the copy. `Owed` is what an open stream owes its page:
the missed events are on the way, or a resync is, or one will be when the loop
gets to it. `Overseen` bounds the age of a session's last look by the time of its
revocation, or of the start of a stream that was let in before the revocation,
from which `RevokedHearsNothing` follows.

*The supervisor and the inbox.* What the inbox shows is what the alerts on the way
make of it, and a crash rewrites an open incident or does not. So the invariant is
about the set of what may be shown in the end (`Outcomes`: the ends of the `Paths`
an incident may take through the queue): nothing but "none" for a service that runs
and is settled, never "none" for one that backs off, nothing but "error" for one
that is degraded (`Fits`, `Tells`). A new alert extends every path, a written one
takes the first step of each. That a degraded service is never below the limit of
hangs without being told so (`Sound`) decides when a stable run may say "recovered".
While no alert is lost, the one that is being written heads the queue (`SinkFits`).

*The Signal device.* `WaitedFor` says of the process a confirm waits for that it
was started, and has ended once the wait is over: `ClearLink` then cannot forget a
process that runs. `TestsHeld` counts those that have passed the cooldown as
queued already. `SlotsHeld` bounds all given times by the last one. The rest of
`SignalInv` is the property.

*Recipients.* What a handler has read is compared again when it writes, so the
uniqueness of numbers needs nothing of it. `TaskFits` says that the recipients of
a welcome are those it has still to look at and those it has queued or skipped.
The number of tasks is bounded by counting every request that will start one as a
task already (`Promised`): the limit is compared while a list is read, and each
request promises one.

*Settings.* A lookup publishes later than it fetched, so `LookupFits` says of the
value on its way: as long as the generation has not moved, it is as new as what the
cache was told of. `TxFits` says of a transaction that what it has written is newer
than what is stored and that each key will be told by its callback, also after a
rollback to a savepoint (`PointFits`: a savepoint remembers how many callbacks were
registered, and those of the writes it kept are among them), or is not cached at
all. That only one connection has written (`OneWriter`) orders the values.

*Targets.* The properties compare what is connected to (`Endpoints`), the code
compares identities. `SameEndsSameIds` is what relates them: rows that are
consistent and connect to the same have the same identity, for every default port,
so a twin would have been refused. The rest is that every handler leaves a row a
row (`TargetRows`), that the signature is that of the row, and that files go before
rows.

*Archives.* Every database the program has in hand is laid out as its version says
(`Layouted`): the one in use, a copy, the one in an archive, a staged one. So an
archive never has what a manifest that passed does not say, and `Extract` cannot
refuse what `Upload` let in; and a table that was rebuilt is not among what is
pending. A process that does not run has no backup and no upload, which is why a
start with other keys cannot turn a refused archive into a valid one.

*The location database.* Readers are numbered as they are swapped in, and their
versions do not go back (`ReadersFit`). `SearchFits` says of a lookup what it has in
its hands: who loads holds the lock and a version that is not older than any reader;
who asks holds the other lock and a reader that nobody can discard; and no reader it
uses is older than the file at its begin, unless the file could not be read.

*The choice of a location.* The invariant says that the decision is `Select` of what
was heard, and that the providers were asked only where no local source had
evidence. Only a local claim can be evidence (`EvidenceIsLocal`), so what comes from
outside is never the best where there is a local one, and never a precise rival. That
a best claim exists needs that claims can be compared, which is where an ambiguous
`CASE` in an earlier form of `EvidenceRank` came to light.

*The online providers.* `CallFits` bounds the time of a leader: it is over before
its answer expires. So an answer that is stored is good for everyone who called
before, and those who called earlier have seen the cache without an entry.
`LeadersFit` is `OneLeader`. What is promised of a pause needs that the breaker is
the last pause told, or was reset since.

*The import of locations.* Whoever downloads or imports holds the lock and has the
newest snapshot (`CallerHolds`), so a completed run at the end of the list is the one
that is shown, also in the backup (`TableFits`). `WaitIsRecorded` is what spaces the
downloads: what the loop must still wait for can be read from the runs, by the age of
the last completed one or the backoff after the failures since, so a plan made by a
process that remembers nothing waits as long.

*Learned codes.* One learned row is in use, that of the approved candidate
(`LearnedIsApproved`). The candidate's position is that of one of its observations, and
as long as no conflict was counted every observation agrees with it
(`ObservationsAreRecorded`); an approval then has these as its basis, and the position
that all of them and the learned row are near (`Supported`).

*Release notices.* `PlanFits` ties the plan to what was heard, also in the backup that
a restore brings back; `AnswerFits` says of an answer on its way the same, unless a
restore came in between. What is saved is never due later than what is planned.

*The inbox's rows.* Keys are of rows below the next id, and the row of an open incident
has its time and its audience, so a recovery finds it. `BellFits`: the number behind
the bell has not fallen below what the page saw last, and is above it after a new row,
unless the watcher took something away. The number is the size of the set of what the
user has not heard (`Unheard`), not a sum over the rows, which is what makes it
comparable before and after a step.

*The login limit.* `Remembered` says that what was admitted and still counts is what
the table ends with, also where a sweep or a full table has dropped the client. The
times of a client do not go back, so the first that stays is the least one that has
not expired (`LeastNumber`), and `ToldFits` ties the wait to the request that must
leave the window. What a sweep leaves has been seen since it (the last part of
`RateInv`).

*Compositions.* `ReportsAreKept`, `StreamsAreKept`, `SupervisionIsKept`,
`ChannelsAreKept`, `PeopleAreKept`, `ConfigurationIsKept`, `UpkeepIsKept`,
`LocationsAreKept`, `NoticesAreKept`, `RunsAreKept`, `AccessIsKeptBesideTheRest`,
`HistoryIsKeptBesideTheRest` and `SeriesIsKeptBesideTheRest` state the properties the
runs check. A move of another component leaves the variables of the proved one, and
a move of its own is a step of its own specification.

Some definitions are written for the proofs, without a change of what they
describe. What is taken off the front of a sequence is a `SubSeq` from the first
that stays, as in the loop of the code, and what is taken out of the middle a
`RemoveAt`: a filter over a sequence is a recursive operator. `SeriesStore` says
without recursion what a filter, a merge or a walk through the segments gives: the
members of a finite set in their order (`Sorted`), where the k-th is the one with k - 1
before it. `SortedFacts` proves of any total order that this is a sequence of all of
them, each once and in order, by counting and without an induction: the ranks are
an injection of the set into 1 .. n, and so they reach every number. That a least
number exists comes from the library's theorem that `<` is well-founded on the
naturals, applied to a set; so an induction over numbers is within reach, one over a
recursive definition is not.

### Only model-checked

* Liveness (`EveryRowSettles`, `RecoveryEnds`, `OutboxDrains`, `KeepsMeasuring`,
  `ServicesSettle`, `ReportsEnd`, `ClosedDaysAreCompressed`): TLAPS does not reason about
  fairness and ENABLED.
* `AvailabilityIsTrue`: what a fold over the measurements computes needs an induction
  over data.

The findings are counterexamples.

## Findings

1. *Resolved before open* (`alerting_order`). The monitor hands a resolved event
   to the spooler at once (`app/monitor/scheduler.py:1877`), while the open
   event may wait in the outbox for its retry. The spooler holds a resolved
   message only behind an open one that is already queued.
   `docs/features/notifications.md:47` promises that "back online" never arrives
   before "offline".
2. *An alarm for a check that is off* (`alerting_disabled`). `_maybe_alert`
   reads the timers of all services (`app/monitor/scheduler.py:1719`), a check
   cycle updates those of the enabled ones. A timer that runs when its check is
   switched off is never cleared.
3. *A forgotten incident* (`alerting_forgotten`). A failed read of the open
   alerts at start-up is taken for "none" (`app/monitor/scheduler.py:957`); the
   runtime is created without them, and no later refresh looks again.
4. *Degraded without end* (`services_degraded`). A failure series ends when the
   service completes an iteration and stays clean for a minute
   (`docs/features/notifications.md:117`), but the wait of a service without a
   heartbeat that has settled has no timeout (`app/utils/supervisor.py:361`):
   nobody looks, and its incident stays open.
5. *A first install that never downloads* (`pop_first_import`). While no import
   has succeeded every plan is a jitter from now (`app/services/pop_refresh.py:959`),
   and after each wait the loop plans again (`app/main.py:304`).

Behaviour met while modelling that no document rules out, and that no run
claims to be wrong:

* *Spooler.* A claim that timed out is recovered after the guard for tests and
  the expiry have run, so a test, or a message past its validity, can go out once
  more after a crash. `release` does not look at the stamp of the claim: a worker
  that lost its claim can give the row back under the worker that is sending it.
* *Alerts.* `_last_alert_at` is only in memory: the cooldown does not survive a
  restart. It is also never started when the run is replaced, or the dispatch
  refused for maintenance, between the alert's row and its dispatch. When the
  write of the status fails, or the target is edited, the timers can be one
  measurement behind the event history. An alert that was acknowledged is not
  active any more; after a restart within the same outage another one is opened.
* *Restore.* A process killed in the middle of a swap leaves some directories new
  or absent, and the originals in `.rollback_*`, which start-up never looks at
  (`Damage` in `AtomicRestore`). Staging directories and temporary uploads left by
  a kill are never swept (`app/api/settings.py:858`).
* *Runs.* The comparison of settings and the write of the status are two
  transactions; an edit between them is overwritten once, and repaired by the next
  check.
* *Supervision.* A hang during maintenance can leave a service degraded although
  it is well (`Stranded`): `_wait_until_ended` degrades it, the window swallows the
  crash, and nothing is left to recover from. If the service had not settled yet,
  its first stable run even reports "recovered" and leaves the state degraded
  (`app/utils/supervisor.py:429`), so the inbox closes an incident that the health
  endpoint still shows (`denied`).
* *Reports.* A `.pdf.tmp` left by a crash is never swept.
* *Streams.* A stream is opened with the session that was looked up before the
  event loop got to it (`app/api/events.py:171`): a session revoked in between is
  served until the first recheck.
* *Accounts.* Two admins who demote each other pass both checks
  (`app/api/users.py:373`); a login that verified the old password before a change
  issues its token after it; the gate of the first start is not closed again after
  a restart.
* *Recipients and targets.* Two crossing edits of one list welcome twice
  (`app/api/targets.py:709`), and the cap on tasks is looked at before the task is
  added. An emptied list of TCP ports becomes port 80, which the docstring of
  `normalize_tcp_ports` calls "no change"; SLA limits are not validated after a
  merge.
* *Signal.* Unlinking and unregistering clear the configured sender, whatever it is
  by then; a self-test stores a sender it looked up before an unlink.
* *Locations.* During a refresh by hand the loop gets "already running" and plans
  again at once; a failed one makes the loop retry though its data are fresh. An
  online failure that was under way when a 429 came overwrites the longer pause by
  the shorter (`app/services/ip_lookup.py:116`), a late success ends it. A pause
  counts from the call and not from the 429 (`app/services/ip_lookup.py:250`), so it
  ends up to a request's duration early, and a caller that had looked before the 429
  was recorded still sends (`app/services/ip_lookup.py:269`). After
  `MAX_OBSERVATIONS` a code's conflicting observations are not counted, and a
  conflict after the approval does not revoke it. Observations and the approved
  position are each compared with the first proposal (`app/db/pop_candidates.py:111`,
  233), so two of them may be 500 km apart without a conflict.
* *Inbox and releases.* Retention deletes the row of an incident that is still
  open after 180 days. "Read" goes by the id of a row, not by what was shown. A
  downgrade does not announce the superseded release again.
* *Probes.* A name that only the container's resolver does not know counts as a
  blocked host and is not tried again. A HEAD with an error followed by a GET that
  times out is judged by the HEAD. With success codes of its own a target is down
  after the first status below 400 that is not one of them, whatever its other
  addresses would answer.
* *Rate limit.* A window that is made shorter and longer again has forgotten what
  the longer one would count.

## Not modelled

Rendering (PDF, maps, the pages), e-mail texts, the byte formats of the store,
cryptography and hashing, configuration files, the content of the migrations, MTR
runs, the connectivity status (it has no caller) and SMTP. Checks of single values
(intervals, limits, lengths) are inputs of the models, as far as they are accepted.
The expiry of sessions and caches by time is a step that may always occur. What is
left out within a modelled component is named in its section above and in the
notes of `PROJECT.json`.

## Plan

1. A composition of `Alerting` and `Spooler`: the hold behind open together with
   the outbox, with `flush_queue` and `clear_log` between them.
2. The certificate alert, as a second state machine beside `Alerting`.
