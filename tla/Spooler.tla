------------------------------ MODULE Spooler ------------------------------
(***************************************************************************)
(* The notification spooler: the table notification_queue, the workers     *)
(* that drain it (claim, pace, send, finalize), the API calls that edit    *)
(* it, the maintenance window of a restore, crashes and the passing of     *)
(* time.                                                                   *)
(*                                                                         *)
(* app/services/notifications/spooler.py, delivery_policy.py and the part  *)
(* of app/utils/maintenance.py and app/api/settings.py that a worker sees. *)
(*                                                                         *)
(* Each action is one transaction of the code, or one step of a worker     *)
(* thread between two of them.  Clock readings are abstracted to the       *)
(* comparisons the code makes with them: whether a row is due, whether its *)
(* claim has timed out, how old it is, and whether the gap after the last  *)
(* send on its path has elapsed.                                           *)
(***************************************************************************)
EXTENDS Integers, FiniteSets, SpoolerMessages

CONSTANTS
    MaxRows,        \* bound: how many rows are ever inserted
    Workers,        \* worker threads, one per process on the database
    NoWorker,       \* the stamp of a row no claim or renewal wrote last
    MaxRetries,     \* MAX_RETRIES, the budget of counted failures
    LongPaths,      \* paths whose send gap exceeds MAX_PACING_WAIT_SECONDS
    BatchLimit,     \* [Paths -> Nat]: batch_limit of the path's policy
    Failures,       \* bound: the failure classes that sends meet
    WindowLimit,    \* SIGNAL_TEST_HOURLY_LIMIT / _RECIPIENT_LIMIT, one window
    PendingLimit,   \* SIGNAL_TEST_PENDING_LIMIT
    MaxBackups,     \* bound: how many backup archives are kept
    MaxRestores     \* bound: how many restores succeed

Ids == 1..MaxRows

(* classify_failure; "limited" is also a send function that returned False.*)
FailureKinds == {"transient", "uncertain", "rate_limited", "limited", "permanent"}

ASSUME SpoolerAssumption ==
    /\ MaxRows \in Nat
    /\ NoWorker \notin Workers
    /\ MaxRetries \in Nat
    /\ LongPaths \subseteq Paths
    /\ BatchLimit \in [Paths -> Nat]
    /\ Failures \subseteq FailureKinds
    /\ WindowLimit \in Nat
    /\ PendingLimit \in Nat
    /\ MaxBackups \in Nat
    /\ MaxRestores \in Nat

VARIABLES
    rows,        \* notification_queue, by id; status "none" is no row
    nextId,      \* the AUTOINCREMENT sequence of the table
    cooldown,    \* paths whose cooldown_until lies in the future
    gap,         \* per path: time left since last_attempt_at
    pc,          \* where each worker is in process_queue_sync
    todo,        \* its claimed items that are still ahead
    cur,         \* its current item
    result,      \* the outcome of the current item
    cooled,      \* the paths that hit a provider limit in this run
    wgen,        \* the data generation the run started with
    maint,       \* the maintenance window of a restore
    gen,         \* _GENERATION
    archives,    \* the databases in the backup archives
    accepted,    \* history: messages the provider has accepted
    delivered,   \* history: acceptances of the row's message, at most 2
    unconfirmed, \* history: rows with a send whose outcome was not recorded
    burnt        \* history: sends of the row lost to a crash or a counted failure

db == <<rows, nextId, cooldown, gap>>
workers == <<pc, todo, cur, result, cooled, wgen>>
window == <<maint, gen, archives>>
history == <<accepted, delivered, unconfirmed, burnt>>
vars == <<db, workers, window, history>>

-----------------------------------------------------------------------------
(* Types *)

Statuses == {"none", "pending", "processing", "sent", "failed"}
Ages == {"new", "valid", "expired"}   \* rate-limit window, validity, older
Gaps == {"ready", "near", "far"}      \* far: longer than MAX_PACING_WAIT

Row == [msg : Msgs \cup {NoMsg}, status : Statuses, retried : BOOLEAN,
        attempts : 0..(MaxRetries + 1), due : BOOLEAN, age : Ages,
        lapsed : BOOLEAN, holder : Workers \cup {NoWorker}]

Item == [id : Ids, msg : Msgs]
NoItem == [id |-> 0, msg |-> NoMsg]

Outcomes == {"sent", "deferred"} \cup FailureKinds

PCs == {"idle", "batch", "reserve", "pacing", "reserved", "sending",
        "finalize", "mark"}

Tables == [rows : [Ids -> Row], nextId : 1..(MaxRows + 1),
           cooldown : SUBSET Paths, gap : [Paths -> Gaps]]

TypeOK ==
    /\ rows \in [Ids -> Row]
    /\ nextId \in 1..(MaxRows + 1)
    /\ cooldown \subseteq Paths
    /\ gap \in [Paths -> Gaps]
    /\ pc \in [Workers -> PCs]
    /\ todo \in [Workers -> SUBSET Item]
    /\ cur \in [Workers -> Item \cup {NoItem}]
    /\ result \in [Workers -> Outcomes \cup {"none"}]
    /\ cooled \in [Workers -> SUBSET Paths]
    /\ wgen \in [Workers -> 0..MaxRestores]
    /\ maint \in {"open", "draining", "replaced"}
    /\ gen \in 0..MaxRestores
    /\ archives \subseteq Tables
    /\ accepted \subseteq Msgs
    /\ delivered \in [Ids -> 0..2]
    /\ unconfirmed \subseteq Ids
    /\ burnt \in [Ids -> 0..(MaxRetries + 2)]

-----------------------------------------------------------------------------
(* Rows *)

BlankRow == [msg |-> NoMsg, status |-> "none", retried |-> FALSE,
             attempts |-> 0, due |-> FALSE, age |-> "valid",
             lapsed |-> FALSE, holder |-> NoWorker]

(* The state enqueue inserts; due is its "immediate" argument.  Only the   *)
(* rate limit of Signal tests looks at an age below the message validity.  *)
NewRow(m, immediate) ==
    [BlankRow EXCEPT !.msg = m, !.status = "pending", !.due = immediate,
                     !.age = IF IsLimited(m) THEN "new" ELSE "valid"]

IsOpen(r) == r.status \in {"pending", "processing"}
IsFinal(r) == r.status \in {"sent", "failed"}

Finish(r, s) == [r EXCEPT !.status = s, !.due = FALSE, !.lapsed = FALSE,
                          !.holder = NoWorker]

GiveBack(r) == [r EXCEPT !.status = "pending", !.lapsed = FALSE,
                         !.holder = NoWorker]

Claimed(r, w) == [r EXCEPT !.status = "processing", !.lapsed = FALSE,
                           !.holder = w]

(* An attempt in the books: any retry, and n of the budget.                *)
Spend(r, n) == [r EXCEPT !.retried = TRUE, !.attempts = @ + n]

(* A failed attempt: a transient one costs no budget, but ends with the    *)
(* validity of the message; any other one ends after MAX_RETRIES.          *)
Retried(r, transient) ==
    LET counted == Spend(r, IF transient THEN 0 ELSE 1)
    IN  IF r.age = "expired" \/ counted.attempts > MaxRetries
        THEN Finish(counted, "failed")
        ELSE GiveBack([counted EXCEPT !.due = FALSE])

(* Mutant: a recovery is claimed again without looking at the budget.      *)
RecoveredForever(r, w) == Claimed(Spend(r, 1), w)

(* Mutant: a recovery counts a retry, but spends no budget.                *)
RecoveredUncounted(r, w) == Claimed(Spend(r, 0), w)

(* A claim that timed out is counted as one attempt, then claimed again.   *)
Recovered(r, w) ==
    LET counted == Spend(r, 1)
    IN  IF counted.attempts > MaxRetries
        THEN Finish(counted, "failed") ELSE Claimed(counted, w)

Capped(n, top) == IF n < top THEN n + 1 ELSE n

-----------------------------------------------------------------------------
(* Enqueue *)

(* The rows that make enqueue return an existing id instead of inserting:  *)
(* the same event of the alert in any status, the same open Signal test.   *)
Duplicates(m) ==
    {i \in Ids : /\ rows[i].status # "none"
                 /\ \/ /\ SameAlert(rows[i].msg, m)
                       /\ EventOf[rows[i].msg] = EventOf[m]
                    \/ /\ IsLimited(m)
                       /\ rows[i].msg = m
                       /\ IsOpen(rows[i])}

LimitedRows == {i \in Ids : rows[i].status # "none" /\ IsLimited(rows[i].msg)}

LimitReached ==
    \/ Cardinality({i \in LimitedRows : rows[i].age = "new"}) >= WindowLimit
    \/ Cardinality({i \in LimitedRows : IsOpen(rows[i])}) >= PendingLimit

(* Connections are refused from the swap until the process restarts.       *)
DbReachable == maint # "replaced"

Enqueue(m, immediate) ==
    /\ DbReachable
    /\ nextId \in Ids
    /\ Duplicates(m) = {}
    /\ IsLimited(m) => ~LimitReached
    /\ rows' = [rows EXCEPT ![nextId] = NewRow(m, immediate)]
    /\ nextId' = nextId + 1
    /\ UNCHANGED <<cooldown, gap, workers, window, history>>

-----------------------------------------------------------------------------
(* A worker: claim, then pace, send and finalize item by item.             *)

(* Mutant: the phases of the worker run without a section.                 *)
AdmittedAlways(w) == TRUE

(* work_section(generation): refused while a maintenance window is active, *)
(* and for work that began before a restore.                               *)
Admitted(w) == maint = "open" /\ wgen[w] = gen

(* The housekeeping at the head of get_pending_items.                      *)
Settled(r) ==
    IF r.status = "pending" /\ ((IsTest(r.msg) /\ r.retried) \/ r.age = "expired")
    THEN Finish(r, "failed") ELSE r

BlockedPaths == cooldown \cup {p \in LongPaths : gap[p] = "far"}

(* Mutant: an open event that is being sent holds nothing back.            *)
HeldBehindPending(table, i) ==
    /\ IsAlert(table[i].msg) /\ EventOf[table[i].msg] = "resolved"
    /\ \E o \in Ids : /\ o < i /\ table[o].status = "pending"
                      /\ SameAlert(table[o].msg, table[i].msg)
                      /\ EventOf[table[o].msg] = "open"

(* _HELD_BEHIND_OPEN_SQL: a resolved event waits for an older open one.    *)
HeldBehindOpen(table, i) ==
    /\ IsAlert(table[i].msg) /\ EventOf[table[i].msg] = "resolved"
    /\ \E o \in Ids : /\ o < i
                      /\ IsOpen(table[o])
                      /\ SameAlert(table[o].msg, table[i].msg)
                      /\ EventOf[table[o].msg] = "open"

(* Mutant: claims that timed out are not recovered.                        *)
CandidatesPending(table) ==
    {i \in Ids : /\ table[i].status = "pending" /\ table[i].due
                 /\ PathOf[table[i].msg] \notin BlockedPaths
                 /\ ~HeldBehindOpen(table, i)}

Candidates(table) ==
    {i \in Ids : /\ \/ table[i].status = "pending" /\ table[i].due
                    \/ table[i].status = "processing" /\ table[i].lapsed
                 /\ PathOf[table[i].msg] \notin BlockedPaths
                 /\ ~HeldBehindOpen(table, i)}

OnPath(S, table, p) == {i \in S : PathOf[table[i].msg] = p}

(* batch_limit rows of each path; next_retry_at, which ranks them, is      *)
(* abstracted, so any choice of that size.                                 *)
IsBatch(S, table) ==
    \A p \in Paths :
        LET all == OnPath(Candidates(table), table, p)
        IN  Cardinality(OnPath(S, table, p)) =
                IF Cardinality(all) < BatchLimit[p]
                THEN Cardinality(all) ELSE BatchLimit[p]

AfterClaim(table, S, w) ==
    [i \in Ids |-> IF i \notin S THEN table[i]
                   ELSE IF table[i].status = "processing"
                        THEN Recovered(table[i], w) ELSE Claimed(table[i], w)]

Claim(w) ==
    LET table == [i \in Ids |-> Settled(rows[i])]
    IN  /\ pc[w] = "idle"
        /\ maint = "open"
        /\ \E S \in SUBSET Candidates(table) :
              /\ IsBatch(S, table)
              /\ rows' = AfterClaim(table, S, w)
              /\ todo' = [todo EXCEPT ![w] =
                    {[id |-> i, msg |-> rows[i].msg] : i \in
                        {j \in S : AfterClaim(table, S, w)[j].status = "processing"}}]
        /\ pc' = [pc EXCEPT ![w] = "batch"]
        /\ wgen' = [wgen EXCEPT ![w] = gen]
        /\ UNCHANGED <<nextId, cooldown, gap, cur, result, cooled, window, history>>

EndRun(w) ==
    /\ pc[w] = "batch"
    /\ todo[w] = {}
    /\ pc' = [pc EXCEPT ![w] = "idle"]
    /\ cooled' = [cooled EXCEPT ![w] = {}]
    /\ UNCHANGED <<db, todo, cur, result, wgen, window, history>>

PathOfCur(w) == PathOf[cur[w].msg]

(* The loop goes on to the next item of the batch.                         *)
ItemDone(w) ==
    /\ pc' = [pc EXCEPT ![w] = "batch"]
    /\ cur' = [cur EXCEPT ![w] = NoItem]
    /\ result' = [result EXCEPT ![w] = "none"]

(* The next item of the run: deferred when its path was limited in this    *)
(* run or when may_send says no, otherwise up for pacing.                  *)
TakeItem(w) ==
    /\ pc[w] = "batch"
    /\ \E it \in todo[w] :
          /\ cur' = [cur EXCEPT ![w] = it]
          /\ todo' = [todo EXCEPT ![w] = @ \ {it}]
          /\ IF PathOf[it.msg] \in cooled[w] \/ ~Admitted(w)
             THEN /\ pc' = [pc EXCEPT ![w] = "finalize"]
                  /\ result' = [result EXCEPT ![w] = "deferred"]
             ELSE /\ pc' = [pc EXCEPT ![w] = "reserve"]
                  /\ UNCHANGED result
    /\ UNCHANGED <<db, cooled, wgen, window, history>>

Defer(w) ==
    /\ pc' = [pc EXCEPT ![w] = "finalize"]
    /\ result' = [result EXCEPT ![w] = "deferred"]
    /\ UNCHANGED <<db, todo, cur, cooled, wgen, window, history>>

(* Mutant: the gap after the last attempt is not waited for.               *)
ReadPacingOnly(w) ==
    /\ pc[w] = "reserve"
    /\ Admitted(w)
    /\ PathOfCur(w) \notin cooldown
    /\ pc' = [pc EXCEPT ![w] = "reserved"]
    /\ UNCHANGED <<db, todo, cur, result, cooled, wgen, window, history>>

(* _reserve_send, first section: read how long the path still has to rest. *)
ReadPacing(w) ==
    /\ pc[w] = "reserve"
    /\ Admitted(w)
    /\ PathOfCur(w) \notin cooldown
    /\ pc' = [pc EXCEPT ![w] =
                IF gap[PathOfCur(w)] = "ready" THEN "reserved" ELSE "pacing"]
    /\ UNCHANGED <<db, todo, cur, result, cooled, wgen, window, history>>

PacingRefused(w) ==
    /\ pc[w] = "reserve"
    /\ ~Admitted(w) \/ PathOfCur(w) \in cooldown
    /\ Defer(w)

(* _reserve_send, second section: renew the claim while the row still      *)
(* carries this worker's stamp and record the attempt; else the claim is   *)
(* lost.  A worker asleep in its pacing wait has not seen this attempt:    *)
(* its sleep may end before the new gap does.                              *)
RenewLease(w) ==
    /\ pc[w] = "reserved"
    /\ Admitted(w)
    /\ LET i == cur[w].id
           p == PathOfCur(w)
           held == rows[i].status = "processing" /\ rows[i].holder = w
       IN  IF held
           THEN /\ rows' = [rows EXCEPT ![i].lapsed = FALSE]
                /\ gap' = [gap EXCEPT ![p] = IF p \in LongPaths THEN "far" ELSE "near"]
                /\ pc' = [v \in Workers |->
                            IF v = w THEN "sending"
                            ELSE IF pc[v] = "pacing" /\ PathOfCur(v) = p
                                 THEN "reserved" ELSE pc[v]]
                /\ UNCHANGED <<cur, result>>
           ELSE /\ ItemDone(w)
                /\ UNCHANGED <<rows, gap>>
    /\ UNCHANGED <<nextId, cooldown, todo, cooled, wgen, window, history>>

LeaseRefused(w) ==
    /\ pc[w] = "reserved"
    /\ ~Admitted(w)
    /\ Defer(w)

(* _send_item: the blocking network call.  The provider takes the message, *)
(* refuses it, or the connection breaks and nobody knows; the email sender *)
(* reads its settings in a section first and may be refused there.         *)
Send(w) ==
    LET i == cur[w].id
        m == cur[w].msg
        took == /\ accepted' = accepted \cup {m}
                /\ delivered' = [delivered EXCEPT ![i] = Capped(@, 2)]
    IN  /\ pc[w] = "sending"
        /\ \E outcome \in {"sent", "deferred"} \cup Failures :
              /\ outcome = "deferred" => ~Admitted(w) /\ PathOf[m] \notin SignalPaths
              /\ \/ outcome \in {"sent", "uncertain"} /\ took
                 \/ outcome # "sent" /\ UNCHANGED <<accepted, delivered>>
              /\ result' = [result EXCEPT ![w] = outcome]
              /\ unconfirmed' = IF outcome = "uncertain"
                                THEN unconfirmed \cup {i} ELSE unconfirmed
              /\ cooled' = [cooled EXCEPT ![w] = IF outcome = "rate_limited"
                                                 THEN @ \cup {PathOf[m]} ELSE @]
        /\ pc' = [pc EXCEPT ![w] = "finalize"]
        /\ UNCHANGED <<db, todo, cur, wgen, window, burnt>>

(* _finalize, first transaction: a provider limit pauses the whole path.   *)
SetCooldown(w) ==
    /\ pc[w] = "finalize"
    /\ Admitted(w)
    /\ result[w] = "rate_limited"
    /\ cooldown' = cooldown \cup {PathOfCur(w)}
    /\ pc' = [pc EXCEPT ![w] = "mark"]
    /\ UNCHANGED <<rows, nextId, gap, todo, cur, result, cooled, wgen, window, history>>

(* Mutants: an unconfirmed send counts as sent; a sent row is only marked  *)
(* from pending; a late failure is applied to a row that is already final. *)
AppliedOptimistic(r, m, outcome) ==
    IF ~IsOpen(r) THEN r
    ELSE IF outcome \in {"sent", "uncertain"} THEN Finish(r, "sent")
    ELSE IF outcome = "deferred" THEN GiveBack(r) ELSE Finish(r, "failed")

AppliedFromPending(r, m, outcome) ==
    IF ~IsOpen(r) \/ (outcome = "sent" /\ r.status # "pending") THEN r
    ELSE IF outcome = "sent" THEN Finish(r, "sent")
    ELSE IF outcome = "deferred" THEN GiveBack(r) ELSE Finish(r, "failed")

AppliedLate(r, m, outcome) ==
    CASE outcome = "sent" /\ IsOpen(r) -> Finish(r, "sent")
      [] outcome \in {"transient", "uncertain"} /\ r.status # "none" -> Retried(r, TRUE)
      [] OTHER -> r

(* _apply_result: the row after the outcome of its send.                   *)
Applied(r, m, outcome) ==
    CASE outcome = "sent" /\ IsOpen(r) -> Finish(r, "sent")
      [] outcome = "deferred" /\ r.status = "processing" -> GiveBack(r)
      [] outcome = "permanent" /\ IsOpen(r) -> Finish(r, "failed")
      [] /\ outcome \notin {"sent", "deferred", "permanent"}
         /\ IsOpen(r) ->
            IF IsTest(m) THEN Finish(r, "failed")
            ELSE Retried(r, outcome # "limited")
      [] OTHER -> r

MarkResult(w) ==
    LET i == cur[w].id
    IN  /\ IF result[w] = "rate_limited" THEN pc[w] = "mark"
           ELSE pc[w] = "finalize" /\ Admitted(w)
        /\ rows' = [rows EXCEPT ![i] = Applied(@, cur[w].msg, result[w])]
        /\ ItemDone(w)
        /\ burnt' = IF result[w] = "limited"
                    THEN [burnt EXCEPT ![i] = Capped(@, MaxRetries + 2)] ELSE burnt
        /\ UNCHANGED <<nextId, cooldown, gap, todo, cooled, wgen, window,
                       accepted, delivered, unconfirmed>>

(* The maintenance window outlasted FINALIZE_WAIT_SECONDS, or the database *)
(* was replaced: the outcome is dropped.                                   *)
DropResult(w) ==
    /\ pc[w] = "finalize"
    /\ ~Admitted(w)
    /\ ItemDone(w)
    /\ unconfirmed' = IF result[w] = "deferred"
                      THEN unconfirmed ELSE unconfirmed \cup {cur[w].id}
    /\ UNCHANGED <<db, todo, cooled, wgen, window, accepted, delivered, burnt>>

WorkerStep(w) ==
    \/ Claim(w) \/ EndRun(w) \/ TakeItem(w)
    \/ ReadPacing(w) \/ PacingRefused(w) \/ RenewLease(w) \/ LeaseRefused(w)
    \/ Send(w) \/ SetCooldown(w) \/ MarkResult(w) \/ DropResult(w)

-----------------------------------------------------------------------------
(* The queue API and the retention                                         *)

Delete(status) ==
    rows' = [i \in Ids |-> IF rows[i].status \in status THEN BlankRow ELSE rows[i]]

Edit(status) ==
    /\ DbReachable
    /\ \E i \in Ids : rows[i].status \in status
    /\ Delete(status)
    /\ UNCHANGED <<nextId, cooldown, gap, workers, window, history>>

FlushQueue == Edit({"pending", "failed"})
ClearLog == Edit({"sent"})

(* prune_notification_queue deletes the finished rows past the retention.  *)
Prune(i) ==
    /\ DbReachable
    /\ IsFinal(rows[i])
    /\ rows' = [rows EXCEPT ![i] = BlankRow]
    /\ UNCHANGED <<nextId, cooldown, gap, workers, window, history>>

-----------------------------------------------------------------------------
(* Time                                                                    *)

BecomesDue(i) ==
    /\ rows[i].status = "pending" /\ ~rows[i].due
    /\ rows' = [rows EXCEPT ![i].due = TRUE]
    /\ UNCHANGED <<nextId, cooldown, gap, workers, window, history>>

(* A claim outlives PROCESSING_TIMEOUT_SECONDS.  If its worker is at that  *)
(* moment sending or finalizing, another worker may send the row again.    *)
Lapses(i) ==
    /\ rows[i].status = "processing" /\ ~rows[i].lapsed
    /\ rows' = [rows EXCEPT ![i].lapsed = TRUE]
    /\ unconfirmed' =
          IF \E w \in Workers : /\ pc[w] \in {"sending", "finalize", "mark"}
                                /\ cur[w].id = i
                                /\ rows[i].holder = w
          THEN unconfirmed \cup {i} ELSE unconfirmed
    /\ UNCHANGED <<nextId, cooldown, gap, workers, window,
                   accepted, delivered, burnt>>

(* MESSAGE_VALIDITY_SECONDS and the windows of the test limit.  The age of *)
(* a finished row matters to those windows only.                           *)
GrowsOld(i) ==
    /\ \/ rows[i].age = "new" /\ rows' = [rows EXCEPT ![i].age = "valid"]
       \/ /\ rows[i].age = "valid" /\ IsOpen(rows[i])
          /\ rows' = [rows EXCEPT ![i].age = "expired"]
    /\ UNCHANGED <<nextId, cooldown, gap, workers, window, history>>

(* The gap of a path elapses: the workers that slept for it go on.         *)
GapElapses(p) ==
    /\ gap[p] # "ready"
    /\ gap' = [gap EXCEPT ![p] = IF @ = "far" THEN "near" ELSE "ready"]
    /\ pc' = [w \in Workers |->
                IF gap[p] = "near" /\ pc[w] = "pacing" /\ PathOfCur(w) = p
                THEN "reserved" ELSE pc[w]]
    /\ UNCHANGED <<rows, nextId, cooldown, todo, cur, result, cooled, wgen,
                   window, history>>

CooldownEnds(p) ==
    /\ p \in cooldown
    /\ cooldown' = cooldown \ {p}
    /\ UNCHANGED <<rows, nextId, gap, workers, window, history>>

Time ==
    \/ \E i \in Ids : BecomesDue(i) \/ Lapses(i) \/ GrowsOld(i)
    \/ \E p \in Paths : GapElapses(p) \/ CooldownEnds(p)

-----------------------------------------------------------------------------
(* Backup and restore                                                      *)

(* A backup runs in a work section and copies the whole database.          *)
TakeBackup ==
    /\ maint = "open"
    /\ Cardinality(archives) < MaxBackups
    /\ archives' = archives \cup
          {[rows |-> rows, nextId |-> nextId, cooldown |-> cooldown, gap |-> gap]}
    /\ UNCHANGED <<db, workers, maint, gen, history>>

(* begin_maintenance refuses new sections and waits for the running ones.  *)
BeginMaintenance ==
    /\ maint = "open"
    /\ gen < MaxRestores
    /\ \A w \in Workers : pc[w] # "mark"
    /\ maint' = "draining"
    /\ UNCHANGED <<db, workers, gen, archives, history>>

(* Quiescing failed or the swap was rolled back.                           *)
AbortRestore ==
    /\ maint = "draining"
    /\ maint' = "open"
    /\ UNCHANGED <<db, workers, gen, archives, history>>

(* The swap succeeded: new generation, and the refusals stay until the     *)
(* process restarts.  Nothing is known of the restored rows' earlier sends.*)
SwapDatabase ==
    /\ maint = "draining"
    /\ \E table \in archives :
          /\ rows' = table.rows
          /\ nextId' = table.nextId
          /\ cooldown' = table.cooldown
          /\ gap' = table.gap
    /\ maint' = "replaced"
    /\ gen' = gen + 1
    /\ unconfirmed' = Ids
    /\ UNCHANGED <<workers, archives, accepted, delivered, burnt>>

Restore == TakeBackup \/ BeginMaintenance \/ AbortRestore \/ SwapDatabase

-----------------------------------------------------------------------------
(* The process of a worker dies and starts again.  A send that was under   *)
(* way may or may not have reached the provider.                           *)
Crash(w) ==
    LET i == cur[w].id
        inSend == pc[w] = "sending"
        lost == pc[w] \in {"finalize", "mark"} /\ result[w] # "deferred"
    IN  /\ pc[w] # "idle" \/ maint # "open"
        /\ pc' = [pc EXCEPT ![w] = "idle"]
        /\ todo' = [todo EXCEPT ![w] = {}]
        /\ cooled' = [cooled EXCEPT ![w] = {}]
        /\ cur' = [cur EXCEPT ![w] = NoItem]
        /\ result' = [result EXCEPT ![w] = "none"]
        /\ wgen' = [wgen EXCEPT ![w] = gen]
        /\ maint' = "open"
        /\ \/ /\ inSend
              /\ accepted' = accepted \cup {cur[w].msg}
              /\ delivered' = [delivered EXCEPT ![i] = Capped(@, 2)]
           \/ UNCHANGED <<accepted, delivered>>
        /\ unconfirmed' = IF inSend \/ lost THEN unconfirmed \cup {i} ELSE unconfirmed
        /\ burnt' = IF inSend THEN [burnt EXCEPT ![i] = Capped(@, MaxRetries + 2)]
                    ELSE burnt
        /\ UNCHANGED <<db, gen, archives>>

-----------------------------------------------------------------------------
Init ==
    /\ rows = [i \in Ids |-> BlankRow]
    /\ nextId = 1
    /\ cooldown = {}
    /\ gap = [p \in Paths |-> "ready"]
    /\ pc = [w \in Workers |-> "idle"]
    /\ todo = [w \in Workers |-> {}]
    /\ cur = [w \in Workers |-> NoItem]
    /\ result = [w \in Workers |-> "none"]
    /\ cooled = [w \in Workers |-> {}]
    /\ wgen = [w \in Workers |-> 0]
    /\ maint = "open"
    /\ gen = 0
    /\ archives = {}
    /\ accepted = {}
    /\ delivered = [i \in Ids |-> 0]
    /\ unconfirmed = {}
    /\ burnt = [i \in Ids |-> 0]

Next ==
    \/ \E m \in Msgs, immediate \in BOOLEAN : Enqueue(m, immediate)
    \/ \E w \in Workers : WorkerStep(w) \/ Crash(w)
    \/ FlushQueue \/ ClearLog \/ \E i \in Ids : Prune(i)
    \/ Time
    \/ Restore

Spec == Init /\ [][Next]_vars

(* The notification worker loops once a second and its steps end: sends    *)
(* have timeouts.  Time passes.  Nothing else is sure to happen.           *)
Fairness ==
    /\ \A w \in Workers : WF_vars(WorkerStep(w))
    /\ \A i \in Ids : /\ WF_vars(BecomesDue(i))
                     /\ WF_vars(Lapses(i))
                     /\ WF_vars(GrowsOld(i))
    /\ \A p \in Paths : WF_vars(GapElapses(p)) /\ WF_vars(CooldownEnds(p))

FairSpec == Spec /\ Fairness

-----------------------------------------------------------------------------
(* Safety                                                                  *)

(* A row shown as "Accepted by server" is of a message the provider really *)
(* accepted: no outcome is ever written to the row of another message, not *)
(* even when a restore reuses the ids of rows a worker holds.              *)
NoFalseSent ==
    \A i \in Ids : rows[i].status = "sent" => rows[i].msg \in accepted

(* "back online" never goes out while the older "offline" of the same      *)
(* alert, recipient and channel is still unsent, also across batches,      *)
(* retries and recoveries.                                                 *)
ResolvedBehindOpen ==
    \A i, o \in Ids :
        ~ /\ o < i
          /\ rows[i].status = "processing" /\ IsOpen(rows[o])
          /\ SameAlert(rows[i].msg, rows[o].msg)
          /\ EventOf[rows[i].msg] = "resolved" /\ EventOf[rows[o].msg] = "open"

(* The provider gets the message of a row twice only when the outcome of a *)
(* send was never recorded: a broken connection, a crash or a dropped      *)
(* result.  Everything else is exactly once.                               *)
DuplicateOnlyIfUnconfirmed ==
    \A i \in Ids : delivered[i] > 1 => i \in unconfirmed

(* A message whose send kills the process, or keeps failing for a reason   *)
(* that waiting does not cure, is sent at most MAX_RETRIES + 1 times, as   *)
(* long as no restore brings the attempts of an older database back.       *)
PoisonIsBounded ==
    gen = 0 => \A i \in Ids : burnt[i] <= MaxRetries + 1

(* sent and failed are final: no late outcome, retry or recovery brings    *)
(* such a row back; only a restore replaces it as a whole.                 *)
FinalIsFinal ==
    [][\A i \in Ids : IsFinal(rows[i]) /\ gen' = gen =>
          \/ rows'[i].status \in {rows[i].status, "none"}]_vars

(* Sends on one path keep their distance and respect its cooldown, also    *)
(* across runs and process restarts.                                       *)
PacingKept ==
    [][\A w \in Workers : pc[w] # "sending" /\ pc'[w] = "sending" =>
          gap[PathOfCur(w)] = "ready" /\ PathOfCur(w) \notin cooldown]_vars

(* Nothing stays queued for ever: every message is sent, fails or is       *)
(* deleted, whatever crashes, limits and cooldowns come in between.        *)
EveryRowSettles == \A i \in Ids : IsOpen(rows[i]) ~> ~IsOpen(rows[i])

-----------------------------------------------------------------------------
(* The inductive invariant behind the safety properties.  Its parts about  *)
(* the table hold for the live database and for every backup of it.        *)

Busy == PCs \ {"idle", "batch"}
ItemsOf(w) == todo[w] \cup ({cur[w]} \cap Item)

(* Whoever is about to mark a row as sent has seen the provider accept its *)
(* message, and as long as the worker may write at all, the row with the   *)
(* id of an item is that item's or gone.                                   *)
WorkersConsistent ==
    \A w \in Workers :
        /\ pc[w] \in Busy <=> cur[w] \in Item
        /\ pc[w] = "mark" => result[w] = "rate_limited"
        /\ pc[w] \in {"finalize", "mark"} /\ result[w] = "sent" =>
              cur[w].msg \in accepted
        /\ wgen[w] <= gen
        /\ wgen[w] = gen => \A it \in ItemsOf(w) :
              /\ it.id < nextId
              /\ rows[it.id].status # "none" => rows[it.id].msg = it.msg

TableConsistent(table, next, seen) ==
    \A i \in Ids :
        /\ table[i].status = "none" <=> table[i].msg = NoMsg
        /\ i >= next => table[i].status = "none"
        /\ IsOpen(table[i]) => table[i].attempts <= MaxRetries
        /\ table[i].status = "sent" => table[i].msg \in seen

(* No row that is being sent would have to wait for an older one.          *)
TableOrdered(table) ==
    \A i \in Ids : table[i].status = "processing" => ~HeldBehindOpen(table, i)

IndInv ==
    /\ TypeOK
    /\ maint = "draining" => gen < MaxRestores
    /\ WorkersConsistent
    /\ TableConsistent(rows, nextId, accepted)
    /\ TableOrdered(rows)
    /\ \A table \in archives : /\ TableConsistent(table.rows, table.nextId, accepted)
                               /\ TableOrdered(table.rows)

-----------------------------------------------------------------------------
(* The spooler keeps the promise of Delivery.                              *)

PhaseOf(r) == IF IsOpen(r) THEN "waiting" ELSE r.status
QueueOf(table) == [phase |-> [i \in Ids |-> PhaseOf(table[i])],
                   message |-> [i \in Ids |-> table[i].msg]]

Promise == INSTANCE Delivery WITH
    phase <- QueueOf(rows).phase,
    message <- QueueOf(rows).message,
    saved <- {QueueOf(table.rows) : table \in archives}

(* Every step of the spooler is a step of Delivery or leaves it unchanged. *)
KeepsPromise == Promise!Spec
=============================================================================
