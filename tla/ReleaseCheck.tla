----------------------------- MODULE ReleaseCheck -----------------------------
(***************************************************************************)
(* The daily question for a newer release (app/services/release_check.py): *)
(* the persisted schedule, the conditional request, and the notices in the *)
(* inbox, next to upgrades, restarts and restores of a backup.             *)
(***************************************************************************)
EXTENDS Integers, FiniteSets, FiniteSetsExt

CONSTANTS
    Versions,      \* release versions, in their order
    Daily,         \* CHECK_INTERVAL_SECONDS
    RetryBase, RetryMost,   \* BACKOFF_BASE_SECONDS, BACKOFF_MAX_SECONDS
    RetryAfters,   \* waits that the server asks for
    LastDay,       \* bound on the clock
    MaxEvents,     \* bound on publications, restarts, restores
    NoEtag

ASSUME ReleaseAssumption ==
    /\ Versions \subseteq Nat \ {0} /\ IsFiniteSet(Versions) /\ RetryAfters \subseteq Nat
    /\ \A releases \in SUBSET Versions : NoEtag # releases
    /\ {Daily, RetryBase, RetryMost} \subseteq Nat \ {0} /\ {LastDay, MaxEvents} \subseteq Nat

VARIABLES
    installed,   \* get_version()
    published,   \* stable releases that the server lists
    plan,        \* setting release_check_state
    notes,       \* the notice of every release: "none", "open" or "superseded"
    saved,       \* a backup: plan and notices
    check,       \* the loop: step, generation it began in, etag and answer
    restores,    \* generation of maintenance windows
    today,
    reconciled,  \* history: the notices were looked through since the last start or restore
    pruned,      \* history: releases whose notice retention has deleted since the last answer
    heard,       \* history: the latest release that the last stored answer was about
    events       \* bound

releaseVars == <<installed, published, plan, notes, saved, check, restores, today, reconciled, pruned, heard, events>>

NewPlan == [tag |-> 0, etag |-> NoEtag, failures |-> 0, due |-> 0]
Started == [pc |-> "start", gen |-> 0, etag |-> NoEtag, answer |-> "none", tag |-> 0, seen |-> NoEtag,
            wait |-> 0, now |-> 0, about |-> 0]

ReleaseInit ==
    /\ installed \in Versions /\ published \in SUBSET Versions
    /\ plan = NewPlan /\ notes = [v \in Versions |-> "none"]
    /\ saved = [plan |-> plan, notes |-> notes, pruned |-> {}, heard |-> 0]
    /\ check = Started /\ restores = 0 /\ today = 0
    /\ reconciled = FALSE /\ pruned = {} /\ heard = 0 /\ events = 0

(* latest_stable_tag: the highest, in whatever order they appeared.        *)
LatestStable(releases) == IF releases = {} THEN 0 ELSE Max(releases)

(* reconcile_obsolete: what is installed by now needs no notice.           *)
Reconciled(ns) == [v \in Versions |-> IF ns[v] = "open" /\ v <= installed THEN "superseded" ELSE ns[v]]

(* notify_release: one notice for each release, ever.                      *)
Notified(ns, tag) ==
    IF tag > installed /\ ns[tag] = "none" THEN [ns EXCEPT ![tag] = "open"] ELSE ns

RetryDelay(failures) ==
    LET wait == RetryBase * 2 ^ (failures - 1) IN IF wait < RetryMost THEN wait ELSE RetryMost

(* plan_delay: the stored time is the only authority.                      *)
PlanDelay == IF plan.due > today THEN plan.due - today ELSE 0

(* maintenance.work_section: only in the generation that it began in.      *)
WriteAllowed(gen) == gen = restores

---------------------------------------------------------------------------
(* _reconcile_startup, which a window may refuse.                          *)
ReconcileStartup ==
    /\ check.pc = "start" /\ check' = [check EXCEPT !.pc = "wait"]
    /\ \/ notes' = Reconciled(notes) /\ reconciled' = TRUE
       \/ UNCHANGED <<notes, reconciled>>
    /\ UNCHANGED <<installed, published, plan, saved, restores, today, pruned, heard, events>>

(* The wait, and the state that the request is made from.                  *)
BeginCheck ==
    /\ check.pc = "wait" /\ PlanDelay = 0
    /\ check' = [check EXCEPT !.pc = "fetch", !.gen = restores, !.etag = plan.etag, !.now = today]
    /\ UNCHANGED <<installed, published, plan, notes, saved, restores, today, reconciled, pruned, heard, events>>

(* fetch_latest                                                            *)
FetchLatest ==
    /\ check.pc = "fetch"
    /\ \/ check' = [check EXCEPT !.pc = "write", !.answer = "not_modified",
                        !.about = LatestStable(published)] /\ check.etag = published
       \/ check' = [check EXCEPT !.pc = "write", !.seen = published, !.tag = LatestStable(published),
                        !.about = LatestStable(published),
                        !.answer = IF published = {} THEN "none" ELSE "release"]
          /\ check.etag # published
       \/ check' = [check EXCEPT !.pc = "write", !.answer = "error"]
       \/ \E wait \in RetryAfters : check' = [check EXCEPT !.pc = "write", !.answer = "rate_limited", !.wait = wait]
    /\ UNCHANGED <<installed, published, plan, notes, saved, restores, today, reconciled, pruned, heard, events>>

Answered(p) ==
    LET tag == IF check.answer = "not_modified" THEN p.tag ELSE check.tag IN
    [tag |-> tag, etag |-> IF check.answer = "not_modified" THEN p.etag ELSE check.seen,
     failures |-> 0, due |-> check.now + Daily]

AskFailed(p) ==
    LET wait == RetryDelay(p.failures + 1) IN
    [p EXCEPT !.failures = @ + 1, !.due = check.now + (IF check.wait > wait THEN check.wait ELSE wait)]

(* apply_result, in one transaction; a refused write is tried anew later.  *)
ApplyResult ==
    /\ check.pc = "write" /\ check' = [Started EXCEPT !.pc = "wait"]
    /\ IF ~WriteAllowed(check.gen) THEN UNCHANGED <<plan, notes, reconciled, pruned, heard>>
       ELSE IF check.answer \in {"release", "none", "not_modified"}
       THEN /\ plan' = Answered(plan)
            /\ notes' = Reconciled(Notified(notes, plan'.tag)) /\ reconciled' = TRUE
            /\ pruned' = {} /\ heard' = check.about
       ELSE plan' = AskFailed(plan) /\ UNCHANGED <<notes, reconciled, pruned, heard>>
    /\ UNCHANGED <<installed, published, saved, restores, today, events>>

---------------------------------------------------------------------------
Counted == events < MaxEvents /\ events' = events + 1

Publish(v) ==
    /\ Counted /\ v \notin published /\ published' = published \union {v}
    /\ UNCHANGED <<installed, plan, notes, saved, check, restores, today, reconciled, pruned, heard>>

(* The process ends in any step and starts again, perhaps as a newer one.  *)
RestartAs(v) ==
    /\ Counted /\ v >= installed /\ installed' = v
    /\ check' = Started /\ reconciled' = FALSE
    /\ UNCHANGED <<published, plan, notes, saved, restores, today, pruned, heard>>

Backup ==
    /\ Counted /\ saved' = [plan |-> plan, notes |-> notes, pruned |-> pruned, heard |-> heard]
    /\ UNCHANGED <<installed, published, plan, notes, check, restores, today, reconciled, pruned, heard>>

(* A restore: the data are those of the backup, work of before is refused. *)
RestoreSaved ==
    /\ Counted /\ restores' = restores + 1
    /\ plan' = saved.plan /\ notes' = saved.notes /\ pruned' = saved.pruned /\ heard' = saved.heard /\ reconciled' = FALSE
    /\ UNCHANGED <<installed, published, saved, check, today>>

(* Retention deletes an old notice.                                        *)
PruneNote(v) ==
    /\ Counted /\ notes[v] # "none" /\ notes' = [notes EXCEPT ![v] = "none"]
    /\ pruned' = pruned \union {v}
    /\ UNCHANGED <<installed, published, plan, saved, check, restores, today, reconciled, heard>>

DayPasses ==
    /\ today < LastDay /\ today' = today + 1
    /\ UNCHANGED <<installed, published, plan, notes, saved, check, restores, reconciled, pruned, heard, events>>

ReleaseNext ==
    \/ ReconcileStartup \/ BeginCheck \/ FetchLatest \/ ApplyResult
    \/ \E v \in Versions : Publish(v) \/ RestartAs(v) \/ PruneNote(v)
    \/ Backup \/ RestoreSaved \/ DayPasses

ReleaseSpec == ReleaseInit /\ [][ReleaseNext]_releaseVars

---------------------------------------------------------------------------
(* The stored release is the latest of the last answer that was stored,    *)
(* also when that answer was "not modified".                               *)
PlanIsWhatWasSaid ==
    /\ plan.tag = heard
    /\ plan.etag # NoEtag => plan.tag = LatestStable(plan.etag)

(* The stored release is announced while it is newer than the installed    *)
(* one; what is installed is not, once the notices are looked through.     *)
NoticesFit ==
    /\ reconciled => \A v \in Versions : notes[v] = "open" => v > installed
    /\ plan.tag > installed /\ plan.tag \notin pruned => notes[plan.tag] = "open"

(* No request is made before the time that is stored, not even after a     *)
(* restart or a restore.                                                   *)
AsksWhenDue == check.pc = "fetch" => plan.due <= today

ReleaseKept == PlanIsWhatWasSaid /\ NoticesFit /\ AsksWhenDue
=============================================================================
