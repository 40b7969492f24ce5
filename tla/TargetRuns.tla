------------------------------ MODULE TargetRuns ------------------------------
(***************************************************************************)
(* One target between the schedulers that measure it and the API that      *)
(* edits, resets and deletes it (app/monitor/scheduler.py,                 *)
(* app/db/sqlite/scheduler_runs.py, app/api/targets.py).  A check holds a  *)
(* lease that a heartbeat renews, fences its results with it, compares     *)
(* the settings it measured with the stored ones, and writes the points in *)
(* a thread that outlives the run.                                         *)
(***************************************************************************)
EXTENDS Integers, FiniteSets

CONSTANTS
    Procs,          \* processes with a scheduler on the same database
    LeaseBeats,     \* beats a lease lives without renewal
    Points,         \* metric points of one check
    MaxRuns, MaxPatches, MaxRunFaults     \* bounds on runs, edits, faults

(* A lease outlives a missed beat: it is renewed three times in its life.  *)
ASSUME RunAssumption ==
    /\ Procs # {} /\ LeaseBeats \in Nat /\ LeaseBeats >= 2
    /\ {Points, MaxRuns} \subseteq Nat \ {0} /\ {MaxPatches, MaxRunFaults} \subseteq Nat

VARIABLES
    stored,     \* the target stored: does it exist, version of its settings
    files,      \* points on disk (capped), and which delete is under way
    status,     \* the settings version of the cached status, 0: none
    lease,      \* the target lock: owner, epoch of its run, beats left
    runs,       \* per process: its run, epoch, settings known, settings read
    checks,     \* per process: the check of the target
    writers,    \* per process: the thread that stores points
    fuss        \* histories and bounds

runVars == <<stored, files, status, lease, runs, checks, writers, fuss>>

TargetVersions == 1 .. MaxPatches + 1
NoLease == [owner |-> CHOOSE p \in Procs : TRUE, epoch |-> 0, beats |-> 0]
NoCheck == [pc |-> "none", version |-> 0, lost |-> FALSE, beaten |-> FALSE]
NoThread == [pc |-> "none", epoch |-> 0, left |-> 0, lost |-> FALSE]

RunInit ==
    /\ stored = [exists |-> TRUE, version |-> 1]
    /\ files = [count |-> 0, deleting |-> FALSE]
    /\ status = 0
    /\ lease = NoLease
    /\ runs = [p \in Procs |-> [pc |-> "off", epoch |-> 0, known |-> 0, read |-> -1, paused |-> FALSE]]
    /\ checks = [p \in Procs |-> NoCheck]
    /\ writers = [p \in Procs |-> NoThread]
    /\ fuss = [edits |-> 0, troubles |-> 0, disturbed |-> {}, late |-> FALSE, raced |-> FALSE]

Awake(p) == runs[p].pc = "on" /\ ~runs[p].paused
Owns(p) == lease.owner = p /\ lease.epoch = runs[p].epoch /\ lease.beats > 0
Matches(version) == stored.exists /\ stored.version = version
Leased(p) == [owner |-> p, epoch |-> runs[p].epoch, beats |-> LeaseBeats]
Measuring(p) == checks[p].pc \notin {"none", "ending"} \/ writers[p].pc \in {"queued", "writing"}
Settle(p) == [fuss EXCEPT !.disturbed = IF Measuring(p)' THEN @ ELSE @ \ {p}]
At(p, pc) == checks' = [checks EXCEPT ![p].pc = pc]

(* run: a new epoch; writers of the run before get 30 seconds to end.      *)
StartRun(p) ==
    /\ runs[p].pc = "off" /\ runs[p].epoch < MaxRuns
    /\ runs' = [runs EXCEPT ![p].pc = "draining", ![p].epoch = @ + 1, ![p].read = -1]
    /\ UNCHANGED <<stored, files, status, lease, checks, writers, fuss>>

DrainOldThreads(p) ==
    /\ runs[p].pc = "draining" /\ writers[p].pc # "writing"
    /\ runs' = [runs EXCEPT ![p].pc = "on"]
    /\ UNCHANGED <<stored, files, status, lease, checks, writers, fuss>>

DrainTimesOut(p) ==
    /\ runs[p].pc = "draining" /\ writers[p].pc = "writing"
    /\ fuss.troubles < MaxRunFaults
    /\ runs' = [runs EXCEPT ![p].pc = "on"]
    /\ fuss' = [fuss EXCEPT !.troubles = @ + 1, !.disturbed = @ \union {p}]
    /\ UNCHANGED <<stored, files, status, lease, checks, writers>>

(* _refresh_targets_async: the rows are read in a thread and applied       *)
(* later; a target that is no longer listed is forgotten.                  *)
ReadTargets(p) ==
    /\ Awake(p) /\ runs[p].read = -1 /\ checks[p].pc = "none"
    /\ ~Matches(runs[p].known)
    /\ runs' = [runs EXCEPT ![p].read = IF stored.exists THEN stored.version ELSE 0]
    /\ runs' # runs
    /\ UNCHANGED <<stored, files, status, lease, checks, writers, fuss>>

ApplyTargets(p) ==
    /\ Awake(p) /\ runs[p].read # -1
    /\ runs' = [runs EXCEPT ![p].known = runs[p].read, ![p].read = -1]
    /\ UNCHANGED <<stored, files, status, lease, checks, writers, fuss>>

---------------------------------------------------------------------------
(* Mutant: an expired lease still counts.                                  *)
LockUnlessLeased(p) ==
    /\ Awake(p) /\ runs[p].read = -1 /\ checks[p].pc = "none"
    /\ runs[p].known # 0 /\ Matches(runs[p].known)
    /\ lease.epoch = 0 \/ Owns(p)
    /\ lease' = Leased(p)
    /\ checks' = [checks EXCEPT ![p] = [pc |-> "checking", version |-> runs[p].known,
                                        lost |-> FALSE, beaten |-> TRUE]]
    /\ UNCHANGED <<stored, files, status, runs, writers, fuss>>

(* _run_target.  try_lock_target: an expired lease counts for nothing, a   *)
(* lease of the same run is taken again.                                   *)
TryLock(p) ==
    /\ Awake(p) /\ runs[p].read = -1 /\ checks[p].pc = "none"
    /\ runs[p].known # 0 /\ Matches(runs[p].known)
    /\ lease.beats = 0 \/ Owns(p)
    /\ lease' = Leased(p)
    /\ checks' = [checks EXCEPT ![p] = [pc |-> "checking", version |-> runs[p].known,
                                        lost |-> FALSE, beaten |-> TRUE]]
    /\ UNCHANGED <<stored, files, status, runs, writers, fuss>>

(* _keep_target_lock: renew, or tell the check that the lease is gone.     *)
Renewed(p) == IF Owns(p) THEN Leased(p) ELSE lease

Beat(p) ==
    /\ Awake(p) /\ checks[p].pc # "none" /\ ~checks[p].beaten /\ ~checks[p].lost
    /\ lease' = Renewed(p)
    /\ checks' = [checks EXCEPT ![p].beaten = TRUE, ![p].lost = ~Owns(p)]
    /\ writers' = IF checks[p].pc = "storing" /\ ~Owns(p)
                  THEN [writers EXCEPT ![p].lost = TRUE] ELSE writers
    /\ UNCHANGED <<stored, files, status, runs, fuss>>

(* A beat passes for everybody who is not stuck.                           *)
BeatPasses ==
    /\ lease.beats > 0
    /\ \A p \in Procs : Awake(p) /\ checks[p].pc # "none" => checks[p].beaten \/ checks[p].lost
    /\ lease' = [lease EXCEPT !.beats = @ - 1]
    /\ checks' = [p \in Procs |-> [checks[p] EXCEPT !.beaten = FALSE]]
    /\ UNCHANGED <<stored, files, status, runs, writers, fuss>>

(* The fence: a check whose lease is gone, or whose target is, stores      *)
(* nothing.                                                                *)
Fence(p) ==
    LET good == runs[p].known # 0 /\ ~checks[p].lost /\ Owns(p) IN
    /\ Awake(p) /\ checks[p].pc = "checking"
    /\ lease' = IF good THEN Leased(p) ELSE lease
    /\ At(p, IF good THEN "fenced" ELSE "ending")
    /\ UNCHANGED <<stored, files, status, runs, writers>> /\ fuss' = Settle(p)

(* Mutant: the settings are not compared before the points are written.    *)
HandOverBlindly(p) ==
    /\ Awake(p) /\ checks[p].pc = "fenced"
    /\ At(p, "storing")
    /\ writers' = [writers EXCEPT ![p] = [pc |-> "queued", epoch |-> runs[p].epoch,
                                          left |-> Points, lost |-> checks[p].lost]]
    /\ UNCHANGED <<stored, files, status, lease, runs>> /\ fuss' = Settle(p)

(* The settings are compared again and the points go to a thread.          *)
HandOver(p) ==
    /\ Awake(p) /\ checks[p].pc = "fenced"
    /\ At(p, IF Matches(checks[p].version) THEN "storing" ELSE "ending")
    /\ writers' = IF Matches(checks[p].version)
                  THEN [writers EXCEPT ![p] = [pc |-> "queued", epoch |-> runs[p].epoch,
                                               left |-> Points, lost |-> checks[p].lost]]
                  ELSE writers
    /\ UNCHANGED <<stored, files, status, lease, runs>> /\ fuss' = Settle(p)

(* _thread_call: a thread of a replaced run refuses to start.              *)
StartThread(p) ==
    /\ writers[p].pc = "queued"
    /\ writers' = [writers EXCEPT ![p].pc =
                    IF writers[p].epoch = runs[p].epoch THEN "writing" ELSE "failed"]
    /\ UNCHANGED <<stored, files, status, lease, runs, checks>> /\ fuss' = Settle(p)

(* _write_metric_points: one append per metric; a lost lease stops it.     *)
WritePoint(p) ==
    LET t == writers[p] IN
    /\ t.pc = "writing"
    /\ writers' = [writers EXCEPT ![p] =
                    IF t.lost THEN [t EXCEPT !.pc = "failed"]
                    ELSE IF t.left = 1 THEN [t EXCEPT !.pc = "written", !.left = 0]
                    ELSE [t EXCEPT !.left = @ - 1]]
    /\ files' = IF t.lost THEN files
                ELSE [files EXCEPT !.count = IF @ < Points THEN @ + 1 ELSE @]
    /\ UNCHANGED <<stored, status, lease, runs, checks>> /\ fuss' = Settle(p)

(* Mutant: the settings are not compared before the status is written.     *)
MatchStatusBlindly(p) ==
    /\ Awake(p) /\ checks[p].pc = "storing" /\ writers[p].pc \in {"written", "failed"}
    /\ At(p, IF writers[p].pc = "written" THEN "matched" ELSE "ending")
    /\ writers' = [writers EXCEPT ![p] = NoThread]
    /\ UNCHANGED <<stored, files, status, lease, runs>> /\ fuss' = Settle(p)

(* The settings are compared a third time, outside the transaction that    *)
(* writes the status.                                                      *)
MatchStatus(p) ==
    /\ Awake(p) /\ checks[p].pc = "storing" /\ writers[p].pc \in {"written", "failed"}
    /\ At(p, IF writers[p].pc = "written" /\ Matches(checks[p].version) THEN "matched" ELSE "ending")
    /\ writers' = [writers EXCEPT ![p] = NoThread]
    /\ UNCHANGED <<stored, files, status, lease, runs>> /\ fuss' = Settle(p)

(* A deleted target refuses its status: it is the row's foreign key.       *)
StoreStatus(p) ==
    /\ Awake(p) /\ checks[p].pc = "matched"
    /\ status' = IF stored.exists THEN checks[p].version ELSE status
    /\ At(p, "ending")
    /\ UNCHANGED <<stored, files, lease, runs, writers>> /\ fuss' = Settle(p)

(* release_target_lock deletes the lease of this run only.                 *)
Released(p) ==
    IF lease.owner = p /\ lease.epoch = runs[p].epoch THEN NoLease ELSE lease

EndCheck(p) ==
    /\ Awake(p) /\ checks[p].pc = "ending"
    /\ lease' = Released(p)
    /\ checks' = [checks EXCEPT ![p] = NoCheck]
    /\ UNCHANGED <<stored, files, status, runs, writers, fuss>>

---------------------------------------------------------------------------
(* Faults.  A hung run is cancelled: its check releases the lease, but a   *)
(* thread goes on.                                                         *)
MayDisturb == fuss.troubles < MaxRunFaults
LeftBehind(p) == IF writers[p].pc \in {"queued", "writing"} THEN writers[p] ELSE NoThread

CancelRun(p) ==
    /\ Awake(p) /\ MayDisturb /\ runs[p].epoch < MaxRuns
    /\ runs' = [runs EXCEPT ![p].pc = "off"]
    /\ lease' = IF checks[p].pc = "none" THEN lease ELSE Released(p)
    /\ checks' = [checks EXCEPT ![p] = NoCheck]
    /\ writers' = [writers EXCEPT ![p] = LeftBehind(p)]
    /\ fuss' = [fuss EXCEPT !.troubles = @ + 1,
                  !.disturbed = IF LeftBehind(p) = NoThread THEN @ \ {p} ELSE @ \union {p}]
    /\ UNCHANGED <<stored, files, status>>

KillProcess(p) ==
    /\ runs[p].pc # "off" /\ MayDisturb /\ runs[p].epoch < MaxRuns
    /\ runs' = [runs EXCEPT ![p].pc = "off", ![p].known = 0, ![p].paused = FALSE]
    /\ checks' = [checks EXCEPT ![p] = NoCheck]
    /\ writers' = [writers EXCEPT ![p] = NoThread]
    /\ fuss' = [fuss EXCEPT !.troubles = @ + 1, !.disturbed = @ \ {p}]
    /\ UNCHANGED <<stored, files, status, lease>>

(* The event loop is blocked, or a restore keeps the heartbeat out.        *)
StallProcess(p) ==
    /\ Awake(p) /\ MayDisturb
    /\ runs' = [runs EXCEPT ![p].paused = TRUE]
    /\ fuss' = [fuss EXCEPT !.troubles = @ + 1, !.disturbed = IF Measuring(p) THEN @ \union {p} ELSE @]
    /\ UNCHANGED <<stored, files, status, lease, checks, writers>>

WakeProcess(p) ==
    /\ runs[p].paused
    /\ runs' = [runs EXCEPT ![p].paused = FALSE]
    /\ UNCHANGED <<stored, files, status, lease, checks, writers, fuss>>

---------------------------------------------------------------------------
(* The API.                                                                *)
PatchTarget ==
    /\ stored.exists /\ fuss.edits < MaxPatches
    /\ stored' = [stored EXCEPT !.version = @ + 1]
    /\ fuss' = [fuss EXCEPT !.edits = @ + 1,
                  !.raced = @ \/ \E p \in Procs : checks[p].pc = "matched"]
    /\ UNCHANGED <<files, status, lease, runs, checks, writers>>

ResetMetrics ==
    /\ stored.exists /\ fuss.edits < MaxPatches /\ files.count > 0
    /\ status' = 0 /\ files' = [files EXCEPT !.count = 0]
    /\ fuss' = [fuss EXCEPT !.edits = @ + 1]
    /\ UNCHANGED <<stored, lease, runs, checks, writers>>

(* delete: the files go while the row's deletion is not yet committed.          *)
(* Then the scheduler of this process forgets the target.                  *)
AnyStoring == \E p \in Procs : checks[p].pc = "storing" \/ writers[p].pc \in {"queued", "writing"}

DeleteFiles ==
    /\ stored.exists /\ ~files.deleting /\ fuss.edits < MaxPatches
    /\ files' = [count |-> 0, deleting |-> TRUE]
    /\ fuss' = [fuss EXCEPT !.edits = @ + 1, !.late = AnyStoring]
    /\ UNCHANGED <<stored, status, lease, runs, checks, writers>>

CommitDelete(p) ==
    /\ files.deleting /\ stored.exists
    /\ stored' = [stored EXCEPT !.exists = FALSE]
    /\ status' = 0 /\ lease' = NoLease
    /\ files' = [files EXCEPT !.deleting = FALSE]
    /\ runs' = [runs EXCEPT ![p].known = 0]
    /\ fuss' = [fuss EXCEPT !.late = @ \/ AnyStoring \/ files.count > 0]
    /\ UNCHANGED <<checks, writers>>

CheckStep(p) ==
    TryLock(p) \/ Fence(p) \/ HandOver(p) \/ MatchStatus(p) \/ StoreStatus(p) \/ EndCheck(p)
RunStep(p) == StartRun(p) \/ DrainOldThreads(p) \/ ReadTargets(p) \/ ApplyTargets(p)
ThreadStep(p) == StartThread(p) \/ WritePoint(p)

RunNext ==
    \/ \E p \in Procs :
         \/ RunStep(p) \/ CheckStep(p) \/ ThreadStep(p) \/ Beat(p)
         \/ DrainTimesOut(p) \/ CancelRun(p) \/ KillProcess(p) \/ StallProcess(p) \/ WakeProcess(p)
         \/ CommitDelete(p)
    \/ BeatPasses \/ PatchTarget \/ ResetMetrics \/ DeleteFiles

RunSpec == RunInit /\ [][RunNext]_runVars
RunFairSpec ==
    /\ RunSpec
    /\ \A p \in Procs :
         /\ WF_runVars(RunStep(p)) /\ WF_runVars(CheckStep(p)) /\ WF_runVars(ThreadStep(p))
         /\ WF_runVars(WakeProcess(p)) /\ WF_runVars(Beat(p))
    /\ WF_runVars(BeatPasses)

---------------------------------------------------------------------------
RunTypeOK ==
    /\ stored \in [exists : BOOLEAN, version : TargetVersions]
    /\ files \in [count : 0 .. Points, deleting : BOOLEAN]
    /\ status \in 0 .. MaxPatches + 1
    /\ lease \in [owner : Procs, epoch : 0 .. MaxRuns, beats : 0 .. LeaseBeats]
    /\ \A p \in Procs :
         /\ checks[p].pc \in {"none", "checking", "fenced", "storing", "matched", "ending"}
         /\ writers[p].pc \in {"none", "queued", "writing", "written", "failed"}
         /\ checks[p].pc = "storing" => writers[p].pc # "none"

(* Two checks of one target overlap only if one of them was stuck, or its  *)
(* run was replaced while its thread was still writing.                    *)
OneMeasurer ==
    \A p, q \in Procs : p # q /\ Measuring(p) /\ Measuring(q) => {p, q} \intersect fuss.disturbed # {}

(* Files of a deleted target come only from a check that was already       *)
(* storing when the delete began or committed.                             *)
OrphansAreLateWrites == ~stored.exists /\ files.count > 0 => fuss.late

(* A status of older settings is stored only if the edit falls between the *)
(* last comparison and the write; no status appears for a deleted target.  *)
StatusFitsSettings ==
    [][status' # status /\ status' # 0 =>
          stored.exists /\ (status' = stored.version \/ fuss.raced)]_runVars

(* Once a scheduler runs, the target shows in the end a status of its      *)
(* settings: a lease left by a killed or stuck process expires, stale      *)
(* settings are read again, a status that lost the race is replaced.       *)
Behind == stored.exists /\ status # stored.version /\ \E p \in Procs : runs[p].epoch > 0
KeepsMeasuring == [](Behind => <>(status = stored.version \/ ~stored.exists))
=============================================================================
