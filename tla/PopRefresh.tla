------------------------------ MODULE PopRefresh ------------------------------
(***************************************************************************)
(* The refresh of the locations of data centres from PeeringDB: the loop   *)
(* of app/main.py, which plans each download from the recorded runs, and a *)
(* refresh by hand (app/api/pop.py) share app/services/pop_refresh.py.  It *)
(* downloads without a lock on the data and imports within a section that  *)
(* a restore refuses; app/db/pop_locations.py records the runs.            *)
(*                                                                         *)
(* Times are ages that stop at Horizon.  A snapshot of PeeringDB is the    *)
(* number of its download.                                                 *)
(***************************************************************************)
EXTENDS Integers, Sequences, SequencesExt, FiniteSets

CONSTANTS
    Freshness,            \* POP_FRESHNESS_SECONDS, in ticks
    BackoffBase,      \* POP_BACKOFF_BASE_SECONDS
    BackoffMost,      \* POP_BACKOFF_MAX_SECONDS
    Jitters,          \* what the schedule may add
    Startup,          \* the wait of a fresh install
    Pause,            \* POP_MAINTENANCE_RETRY_SECONDS, POP_ERROR_RETRY_SECONDS
    Horizon,          \* bound: ages above are not told apart
    MaxDownloads,     \* bound on downloads
    MaxRefreshes,     \* bound on refreshes by hand
    MaxPopFaults      \* bound on failures of a download, an import or the process

ASSUME PopAssumption ==
    /\ {Freshness, BackoffBase, BackoffMost, Startup, Pause} \subseteq 1 .. Horizon
    /\ BackoffBase <= BackoffMost /\ BackoffMost <= Freshness /\ Horizon \in Nat
    /\ Jitters \subseteq Nat /\ Jitters # {}
    /\ {MaxDownloads, MaxRefreshes, MaxPopFaults} \subseteq Nat

VARIABLES
    runs,         \* table pop_import_runs in the order of started_at
    evidence,     \* table pop_city_evidence: the snapshot it shows, 0: none
    popLock,      \* who holds the lock of the source
    popCallers,   \* where the loop and the request are
    popWindow,    \* maintenance: "open", "closed", or "replaced" until a restart
    popBackup,    \* an archive of the two tables
    popCounts,    \* downloads, refreshes by hand and faults so far
    lastAuto      \* history: age and outcome of the last download by the loop

popVars == <<runs, evidence, popLock, popCallers, popWindow, popBackup, popCounts, lastAuto>>

Callers == {"loop", "hand"}
Resting == [at |-> "idle", wait |-> 0, snapshot |-> 0, run |-> 0]
Older(n) == IF n < Horizon THEN n + 1 ELSE n
Terminal == {"completed", "failed"}
Those(rs, statuses) == {i \in DOMAIN rs : rs[i].status \in statuses}
Latest(rs, statuses) ==
    rs[CHOOSE i \in Those(rs, statuses) : \A j \in Those(rs, statuses) : j <= i]

PopInit ==
    /\ runs = <<>> /\ evidence = 0
    /\ popLock = "free"
    /\ popCallers = [c \in Callers |-> Resting]
    /\ popWindow = "open"
    /\ popBackup = [runs |-> <<>>, evidence |-> 0, made |-> FALSE]
    /\ popCounts = [downloads |-> 0, byHand |-> 0, faults |-> 0]
    /\ lastAuto = [age |-> Horizon, need |-> 0, failures |-> 0]

MayBreak == popCounts.faults < MaxPopFaults
Failed == popCounts' = [popCounts EXCEPT !.faults = @ + 1]
MovesTo(c, at) == popCallers' = [popCallers EXCEPT ![c].at = at]

---------------------------------------------------------------------------
(* What is due is decided from the recorded runs alone.                    *)

(* The failures since the last completed run.                              *)
Streak(rs) ==
    {i \in Those(rs, {"failed"}) : \A j \in i .. Len(rs) : rs[j].status # "completed"}
Failures(rs) == Cardinality(Streak(rs))

Backoff(failures) ==
    IF failures = 0 THEN 0
    ELSE LET exponent == IF failures > 17 THEN 16 ELSE failures - 1
             wait == BackoffBase * 2 ^ exponent
         IN  IF wait > BackoffMost THEN BackoffMost ELSE wait

(* compute_next_action: the wait until the next download.                  *)
Plan(rs) ==
    IF Failures(rs) > 0
    THEN LET rest == Backoff(Failures(rs)) - Latest(rs, Terminal).age
         IN  {IF rest > 0 THEN rest ELSE 0}
    ELSE IF Those(rs, {"completed"}) = {} THEN {Startup}
    ELSE LET rest == Freshness - Latest(rs, {"completed"}).age
         IN  IF rest > 0 THEN {rest + jitter : jitter \in Jitters} ELSE {0}

PlanNext ==
    /\ popCallers["loop"].at = "idle"
    /\ \E wait \in Plan(runs) :
         popCallers' = [popCallers EXCEPT !["loop"] =
             [Resting EXCEPT !.at = IF wait = 0 THEN "due" ELSE "waiting", !.wait = wait]]
    /\ UNCHANGED <<runs, evidence, popLock, popWindow, popBackup, popCounts, lastAuto>>

(* After any wait the loop plans again.                                    *)
WakeUp ==
    /\ popCallers["loop"].at = "waiting" /\ popCallers["loop"].wait = 0
    /\ MovesTo("loop", "idle")
    /\ UNCHANGED <<runs, evidence, popLock, popWindow, popBackup, popCounts, lastAuto>>

RefreshByHand ==
    /\ popCallers["hand"].at = "idle" /\ popCounts.byHand < MaxRefreshes
    /\ popCounts' = [popCounts EXCEPT !.byHand = @ + 1]
    /\ MovesTo("hand", "due")
    /\ UNCHANGED <<runs, evidence, popLock, popWindow, popBackup, lastAuto>>

---------------------------------------------------------------------------
(* refresh_from_peeringdb                                                  *)

LockFree(c) == popLock = "free"

(* A download by the loop needs, as its history says, that the one before  *)
(* it is old enough.                                                       *)
BeginDownload(c) ==
    /\ popCallers[c].at = "due" /\ LockFree(c)
    /\ popCounts.downloads < MaxDownloads
    /\ popLock' = c
    /\ popCounts' = [popCounts EXCEPT !.downloads = @ + 1]
    /\ popCallers' = [popCallers EXCEPT ![c].at = "download", ![c].snapshot = popCounts.downloads + 1]
    /\ lastAuto' = IF c = "loop" THEN [lastAuto EXCEPT !.age = 0, !.need = 0] ELSE lastAuto
    /\ UNCHANGED <<runs, evidence, popWindow, popBackup>>

(* already_running: the loop plans again at once, and is still due.        *)
AlreadyRunning(c) ==
    /\ popCallers[c].at = "due" /\ ~LockFree(c)
    /\ MovesTo(c, "idle")
    /\ UNCHANGED <<runs, evidence, popLock, popWindow, popBackup, popCounts, lastAuto>>

EndDownload(c) ==
    /\ popCallers[c].at = "download"
    /\ \/ MovesTo(c, "downloaded") /\ UNCHANGED popCounts
       \/ MovesTo(c, "no answer") /\ MayBreak /\ Failed
    /\ UNCHANGED <<runs, evidence, popLock, popWindow, popBackup, lastAuto>>

(* The caller is done and gives back the lock.                             *)
Ended(c, wait) ==
    /\ popLock' = "free"
    /\ popCallers' = [popCallers EXCEPT ![c] =
         IF c = "loop" /\ wait > 0 THEN [Resting EXCEPT !.at = "waiting", !.wait = wait]
         ELSE Resting]

(* The section of the import, or of the record of a failure, is refused    *)
(* while a restore is under way and, as it replaced the data, for good.    *)
TurnedAway(c) ==
    /\ popCallers[c].at \in {"downloaded", "no answer"} /\ popWindow # "open"
    /\ Ended(c, Pause)
    /\ UNCHANGED <<runs, evidence, popWindow, popBackup, popCounts, lastAuto>>

(* start_import_run, in a transaction of its own.                          *)
StartImport(c) ==
    /\ popCallers[c].at \in {"downloaded", "no answer"} /\ popWindow = "open"
    /\ runs' = Append(runs, [status |-> "running", age |-> 0, snapshot |-> 0])
    /\ popCallers' = [popCallers EXCEPT ![c].run = Len(runs) + 1,
         ![c].at = IF @ = "downloaded" THEN "importing" ELSE "unsuccessful"]
    /\ UNCHANGED <<evidence, popLock, popWindow, popBackup, popCounts, lastAuto>>

(* The groups of cities are written in one transaction, unless the         *)
(* snapshot is too large; an error rolls them back.                        *)
Import(c) ==
    /\ popCallers[c].at = "importing"
    /\ \/ /\ evidence' = popCallers[c].snapshot
          /\ MovesTo(c, "successful")
          /\ UNCHANGED popCounts
       \/ /\ MayBreak /\ Failed
          /\ MovesTo(c, "unsuccessful")
          /\ UNCHANGED evidence
    /\ UNCHANGED <<runs, popLock, popWindow, popBackup, lastAuto>>

Finish(c) ==
    runs' = [runs EXCEPT ![popCallers[c].run] =
        IF popCallers[c].at = "successful"
        THEN [status |-> "completed", age |-> 0, snapshot |-> popCallers[c].snapshot]
        ELSE [status |-> "failed", age |-> 0, snapshot |-> 0]]

(* What the loop must wait for: after a download of its own the freshness  *)
(* or the backoff; a refresh by hand ends its series of failures if it is  *)
(* completed, and has it try again, although its data is fresh, if not.    *)
AfterLoop(failures) ==
    [age |-> 0, failures |-> failures, need |-> IF failures = 0 THEN Freshness ELSE Backoff(failures)]

AfterFailureByHand ==
    [lastAuto EXCEPT !.need = IF @ > BackoffBase THEN BackoffBase ELSE @]

Outcome(c) ==
    CASE c = "loop" /\ popCallers[c].at = "successful" -> AfterLoop(0)
      [] c = "loop" /\ popCallers[c].at # "successful" -> AfterLoop(lastAuto.failures + 1)
      [] c = "hand" /\ popCallers[c].at = "successful" -> [lastAuto EXCEPT !.failures = 0]
      [] OTHER -> AfterFailureByHand

FinishImport(c) ==
    /\ popCallers[c].at \in {"successful", "unsuccessful"}
    /\ Finish(c)
    /\ Ended(c, 0)
    /\ lastAuto' = Outcome(c)
    /\ UNCHANGED <<evidence, popWindow, popBackup, popCounts>>

(* A transaction fails outside the import: the run, if there is one, stays *)
(* "running" until the next start.                                         *)
TransactionFails(c) ==
    /\ popCallers[c].at \in {"downloaded", "no answer", "successful", "unsuccessful"}
    /\ popWindow # "replaced"
    /\ MayBreak /\ Failed
    /\ Ended(c, Pause)
    /\ UNCHANGED <<runs, evidence, popWindow, popBackup, lastAuto>>

---------------------------------------------------------------------------
(* A backup, a restore, the start of the process and time                  *)
Sections == {"importing", "successful", "unsuccessful"}
InSection == \E c \in Callers : popCallers[c].at \in Sections

MakeBackup ==
    /\ popWindow = "open" /\ ~popBackup.made
    /\ popBackup' = [runs |-> runs, evidence |-> evidence, made |-> TRUE]
    /\ UNCHANGED <<runs, evidence, popLock, popCallers, popWindow, popCounts, lastAuto>>

CloseForRestore ==
    /\ popWindow = "open" /\ popBackup.made
    /\ popWindow' = "closed"
    /\ UNCHANGED <<runs, evidence, popLock, popCallers, popBackup, popCounts, lastAuto>>

(* The restore waits for the sections; it fails or replaces the data.      *)
EndRestore ==
    /\ popWindow = "closed"
    /\ \/ /\ ~InSection
          /\ runs' = popBackup.runs /\ evidence' = popBackup.evidence
          /\ popWindow' = "replaced"
          /\ lastAuto' = [lastAuto EXCEPT !.need = 0, !.failures = 0]
       \/ /\ popWindow' = "open"
          /\ UNCHANGED <<runs, evidence, lastAuto>>
    /\ UNCHANGED <<popLock, popCallers, popBackup, popCounts>>

(* Mutant: a run that a crash interrupted stays as it is.                  *)
NotRecovered(rs) == rs

(* recover_stale_import_runs, before the loop starts.                      *)
RunsRecovered(rs) ==
    [i \in DOMAIN rs |-> IF rs[i].status = "running"
                         THEN [status |-> "failed", age |-> 0, snapshot |-> 0] ELSE rs[i]]

(* The download of a process that dies before its run is recorded leaves   *)
(* nothing behind that the next one could wait for.                        *)
RestartPop ==
    /\ popWindow = "replaced" \/ MayBreak
    /\ IF popWindow = "replaced" THEN UNCHANGED popCounts ELSE Failed
    /\ runs' = RunsRecovered(runs)
    /\ popLock' = "free"
    /\ popCallers' = [c \in Callers |-> Resting]
    /\ popWindow' = "open"
    /\ lastAuto' = IF popCallers["loop"].at \in Sections THEN AfterLoop(lastAuto.failures + 1)
                   ELSE IF runs' # runs THEN AfterFailureByHand ELSE lastAuto
    /\ UNCHANGED <<evidence, popBackup>>

AllOlder(rs) == [i \in DOMAIN rs |-> [rs[i] EXCEPT !.age = Older(@)]]

PopTick ==
    /\ runs' = AllOlder(runs)
    /\ popBackup' = [popBackup EXCEPT !.runs = AllOlder(@)]
    /\ lastAuto' = [lastAuto EXCEPT !.age = Older(@)]
    /\ popCallers' = [popCallers EXCEPT !["loop"].wait = IF @ > 0 THEN @ - 1 ELSE 0]
    /\ UNCHANGED <<evidence, popLock, popWindow, popCounts>>

---------------------------------------------------------------------------
CallerStep(c) ==
    \/ BeginDownload(c) \/ AlreadyRunning(c) \/ EndDownload(c) \/ TurnedAway(c)
    \/ StartImport(c) \/ Import(c) \/ FinishImport(c) \/ TransactionFails(c)

LoopStep == PlanNext \/ WakeUp \/ CallerStep("loop")

PopNext ==
    \/ LoopStep \/ RefreshByHand \/ CallerStep("hand")
    \/ MakeBackup \/ CloseForRestore \/ EndRestore \/ RestartPop \/ PopTick

PopSpec == PopInit /\ [][PopNext]_popVars

(* What the documentation of the plan promises needs a loop that goes on.  *)
PopFairSpec == PopSpec /\ WF_popVars(LoopStep) /\ WF_popVars(PopTick)

---------------------------------------------------------------------------
(* What a completed run imported is in the table, and after it only what a *)
(* later run imported whose end was not recorded.                          *)
TableMatchesRuns ==
    /\ \A i \in DOMAIN runs : runs[i].status = "completed" => runs[i].snapshot <= evidence
    /\ runs # <<>> /\ Last(runs).status = "completed" => evidence = Last(runs).snapshot

(* The loop does not download again before the freshness of its last       *)
(* import, or the backoff of its failures in a row, is over: not after     *)
(* crashes, restarts, refreshes by hand and runs without an end.           *)
DownloadsAreSpaced ==
    popCallers["loop"].at = "due" => lastAuto.age >= lastAuto.need

RefreshKept == TableMatchesRuns /\ DownloadsAreSpaced

(* The documentation of the plan: a first install downloads promptly.      *)
FirstInstallDownloads == <>(popCounts.downloads > 0)
==============================================================================
