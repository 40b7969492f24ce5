----------------------------- MODULE MCServices -----------------------------
(***************************************************************************)
(* Small instances of the services beside the monitor.  They do not share  *)
(* a variable: the initial state picks the one that moves, the others stay *)
(* where they are.                                                         *)
(***************************************************************************)
EXTENDS Supervision, EventBus, ReportJobs, Maintenance

CONSTANTS p1, w1, w2, req, r1, r2

(* Two of the three directories that a restore replaces.                   *)
TwoDirectories == <<"sqlite", "tsdb">>

VARIABLE part

servicesVars == <<part, supVars, busVars, jobVars, vars>>

(* Where a component may begin in several ways, it waits in one of them.   *)
ServicesInit ==
    /\ part \in {"supervision", "bus", "reports", "restore"}
    /\ SupInit /\ BusInit /\ JobInit /\ Init
    /\ part # "supervision" => svc.beats
    /\ part # "bus" => \A p \in Pages : sessions[p].admin
    /\ part # "reports" => ~jobLog.dir
    /\ part # "restore" => \A d \in Slots : disk[d] = 0

SupervisionMoves == part = "supervision" /\ SupNext /\ UNCHANGED <<part, busVars, jobVars, vars>>
BusMoves == part = "bus" /\ BusNext /\ UNCHANGED <<part, supVars, jobVars, vars>>

(* Two jobs compete for the queue, or one meets backups and restores.      *)
ReportsMove ==
    /\ part = "reports" /\ JobNext /\ UNCHANGED <<part, supVars, busVars, vars>>
    /\ jobRows'[2] # Unused => copy'.stage = "none"

RestoresMove == part = "restore" /\ Next /\ UNCHANGED <<part, supVars, busVars, jobVars>>

(* The fairness of the components, each for the runs in which it moves.    *)
SupervisionFairness ==
    /\ WF_supVars(part = "supervision" /\ SuperviseStep) /\ WF_supVars(part = "supervision" /\ SinkStep)
    /\ WF_supVars(part = "supervision" /\ Watch) /\ WF_supVars(part = "supervision" /\ SupTick)
    /\ WF_supVars(part = "supervision" /\ HangHandled) /\ WF_supVars(part = "supervision" /\ ReportSuccess)
    /\ WF_supVars(part = "supervision" /\ CloseWindow) /\ WF_supVars(part = "supervision" /\ StopService)

BusFairness ==
    /\ WF_busVars(part = "bus" /\ BusStep) /\ WF_busVars(part = "bus" /\ BusTick)
    /\ \A p \in Pages :
         /\ WF_busVars(part = "bus" /\ StreamStep(p)) /\ WF_busVars(part = "bus" /\ PageStep(p))
         /\ WF_busVars(part = "bus" /\ ReloadNow(p))

ReportsFairness ==
    /\ WF_jobVars(part = "reports" /\ PdfStep) /\ WF_jobVars(part = "reports" /\ CleanStep)
    /\ WF_jobVars(part = "reports" /\ JobTick)

RestoreFairness ==
    \A r \in Restores : WF_vars(part = "restore" /\ pc[r] # "idle" /\ RestoreStep(r))

ServicesSpec ==
    /\ ServicesInit
    /\ [][SupervisionMoves \/ BusMoves \/ ReportsMove \/ RestoresMove]_servicesVars
    /\ SupervisionFairness /\ BusFairness /\ ReportsFairness /\ RestoreFairness

(* One instance of a service runs at a time, and the inbox shows what the  *)
(* supervisor reported last, whatever order its writers came in.           *)
SupervisionKept == OneInstance /\ InboxTellsTheTruth

(* A page that believes it is up to date has every event, and the stream   *)
(* of a revoked session carries nothing once its next check was due.       *)
StreamsKept == NothingMissed /\ RevokedHearsNothing

(* A report ends with one notice, and a report on offer has its file.      *)
ReportsKept == OneNotice /\ OfferedHasFile

(* Whatever the faults were, the services come to rest: a degraded service *)
(* recovers unless it is stranded, an open page catches up, a job ends and *)
(* its file goes, a restore ends and lets the others go on.                *)
ServicesSettle == DegradedUnlessStranded /\ PagesCatchUp /\ ReportsEnd /\ RestoreEnds
=============================================================================
