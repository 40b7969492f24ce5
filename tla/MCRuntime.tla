----------------------------- MODULE MCRuntime -----------------------------
(***************************************************************************)
(* Small instances of the monitor's alerts, of its runs on one target and  *)
(* of one measurement.  They do not share a variable: the initial state    *)
(* picks the one that moves, the others stay where they are.               *)
(***************************************************************************)
EXTENDS MCAlerting, TargetRuns, Probes

CONSTANTS first, second

VARIABLE part

runtimeVars == <<part, vars, runVars, probeVars>>

RuntimeInit ==
    /\ part \in {"alerting", "runs", "probes"} /\ Init /\ faults = Faults /\ RunInit /\ ProbesInit
    /\ part # "probes" => setup = [services |-> {}, host |-> NoAddress, ignore |-> FALSE, custom |-> FALSE]
    /\ part # "alerting" => row.settings.autoClose

(* The run of the monitor is replaced, or the process dies, or the alert   *)
(* is acknowledged.                                                        *)
AlertingMoves ==
    /\ part = "alerting" /\ Next /\ UNCHANGED <<part, runVars, probeVars>>
    /\ replaced' + crashes' <= IF alerts'[1].acknowledged THEN 0 ELSE 1

(* Of two processes the first starts first, and may start again.           *)
RunsMove ==
    /\ part = "runs" /\ RunNext /\ UNCHANGED <<part, vars, probeVars>>
    /\ runs'[second].epoch > 0 => runs[first].epoch > 0
    /\ runs'[second].epoch <= 1 /\ (runs[second].epoch = 1 => runs'[second].pc # "off")

ProbesMove == part = "probes" /\ ProbesNext /\ UNCHANGED <<part, vars, runVars>>

(* The fairness of the components, each for the runs in which it moves.    *)
AlertingFairness ==
    /\ WF_vars(part = "alerting" /\ Load) /\ WF_vars(part = "alerting" /\ Apply)
    /\ WF_vars(part = "alerting" /\ Refresh) /\ WF_vars(part = "alerting" /\ BeginCheck)
    /\ WF_vars(part = "alerting" /\ Check) /\ SF_vars(part = "alerting" /\ EndIncident)
    /\ \A e \in Event :
         WF_vars(part = "alerting" /\ ThreadDone(e)) /\ WF_vars(part = "alerting" /\ BackoffEnds(e))
    /\ WF_vars(part = "alerting" /\ ListPending) /\ WF_vars(part = "alerting" /\ RecordAttempt)
    /\ WF_vars(part = "alerting" /\ WorkerStep) /\ SF_vars(part = "alerting" /\ DispatchNext("queued"))

RunsFairness ==
    /\ \A p \in Procs :
         /\ WF_runVars(part = "runs" /\ RunStep(p)) /\ WF_runVars(part = "runs" /\ CheckStep(p))
         /\ WF_runVars(part = "runs" /\ ThreadStep(p)) /\ WF_runVars(part = "runs" /\ Beat(p))
         /\ WF_runVars(part = "runs" /\ WakeProcess(p))
    /\ WF_runVars(part = "runs" /\ BeatPasses)

RuntimeSpec ==
    /\ RuntimeInit /\ [][AlertingMoves \/ RunsMove \/ ProbesMove]_runtimeVars
    /\ AlertingFairness /\ RunsFairness

(* Two checks of a target overlap only after a stall, files of a deleted   *)
(* target come only from a check that was storing already, and what a      *)
(* check measures is what its probes have seen.                            *)
RunsKept ==
    /\ part = "runs" => OneMeasurer /\ OrphansAreLateWrites
    /\ part = "probes" => ProbesKept
=============================================================================
