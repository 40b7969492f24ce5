----------------------------- MODULE MCSpooler -----------------------------
(***************************************************************************)
(* Small instances of Spooler: an alert's open and resolved event by email *)
(* and a test message by Signal.                                           *)
(***************************************************************************)
EXTENDS Spooler

CONSTANTS down, up, signalTest, email, signal, alert

MCKindOf == [m \in Msgs |-> IF m \in {down, up} THEN "alert" ELSE "test"]
MCPathOf == [m \in Msgs |-> IF m = signalTest THEN signal ELSE email]
MCAlertOf == [m \in Msgs |-> alert]
MCEventOf == [m \in Msgs |-> IF m = up THEN "resolved" ELSE "open"]
MCBatchLimit == [p \in Paths |-> IF p = signal THEN 1 ELSE 2]

(* The liveness run has no restore: it ends in a process that waits for    *)
(* its restart, which nothing guarantees.                                  *)
LiveNext == Next /\ maint' = "open"
LiveSpec == Init /\ [][LiveNext]_vars /\ Fairness
=============================================================================
