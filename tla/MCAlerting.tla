------------------------------ MODULE MCAlerting ------------------------------
(* Small instances of Alerting for TLC.                                        *)
EXTENDS Alerting

CONSTANTS http, ping

(* The checks stay the same, auto-close may be switched.                       *)
SameChecks == [services : {{http}}, autoClose : BOOLEAN]

(* Only http can be switched off, so that nothing but ping is left.            *)
OneSwitchedOff == [services : {{ping}, {http, ping}}, autoClose : {TRUE}]
=============================================================================
