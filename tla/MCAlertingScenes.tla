--------------------------- MODULE MCAlertingScenes ---------------------------
(***************************************************************************)
(* The passing run of Alerting plays three scenes, the initial state picks *)
(* one: a single alert under every failure, two alerts of two services     *)
(* where only the writes of alerts fail, and two of one through a crash.   *)
(***************************************************************************)
EXTENDS Alerting

CONSTANTS http, ping

VARIABLE scene

OneOrBoth == [services : {{http}, {http, ping}}, autoClose : BOOLEAN]

OnlyHttp == row.settings.services = {http} /\ broken \subseteq {http}

SceneInit ==
    /\ scene \in {"core", "spacing", "restarts"} /\ Init
    /\ faults = IF scene = "core" THEN Faults ELSE {"create", "resolve"}
    /\ OnlyHttp <=> scene # "spacing"

(* One service, and of an edit, a new run and a crash any two; two         *)
(* services, closed by hand or by the recovery; the alerts of one service  *)
(* through a crash.                                                        *)
InScene ==
    CASE scene = "core" -> OnlyHttp /\ nextAlert <= 2 /\ row.version + replaced + crashes <= 2
      [] scene = "spacing" -> row.version = 0 /\ replaced = 0 /\ crashes = 0
      [] scene = "restarts" -> OnlyHttp /\ row.version = 0 /\ replaced = 0

SceneNext == Next /\ UNCHANGED scene /\ InScene'

SceneSpec == SceneInit /\ [][SceneNext]_<<scene, vars>>
===============================================================================
