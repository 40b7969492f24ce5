--------------------------- MODULE MCSpoolerScenes ---------------------------
(***************************************************************************)
(* The safety run of Spooler plays three scenes, the initial state picks   *)
(* one: every failure of a single message of one worker, two workers with  *)
(* the failures that are tried again until the messages expire, and        *)
(* backups and restores.                                                   *)
(***************************************************************************)
EXTENDS MCSpooler

CONSTANTS w1, w2

VARIABLE scene

sceneVars == <<scene, vars>>

SceneInit == Init /\ scene \in {"one worker", "two workers", "restores"}

(* What does not happen in a scene.                                        *)
InScene ==
    /\ scene # "two workers" => pc'[w2] = "idle"
    /\ scene # "restores" => archives' = {} /\ maint' = "open"
    /\ scene = "one worker" => result'[w1] # "rate_limited"
    /\ scene = "two workers" =>
         /\ \A w \in Workers : result'[w] \in {"none", "sent", "deferred", "uncertain"}
         /\ \A i \in Ids : rows'[i].age # "expired"
    /\ scene = "restores" =>
         /\ nextId' <= 2
         /\ result'[w1] \notin {"transient", "limited", "rate_limited"}

SceneNext == Next /\ UNCHANGED scene /\ InScene
SceneSpec == SceneInit /\ [][SceneNext]_sceneVars

(* Only the first scene tells states apart by the histories that the       *)
(* duplicate and budget properties read; they influence no action.         *)
SceneView ==
    <<scene, db, workers, window, accepted,
      IF scene = "one worker" THEN history ELSE <<>>>>
==============================================================================
