----------------------------- MODULE MCStorage -----------------------------
(***************************************************************************)
(* Small instances of the components that keep data.  They do not share a  *)
(* variable: the initial state picks the one that moves.                   *)
(***************************************************************************)
EXTENDS SeriesStore, Rollups, Availability, Access

CONSTANTS r1, http, ping, root, other, q1, q2

(* A period has two days.                                                  *)
MCPeriodOf == [d \in 1 .. LastDay |-> (d + 1) \div 2]

MCMetricRank == (http :> 0) @@ (ping :> 1)

VARIABLE part

storageVars == <<part, storeVars, rollupVars, availVars, accessVars>>

(* An installation in use: its admin signed in, and unless it is alone     *)
(* perhaps a second user or admin.                                         *)
InUse ==
    /\ \E second \in IF part = "alone" THEN {"none"} ELSE {"none", "user", "admin"} :
         /\ accounts = [u \in Users |->
              IF u # Root /\ second = "none" THEN NoAccount
              ELSE [id |-> "used", hash |-> IF u = Root THEN 2 ELSE 3,
                    admin |-> u = Root \/ second = "admin", active |-> TRUE, must |-> FALSE]]
         /\ tokens = {[user |-> u, hash |-> accounts[u].hash, late |-> FALSE] :
                       u \in {v \in Users : IsAccount(v)}}
    /\ logins = [failed |-> 0, locked |-> FALSE] /\ credFile = 0
    /\ process = [state |-> "up", starts |-> MaxStarts, gate |-> FALSE, banner |-> 0]
    /\ requests = [q \in Requests |-> IdleRequest]
    /\ passwords = [drawn |-> 3, temporary |-> {1}, initial |-> 1]
    /\ crossed = FALSE

StorageInit ==
    /\ part \in {"store", "rollups", "availability", "first start", "alone", "in use"}
    /\ StoreInit /\ RollupInit /\ AvailInit
    /\ IF part \in {"alone", "in use"} THEN InUse ELSE AccessInit
    /\ part # "rollups" => keep = 1

(* What does not happen in a part.                                         *)
InPart ==
    /\ part = "first start" => passwords'.drawn <= 2
    /\ part = "in use" =>
         /\ passwords'.drawn <= 4 /\ logins'.failed = 0
         /\ tokens' \subseteq tokens /\ tokens' # tokens => requests' # requests
    /\ part = "alone" => accounts'[other] = NoAccount /\ logins'.failed = 0

StoreMoves ==
    part = "store" /\ StoreNext /\ UNCHANGED <<part, rollupVars, availVars, accessVars>>
RollupsMove ==
    part = "rollups" /\ RollupNext /\ UNCHANGED <<part, storeVars, availVars, accessVars>>
AvailabilityMoves ==
    /\ part = "availability" /\ AvailNext
    /\ cycles' # <<>> /\ Last(cycles').state[ping] = "none" => Last(cycles').spread = 0
    /\ UNCHANGED <<part, storeVars, rollupVars, accessVars>>
AccountsMove ==
    /\ part \in {"first start", "alone", "in use"} /\ AccessNext /\ InPart
    /\ UNCHANGED <<part, storeVars, rollupVars, availVars>>

StorageNext == StoreMoves \/ RollupsMove \/ AvailabilityMoves \/ AccountsMove

StorageSpec ==
    /\ StorageInit /\ [][StorageNext]_storageVars
    /\ WF_storeVars(part = "store" /\ CompactionStep)

(* What the status page and the charts of the availability job say is true *)
(* of the measurements: the downtimes and the points of the chart.         *)
AvailabilityIsTrue == DowntimesAreTrue /\ ChartsAreTrue
=============================================================================
