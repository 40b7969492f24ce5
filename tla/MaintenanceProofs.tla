------------------------- MODULE MaintenanceProofs -------------------------
(***************************************************************************)
(* Proofs about Maintenance, for every set of workers, requests, restores  *)
(* and directories and every bound: the inductive invariant IndInv, from   *)
(* it that nobody uses the data while it is swapped, that the refusals end *)
(* when they should and that no work crosses a restore; and that a restore *)
(* with its renames, timeouts and rollback implements AtomicRestore.       *)
(***************************************************************************)
EXTENDS Maintenance, TLAPS

LEMMA SlotFacts ==
    /\ Len(Directories) \in Nat
    /\ Slots = 1..Len(Directories)
    /\ Database \in Slots
BY MaintenanceAssumption DEF Slots, Database

-----------------------------------------------------------------------------
(* Clients and background work                                             *)

LEMMA ClientConnectsKeeps ==
    ASSUME IndInv, NEW c \in Clients, ClientConnects(c)
    PROVE  IndInv'
<1> USE DEF IndInv, ClientConnects, Connect, Admits, ConnectEnds, Close,
Clients, admission, swap, history
<1>1. TypeOK'
  BY SlotFacts, MaintenanceAssumption, ZenonT(60) DEF TypeOK, PCs, Versions, Absent,
     NotBegun, Clients
<1>2. GuardMatches'
  BY MaintenanceAssumption DEF TypeOK, GuardMatches, RefusalsFollow,
     RefusalsMatch, WaitsHold, Guarded, Quieted, PCs
<1>3. RefusalsFollow'
  BY MaintenanceAssumption DEF TypeOK, GuardMatches, RefusalsFollow,
     RefusalsMatch, Guarded, PCs
<1>4. WaitsHold'
  BY MaintenanceAssumption DEF TypeOK, GuardMatches, RefusalsFollow,
     RefusalsMatch, WaitsHold, Guarded, Quieted, PCs
<1>5. SwapConsistent'
  BY SlotFacts DEF TypeOK, GuardMatches, SwapConsistent, Recoverable, Guarded,
     PCs
<1>6. WorkConsistent'
  BY DEF TypeOK, GuardMatches, RefusalsFollow, WaitsHold, SwapConsistent,
     WorkConsistent, Live, Swapping, Guarded, Quieted, PCs, NotBegun
<1> QED BY <1>1, <1>2, <1>3, <1>4, <1>5, <1>6

LEMMA BeginWorkKeeps ==
    ASSUME IndInv, NEW w \in Workers, BeginWork(w)
    PROVE  IndInv'
<1> USE DEF IndInv, BeginWork, admission, swap, history
<1>1. TypeOK'
  BY SlotFacts, MaintenanceAssumption, SMTT(60) DEF TypeOK, PCs, Versions, Absent,
     NotBegun, Clients
<1>2. GuardMatches'
  BY MaintenanceAssumption DEF TypeOK, GuardMatches, RefusalsFollow,
     RefusalsMatch, WaitsHold, Guarded, Quieted, PCs
<1>3. RefusalsFollow'
  BY MaintenanceAssumption DEF TypeOK, GuardMatches, RefusalsFollow,
     RefusalsMatch, Guarded, PCs
<1>4. WaitsHold'
  BY MaintenanceAssumption DEF TypeOK, GuardMatches, RefusalsFollow,
     RefusalsMatch, WaitsHold, Guarded, Quieted, PCs
<1>5. SwapConsistent'
  BY SlotFacts DEF TypeOK, GuardMatches, SwapConsistent, Recoverable, Guarded,
     PCs
<1>6. WorkConsistent'
  BY DEF TypeOK, GuardMatches, RefusalsFollow, WaitsHold, SwapConsistent,
     WorkConsistent, Live, Swapping, Guarded, Quieted, PCs, NotBegun
<1> QED BY <1>1, <1>2, <1>3, <1>4, <1>5, <1>6

LEMMA EnterSectionKeeps ==
    ASSUME IndInv, NEW w \in Workers, EnterSection(w)
    PROVE  IndInv'
<1> USE DEF IndInv, EnterSection, Admitted, admission, swap, history
<1>1. TypeOK'
  BY SlotFacts, MaintenanceAssumption DEF TypeOK, PCs, Versions, Absent,
     NotBegun, Clients
<1>2. GuardMatches'
  BY MaintenanceAssumption DEF TypeOK, GuardMatches, RefusalsFollow,
     RefusalsMatch, WaitsHold, Guarded, Quieted, PCs
<1>3. RefusalsFollow'
  BY MaintenanceAssumption DEF TypeOK, GuardMatches, RefusalsFollow,
     RefusalsMatch, Guarded, PCs
<1>4. WaitsHold'
  BY MaintenanceAssumption DEF TypeOK, GuardMatches, RefusalsFollow,
     RefusalsMatch, WaitsHold, Guarded, Quieted, PCs
<1>5. SwapConsistent'
  BY SlotFacts DEF TypeOK, GuardMatches, SwapConsistent, Recoverable, Guarded,
     PCs
<1>6. WorkConsistent'
  BY DEF TypeOK, GuardMatches, RefusalsFollow, WaitsHold, SwapConsistent,
     WorkConsistent, Live, Swapping, Guarded, Quieted, PCs, NotBegun
<1> QED BY <1>1, <1>2, <1>3, <1>4, <1>5, <1>6

LEMMA LeaveSectionKeeps ==
    ASSUME IndInv, NEW w \in Workers, LeaveSection(w)
    PROVE  IndInv'
<1> USE DEF IndInv, LeaveSection, admission, swap, history
<1>1. TypeOK'
  BY SlotFacts, MaintenanceAssumption DEF TypeOK, PCs, Versions, Absent,
     NotBegun, Clients
<1>2. GuardMatches'
  BY MaintenanceAssumption DEF TypeOK, GuardMatches, RefusalsFollow,
     RefusalsMatch, WaitsHold, Guarded, Quieted, PCs
<1>3. RefusalsFollow'
  BY MaintenanceAssumption DEF TypeOK, GuardMatches, RefusalsFollow,
     RefusalsMatch, Guarded, PCs
<1>4. WaitsHold'
  BY MaintenanceAssumption DEF TypeOK, GuardMatches, RefusalsFollow,
     RefusalsMatch, WaitsHold, Guarded, Quieted, PCs
<1>5. SwapConsistent'
  BY SlotFacts DEF TypeOK, GuardMatches, SwapConsistent, Recoverable, Guarded,
     PCs
<1>6. WorkConsistent'
  BY DEF TypeOK, GuardMatches, RefusalsFollow, WaitsHold, SwapConsistent,
     WorkConsistent, Live, Swapping, Guarded, Quieted, PCs, NotBegun
<1> QED BY <1>1, <1>2, <1>3, <1>4, <1>5, <1>6

LEMMA EndWorkKeeps ==
    ASSUME IndInv, NEW w \in Workers, EndWork(w)
    PROVE  IndInv'
<1> USE DEF IndInv, EndWork, admission, swap, history
<1>1. TypeOK'
  BY SlotFacts, MaintenanceAssumption DEF TypeOK, PCs, Versions, Absent,
     NotBegun, Clients
<1>2. GuardMatches'
  BY MaintenanceAssumption DEF TypeOK, GuardMatches, RefusalsFollow,
     RefusalsMatch, WaitsHold, Guarded, Quieted, PCs
<1>3. RefusalsFollow'
  BY MaintenanceAssumption DEF TypeOK, GuardMatches, RefusalsFollow,
     RefusalsMatch, Guarded, PCs
<1>4. WaitsHold'
  BY MaintenanceAssumption DEF TypeOK, GuardMatches, RefusalsFollow,
     RefusalsMatch, WaitsHold, Guarded, Quieted, PCs
<1>5. SwapConsistent'
  BY SlotFacts DEF TypeOK, GuardMatches, SwapConsistent, Recoverable, Guarded,
     PCs
<1>6. WorkConsistent'
  BY DEF TypeOK, GuardMatches, RefusalsFollow, WaitsHold, SwapConsistent,
     WorkConsistent, Live, Swapping, Guarded, Quieted, PCs, NotBegun
<1> QED BY <1>1, <1>2, <1>3, <1>4, <1>5, <1>6

-----------------------------------------------------------------------------
(* The restore request up to the swap                                      *)

LEMMA UploadKeeps ==
    ASSUME IndInv, NEW r \in Restores, Upload(r)
    PROVE  IndInv'
<1> USE DEF IndInv, Upload, Connect, Admits, ConnectEnds, admission, swap,
history
<1>1. TypeOK'
  BY SlotFacts, MaintenanceAssumption, ZenonT(60) DEF TypeOK, PCs, Versions, Absent,
     NotBegun, Clients
<1>2. GuardMatches'
  BY MaintenanceAssumption DEF TypeOK, GuardMatches, RefusalsFollow,
     RefusalsMatch, WaitsHold, Guarded, Quieted, PCs
<1>3. RefusalsFollow'
  BY MaintenanceAssumption, SMTT(60) DEF TypeOK, GuardMatches, RefusalsFollow,
     RefusalsMatch, Guarded, PCs
<1>4. WaitsHold'
  BY MaintenanceAssumption, SMTT(60) DEF TypeOK, GuardMatches, RefusalsFollow,
     RefusalsMatch, WaitsHold, Guarded, Quieted, PCs
<1>5. SwapConsistent'
  BY SlotFacts DEF TypeOK, GuardMatches, SwapConsistent, Recoverable, Guarded,
     PCs
<1>6. WorkConsistent'
  BY DEF TypeOK, GuardMatches, RefusalsFollow, WaitsHold, SwapConsistent,
     WorkConsistent, Live, Swapping, Guarded, Quieted, PCs, NotBegun
<1> QED BY <1>1, <1>2, <1>3, <1>4, <1>5, <1>6

LEMMA RejectKeeps ==
    ASSUME IndInv, NEW r \in Restores, Reject(r)
    PROVE  IndInv'
<1> USE DEF IndInv, Reject, Leave, admission, swap, history
<1>1. TypeOK'
  BY SlotFacts, MaintenanceAssumption DEF TypeOK, PCs, Versions, Absent,
     NotBegun, Clients
<1>2. GuardMatches'
  BY MaintenanceAssumption DEF TypeOK, GuardMatches, RefusalsFollow,
     RefusalsMatch, WaitsHold, Guarded, Quieted, PCs
<1>3. RefusalsFollow'
  BY MaintenanceAssumption DEF TypeOK, GuardMatches, RefusalsFollow,
     RefusalsMatch, Guarded, PCs
<1>4. WaitsHold'
  BY MaintenanceAssumption DEF TypeOK, GuardMatches, RefusalsFollow,
     RefusalsMatch, WaitsHold, Guarded, Quieted, PCs
<1>5. SwapConsistent'
  BY SlotFacts DEF TypeOK, GuardMatches, SwapConsistent, Recoverable, Guarded,
     PCs
<1>6. WorkConsistent'
  BY DEF TypeOK, GuardMatches, RefusalsFollow, WaitsHold, SwapConsistent,
     WorkConsistent, Live, Swapping, Guarded, Quieted, PCs, NotBegun
<1> QED BY <1>1, <1>2, <1>3, <1>4, <1>5, <1>6

LEMMA StageKeeps ==
    ASSUME IndInv, NEW r \in Restores, Stage(r)
    PROVE  IndInv'
<1> USE DEF IndInv, Stage, admission, swap, history
<1>1. TypeOK'
  BY SlotFacts, MaintenanceAssumption DEF TypeOK, PCs, Versions, Absent,
     NotBegun, Clients
<1>2. GuardMatches'
  BY MaintenanceAssumption DEF TypeOK, GuardMatches, RefusalsFollow,
     RefusalsMatch, WaitsHold, Guarded, Quieted, PCs
<1>3. RefusalsFollow'
  BY MaintenanceAssumption DEF TypeOK, GuardMatches, RefusalsFollow,
     RefusalsMatch, WaitsHold, Guarded, PCs
<1>4. WaitsHold'
  BY MaintenanceAssumption DEF TypeOK, GuardMatches, RefusalsFollow,
     RefusalsMatch, WaitsHold, Guarded, Quieted, PCs
<1>5. SwapConsistent'
  <2>1. \A q \in Restores \ {r} : pc[q] \notin Guarded
    BY MaintenanceAssumption DEF GuardMatches
  <2>2. /\ disk' = base' /\ pc'[r] = "staged"
        /\ \A q \in Restores \ {r} : pc'[q] = pc[q]
    BY DEF TypeOK
  <2> QED BY <2>1, <2>2 DEF SwapConsistent, Guarded, PCs
<1>6. WorkConsistent'
  BY DEF TypeOK, GuardMatches, RefusalsFollow, WaitsHold, SwapConsistent,
     WorkConsistent, Live, Swapping, Guarded, Quieted, PCs, NotBegun
<1> QED BY <1>1, <1>2, <1>3, <1>4, <1>5, <1>6

LEMMA BeginMaintenanceKeeps ==
    ASSUME IndInv, NEW r \in Restores, BeginMaintenance(r)
    PROVE  IndInv'
<1> USE DEF IndInv, BeginMaintenance, admission, swap, history
<1>1. TypeOK'
  BY SlotFacts, MaintenanceAssumption DEF TypeOK, PCs, Versions, Absent,
     NotBegun, Clients
<1>2. GuardMatches'
  BY MaintenanceAssumption DEF TypeOK, GuardMatches, RefusalsFollow,
     RefusalsMatch, WaitsHold, Guarded, Quieted, PCs
<1>3. RefusalsFollow'
  BY MaintenanceAssumption, ZenonT(60) DEF TypeOK, GuardMatches, RefusalsFollow,
     RefusalsMatch, Guarded, PCs
<1>4. WaitsHold'
  BY MaintenanceAssumption DEF TypeOK, GuardMatches, RefusalsFollow,
     RefusalsMatch, WaitsHold, Guarded, Quieted, PCs
<1>5. SwapConsistent'
  BY SlotFacts DEF TypeOK, GuardMatches, SwapConsistent, Recoverable, Guarded,
     PCs
<1>6. WorkConsistent'
  BY DEF TypeOK, GuardMatches, RefusalsFollow, WaitsHold, SwapConsistent,
     WorkConsistent, Live, Swapping, Guarded, Quieted, PCs, NotBegun
<1> QED BY <1>1, <1>2, <1>3, <1>4, <1>5, <1>6

LEMMA DrainedKeeps ==
    ASSUME IndInv, NEW r \in Restores, Drained(r)
    PROVE  IndInv'
<1> USE DEF IndInv, Drained, admission, swap, history
<1>1. TypeOK'
  BY SlotFacts, MaintenanceAssumption DEF TypeOK, PCs, Versions, Absent,
     NotBegun, Clients
<1>2. GuardMatches'
  BY MaintenanceAssumption DEF TypeOK, GuardMatches, RefusalsFollow,
     RefusalsMatch, WaitsHold, Guarded, Quieted, PCs
<1>3. RefusalsFollow'
  BY MaintenanceAssumption DEF TypeOK, GuardMatches, RefusalsFollow,
     RefusalsMatch, Guarded, PCs
<1>4. WaitsHold'
  BY MaintenanceAssumption DEF TypeOK, GuardMatches, RefusalsFollow,
     RefusalsMatch, WaitsHold, Guarded, Quieted, PCs
<1>5. SwapConsistent'
  BY SlotFacts DEF TypeOK, GuardMatches, SwapConsistent, Recoverable, Guarded,
     PCs
<1>6. WorkConsistent'
  BY DEF TypeOK, GuardMatches, RefusalsFollow, WaitsHold, SwapConsistent,
     WorkConsistent, Live, Swapping, Guarded, Quieted, PCs, NotBegun
<1> QED BY <1>1, <1>2, <1>3, <1>4, <1>5, <1>6

LEMMA DrainTimeoutKeeps ==
    ASSUME IndInv, NEW r \in Restores, DrainTimeout(r)
    PROVE  IndInv'
<1> USE DEF IndInv, DrainTimeout, Leave, admission, swap, history
<1>1. TypeOK'
  BY SlotFacts, MaintenanceAssumption DEF TypeOK, PCs, Versions, Absent,
     NotBegun, Clients
<1>2. GuardMatches'
  BY MaintenanceAssumption DEF TypeOK, GuardMatches, RefusalsFollow,
     RefusalsMatch, WaitsHold, Guarded, Quieted, PCs
<1>3. RefusalsFollow'
  BY MaintenanceAssumption, ZenonT(60) DEF TypeOK, GuardMatches, RefusalsFollow,
     RefusalsMatch, Guarded, PCs
<1>4. WaitsHold'
  BY MaintenanceAssumption DEF TypeOK, GuardMatches, RefusalsFollow,
     RefusalsMatch, WaitsHold, Guarded, Quieted, PCs
<1>5. SwapConsistent'
  BY SlotFacts DEF TypeOK, GuardMatches, SwapConsistent, Recoverable, Guarded,
     PCs
<1>6. WorkConsistent'
  BY DEF TypeOK, GuardMatches, RefusalsFollow, WaitsHold, SwapConsistent,
     WorkConsistent, Live, Swapping, Guarded, Quieted, PCs, NotBegun
<1> QED BY <1>1, <1>2, <1>3, <1>4, <1>5, <1>6

LEMMA BeginQuiesceKeeps ==
    ASSUME IndInv, NEW r \in Restores, BeginQuiesce(r)
    PROVE  IndInv'
<1> USE DEF IndInv, BeginQuiesce, admission, swap, history
<1>1. TypeOK'
  BY SlotFacts, MaintenanceAssumption DEF TypeOK, PCs, Versions, Absent,
     NotBegun, Clients
<1>2. GuardMatches'
  BY MaintenanceAssumption DEF TypeOK, GuardMatches, RefusalsFollow,
     RefusalsMatch, WaitsHold, Guarded, Quieted, PCs
<1>3. RefusalsFollow'
  BY MaintenanceAssumption DEF TypeOK, GuardMatches, RefusalsFollow,
     RefusalsMatch, Guarded, PCs
<1>4. WaitsHold'
  BY MaintenanceAssumption DEF TypeOK, GuardMatches, RefusalsFollow,
     RefusalsMatch, WaitsHold, Guarded, Quieted, PCs
<1>5. SwapConsistent'
  BY SlotFacts DEF TypeOK, GuardMatches, SwapConsistent, Recoverable, Guarded,
     PCs
<1>6. WorkConsistent'
  BY DEF TypeOK, GuardMatches, RefusalsFollow, WaitsHold, SwapConsistent,
     WorkConsistent, Live, Swapping, Guarded, Quieted, PCs, NotBegun
<1> QED BY <1>1, <1>2, <1>3, <1>4, <1>5, <1>6

LEMMA QuietKeeps ==
    ASSUME IndInv, NEW r \in Restores, Quiet(r)
    PROVE  IndInv'
<1> USE DEF IndInv, Quiet, admission, swap, history
<1>1. TypeOK'
  BY SlotFacts, MaintenanceAssumption DEF TypeOK, PCs, Versions, Absent,
     NotBegun, Clients
<1>2. GuardMatches'
  BY MaintenanceAssumption DEF TypeOK, GuardMatches, RefusalsFollow,
     RefusalsMatch, WaitsHold, Guarded, Quieted, PCs
<1>3. RefusalsFollow'
  BY MaintenanceAssumption DEF TypeOK, GuardMatches, RefusalsFollow,
     RefusalsMatch, Guarded, PCs
<1>4. WaitsHold'
  BY MaintenanceAssumption DEF TypeOK, GuardMatches, RefusalsFollow,
     RefusalsMatch, WaitsHold, Guarded, Quieted, PCs
<1>5. SwapConsistent'
  BY SlotFacts DEF TypeOK, GuardMatches, SwapConsistent, Recoverable, Guarded,
     PCs
<1>6. WorkConsistent'
  BY DEF TypeOK, GuardMatches, RefusalsFollow, WaitsHold, SwapConsistent,
     WorkConsistent, Live, Swapping, Guarded, Quieted, PCs, NotBegun
<1> QED BY <1>1, <1>2, <1>3, <1>4, <1>5, <1>6

LEMMA QuiesceTimeoutKeeps ==
    ASSUME IndInv, NEW r \in Restores, QuiesceTimeout(r)
    PROVE  IndInv'
<1> USE DEF IndInv, QuiesceTimeout, LiftRefusals, Leave, admission, swap,
history
<1>1. TypeOK'
  BY SlotFacts, MaintenanceAssumption DEF TypeOK, PCs, Versions, Absent,
     NotBegun, Clients
<1>2. GuardMatches'
  BY MaintenanceAssumption DEF TypeOK, GuardMatches, RefusalsFollow,
     RefusalsMatch, WaitsHold, Guarded, Quieted, PCs
<1>3. RefusalsFollow'
  BY MaintenanceAssumption, ZenonT(60) DEF TypeOK, GuardMatches, RefusalsFollow,
     RefusalsMatch, Guarded, PCs
<1>4. WaitsHold'
  BY MaintenanceAssumption DEF TypeOK, GuardMatches, RefusalsFollow,
     RefusalsMatch, WaitsHold, Guarded, Quieted, PCs
<1>5. SwapConsistent'
  BY SlotFacts DEF TypeOK, GuardMatches, SwapConsistent, Recoverable, Guarded,
     PCs
<1>6. WorkConsistent'
  BY DEF TypeOK, GuardMatches, RefusalsFollow, WaitsHold, SwapConsistent,
     WorkConsistent, Live, Swapping, Guarded, Quieted, PCs, NotBegun
<1> QED BY <1>1, <1>2, <1>3, <1>4, <1>5, <1>6

-----------------------------------------------------------------------------
(* The swap and its rollback                                               *)

LEMMA PrepareSwapKeeps ==
    ASSUME IndInv, NEW r \in Restores, PrepareSwap(r)
    PROVE  IndInv'
<1> USE DEF IndInv, PrepareSwap, admission, swap, history
<1>1. TypeOK'
  <2>1. aside' \in [Slots -> Versions]
    BY MaintenanceAssumption DEF Versions, Absent
  <2>2. place' \in 0..(Len(Directories) + 1)
    BY SlotFacts
  <2>3. pc' \in [Restores -> PCs]
    BY DEF TypeOK, PCs
  <2> QED BY <2>1, <2>2, <2>3 DEF TypeOK
<1>2. GuardMatches'
  BY MaintenanceAssumption DEF TypeOK, GuardMatches, RefusalsFollow,
     RefusalsMatch, WaitsHold, Guarded, Quieted, PCs
<1>3. RefusalsFollow'
  BY MaintenanceAssumption DEF TypeOK, GuardMatches, RefusalsFollow,
     RefusalsMatch, Guarded, PCs
<1>4. WaitsHold'
  BY MaintenanceAssumption DEF TypeOK, GuardMatches, RefusalsFollow,
     RefusalsMatch, WaitsHold, Guarded, Quieted, PCs
<1>5. SwapConsistent'
  BY SlotFacts DEF TypeOK, GuardMatches, SwapConsistent, Recoverable, Guarded,
     PCs
<1>6. WorkConsistent'
  BY DEF TypeOK, GuardMatches, RefusalsFollow, WaitsHold, SwapConsistent,
     WorkConsistent, Live, Swapping, Guarded, Quieted, PCs, NotBegun
<1> QED BY <1>1, <1>2, <1>3, <1>4, <1>5, <1>6

LEMMA PrepareFailsKeeps ==
    ASSUME IndInv, NEW r \in Restores, PrepareFails(r)
    PROVE  IndInv'
<1> USE DEF IndInv, PrepareFails, LiftRefusals, Leave, admission, swap, history
<1>1. TypeOK'
  BY SlotFacts, MaintenanceAssumption DEF TypeOK, PCs, Versions, Absent,
     NotBegun, Clients
<1>2. GuardMatches'
  BY MaintenanceAssumption DEF TypeOK, GuardMatches, RefusalsFollow,
     RefusalsMatch, WaitsHold, Guarded, Quieted, PCs
<1>3. RefusalsFollow'
  BY MaintenanceAssumption, ZenonT(60) DEF TypeOK, GuardMatches, RefusalsFollow,
     RefusalsMatch, Guarded, PCs
<1>4. WaitsHold'
  BY MaintenanceAssumption DEF TypeOK, GuardMatches, RefusalsFollow,
     RefusalsMatch, WaitsHold, Guarded, Quieted, PCs
<1>5. SwapConsistent'
  BY SlotFacts DEF TypeOK, GuardMatches, SwapConsistent, Recoverable, Guarded,
     PCs
<1>6. WorkConsistent'
  BY DEF TypeOK, GuardMatches, RefusalsFollow, WaitsHold, SwapConsistent,
     WorkConsistent, Live, Swapping, Guarded, Quieted, PCs, NotBegun
<1> QED BY <1>1, <1>2, <1>3, <1>4, <1>5, <1>6

LEMMA MoveAwayKeeps ==
    ASSUME IndInv, NEW r \in Restores, MoveAway(r)
    PROVE  IndInv'
<1> USE DEF IndInv, MoveAway, InSwap, admission, swap, history
<1>1. TypeOK'
  <2>1. place \in Slots
    BY DEF TypeOK
  <2>2. Absent \in Versions /\ disk[place] \in Versions
    BY <2>1, MaintenanceAssumption DEF TypeOK, Versions, Absent
  <2>3. aside' \in [Slots -> Versions] /\ disk' \in [Slots -> Versions]
    BY <2>2 DEF TypeOK
  <2> QED BY <2>1, <2>3 DEF TypeOK
<1>2. GuardMatches'
  BY MaintenanceAssumption DEF TypeOK, GuardMatches, RefusalsFollow,
     RefusalsMatch, WaitsHold, Guarded, Quieted, PCs
<1>3. RefusalsFollow'
  BY MaintenanceAssumption DEF TypeOK, GuardMatches, RefusalsFollow,
     RefusalsMatch, Guarded, PCs
<1>4. WaitsHold'
  BY MaintenanceAssumption DEF TypeOK, GuardMatches, RefusalsFollow,
     RefusalsMatch, WaitsHold, Guarded, Quieted, PCs
<1>5. SwapConsistent'
  BY SlotFacts DEF TypeOK, GuardMatches, SwapConsistent, Recoverable, Guarded,
     PCs
<1>6. WorkConsistent'
  BY DEF TypeOK, GuardMatches, RefusalsFollow, WaitsHold, SwapConsistent,
     WorkConsistent, Live, Swapping, Guarded, Quieted, PCs, NotBegun
<1> QED BY <1>1, <1>2, <1>3, <1>4, <1>5, <1>6

LEMMA MoveInKeeps ==
    ASSUME IndInv, NEW r \in Restores, MoveIn(r)
    PROVE  IndInv'
<1> USE DEF IndInv, MoveIn, InSwap, admission, swap, history
<1>1. TypeOK'
  BY SlotFacts, MaintenanceAssumption DEF TypeOK, PCs, Versions, Absent,
     NotBegun, Clients
<1>2. GuardMatches'
  BY MaintenanceAssumption DEF TypeOK, GuardMatches, RefusalsFollow,
     RefusalsMatch, WaitsHold, Guarded, Quieted, PCs
<1>3. RefusalsFollow'
  BY MaintenanceAssumption DEF TypeOK, GuardMatches, RefusalsFollow,
     RefusalsMatch, Guarded, PCs
<1>4. WaitsHold'
  BY MaintenanceAssumption DEF TypeOK, GuardMatches, RefusalsFollow,
     RefusalsMatch, WaitsHold, Guarded, Quieted, PCs
<1>5. SwapConsistent'
  BY SlotFacts DEF TypeOK, GuardMatches, SwapConsistent, Recoverable, Guarded,
     PCs
<1>6. WorkConsistent'
  BY DEF TypeOK, GuardMatches, RefusalsFollow, WaitsHold, SwapConsistent,
     WorkConsistent, Live, Swapping, Guarded, Quieted, PCs, NotBegun
<1> QED BY <1>1, <1>2, <1>3, <1>4, <1>5, <1>6

LEMMA SkipDirectoryKeeps ==
    ASSUME IndInv, NEW r \in Restores, SkipDirectory(r)
    PROVE  IndInv'
<1> USE DEF IndInv, SkipDirectory, admission, swap, history
<1>1. TypeOK'
  BY SlotFacts, MaintenanceAssumption, SMTT(60) DEF TypeOK, PCs, Versions, Absent,
     NotBegun, Clients
<1>2. GuardMatches'
  BY MaintenanceAssumption DEF TypeOK, GuardMatches, RefusalsFollow,
     RefusalsMatch, WaitsHold, Guarded, Quieted, PCs
<1>3. RefusalsFollow'
  BY MaintenanceAssumption DEF TypeOK, GuardMatches, RefusalsFollow,
     RefusalsMatch, Guarded, PCs
<1>4. WaitsHold'
  BY MaintenanceAssumption DEF TypeOK, GuardMatches, RefusalsFollow,
     RefusalsMatch, WaitsHold, Guarded, Quieted, PCs
<1>5. SwapConsistent'
  BY SlotFacts DEF TypeOK, GuardMatches, SwapConsistent, Recoverable, Guarded,
     PCs
<1>6. WorkConsistent'
  BY DEF TypeOK, GuardMatches, RefusalsFollow, WaitsHold, SwapConsistent,
     WorkConsistent, Live, Swapping, Guarded, Quieted, PCs, NotBegun
<1> QED BY <1>1, <1>2, <1>3, <1>4, <1>5, <1>6

LEMMA SwapFailsKeeps ==
    ASSUME IndInv, NEW r \in Restores, SwapFails(r)
    PROVE  IndInv'
<1> USE DEF IndInv, SwapFails, InSwap, admission, swap, history
<1>1. TypeOK'
  BY SlotFacts, MaintenanceAssumption DEF TypeOK, PCs, Versions, Absent,
     NotBegun, Clients
<1>2. GuardMatches'
  BY MaintenanceAssumption DEF TypeOK, GuardMatches, RefusalsFollow,
     RefusalsMatch, WaitsHold, Guarded, Quieted, PCs
<1>3. RefusalsFollow'
  BY MaintenanceAssumption DEF TypeOK, GuardMatches, RefusalsFollow,
     RefusalsMatch, Guarded, PCs
<1>4. WaitsHold'
  BY MaintenanceAssumption DEF TypeOK, GuardMatches, RefusalsFollow,
     RefusalsMatch, WaitsHold, Guarded, Quieted, PCs
<1>5. SwapConsistent'
  BY SlotFacts DEF TypeOK, GuardMatches, SwapConsistent, Recoverable, Guarded,
     PCs
<1>6. WorkConsistent'
  BY DEF TypeOK, GuardMatches, RefusalsFollow, WaitsHold, SwapConsistent,
     WorkConsistent, Live, Swapping, Guarded, Quieted, PCs, NotBegun
<1> QED BY <1>1, <1>2, <1>3, <1>4, <1>5, <1>6

LEMMA RollBackKeeps ==
    ASSUME IndInv, NEW r \in Restores, RollBack(r)
    PROVE  IndInv'
<1> USE DEF IndInv, RollBack, admission, swap, history
<1>1. TypeOK'
  <2>1. Absent \in Versions /\ aside[place] \in Versions
    BY MaintenanceAssumption DEF TypeOK, Versions, Absent
  <2>2. disk' \in [Slots -> Versions]
    BY <2>1 DEF TypeOK
  <2>3. place' \in 0..(Len(Directories) + 1)
    BY SlotFacts
  <2>4. failed' \in BOOLEAN
    BY DEF TypeOK
  <2> QED BY <2>2, <2>3, <2>4 DEF TypeOK
<1>2. GuardMatches'
  BY MaintenanceAssumption DEF TypeOK, GuardMatches, RefusalsFollow,
     RefusalsMatch, WaitsHold, Guarded, Quieted, PCs
<1>3. RefusalsFollow'
  BY MaintenanceAssumption DEF TypeOK, GuardMatches, RefusalsFollow,
     RefusalsMatch, Guarded, PCs
<1>4. WaitsHold'
  BY MaintenanceAssumption DEF TypeOK, GuardMatches, RefusalsFollow,
     RefusalsMatch, WaitsHold, Guarded, Quieted, PCs
<1>5. SwapConsistent'
  <2>1. \A q \in Restores : pc[q] \in Guarded => q = r
    BY MaintenanceAssumption DEF GuardMatches, Guarded, PCs
  <2>2. place \in Nat /\ place' = place - 1 /\ \A d \in Slots : d \in Nat
    BY SlotFacts
  <2>3. ASSUME NEW d \in Slots, d < place
        PROVE  disk'[d] = disk[d]
    BY <2>2, <2>3 DEF TypeOK
  <2>4. ASSUME NEW d \in Slots, d > place, ~failed'
        PROVE  disk'[d] = base[d] /\ ~failed
    BY <2>2, <2>4, SMTT(60) DEF TypeOK, SwapConsistent
  <2>5. ASSUME ~failed'
        PROVE  disk'[place] = base[place]
    <3>1. Recoverable(place)
      BY <2>2 DEF SwapConsistent
    <3>2. ~failed /\ disk' = LET removed == IF place \in plan \cap attempted
                                            THEN [disk EXCEPT ![place] = Absent]
                                            ELSE disk
                             IN  IF place \in plan \cap moved
                                 THEN [removed EXCEPT ![place] = aside[place]]
                                 ELSE removed
      BY <2>5
    <3> QED BY <3>1, <3>2 DEF TypeOK, Recoverable
  <2>6. ASSUME NEW d \in Slots, d <= place'
        PROVE  Recoverable(d)'
    BY <2>2, <2>3, <2>6 DEF SwapConsistent, Recoverable
  <2>7. ASSUME NEW d \in Slots, d > place', ~failed'
        PROVE  disk'[d] = base'[d]
    BY <2>2, <2>4, <2>5, <2>7
  <2> QED BY <2>1, <2>6, <2>7 DEF SwapConsistent, Guarded, PCs
<1>6. WorkConsistent'
  BY DEF TypeOK, GuardMatches, RefusalsFollow, WaitsHold, SwapConsistent,
     WorkConsistent, Live, Swapping, Guarded, Quieted, PCs, NotBegun
<1> QED BY <1>1, <1>2, <1>3, <1>4, <1>5, <1>6

LEMMA RolledBackKeeps ==
    ASSUME IndInv, NEW r \in Restores, RolledBack(r)
    PROVE  IndInv'
<1> USE DEF IndInv, RolledBack, LiftRefusals, Leave, admission, swap, history
<1>1. TypeOK'
  BY SlotFacts, MaintenanceAssumption DEF TypeOK, PCs, Versions, Absent,
     NotBegun, Clients
<1>2. GuardMatches'
  BY MaintenanceAssumption DEF TypeOK, GuardMatches, RefusalsFollow,
     RefusalsMatch, WaitsHold, Guarded, Quieted, PCs
<1>3. RefusalsFollow'
  BY MaintenanceAssumption DEF TypeOK, GuardMatches, RefusalsFollow,
     RefusalsMatch, Guarded, PCs
<1>4. WaitsHold'
  BY MaintenanceAssumption DEF TypeOK, GuardMatches, RefusalsFollow,
     RefusalsMatch, WaitsHold, Guarded, Quieted, PCs
<1>5. SwapConsistent'
  BY SlotFacts DEF TypeOK, GuardMatches, SwapConsistent, Recoverable, Guarded,
     PCs
<1>6. WorkConsistent'
  <2>1. ~Swapping' /\ Swapping
    BY MaintenanceAssumption DEF TypeOK, GuardMatches, Swapping, Guarded, PCs
  <2>2. ASSUME ~failed
        PROVE  disk = base
    <3>1. \A d \in Slots : d > place
      BY SlotFacts
    <3> QED BY <2>2, <3>1 DEF TypeOK, SwapConsistent
  <2>3. ~stay' => Live' = Live
    BY <2>1, <2>2 DEF Live
  <2>4. ~stay
    BY DEF RefusalsFollow, Guarded, PCs
  <2> QED BY <2>3, <2>4 DEF WorkConsistent
<1> QED BY <1>1, <1>2, <1>3, <1>4, <1>5, <1>6

LEMMA ReplacedKeeps ==
    ASSUME IndInv, NEW r \in Restores, Replaced(r)
    PROVE  IndInv'
<1> USE DEF IndInv, Replaced, admission, swap, history
<1>1. TypeOK'
  <2>1. generation < archives
    BY MaintenanceAssumption DEF GuardMatches, Guarded, PCs
  <2>2. generation' \in 0..MaxArchives
    BY <2>1, MaintenanceAssumption DEF TypeOK
  <2>3. pc' \in [Restores -> PCs]
    BY DEF TypeOK, PCs
  <2> QED BY <2>2, <2>3 DEF TypeOK
<1>2. GuardMatches'
  BY MaintenanceAssumption DEF TypeOK, GuardMatches, RefusalsFollow,
     RefusalsMatch, WaitsHold, Guarded, Quieted, PCs
<1>3. RefusalsFollow'
  BY MaintenanceAssumption DEF TypeOK, GuardMatches, RefusalsFollow,
     RefusalsMatch, Guarded, PCs
<1>4. WaitsHold'
  BY MaintenanceAssumption DEF TypeOK, GuardMatches, RefusalsFollow,
     RefusalsMatch, WaitsHold, Guarded, Quieted, PCs
<1>5. SwapConsistent'
  BY SlotFacts DEF TypeOK, GuardMatches, SwapConsistent, Recoverable, Guarded,
     PCs
<1>6. WorkConsistent'
  BY DEF TypeOK, GuardMatches, RefusalsFollow, WaitsHold, SwapConsistent,
     WorkConsistent, Live, Swapping, Guarded, Quieted, PCs, NotBegun
<1> QED BY <1>1, <1>2, <1>3, <1>4, <1>5, <1>6

-----------------------------------------------------------------------------
(* The process starts again                                                *)

LEMMA RestartKeeps ==
    ASSUME IndInv, Restart
    PROVE  IndInv'
<1> USE DEF IndInv, Restart, admission, swap, history
<1>1. TypeOK'
  <2>1. begun' \in [Workers -> NotBegun..MaxArchives]
    BY MaintenanceAssumption DEF NotBegun
  <2>2. generation' \in 0..MaxArchives /\ restarts' \in 0..MaxRestarts
    BY MaintenanceAssumption DEF TypeOK
  <2>3. pc' \in [Restores -> PCs] /\ seen' \in [Workers -> SUBSET [Slots ->
  Versions]]
    BY DEF PCs
  <2>4. sound' \in BOOLEAN
    BY DEF TypeOK
  <2> QED BY <2>1, <2>2, <2>3, <2>4 DEF TypeOK
<1>2. GuardMatches'
  BY MaintenanceAssumption DEF TypeOK, GuardMatches, RefusalsFollow,
     RefusalsMatch, WaitsHold, Guarded, Quieted, PCs
<1>3. RefusalsFollow'
  BY MaintenanceAssumption DEF TypeOK, GuardMatches, RefusalsFollow,
     RefusalsMatch, Guarded, PCs
<1>4. WaitsHold'
  BY MaintenanceAssumption DEF TypeOK, GuardMatches, RefusalsFollow,
     RefusalsMatch, WaitsHold, Guarded, Quieted, PCs
<1>5. SwapConsistent'
  BY SlotFacts DEF TypeOK, GuardMatches, SwapConsistent, Recoverable, Guarded,
     PCs
<1>6. WorkConsistent'
  BY DEF TypeOK, GuardMatches, RefusalsFollow, WaitsHold, SwapConsistent,
     WorkConsistent, Live, Swapping, Guarded, Quieted, PCs, NotBegun
<1> QED BY <1>1, <1>2, <1>3, <1>4, <1>5, <1>6

-----------------------------------------------------------------------------
(* The invariant holds                                                       *)

LEMMA InitIndInv == Init => IndInv
<1> SUFFICES ASSUME Init PROVE IndInv
  OBVIOUS
<1>1. TypeOK
  <2>1. Absent \in Versions /\ 0 \in Versions
    BY MaintenanceAssumption DEF Versions, Absent
  <2>2. disk \in [Slots -> Versions] /\ aside \in [Slots -> Versions]
    BY <2>1 DEF Init
  <2>3. base \in [Slots -> Versions]
    BY <2>2 DEF Init
  <2>4. begun \in [Workers -> NotBegun..MaxArchives]
    BY MaintenanceAssumption DEF Init, NotBegun
  <2>5. pc \in [Restores -> PCs] /\ seen \in [Workers -> SUBSET [Slots ->
  Versions]]
    BY DEF Init, PCs
  <2>6. /\ place \in 0..(Len(Directories) + 1)
        /\ generation \in 0..MaxArchives
        /\ archives \in 0..MaxArchives
        /\ restarts \in 0..MaxRestarts
    BY SlotFacts, MaintenanceAssumption DEF Init
  <2> QED BY <2>2, <2>3, <2>4, <2>5, <2>6 DEF Init, TypeOK
<1>2. \A r \in Restores : pc[r] = "idle"
  BY DEF Init
<1>3. GuardMatches
  BY <1>2, MaintenanceAssumption DEF Init, GuardMatches, Guarded, PCs
<1>4. RefusalsFollow /\ WaitsHold /\ SwapConsistent
  BY <1>2 DEF Init, RefusalsFollow, RefusalsMatch, WaitsHold, Quieted,
              SwapConsistent, Guarded, PCs
<1>5. WorkConsistent
  <2>1. NotBegun <= 0 /\ NotBegun # 0
    BY DEF NotBegun
  <2>2. \A w \in Workers : begun[w] = NotBegun /\ seen[w] = {}
    BY Zenon DEF Init
  <2>3. generation = 0 /\ sections = {}
    BY DEF Init
  <2> QED BY <2>1, <2>2, <2>3, Zenon DEF WorkConsistent
<1> QED BY <1>1, <1>3, <1>4, <1>5 DEF IndInv

LEMMA StutterKeeps ==
    ASSUME IndInv, UNCHANGED vars
    PROVE  IndInv'
<1> USE DEF IndInv, vars, admission, swap, history
<1>1. TypeOK'
  BY DEF TypeOK
<1>2. GuardMatches' /\ RefusalsFollow' /\ WaitsHold'
  BY DEF GuardMatches, RefusalsFollow, RefusalsMatch, WaitsHold
<1>3. SwapConsistent'
  BY DEF SwapConsistent, Recoverable
<1>4. WorkConsistent'
  BY DEF WorkConsistent, Live, Swapping
<1> QED BY <1>1, <1>2, <1>3, <1>4

LEMMA NextKeeps == IndInv /\ [Next]_vars => IndInv'
<1> SUFFICES ASSUME IndInv, [Next]_vars PROVE IndInv'
  OBVIOUS
<1>1. CASE UNCHANGED vars
  BY <1>1, StutterKeeps
<1>2. ASSUME NEW c \in Clients, ClientConnects(c) PROVE IndInv'
  BY <1>2, ClientConnectsKeeps
<1>3. ASSUME NEW w \in Workers, WorkStep(w) PROVE IndInv'
  BY <1>3, BeginWorkKeeps, EnterSectionKeeps, LeaveSectionKeeps, EndWorkKeeps
     DEF WorkStep
<1>4. ASSUME NEW r \in Restores, SwapStep(r) PROVE IndInv'
  BY <1>4, PrepareSwapKeeps, PrepareFailsKeeps, MoveAwayKeeps, MoveInKeeps,
     SkipDirectoryKeeps, SwapFailsKeeps, RollBackKeeps, RolledBackKeeps,
     ReplacedKeeps DEF SwapStep
<1>5. ASSUME NEW r \in Restores, RestoreStep(r) PROVE IndInv'
  BY <1>4, <1>5, UploadKeeps, RejectKeeps, StageKeeps, BeginMaintenanceKeeps,
     DrainedKeeps, DrainTimeoutKeeps, BeginQuiesceKeeps, QuietKeeps,
     QuiesceTimeoutKeeps DEF RestoreStep
<1>6. CASE Restart
  BY <1>6, RestartKeeps
<1> QED BY <1>1, <1>2, <1>3, <1>5, <1>6 DEF Next

(* The inductive invariant: the guard, the refusals, the waits, the state  *)
(* of the swap and what work has read fit together after every step of     *)
(* maintenance.py, connection.py, the restore endpoint and apply_restore.  *)
THEOREM AlwaysIndInv == Spec => []IndInv
<1>1. Init => IndInv
  BY InitIndInv
<1>2. IndInv /\ [Next]_vars => IndInv'
  BY NextKeeps
<1> QED BY <1>1, <1>2, PTL DEF Spec

(* Every variable keeps its type; the bound on generation needs that it    *)
(* never gets ahead of the archives a guarded restore has staged.          *)
THEOREM TypeCorrect == Spec => []TypeOK
<1>1. IndInv => TypeOK
  BY DEF IndInv
<1> QED BY <1>1, AlwaysIndInv, PTL

(* begin_maintenance and begin_quiesce do what apply_restore relies on: no *)
(* directory is renamed, or renamed back, under a section or a handle.     *)
THEOREM SwapIsQuiet == Spec => []QuietSwap
<1>1. IndInv => QuietSwap
  BY DEF IndInv, WaitsHold, Quieted, QuietSwap, Swapping
<1> QED BY <1>1, AlwaysIndInv, PTL

(* The restore endpoint lifts both refusals on every path that left the    *)
(* original data in place, and on no other before the process restarts.    *)
THEOREM RefusalsAreRight == Spec => []RefusalsMatch
<1>1. IndInv => RefusalsMatch
  BY DEF IndInv, RefusalsFollow
<1> QED BY <1>1, AlwaysIndInv, PTL

(* work_section(epoch) refuses work that began before the data was         *)
(* replaced: within one piece of work every section met the same data.     *)
THEOREM WorkIsNeverStale == Spec => []NoStaleWork
<1>1. IndInv => NoStaleWork
  <2> SUFFICES ASSUME IndInv, NEW w \in Workers, NEW data \in seen[w],
                      w \in sections
               PROVE  data = disk
    BY DEF NoStaleWork
  <2>1. ~stay /\ ~Swapping
    BY DEF IndInv, WaitsHold, Quieted, Swapping
  <2>2. begun[w] = generation
    BY DEF IndInv, WorkConsistent
  <2>3. seen[w] \subseteq {disk}
    BY <2>1, <2>2 DEF IndInv, WorkConsistent, Live
  <2> QED BY <2>3
<1> QED BY <1>1, AlwaysIndInv, PTL

-----------------------------------------------------------------------------
(* A restore implements AtomicRestore                                        *)

Everyone == Clients \cup Restores
Using == sections \cup pending \cup open

LEMMA AccessStep ==
    ASSUME TypeOK, UNCHANGED <<plan, archives, sound>>, Live' = Live,
           Using' \subseteq Using \/ \E u \in Everyone : Using' = Using \cup {u}
    PROVE  [Atomic!Next]_(Atomic!vars)
<1>1. Using \subseteq Everyone
  BY DEF TypeOK, Using, Everyone, Clients
<1>2. CASE Using' \subseteq Using
  <2>1. Using' = Using \ (Using \ Using') /\ Using \ Using' \in SUBSET Everyone
    BY <1>1, <1>2
  <2>2. Atomic!Release(Using \ Using')
    BY <2>1 DEF Atomic!Release, Using, Live
  <2> QED BY <2>1, <2>2 DEF Atomic!Next, Everyone
<1>3. ASSUME NEW u \in Everyone, Using' = Using \cup {u}
      PROVE  [Atomic!Next]_(Atomic!vars)
  <2>1. Atomic!Use(u)
    BY <1>3 DEF Atomic!Use, Using, Live
  <2> QED BY <2>1 DEF Atomic!Next, Everyone
<1> QED BY <1>2, <1>3

LEMMA OnlyOneSwaps ==
    ASSUME IndInv, NEW r \in Restores, pc[r] \in Guarded
    PROVE  /\ \A q \in Restores \ {r} : pc[q] \notin Guarded
           /\ Swapping <=> pc[r] \in {"swapping", "rollback"}
BY MaintenanceAssumption DEF IndInv, GuardMatches, Swapping, Guarded, PCs

(* The clients and the background work only use and release.               *)
LEMMA ClientStepRefines ==
    ASSUME IndInv, NEW c \in Clients, ClientConnects(c)
    PROVE  [Atomic!Next]_(Atomic!vars)
<1>1. UNCHANGED <<plan, archives, sound>> /\ Live' = Live
  BY DEF ClientConnects, swap, history, Live, Swapping
<1>2. Using' \subseteq Using \/ Using' = Using \cup {c}
  BY DEF ClientConnects, Connect, ConnectEnds, Close, Using
<1> QED BY <1>1, <1>2, AccessStep DEF IndInv, Everyone

LEMMA WorkStepRefines ==
    ASSUME IndInv, NEW w \in Workers, WorkStep(w)
    PROVE  [Atomic!Next]_(Atomic!vars)
<1> USE DEF WorkStep, BeginWork, EnterSection, LeaveSection, EndWork
<1>1. UNCHANGED <<plan, archives, sound>> /\ Live' = Live
  BY DEF swap, history, Live, Swapping
<1>2. Using' \subseteq Using \/ Using' = Using \cup {w}
  BY DEF admission, Using
<1> QED BY <1>1, <1>2, AccessStep DEF IndInv, Everyone, Clients

(* Before the swap, and when it is given up, the data stays.               *)
LEMMA WaitStepRefines ==
    ASSUME IndInv, NEW r \in Restores,
           \/ Upload(r) \/ Reject(r) \/ BeginMaintenance(r) \/ Drained(r)
           \/ DrainTimeout(r) \/ BeginQuiesce(r) \/ Quiet(r)
           \/ QuiesceTimeout(r) \/ PrepareFails(r)
    PROVE  [Atomic!Next]_(Atomic!vars)
<1> USE DEF Upload, Reject, BeginMaintenance, Drained, DrainTimeout,
            BeginQuiesce, Quiet, QuiesceTimeout, PrepareFails, LiftRefusals,
            Leave, Connect, ConnectEnds, admission, swap, history
<1>1. UNCHANGED <<plan, archives, sound, disk, base>>
  OBVIOUS
<1>2. Swapping' <=> Swapping
  <2>1. pc[r] \notin {"swapping", "rollback"} /\ pc'[r] \notin {"swapping",
  "rollback"}
    BY DEF IndInv, TypeOK
  <2>2. \A q \in Restores \ {r} : pc'[q] = pc[q]
    BY DEF IndInv, TypeOK
  <2> QED BY <2>1, <2>2 DEF Swapping
<1>3. Using' \subseteq Using \/ Using' = Using \cup {r}
  BY DEF Using
<1> QED BY <1>1, <1>2, <1>3, AccessStep DEF IndInv, Everyone, Live

LEMMA StageRefines ==
    ASSUME IndInv, IndInv', NEW r \in Restores, Stage(r)
    PROVE  [Atomic!Next]_(Atomic!vars)
<1>1. ~Swapping /\ ~Swapping'
  BY MaintenanceAssumption, SMTT(60) DEF Stage, IndInv, TypeOK, GuardMatches, Swapping,
     Guarded, PCs
<1>2. plan' \in SUBSET Slots /\ archives' \in Versions
  BY MaintenanceAssumption DEF IndInv, TypeOK, Versions, Absent
<1>3. Atomic!Offer(plan', archives')
  BY <1>1 DEF Stage, admission, Atomic!Offer
<1> QED BY <1>2, <1>3 DEF Atomic!Next

(* The renames happen behind the data as it is seen from outside.          *)
LEMMA RenameRefines ==
    ASSUME IndInv, NEW r \in Restores,
           \/ PrepareSwap(r) \/ MoveAway(r) \/ MoveIn(r) \/ SkipDirectory(r)
           \/ SwapFails(r) \/ RollBack(r)
    PROVE  [Atomic!Next]_(Atomic!vars)
<1> USE DEF PrepareSwap, MoveAway, MoveIn, SkipDirectory, SwapFails, RollBack,
            InSwap, admission, swap, history
<1>1. UNCHANGED <<plan, archives, sound, base, sections, pending, open>>
  OBVIOUS
<1>2. Swapping'
  BY DEF IndInv, TypeOK, Swapping
<1>3. Swapping \/ disk = base
  BY DEF Swapping, IndInv, SwapConsistent, Guarded, PCs
<1> QED BY <1>1, <1>2, <1>3, AccessStep DEF IndInv, Using, Live

LEMMA RolledBackRefines ==
    ASSUME IndInv, IndInv', NEW r \in Restores, RolledBack(r)
    PROVE  [Atomic!Next]_(Atomic!vars)
<1>1. Swapping /\ ~Swapping'
  BY MaintenanceAssumption
     DEF RolledBack, Leave, IndInv, TypeOK, GuardMatches, Swapping, Guarded, PCs
<1>2. Using = {} /\ Using' = {}
  BY DEF RolledBack, Leave, IndInv, WaitsHold, Quieted, Using
<1>3. UNCHANGED <<plan, archives, disk, base>>
  BY DEF RolledBack, swap
<1>4. CASE failed
  <2>1. Atomic!Damage
    BY <1>1, <1>2, <1>3, <1>4 DEF Atomic!Damage, RolledBack, Using, IndInv,
       TypeOK
  <2> QED BY <2>1 DEF Atomic!Next
<1>5. CASE ~failed
  <2>1. disk = base
    <3>1. \A d \in Slots : d > place
      BY SlotFacts DEF RolledBack
    <3> QED BY <1>5, <3>1 DEF RolledBack, IndInv, TypeOK, SwapConsistent
  <2>2. sound' = sound
    BY <1>5 DEF RolledBack, IndInv, TypeOK
  <2> QED BY <1>1, <1>2, <1>3, <2>1, <2>2, AccessStep DEF IndInv, Live
<1> QED BY <1>4, <1>5

(* The end of the swap is the one moment in which the data is replaced.    *)
LEMMA ReplacedRefines ==
    ASSUME IndInv, IndInv', NEW r \in Restores, Replaced(r)
    PROVE  [Atomic!Next]_(Atomic!vars)
<1>1. Swapping /\ ~Swapping'
  BY MaintenanceAssumption, SMTT(60)
     DEF Replaced, IndInv, TypeOK, GuardMatches, Swapping, Guarded, PCs
<1>2. Using = {} /\ Using' = {}
  BY DEF Replaced, IndInv, WaitsHold, Quieted, Using
<1>3. UNCHANGED <<plan, archives, disk, base, sound>>
  BY DEF Replaced, swap
<1>4. ASSUME NEW d \in Slots
      PROVE  disk[d] = IF d \in plan THEN archives ELSE base[d]
  <2>1. d < place
    BY SlotFacts DEF Replaced
  <2> QED BY <2>1 DEF Replaced, IndInv, SwapConsistent, Recoverable
<1>5. disk = [d \in Slots |-> IF d \in plan THEN archives ELSE base[d]]
  BY <1>4 DEF IndInv, TypeOK
<1>6. Atomic!Replace
  BY <1>1, <1>2, <1>3, <1>5 DEF Atomic!Replace, Using
<1> QED BY <1>6 DEF Atomic!Next

LEMMA RestartRefines ==
    ASSUME IndInv, IndInv', Restart
    PROVE  [Atomic!Next]_(Atomic!vars)
<1>1. ~Swapping' /\ Using' = {} /\ UNCHANGED <<plan, archives, disk, base>>
  BY DEF Restart, swap, Swapping, Using
<1>2. CASE Swapping
  <2>1. Using = {}
    BY <1>2 DEF IndInv, WaitsHold, Quieted, Swapping, Using
  <2>2. Atomic!Damage
    BY <1>1, <1>2, <2>1 DEF Atomic!Damage, Restart, Using, IndInv, TypeOK
  <2> QED BY <2>2 DEF Atomic!Next
<1>3. CASE ~Swapping
  <2>1. sound' = sound
    BY <1>3 DEF Restart, IndInv, TypeOK
  <2> QED BY <1>1, <1>3, <2>1, AccessStep DEF IndInv, Live
<1> QED BY <1>2, <1>3

LEMMA InitRefines == Init => Atomic!Init
<1> SUFFICES ASSUME Init PROVE Atomic!Init
  OBVIOUS
<1>1. Live = disk /\ Using = {}
  BY DEF Init, Live, Using
<1>2. disk \in [Slots -> Versions] /\ plan \in SUBSET Slots /\ archives \in
Versions
  BY InitIndInv, MaintenanceAssumption DEF IndInv, TypeOK, Versions, Absent
<1> QED BY <1>1, <1>2 DEF Init, Atomic!Init, Live, Using

LEMMA NextRefines ==
    IndInv /\ IndInv' /\ [Next]_vars => [Atomic!Next]_(Atomic!vars)
<1> SUFFICES ASSUME IndInv, IndInv', [Next]_vars
             PROVE  [Atomic!Next]_(Atomic!vars)
  OBVIOUS
<1>1. CASE UNCHANGED vars
  <2>1. UNCHANGED <<plan, archives, sound>> /\ Live' = Live /\ Using' = Using
    BY <1>1 DEF vars, admission, swap, history, Live, Swapping, Using
  <2> QED BY <2>1, AccessStep DEF IndInv
<1>2. ASSUME NEW c \in Clients, ClientConnects(c)
      PROVE  [Atomic!Next]_(Atomic!vars)
  BY <1>2, ClientStepRefines
<1>3. ASSUME NEW w \in Workers, WorkStep(w)
      PROVE  [Atomic!Next]_(Atomic!vars)
  BY <1>3, WorkStepRefines
<1>4. ASSUME NEW r \in Restores, RestoreStep(r)
      PROVE  [Atomic!Next]_(Atomic!vars)
  BY <1>4, WaitStepRefines, StageRefines, RenameRefines, RolledBackRefines,
     ReplacedRefines DEF RestoreStep, SwapStep
<1>5. CASE Restart
  BY <1>5, RestartRefines
<1> QED BY <1>1, <1>2, <1>3, <1>4, <1>5 DEF Next

(* The restore endpoint with apply_restore is atomic for everyone who is   *)
(* admitted: all the renames together replace the data in one step, or     *)
(* leave it as it was, unless a rollback fails or the process is killed.   *)
THEOREM RestoreIsAtomic == Spec => DataIsAtomic
<1>1. Init => Atomic!Init
  BY InitRefines
<1>2. IndInv /\ IndInv' /\ [Next]_vars => [Atomic!Next]_(Atomic!vars)
  BY NextRefines
<1>3. Spec => []IndInv
  BY AlwaysIndInv
<1> QED BY <1>1, <1>2, <1>3, PTL DEF Spec, DataIsAtomic, Atomic!Spec
=============================================================================
