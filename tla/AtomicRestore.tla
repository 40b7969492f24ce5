--------------------------- MODULE AtomicRestore ---------------------------
(***************************************************************************)
(* What a restore promises, without windows, timeouts, renames or          *)
(* rollbacks: the data is replaced in one step, at a moment when nobody    *)
(* uses it.  Only a restore that itself fails to roll back, or a process   *)
(* killed in the middle of one, leaves something else behind.              *)
(***************************************************************************)
CONSTANTS Slots, Versions, Users

VARIABLES data,     \* the version of each directory
          archive,  \* the archive to restore: its directories and version
          users,    \* who may read or write it
          sound     \* no restore has left a mixture behind

vars == <<data, archive, users, sound>>

Init ==
    /\ data \in [Slots -> Versions]
    /\ archive \in [slots : SUBSET Slots, version : Versions]
    /\ users = {}
    /\ sound = TRUE

Use(u) ==
    /\ users' = users \cup {u}
    /\ UNCHANGED <<data, archive, sound>>

Release(S) ==
    /\ users' = users \ S
    /\ UNCHANGED <<data, archive, sound>>

Offer(S, version) ==
    /\ archive' = [slots |-> S, version |-> version]
    /\ UNCHANGED <<data, users, sound>>

(* All directories of the archive, at once. *)
Replace ==
    /\ users = {}
    /\ data' = [d \in Slots |-> IF d \in archive.slots THEN archive.version ELSE data[d]]
    /\ UNCHANGED <<archive, users, sound>>

Damage ==
    /\ users = {}
    /\ data' \in [Slots -> Versions]
    /\ sound' = FALSE
    /\ UNCHANGED <<archive, users>>

Next ==
    \/ \E u \in Users : Use(u)
    \/ \E S \in SUBSET Users : Release(S)
    \/ \E S \in SUBSET Slots, version \in Versions : Offer(S, version)
    \/ Replace
    \/ Damage

Spec == Init /\ [][Next]_vars
=============================================================================
