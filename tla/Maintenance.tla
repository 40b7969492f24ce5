---------------------------- MODULE Maintenance ----------------------------
(***************************************************************************)
(* A restore against everything else the process does: the maintenance     *)
(* window and the data generation that admit background work, the registry *)
(* that admits database connections, the guard of the restore endpoint,    *)
(* and the swap of the data directories with its rollback.                 *)
(*                                                                         *)
(* app/utils/maintenance.py, app/db/sqlite/connection.py, the restore of   *)
(* app/api/settings.py and apply_restore of app/utils/backup.py.           *)
(*                                                                         *)
(* Each action is one critical section of the code or one rename of the    *)
(* swap.  What the directories hold is abstracted to a version: 0 at the   *)
(* start, n for the n-th archive that is uploaded.                         *)
(***************************************************************************)
EXTENDS Integers, Sequences

CONSTANTS
    Workers,      \* background work: checks, queue runs, jobs, backups
    Requests,     \* API requests, which only hold a connection
    Restores,     \* restore requests
    NoRestore,
    Directories,  \* BACKUP_DIRECTORIES, in the order of the swap
    MaxArchives,  \* bound: how many restores get past the guard
    MaxRestarts,  \* bound: how often the process starts again
    Faults        \* bound: which renames may fail, and whether the process
                  \* may be killed in the middle of a swap

ASSUME MaintenanceAssumption ==
    /\ Workers \cap Requests = {}
    /\ (Workers \cup Requests) \cap Restores = {}
    /\ NoRestore \notin Restores
    /\ Directories \in Seq(STRING)
    /\ Directories # <<>>
    /\ MaxArchives \in Nat
    /\ MaxRestarts \in Nat
    /\ Faults \subseteq {"prepare", "swap", "rollback", "kill"}

Clients == Workers \cup Requests
Slots == DOMAIN Directories   \* a directory is known by its place in the order
Database == 1                 \* sqlite comes first
Absent == -1

VARIABLES
    active,      \* _ACTIVE
    generation,  \* _GENERATION
    sections,    \* who is inside work_section(), counted by _INFLIGHT
    quiesced,    \* _QUIESCED
    pending,     \* connect() calls counted by _PENDING_CONNECTS
    open,        \* who owns a handle of _OPEN_CONNECTIONS
    guard,       \* the restore that holds _RESTORE_GUARD
    pc,          \* where each restore request is
    plan,        \* the directories of the archive that are swapped
    moved,       \* moved_away
    attempted,   \* targets that may hold restored data
    place,       \* the directory that is swapped, or rolled back, next
    failed,      \* whether a step of the rollback failed
    disk,        \* the versions of the directories in use
    aside,       \* the versions kept in rollback_dir
    begun,       \* per worker: the generation its work began with
    archives,    \* how many archives were staged
    restarts,    \* how often the process started again
    base,        \* history: the directories before the restore
    sound,       \* history: no rollback failed, no swap was cut off
    stay,        \* history: the refusals are to stay until a restart
    seen         \* history, per worker: the data its work has met so far

admission == <<active, generation, sections, quiesced, pending, open>>
swap == <<plan, moved, attempted, place, failed, disk, aside>>
history == <<base, sound, stay, seen>>
vars == <<admission, guard, pc, swap, begun, archives, restarts, history>>

-----------------------------------------------------------------------------
Versions == Absent..MaxArchives
PCs == {"idle", "uploaded", "staged", "draining", "drained", "quiescing",
        "quiet", "swapping", "rollback", "replaced"}
NotBegun == -1

TypeOK ==
    /\ active \in BOOLEAN
    /\ generation \in 0..MaxArchives
    /\ sections \subseteq Workers
    /\ quiesced \in BOOLEAN
    /\ pending \subseteq Clients \cup Restores
    /\ open \subseteq Clients \cup Restores
    /\ guard \in Restores \cup {NoRestore}
    /\ pc \in [Restores -> PCs]
    /\ plan \subseteq Slots
    /\ moved \subseteq Slots
    /\ attempted \subseteq Slots
    /\ place \in 0..(Len(Directories) + 1)
    /\ failed \in BOOLEAN
    /\ disk \in [Slots -> Versions]
    /\ aside \in [Slots -> Versions]
    /\ begun \in [Workers -> NotBegun..MaxArchives]
    /\ archives \in 0..MaxArchives
    /\ restarts \in 0..MaxRestarts
    /\ base \in [Slots -> Versions]
    /\ sound \in BOOLEAN
    /\ stay \in BOOLEAN
    /\ seen \in [Workers -> SUBSET [Slots -> Versions]]

Swapping == \E r \in Restores : pc[r] \in {"swapping", "rollback"}

-----------------------------------------------------------------------------
(* Connections: connect() is refused or counted as pending, then it fails  *)
(* or is registered in the same step that releases the pending count.      *)

Admits(c) ==
    /\ c \notin pending \cup open
    /\ ~quiesced

Connect(c) ==
    /\ Admits(c)
    /\ pending' = pending \cup {c}
    /\ UNCHANGED <<active, generation, sections, quiesced, open>>

ConnectEnds(c) ==
    /\ c \in pending
    /\ pending' = pending \ {c}
    /\ open' \in {open, open \cup {c}}
    /\ UNCHANGED <<active, generation, sections, quiesced>>

Close(c) ==
    /\ c \in open
    /\ open' = open \ {c}
    /\ UNCHANGED <<active, generation, sections, quiesced, pending>>

ClientConnects(c) ==
    /\ c \in Workers => c \in sections
    /\ Connect(c) \/ ConnectEnds(c) \/ Close(c)
    /\ UNCHANGED <<guard, pc, swap, begun, archives, restarts, history>>

-----------------------------------------------------------------------------
(* Background work: it notes the generation, reads in a section, computes  *)
(* without one (network, subprocess), and persists in the next.            *)

BeginWork(w) ==
    /\ begun[w] = NotBegun
    /\ begun' = [begun EXCEPT ![w] = generation]
    /\ UNCHANGED <<admission, guard, pc, swap, archives, restarts, history>>

Admitted(w) == ~active /\ begun[w] = generation

EnterSection(w) ==
    /\ begun[w] # NotBegun /\ w \notin sections
    /\ Admitted(w)
    /\ sections' = sections \cup {w}
    /\ seen' = [seen EXCEPT ![w] = @ \cup {disk}]
    /\ UNCHANGED <<active, generation, quiesced, pending, open, guard, pc, swap,
                   begun, archives, restarts, base, sound, stay>>

LeaveSection(w) ==
    /\ w \in sections \ (pending \cup open)
    /\ sections' = sections \ {w}
    /\ UNCHANGED <<active, generation, quiesced, pending, open, guard, pc, swap,
                   begun, archives, restarts, history>>

(* The work is done, or dropped because a section refused it.              *)
EndWork(w) ==
    /\ begun[w] # NotBegun /\ w \notin sections
    /\ begun' = [begun EXCEPT ![w] = NotBegun]
    /\ seen' = [seen EXCEPT ![w] = {}]
    /\ UNCHANGED <<admission, guard, pc, swap, archives, restarts, base, sound, stay>>

-----------------------------------------------------------------------------
(* The restore request                                                     *)

(* get_conn, then the upload and its verification.                         *)
Upload(r) ==
    /\ pc[r] = "idle"
    /\ \/ (Connect(r) \/ ConnectEnds(r)) /\ UNCHANGED pc
       \/ r \in open /\ pc' = [pc EXCEPT ![r] = "uploaded"] /\ UNCHANGED admission
    /\ UNCHANGED <<guard, swap, begun, archives, restarts, history>>

(* The request fails and gives back its connection and the guard.          *)
Leave(r) ==
    /\ pc' = [pc EXCEPT ![r] = "idle"]
    /\ open' = open \ {r}
    /\ guard' = IF guard = r THEN NoRestore ELSE guard
    /\ UNCHANGED <<generation, sections, pending>>

(* Rejected: a bad upload (400), or another restore holds the guard (503). *)
Reject(r) ==
    /\ pc[r] = "uploaded"
    /\ Leave(r)
    /\ UNCHANGED <<active, quiesced, swap, begun, archives, restarts, history>>

(* The guard, then extraction and migration in the staging directory.  An  *)
(* archive holds the database, not necessarily every directory.            *)
Stage(r) ==
    /\ pc[r] = "uploaded"
    /\ guard = NoRestore
    /\ archives < MaxArchives
    /\ guard' = r
    /\ archives' = archives + 1
    /\ plan' \in {p \in SUBSET Slots : Database \in p}
    /\ base' = disk
    /\ pc' = [pc EXCEPT ![r] = "staged"]
    /\ UNCHANGED <<admission, moved, attempted, place, failed, disk, aside,
                   begun, restarts, sound, stay, seen>>

(* begin_maintenance: refuse new sections, then wait for the running ones. *)
BeginMaintenance(r) ==
    /\ pc[r] = "staged"
    /\ active' = TRUE
    /\ pc' = [pc EXCEPT ![r] = "draining"]
    /\ UNCHANGED <<generation, sections, quiesced, pending, open, guard, swap,
                   begun, archives, restarts, history>>

(* Mutant: the running sections are not waited for.                        *)
DrainedAtOnce(r) ==
    /\ pc[r] = "draining"
    /\ pc' = [pc EXCEPT ![r] = "drained"]
    /\ UNCHANGED <<admission, guard, swap, begun, archives, restarts, history>>

Drained(r) ==
    /\ pc[r] = "draining"
    /\ sections = {}
    /\ pc' = [pc EXCEPT ![r] = "drained"]
    /\ UNCHANGED <<admission, guard, swap, begun, archives, restarts, history>>

(* They did not finish within the timeout: the refusal is lifted again.    *)
DrainTimeout(r) ==
    /\ pc[r] = "draining"
    /\ sections # {}
    /\ active' = FALSE
    /\ Leave(r)
    /\ UNCHANGED <<quiesced, swap, begun, archives, restarts, history>>

(* begin_quiesce: the same for connections.                                *)
BeginQuiesce(r) ==
    /\ pc[r] = "drained"
    /\ quiesced' = TRUE
    /\ pc' = [pc EXCEPT ![r] = "quiescing"]
    /\ UNCHANGED <<active, generation, sections, pending, open, guard, swap,
                   begun, archives, restarts, history>>

(* Nobody else is left; the request closes its own handle.                 *)
Quiet(r) ==
    /\ pc[r] = "quiescing"
    /\ pending = {} /\ open \subseteq {r}
    /\ open' = open \ {r}
    /\ pc' = [pc EXCEPT ![r] = "quiet"]
    /\ UNCHANGED <<active, generation, sections, quiesced, pending, guard, swap,
                   begun, archives, restarts, history>>

(* Mutant: connections stay refused after a restore that changed nothing.  *)
LiftSections == active' = FALSE /\ quiesced' = quiesced

LiftRefusals == active' = FALSE /\ quiesced' = FALSE

QuiesceTimeout(r) ==
    /\ pc[r] = "quiescing"
    /\ ~(pending = {} /\ open \subseteq {r})
    /\ LiftRefusals
    /\ Leave(r)
    /\ UNCHANGED <<swap, begun, archives, restarts, history>>

-----------------------------------------------------------------------------
(* apply_restore                                                           *)

(* The plan and the rollback directory; a failure here changes nothing.    *)
PrepareSwap(r) ==
    /\ pc[r] = "quiet"
    /\ pc' = [pc EXCEPT ![r] = "swapping"]
    /\ moved' = {}
    /\ attempted' = {}
    /\ place' = 1
    /\ failed' = FALSE
    /\ aside' = [d \in Slots |-> Absent]
    /\ UNCHANGED <<admission, guard, plan, disk, begun, archives, restarts, history>>

PrepareFails(r) ==
    /\ pc[r] = "quiet"
    /\ "prepare" \in Faults
    /\ LiftRefusals
    /\ Leave(r)
    /\ UNCHANGED <<swap, begun, archives, restarts, history>>

InSwap(r) == pc[r] = "swapping" /\ place \in plan

(* The original goes to rollback_dir.                                      *)
MoveAway(r) ==
    /\ InSwap(r)
    /\ place \notin attempted
    /\ disk[place] # Absent
    /\ aside' = [aside EXCEPT ![place] = disk[place]]
    /\ disk' = [disk EXCEPT ![place] = Absent]
    /\ moved' = moved \cup {place}
    /\ UNCHANGED <<admission, guard, pc, plan, attempted, place, failed, begun,
                   archives, restarts, history>>

(* The directory of the archive takes its place.                           *)
MoveIn(r) ==
    /\ InSwap(r)
    /\ disk[place] = Absent
    /\ attempted' = attempted \cup {place}
    /\ disk' = [disk EXCEPT ![place] = archives]
    /\ place' = place + 1
    /\ UNCHANGED <<admission, guard, pc, plan, moved, failed, aside, begun,
                   archives, restarts, history>>

SkipDirectory(r) ==
    /\ pc[r] = "swapping"
    /\ place \in Slots \ plan
    /\ place' = place + 1
    /\ UNCHANGED <<admission, guard, pc, plan, moved, attempted, failed, disk, aside,
                   begun, archives, restarts, history>>

(* A rename fails: the rollback starts with the last directory.            *)
SwapFails(r) ==
    /\ InSwap(r)
    /\ "swap" \in Faults
    /\ attempted' = IF disk[place] = Absent THEN attempted \cup {place} ELSE attempted
    /\ pc' = [pc EXCEPT ![r] = "rollback"]
    /\ place' = Len(Directories)
    /\ UNCHANGED <<admission, guard, plan, moved, failed, disk, aside, begun,
                   archives, restarts, history>>

(* Mutant: the rollback only brings back what was not yet replaced.        *)
RollBackMoved(r) ==
    /\ pc[r] = "rollback"
    /\ place \in Slots
    /\ disk' = IF place \in plan \cap moved /\ disk[place] = Absent
               THEN [disk EXCEPT ![place] = aside[place]] ELSE disk
    /\ place' = place - 1
    /\ UNCHANGED <<admission, guard, pc, plan, moved, attempted, failed, aside, begun,
                   archives, restarts, history>>

(* One directory of the rollback: what was restored is removed, then the   *)
(* original comes back.  A failure does not end the rollback.              *)
RollBack(r) ==
    /\ pc[r] = "rollback"
    /\ place \in Slots
    /\ LET removed == IF place \in plan \cap attempted
                      THEN [disk EXCEPT ![place] = Absent] ELSE disk
       IN  \/ /\ disk' = IF place \in plan \cap moved
                         THEN [removed EXCEPT ![place] = aside[place]] ELSE removed
              /\ UNCHANGED failed
           \/ /\ "rollback" \in Faults
              /\ place \in plan \cap (attempted \cup moved)
              /\ disk' \in {disk, removed}
              /\ failed' = TRUE
    /\ place' = place - 1
    /\ UNCHANGED <<admission, guard, pc, plan, moved, attempted, aside, begun,
                   archives, restarts, history>>

(* The original data is back: operation resumes.  Else the refusals stay.  *)
RolledBack(r) ==
    /\ pc[r] = "rollback"
    /\ place = 0
    /\ IF failed THEN UNCHANGED <<active, quiesced>> ELSE LiftRefusals
    /\ sound' = (sound /\ ~failed)
    /\ stay' = failed
    /\ Leave(r)
    /\ UNCHANGED <<swap, begun, archives, restarts, base, seen>>

(* Mutant: the window ends with the restore, and no generation is counted. *)
ReplacedAndLifted(r) ==
    /\ pc[r] = "swapping"
    /\ place = Len(Directories) + 1
    /\ LiftRefusals
    /\ stay' = TRUE
    /\ Leave(r)
    /\ UNCHANGED <<swap, begun, archives, restarts, base, sound, seen>>

(* confirm_data_replaced; the refusals stay until the process restarts.    *)
Replaced(r) ==
    /\ pc[r] = "swapping"
    /\ place = Len(Directories) + 1
    /\ generation' = generation + 1
    /\ stay' = TRUE
    /\ pc' = [pc EXCEPT ![r] = "idle"]
    /\ guard' = NoRestore
    /\ UNCHANGED <<active, sections, quiesced, pending, open, swap, begun,
                   archives, restarts, base, sound, seen>>

-----------------------------------------------------------------------------
(* The process ends, by itself after a restore, or by a crash, and starts  *)
(* again with what the disk holds; rollback_dir is not looked at.          *)
Restart ==
    /\ restarts < MaxRestarts
    /\ Swapping => "kill" \in Faults
    /\ restarts' = restarts + 1
    /\ sound' = (sound /\ ~Swapping)
    /\ active' = FALSE
    /\ generation' = 0
    /\ sections' = {}
    /\ quiesced' = FALSE
    /\ pending' = {}
    /\ open' = {}
    /\ guard' = NoRestore
    /\ pc' = [r \in Restores |-> "idle"]
    /\ begun' = [w \in Workers |-> NotBegun]
    /\ stay' = FALSE
    /\ seen' = [w \in Workers |-> {}]
    /\ UNCHANGED <<swap, archives, base>>

-----------------------------------------------------------------------------
Init ==
    /\ active = FALSE
    /\ generation = 0
    /\ sections = {}
    /\ quiesced = FALSE
    /\ pending = {}
    /\ open = {}
    /\ guard = NoRestore
    /\ pc = [r \in Restores |-> "idle"]
    /\ plan = {}
    /\ moved = {}
    /\ attempted = {}
    /\ place = 0
    /\ failed = FALSE
    /\ disk \in [Slots -> {0, Absent}]
    /\ disk[Database] = 0
    /\ aside = [d \in Slots |-> Absent]
    /\ begun = [w \in Workers |-> NotBegun]
    /\ archives = 0
    /\ restarts = 0
    /\ base = disk
    /\ sound = TRUE
    /\ stay = FALSE
    /\ seen = [w \in Workers |-> {}]

WorkStep(w) == BeginWork(w) \/ EnterSection(w) \/ LeaveSection(w) \/ EndWork(w)

SwapStep(r) ==
    \/ PrepareSwap(r) \/ PrepareFails(r)
    \/ MoveAway(r) \/ MoveIn(r) \/ SkipDirectory(r) \/ SwapFails(r)
    \/ RollBack(r) \/ RolledBack(r) \/ Replaced(r)

RestoreStep(r) ==
    \/ Upload(r) \/ Reject(r) \/ Stage(r)
    \/ BeginMaintenance(r) \/ Drained(r) \/ DrainTimeout(r)
    \/ BeginQuiesce(r) \/ Quiet(r) \/ QuiesceTimeout(r)
    \/ SwapStep(r)

Next ==
    \/ \E c \in Clients : ClientConnects(c)
    \/ \E w \in Workers : WorkStep(w)
    \/ \E r \in Restores : RestoreStep(r)
    \/ Restart

Spec == Init /\ [][Next]_vars

(* A restore thread goes on: its waits are bounded by timeouts.  Sections  *)
(* and requests need not end.                                              *)
Fairness == \A r \in Restores : WF_vars(pc[r] # "idle" /\ RestoreStep(r))

FairSpec == Spec /\ Fairness

-----------------------------------------------------------------------------
(* Safety                                                                  *)

(* No directory is renamed under anybody: while the swap or its rollback   *)
(* runs, no section is in flight and no handle is open or being opened.    *)
QuietSwap == Swapping => sections = {} /\ pending = {} /\ open = {}

(* What a piece of work reads in one section and writes in a later one is  *)
(* the same data: no result from before a restore is persisted after it.   *)
NoStaleWork == \A w \in Workers : \A data \in seen[w] : w \in sections => data = disk

(* Both refusals are in force exactly while a restore needs them: they are *)
(* lifted after every failure that left the original data in place, and    *)
(* stay after a replacement or a failed rollback.                          *)
RefusalsMatch ==
    guard = NoRestore => active = stay /\ quiesced = stay

(* Seen from outside a restore is one step: whoever is admitted finds the  *)
(* directories as they were before it or all replaced, unless it reported  *)
(* that its rollback failed or was killed half-way.                        *)
Atomic == INSTANCE AtomicRestore WITH
    Users <- Clients \cup Restores,
    data <- IF Swapping THEN base ELSE disk,
    archive <- [slots |-> plan, version |-> archives],
    users <- sections \cup pending \cup open

DataIsAtomic == Atomic!Spec

(* A restore ends, one way or the other, even if work never does.          *)
RestoreEnds == \A r \in Restores : pc[r] # "idle" ~> pc[r] = "idle"

-----------------------------------------------------------------------------
(* The inductive invariant behind the safety properties, by topic.         *)

Guarded == PCs \ {"idle", "uploaded"}
Quieted == {"quiet", "swapping", "rollback"}

(* The guard is held exactly from the staging to the end of the restore.   *)
GuardMatches ==
    /\ \A r \in Restores : /\ pc[r] \in Guarded <=> guard = r
                           /\ pc[r] = "uploaded" => r \in open
    /\ generation <= archives
    /\ guard # NoRestore => generation < archives

(* How far the refusals are in force while the guard is held.              *)
RefusalsFollow ==
    /\ RefusalsMatch
    /\ \A r \in Restores : pc[r] \in Guarded =>
          /\ ~stay
          /\ active <=> pc[r] # "staged"
          /\ quiesced <=> pc[r] \notin {"staged", "draining", "drained"}

(* What the two waits of the restore have established stays true.          *)
WaitsHold ==
    /\ \A r \in Restores :
          pc[r] \in {"drained", "quiescing"} \cup Quieted => sections = {}
    /\ stay \/ (\E r \in Restores : pc[r] \in Quieted) =>
          sections = {} /\ pending = {} /\ open = {}

(* A directory the swap has not reached, is moving, or has replaced: what  *)
(* the rollback needs to know to bring back the original.                  *)
Recoverable(d) ==
    /\ d \in attempted \cup moved => d \in plan
    /\ d \in moved => aside[d] = base[d]
    /\ d \in attempted \ moved => base[d] = Absent
    /\ d \in moved \ attempted => disk[d] = Absent
    /\ d \notin attempted \cup moved => disk[d] = base[d]

SwapConsistent ==
    \A r \in Restores :
        /\ pc[r] \in Guarded \ {"swapping", "rollback"} => disk = base
        /\ pc[r] = "swapping" => \A d \in Slots :
              /\ Recoverable(d)
              /\ d \in attempted => disk[d] = archives
              /\ d < place /\ d \in plan => d \in attempted
              /\ d >= place => d \notin attempted
              /\ d > place => d \notin moved
        /\ pc[r] = "rollback" => \A d \in Slots :
              /\ d <= place => Recoverable(d)
              /\ d > place /\ ~failed => disk[d] = base[d]

(* Work that may still be admitted has met only the data now in use.       *)
Live == IF Swapping THEN base ELSE disk

WorkConsistent ==
    \A w \in Workers :
        /\ begun[w] <= generation
        /\ begun[w] = NotBegun => seen[w] = {}
        /\ w \in sections => begun[w] = generation
        /\ begun[w] = generation /\ ~stay => seen[w] \subseteq {Live}

IndInv ==
    /\ TypeOK
    /\ GuardMatches
    /\ RefusalsFollow
    /\ WaitsHold
    /\ SwapConsistent
    /\ WorkConsistent
=============================================================================
