--------------------------- MODULE TargetRunsProofs ---------------------------
(***************************************************************************)
(* One target among any number of schedulers, with any number of metrics   *)
(* and a lease of two beats or more.  A check that was never stuck holds   *)
(* the lease as long as the target is stored; what it measured it compares *)
(* with the settings before it writes; and who writes for a deleted target *)
(* was writing when the deletion committed.                                *)
(***************************************************************************)
EXTENDS MCRuntime, SequenceTheorems, TLAPS

Run == [pc : {"off", "draining", "on"}, epoch : Nat, known : Nat, read : Nat \union {-1}, paused : BOOLEAN]
CheckRow == [pc : {"none", "checking", "fenced", "storing", "matched", "ending"},
          version : Nat, lost : BOOLEAN, beaten : BOOLEAN]
Thread == [pc : {"none", "queued", "writing", "written", "failed"},
           epoch : Nat, left : Int, lost : BOOLEAN]

Typed ==
    /\ stored \in [exists : BOOLEAN, version : Nat]
    /\ files \in [count : Nat, deleting : BOOLEAN]
    /\ status \in Nat
    /\ lease \in [owner : Procs, epoch : Nat, beats : Nat]
    /\ runs \in [Procs -> Run]
    /\ checks \in [Procs -> CheckRow]
    /\ writers \in [Procs -> Thread]
    /\ fuss \in [edits : Nat, troubles : Nat, disturbed : SUBSET Procs,
                 late : BOOLEAN, raced : BOOLEAN]

Writing(p) == writers[p].pc \in {"queued", "writing"}

(* The lease of a check that beats: it survives the next beat.             *)
Holding(p) ==
    /\ Owns(p) /\ ~checks[p].lost
    /\ lease.beats >= LeaseBeats - 1
    /\ checks[p].beaten => lease.beats = LeaseBeats

(* A check ends with its run; its thread is the only one, and it is awake. *)
Steady(p) ==
    /\ checks[p].pc # "none" => runs[p].pc = "on"
    /\ p \notin fuss.disturbed =>
         /\ Writing(p) => checks[p].pc = "storing"
         /\ Measuring(p) => ~runs[p].paused /\ (stored.exists => Holding(p))

Compared ==
    \A p \in Procs : checks[p].pc = "matched" /\ stored.exists =>
        checks[p].version = stored.version \/ fuss.raced

LateWrites ==
    ~stored.exists => /\ files.count > 0 => fuss.late
                      /\ (\E p \in Procs : Writing(p)) => fuss.late

RunsInv ==
    /\ Typed /\ (\A p \in Procs : Steady(p)) /\ OneMeasurer
    /\ Compared /\ LateWrites

-----------------------------------------------------------------------------
(* What a step of one process may do                                       *)

Same(p) ==
    \A r \in Procs \ {p} :
        /\ runs'[r] = runs[r] /\ checks'[r] = checks[r] /\ writers'[r] = writers[r]
        /\ r \in fuss'.disturbed <=> r \in fuss.disturbed

Quiet == fuss'.late = fuss.late /\ fuss'.raced = fuss.raced

(* It takes the lease only if that is its own or has expired.              *)
Fair(p) ==
    /\ Same(p) /\ Quiet /\ stored' = stored
    /\ lease' = lease \/ lease.owner = p \/ lease.beats = 0

(* It compares before it writes, and starts nothing on a deleted target.   *)
Careful(p) ==
    /\ checks'[p].pc = "matched" =>
         \/ Matches(checks'[p].version)
         \/ checks[p].pc = "matched" /\ checks'[p].version = checks[p].version
    /\ ~stored.exists =>
         /\ Measuring(p)' /\ p \notin fuss'.disturbed => Measuring(p) /\ p \notin fuss.disturbed
         /\ Writing(p)' => Writing(p)
         /\ files'.count > 0 => files.count > 0 \/ Writing(p)

LEMMA OthersKeepTheirs ==
    ASSUME RunsInv, NEW p \in Procs, Fair(p), NEW r \in Procs, r # p
    PROVE  Steady(r)' /\ (Measuring(r)' <=> Measuring(r)) /\ (Writing(r)' <=> Writing(r))
<1>1. /\ runs'[r] = runs[r] /\ checks'[r] = checks[r] /\ writers'[r] = writers[r]
      /\ r \in fuss'.disturbed <=> r \in fuss.disturbed
      /\ stored' = stored /\ (lease' = lease \/ lease.owner = p \/ lease.beats = 0)
  BY DEF Fair, Same
<1>2. Steady(r) /\ LeaseBeats \in Nat /\ LeaseBeats >= 2 /\ lease.beats \in Nat
  BY RunAssumption DEF RunsInv, Typed
<1>3. (Measuring(r)' <=> Measuring(r)) /\ (Writing(r)' <=> Writing(r))
  BY <1>1 DEF Measuring, Writing
<1>4. r \notin fuss.disturbed /\ Measuring(r) /\ stored.exists => lease' = lease
  BY <1>1, <1>2 DEF Steady, Holding, Owns
<1>5. Steady(r)'
  BY <1>1, <1>2, <1>3, <1>4 DEF Steady, Holding, Owns
<1> QED BY <1>3, <1>5

LEMMA TwoHold ==
    ASSUME NEW p \in Procs, NEW q \in Procs, p # q, stored.exists, Steady(p), Steady(q),
           Measuring(p), Measuring(q)
    PROVE  {p, q} \intersect fuss.disturbed # {}
  BY DEF Steady, Holding, Owns

(* A fair and careful step of p that keeps what p itself holds.            *)
LEMMA OneSteps ==
    ASSUME RunsInv, NEW p \in Procs, Fair(p), Careful(p), Steady(p)', Typed'
    PROVE  RunsInv'
<1>1. \A r \in Procs : Steady(r)'
  BY OthersKeepTheirs
<1>2. stored' = stored /\ fuss'.late = fuss.late /\ fuss'.raced = fuss.raced
  BY DEF Fair, Quiet
<1>3. \A r \in Procs \ {p} : /\ Measuring(r)' <=> Measuring(r)
                             /\ Writing(r)' <=> Writing(r)
                             /\ checks'[r] = checks[r]
                             /\ r \in fuss'.disturbed <=> r \in fuss.disturbed
  BY OthersKeepTheirs DEF Fair, Same
<1>4. OneMeasurer'
  <2>1. CASE stored.exists
    <3>1. stored.exists'
      BY <2>1, <1>2
    <3> SUFFICES ASSUME NEW a \in Procs, NEW b \in Procs, a # b, Measuring(a)', Measuring(b)'
                 PROVE  {a, b} \intersect fuss'.disturbed # {}
      BY DEF OneMeasurer
    <3> QED BY <1>1, <3>1 DEF Steady, Holding, Owns
  <2>2. CASE ~stored.exists
    <3>1. \A r \in Procs : Measuring(r)' /\ r \notin fuss'.disturbed
                              => Measuring(r) /\ r \notin fuss.disturbed
      BY <2>2, <1>3 DEF Careful
    <3> QED BY <3>1 DEF RunsInv, OneMeasurer
  <2> QED BY <2>1, <2>2
<1>5. Compared'
  BY <1>2, <1>3 DEF RunsInv, Compared, Careful, Matches
<1>6. LateWrites'
  BY <1>2, <1>3 DEF RunsInv, LateWrites, Careful
<1> QED BY <1>1, <1>4, <1>5, <1>6 DEF RunsInv

-----------------------------------------------------------------------------
(* The records the steps write                                             *)

LEMMA NothingTyped ==
    /\ NoCheck \in CheckRow /\ NoThread \in Thread
    /\ NoLease \in [owner : Procs, epoch : Nat, beats : Nat]
    /\ NoCheck.pc = "none" /\ NoThread.pc = "none"
<1>1. (CHOOSE p \in Procs : TRUE) \in Procs
  BY RunAssumption
<1> QED BY <1>1 DEF NoCheck, NoThread, NoLease, CheckRow, Thread

LEMMA LeaseTyped ==
    ASSUME Typed, NEW p \in Procs
    PROVE  /\ Leased(p) \in [owner : Procs, epoch : Nat, beats : Nat]
           /\ Leased(p).owner = p /\ Leased(p).epoch = runs[p].epoch
           /\ Leased(p).beats = LeaseBeats
  BY RunAssumption DEF Typed, Leased, Run

LEMMA PcTyped ==
    ASSUME Typed, NEW p \in Procs,
           NEW place \in {"none", "checking", "fenced", "storing", "matched", "ending"}, At(p, place)
    PROVE  /\ checks' \in [Procs -> CheckRow]
           /\ checks'[p].pc = place /\ checks'[p].version = checks[p].version
           /\ checks'[p].lost = checks[p].lost /\ checks'[p].beaten = checks[p].beaten
           /\ \A r \in Procs \ {p} : checks'[r] = checks[r]
<1>1. checks[p] \in CheckRow /\ checks' = [checks EXCEPT ![p].pc = place]
  BY DEF Typed, At
<1> DEFINE c == [checks[p] EXCEPT !.pc = place]
<1>2. /\ c \in CheckRow /\ c.pc = place /\ c.version = checks[p].version
      /\ c.lost = checks[p].lost /\ c.beaten = checks[p].beaten
  BY <1>1 DEF CheckRow
<1>3. checks' = [checks EXCEPT ![p] = c]
  BY <1>1
<1> HIDE DEF c
<1> QED BY <1>2, <1>3 DEF Typed

LEMMA Settled ==
    ASSUME Typed, NEW p \in Procs, fuss' = Settle(p)
    PROVE  /\ fuss' \in [edits : Nat, troubles : Nat, disturbed : SUBSET Procs,
                         late : BOOLEAN, raced : BOOLEAN]
           /\ Quiet
           /\ \A r \in Procs \ {p} : r \in fuss'.disturbed <=> r \in fuss.disturbed
           /\ p \in fuss'.disturbed <=> p \in fuss.disturbed /\ Measuring(p)'
<1> DEFINE d == IF Measuring(p)' THEN fuss.disturbed ELSE fuss.disturbed \ {p}
<1>1. /\ fuss' = [fuss EXCEPT !.disturbed = d]
      /\ fuss \in [edits : Nat, troubles : Nat, disturbed : SUBSET Procs,
                   late : BOOLEAN, raced : BOOLEAN]
  BY DEF Settle, Typed
<1>2. d \in SUBSET Procs
  BY <1>1
<1>3. /\ \A r \in Procs \ {p} : r \in d <=> r \in fuss.disturbed
      /\ p \in d <=> p \in fuss.disturbed /\ Measuring(p)'
  OBVIOUS
<1> HIDE DEF d
<1>4. /\ fuss' \in [edits : Nat, troubles : Nat, disturbed : SUBSET Procs,
                    late : BOOLEAN, raced : BOOLEAN]
      /\ fuss'.late = fuss.late /\ fuss'.raced = fuss.raced /\ fuss'.disturbed = d
  BY <1>1, <1>2
<1> QED BY <1>3, <1>4 DEF Quiet

LEMMA Troubled ==
    ASSUME Typed, NEW D \in SUBSET Procs,
           fuss' = [fuss EXCEPT !.troubles = @ + 1, !.disturbed = D]
    PROVE  /\ fuss' \in [edits : Nat, troubles : Nat, disturbed : SUBSET Procs,
                         late : BOOLEAN, raced : BOOLEAN]
           /\ Quiet /\ fuss'.disturbed = D
<1> DEFINE n == fuss.troubles + 1
<1>1. /\ fuss' = [fuss EXCEPT !.troubles = n, !.disturbed = D]
      /\ fuss \in [edits : Nat, troubles : Nat, disturbed : SUBSET Procs,
                   late : BOOLEAN, raced : BOOLEAN]
  BY DEF Typed
<1>2. n \in Nat
  BY <1>1
<1> HIDE DEF n
<1> QED BY <1>1, <1>2 DEF Quiet

-----------------------------------------------------------------------------
(* The runs of a scheduler                                                 *)

LEMMA RunsProceed ==
    ASSUME RunsInv, NEW p \in Procs, RunStep(p)
    PROVE  RunsInv'
<1>1. UNCHANGED <<stored, files, status, lease, checks, writers, fuss>>
  BY DEF RunStep, StartRun, DrainOldThreads, ReadTargets, ApplyTargets
<1>2. Typed /\ Steady(p)
  BY DEF RunsInv
<1>3. /\ runs' \in [Procs -> Run]
      /\ \A r \in Procs \ {p} : runs'[r] = runs[r]
      /\ runs'[p].paused = runs[p].paused
      /\ checks[p].pc # "none" =>
             runs'[p].pc = "on" /\ runs'[p].epoch = runs[p].epoch
  <2>1. runs[p] \in Run /\ runs \in [Procs -> Run] /\ stored.version \in Nat
    BY <1>2 DEF Typed
  <2>2. CASE StartRun(p)
    <3> DEFINE n == runs[p].epoch + 1
               x == [runs[p] EXCEPT !.pc = "draining", !.epoch = n, !.read = -1]
    <3>1. n \in Nat
      BY <2>1 DEF Run
    <3>2. runs' = [runs EXCEPT ![p] = x]
      BY <2>1, <2>2 DEF StartRun
    <3> HIDE DEF n
    <3>3. x \in Run /\ x.paused = runs[p].paused
      BY <2>1, <3>1 DEF Run
    <3> HIDE DEF x
    <3> QED BY <1>2, <2>1, <2>2, <3>2, <3>3, ZenonT(60) DEF StartRun, Steady
  <2>3. CASE DrainOldThreads(p)
    <3> DEFINE x == [runs[p] EXCEPT !.pc = "on"]
    <3>1. runs' = [runs EXCEPT ![p] = x]
      BY <2>1, <2>3 DEF DrainOldThreads
    <3>2. x \in Run /\ x.paused = runs[p].paused /\ x.pc = "on" /\ x.epoch = runs[p].epoch
      BY <2>1 DEF Run
    <3> HIDE DEF x
    <3> QED BY <2>1, <3>1, <3>2
  <2>4. CASE ReadTargets(p)
    <3> DEFINE v == IF stored.exists THEN stored.version ELSE 0
               x == [runs[p] EXCEPT !.read = v]
    <3>1. v \in Nat
      BY <2>1
    <3>2. runs' = [runs EXCEPT ![p] = x]
      BY <2>1, <2>4 DEF ReadTargets
    <3> HIDE DEF v
    <3>3. x \in Run /\ x.paused = runs[p].paused /\ x.pc = runs[p].pc /\ x.epoch = runs[p].epoch
      BY <2>1, <3>1 DEF Run
    <3> HIDE DEF x
    <3> QED BY <2>1, <2>4, <3>2, <3>3 DEF ReadTargets, Awake
  <2>5. CASE ApplyTargets(p)
    <3> DEFINE x == [runs[p] EXCEPT !.known = runs[p].read, !.read = -1]
    <3>1. runs' = [runs EXCEPT ![p] = x]
      BY <2>1, <2>5 DEF ApplyTargets
    <3>2. x \in Run /\ x.paused = runs[p].paused /\ x.pc = runs[p].pc /\ x.epoch = runs[p].epoch
      BY <2>1, <2>5 DEF Run, ApplyTargets
    <3> HIDE DEF x
    <3> QED BY <2>1, <2>5, <3>1, <3>2 DEF ApplyTargets, Awake
  <2> QED BY <2>2, <2>3, <2>4, <2>5 DEF RunStep
<1>4. Typed'
  BY <1>1, <1>2, <1>3 DEF Typed
<1>5. Fair(p) /\ Careful(p)
  BY <1>1, <1>3 DEF Fair, Same, Quiet, Careful, Measuring, Writing
<1>6. Steady(p)'
  <2>1. Measuring(p) /\ p \notin fuss.disturbed => checks[p].pc # "none"
    BY <1>2 DEF Steady, Measuring, Writing
  <2> QED BY <1>1, <1>2, <1>3, <2>1 DEF Steady, Measuring, Writing, Holding, Owns
<1> QED BY <1>4, <1>5, <1>6, OneSteps

-----------------------------------------------------------------------------
(* The steps of a check                                                    *)

LEMMA LocksTarget ==
    ASSUME RunsInv, NEW p \in Procs, TryLock(p)
    PROVE  RunsInv'
<1> DEFINE c == [pc |-> "checking", version |-> runs[p].known, lost |-> FALSE, beaten |-> TRUE]
<1>1. Typed /\ Steady(p) /\ runs[p] \in Run
  BY DEF RunsInv, Typed
<1>2. c \in CheckRow /\ c.pc = "checking" /\ ~c.lost /\ c.beaten
  BY <1>1 DEF CheckRow, Run
<1>3. /\ UNCHANGED <<stored, files, status, runs, writers, fuss>> /\ lease' = Leased(p)
      /\ checks' = [checks EXCEPT ![p] = c] /\ runs[p].pc = "on" /\ ~runs[p].paused
      /\ stored.exists /\ (lease.beats = 0 \/ lease.owner = p)
  BY DEF TryLock, Awake, Matches, Owns
<1> HIDE DEF c
<1>4. /\ checks' \in [Procs -> CheckRow] /\ checks'[p] = c
      /\ \A r \in Procs \ {p} : checks'[r] = checks[r]
  BY <1>1, <1>2, <1>3 DEF Typed
<1>5. Typed'
  BY <1>1, <1>3, <1>4, LeaseTyped DEF Typed
<1>6. Fair(p) /\ Careful(p)
  BY <1>2, <1>3, <1>4 DEF Fair, Same, Quiet, Careful
<1>7. Holding(p)' /\ (Writing(p) => p \in fuss.disturbed)
  <2>1. checks[p].pc = "none"
    BY DEF TryLock
  <2>2. LeaseBeats \in Nat /\ LeaseBeats >= 2
    BY RunAssumption
  <2> QED BY <1>1, <1>2, <1>3, <1>4, <2>1, <2>2, LeaseTyped DEF Steady, Holding, Owns
<1>8. Steady(p)'
  BY <1>2, <1>3, <1>4, <1>7 DEF Steady, Writing
<1> QED BY <1>5, <1>6, <1>8, OneSteps

LEMMA FencesResult ==
    ASSUME RunsInv, NEW p \in Procs, Fence(p)
    PROVE  RunsInv'
<1> DEFINE good == runs[p].known # 0 /\ ~checks[p].lost /\ Owns(p)
           place == IF good THEN "fenced" ELSE "ending"
<1>1. Typed /\ Steady(p)
  BY DEF RunsInv
<1>2. /\ UNCHANGED <<stored, files, status, runs, writers>>
      /\ lease' = IF good THEN Leased(p) ELSE lease
      /\ At(p, place) /\ fuss' = Settle(p)
      /\ runs[p].pc = "on" /\ ~runs[p].paused /\ checks[p].pc = "checking"
  BY DEF Fence, Awake
<1>3. good => lease.owner = p /\ ~checks[p].lost
  BY DEF Owns
<1>4. place \in {"fenced", "ending"} /\ (place = "fenced" => good)
  OBVIOUS
<1> HIDE DEF good, place
<1>5. /\ checks' \in [Procs -> CheckRow] /\ checks'[p].pc = place
      /\ checks'[p].lost = checks[p].lost /\ checks'[p].beaten = checks[p].beaten
      /\ \A r \in Procs \ {p} : checks'[r] = checks[r]
  BY <1>1, <1>2, <1>4, PcTyped
<1>6. lease' \in [owner : Procs, epoch : Nat, beats : Nat]
  BY <1>1, <1>2, LeaseTyped DEF Typed
<1>7. Typed'
  BY <1>1, <1>2, <1>5, <1>6, Settled DEF Typed
<1>8. Fair(p)
  BY <1>1, <1>2, <1>3, <1>5, Settled DEF Fair, Same
<1>9. Careful(p)
  BY <1>1, <1>2, <1>4, <1>5, Settled DEF Careful, Measuring, Writing
<1>10. Steady(p)'
  <2>1. CASE Measuring(p)' /\ p \notin fuss.disturbed
    <3>1. place = "fenced" /\ good /\ ~Writing(p)
      BY <1>1, <1>2, <1>4, <1>5, <2>1 DEF Steady, Measuring, Writing
    <3>2. lease' = Leased(p) /\ LeaseBeats \in Nat /\ LeaseBeats >= 2
      BY <1>2, <3>1, RunAssumption
    <3>3. Holding(p)'
      BY <1>1, <1>2, <1>3, <1>5, <3>1, <3>2, LeaseTyped DEF Holding, Owns
    <3> QED BY <1>2, <3>1, <3>3 DEF Steady, Writing
  <2>2. CASE ~Measuring(p)'
    BY <1>2, <2>2 DEF Steady, Measuring, Writing
  <2>3. CASE Measuring(p)' /\ p \in fuss.disturbed
    <3>1. p \in fuss'.disturbed
      BY <1>1, <1>2, <2>3, Settled
    <3> QED BY <1>2, <3>1 DEF Steady
  <2> QED BY <2>1, <2>2, <2>3
<1> QED BY <1>7, <1>8, <1>9, <1>10, OneSteps

(* Steps of the check and of its thread that leave the lease alone.        *)
Goes(p) ==
    /\ UNCHANGED <<stored, lease, runs>> /\ fuss' = Settle(p)
    /\ \A r \in Procs \ {p} : checks'[r] = checks[r] /\ writers'[r] = writers[r]
    /\ checks'[p].pc # "none" => runs[p].pc = "on"
    /\ checks'[p].lost = checks[p].lost /\ checks'[p].beaten = checks[p].beaten
    /\ Measuring(p)' => Measuring(p)

LEMMA GoesOn ==
    ASSUME RunsInv, NEW p \in Procs, Goes(p), Typed', Careful(p),
           p \notin fuss.disturbed /\ Writing(p)' => checks'[p].pc = "storing"
    PROVE  RunsInv'
<1>1. Typed /\ Steady(p)
  BY DEF RunsInv
<1>2. /\ UNCHANGED <<stored, lease, runs>> /\ (Measuring(p)' => Measuring(p))
      /\ checks'[p].lost = checks[p].lost /\ checks'[p].beaten = checks[p].beaten
      /\ checks'[p].pc # "none" => runs[p].pc = "on"
  BY DEF Goes
<1>3. /\ Quiet /\ (p \in fuss'.disturbed <=> p \in fuss.disturbed /\ Measuring(p)')
      /\ \A r \in Procs \ {p} : r \in fuss'.disturbed <=> r \in fuss.disturbed
  BY <1>1, Settled DEF Goes
<1>4. Fair(p)
  BY <1>2, <1>3 DEF Goes, Fair, Same
<1>5. Writing(p)' => Measuring(p)'
  BY DEF Writing, Measuring
<1>6. Steady(p)'
  BY <1>1, <1>2, <1>3, <1>5 DEF Steady, Holding, Owns
<1> QED BY <1>4, <1>6, OneSteps

LEMMA HandsOver ==
    ASSUME RunsInv, NEW p \in Procs, HandOver(p)
    PROVE  RunsInv'
<1> DEFINE fits == Matches(checks[p].version)
           place == IF fits THEN "storing" ELSE "ending"
           t == [pc |-> "queued", epoch |-> runs[p].epoch, left |-> Points, lost |-> checks[p].lost]
           w == IF fits THEN t ELSE writers[p]
<1>1. Typed /\ Steady(p)
  BY DEF RunsInv
<1>2. t \in Thread /\ writers[p] \in Thread
  BY <1>1, RunAssumption DEF Typed, Thread, Run, CheckRow
<1>3. /\ UNCHANGED <<stored, files, status, lease, runs>> /\ At(p, place) /\ fuss' = Settle(p)
      /\ writers' = [writers EXCEPT ![p] = w]
      /\ runs[p].pc = "on" /\ checks[p].pc = "fenced"
  BY <1>1 DEF HandOver, Awake, Typed
<1>4. /\ w \in Thread /\ place \in {"storing", "ending"} /\ (place = "storing" => fits)
      /\ ~fits => place = "ending" /\ w = writers[p]
  BY <1>2
<1>5. fits => stored.exists
  BY DEF Matches
<1> HIDE DEF fits, place, t, w
<1>6. /\ checks' \in [Procs -> CheckRow] /\ checks'[p].pc = place
      /\ checks'[p].lost = checks[p].lost /\ checks'[p].beaten = checks[p].beaten
      /\ \A r \in Procs \ {p} : checks'[r] = checks[r]
  BY <1>1, <1>3, <1>4, PcTyped
<1>7. /\ writers' \in [Procs -> Thread] /\ writers'[p] = w
      /\ \A r \in Procs \ {p} : writers'[r] = writers[r]
  BY <1>1, <1>3, <1>4 DEF Typed
<1>8. Typed'
  BY <1>1, <1>3, <1>6, <1>7, Settled DEF Typed
<1>9. Goes(p)
  BY <1>3, <1>6, <1>7 DEF Goes, Measuring
<1>10. Careful(p)
  BY <1>1, <1>3, <1>4, <1>5, <1>6, <1>7, Settled DEF Careful, Measuring, Writing
<1>11. p \notin fuss.disturbed /\ Writing(p)' => checks'[p].pc = "storing"
  BY <1>1, <1>3, <1>4, <1>6, <1>7 DEF Steady, Writing, place, w
<1> QED BY <1>8, <1>9, <1>10, <1>11, GoesOn

LEMMA ThreadStarts ==
    ASSUME RunsInv, NEW p \in Procs, StartThread(p)
    PROVE  RunsInv'
<1> DEFINE place == IF writers[p].epoch = runs[p].epoch THEN "writing" ELSE "failed"
           w == [writers[p] EXCEPT !.pc = place]
<1>1. Typed /\ Steady(p) /\ writers[p] \in Thread
  BY DEF RunsInv, Typed
<1>2. place \in {"writing", "failed"}
  OBVIOUS
<1>3. /\ UNCHANGED <<stored, files, status, lease, runs, checks>> /\ fuss' = Settle(p)
      /\ writers' = [writers EXCEPT ![p] = w] /\ writers[p].pc = "queued"
  BY <1>1 DEF StartThread, Typed
<1> HIDE DEF place
<1>4. w \in Thread
  BY <1>1, <1>2 DEF Thread
<1> HIDE DEF w
<1>5. /\ writers' \in [Procs -> Thread]
      /\ \A r \in Procs \ {p} : writers'[r] = writers[r]
  BY <1>1, <1>3, <1>4 DEF Typed
<1>6. Typed'
  BY <1>1, <1>3, <1>5, Settled DEF Typed
<1>7. Goes(p)
  BY <1>1, <1>3, <1>5 DEF Goes, Measuring, Steady
<1>8. Careful(p)
  BY <1>1, <1>3, Settled DEF Careful, Measuring, Writing
<1>9. p \notin fuss.disturbed /\ Writing(p)' => checks'[p].pc = "storing"
  BY <1>1, <1>3 DEF Steady, Writing
<1> QED BY <1>6, <1>7, <1>8, <1>9, GoesOn

LEMMA ThreadWrites ==
    ASSUME RunsInv, NEW p \in Procs, WritePoint(p)
    PROVE  RunsInv'
<1> DEFINE t == writers[p]
           n == t.left - 1
           w == IF t.lost THEN [t EXCEPT !.pc = "failed"]
                ELSE IF t.left = 1 THEN [t EXCEPT !.pc = "written", !.left = 0]
                ELSE [t EXCEPT !.left = n]
           k == IF files.count < Points THEN files.count + 1 ELSE files.count
<1>1. Typed /\ Steady(p) /\ t \in Thread /\ t.left \in Int
  BY DEF RunsInv, Typed, Thread
<1>2. /\ UNCHANGED <<stored, status, lease, runs, checks>> /\ fuss' = Settle(p)
      /\ writers' = [writers EXCEPT ![p] = w] /\ t.pc = "writing"
      /\ files' = IF t.lost THEN files ELSE [files EXCEPT !.count = k]
  BY <1>1 DEF WritePoint, Typed
<1>3. k \in Nat
  BY <1>1 DEF Typed
<1>4. files' \in [count : Nat, deleting : BOOLEAN]
  <2> HIDE DEF k
  <2> QED BY <1>1, <1>2, <1>3 DEF Typed
<1>5. w \in Thread
  <2>1. CASE t.lost
    <3>1. w = [t EXCEPT !.pc = "failed"]
      BY <2>1
    <3> HIDE DEF t, w
    <3> QED BY <1>1, <3>1 DEF Thread
  <2>2. CASE ~t.lost /\ t.left = 1
    <3> DEFINE z == 0
    <3>1. w = [t EXCEPT !.pc = "written", !.left = z] /\ z \in Int
      BY <2>2
    <3> HIDE DEF t, w, z
    <3> QED BY <1>1, <3>1 DEF Thread
  <2>3. CASE ~t.lost /\ t.left # 1
    <3>1. w = [t EXCEPT !.left = n] /\ n \in Int
      BY <1>1, <2>3
    <3> HIDE DEF t, w, n
    <3> QED BY <1>1, <3>1 DEF Thread
  <2> QED BY <2>1, <2>2, <2>3
<1>6. Writing(p) /\ (Writing(p)' => checks[p].pc = "storing" \/ p \in fuss.disturbed)
  BY <1>1, <1>2 DEF Writing, Steady
<1> HIDE DEF w, k, n
<1>7. /\ writers' \in [Procs -> Thread]
      /\ \A r \in Procs \ {p} : writers'[r] = writers[r]
  BY <1>1, <1>2, <1>5 DEF Typed
<1>8. Typed'
  BY <1>1, <1>2, <1>4, <1>7, Settled DEF Typed
<1>9. Goes(p)
  BY <1>1, <1>2, <1>7 DEF Goes, Measuring, Steady
<1>10. Careful(p)
  BY <1>1, <1>2, <1>6, Settled DEF Careful, Measuring, Writing
<1> QED BY <1>2, <1>6, <1>8, <1>9, <1>10, GoesOn

LEMMA MatchesStatus ==
    ASSUME RunsInv, NEW p \in Procs, MatchStatus(p)
    PROVE  RunsInv'
<1> DEFINE fits == writers[p].pc = "written" /\ Matches(checks[p].version)
           place == IF fits THEN "matched" ELSE "ending"
<1>1. Typed /\ Steady(p)
  BY DEF RunsInv
<1>2. /\ UNCHANGED <<stored, files, status, lease, runs>> /\ At(p, place) /\ fuss' = Settle(p)
      /\ writers' = [writers EXCEPT ![p] = NoThread]
      /\ runs[p].pc = "on" /\ checks[p].pc = "storing"
  BY DEF MatchStatus, Awake
<1>3. /\ place \in {"matched", "ending"}
      /\ place = "matched" => Matches(checks[p].version)
  OBVIOUS
<1> HIDE DEF fits, place
<1>4. /\ checks' \in [Procs -> CheckRow] /\ checks'[p].pc = place
      /\ checks'[p].lost = checks[p].lost /\ checks'[p].beaten = checks[p].beaten
      /\ checks'[p].version = checks[p].version
      /\ \A r \in Procs \ {p} : checks'[r] = checks[r]
  BY <1>1, <1>2, <1>3, PcTyped
<1>5. /\ writers' \in [Procs -> Thread] /\ writers'[p].pc = "none"
      /\ \A r \in Procs \ {p} : writers'[r] = writers[r]
  BY <1>1, <1>2, NothingTyped DEF Typed
<1>6. Typed'
  BY <1>1, <1>2, <1>4, <1>5, Settled DEF Typed
<1>7. Goes(p)
  BY <1>2, <1>4, <1>5 DEF Goes, Measuring
<1>8. Careful(p)
  BY <1>1, <1>2, <1>3, <1>4, <1>5, Settled DEF Careful, Measuring, Writing
<1> QED BY <1>5, <1>6, <1>7, <1>8, GoesOn DEF Writing

LEMMA StoresStatus ==
    ASSUME RunsInv, NEW p \in Procs, StoreStatus(p)
    PROVE  RunsInv'
<1>1. Typed /\ Steady(p)
  BY DEF RunsInv
<1>2. /\ UNCHANGED <<stored, files, lease, runs, writers>> /\ At(p, "ending")
      /\ fuss' = Settle(p) /\ runs[p].pc = "on" /\ checks[p].pc = "matched"
      /\ status' = IF stored.exists THEN checks[p].version ELSE status
  BY DEF StoreStatus, Awake
<1>3. /\ checks' \in [Procs -> CheckRow] /\ checks'[p].pc = "ending"
      /\ checks'[p].lost = checks[p].lost /\ checks'[p].beaten = checks[p].beaten
      /\ \A r \in Procs \ {p} : checks'[r] = checks[r]
  BY <1>1, <1>2, PcTyped
<1>4. status' \in Nat
  BY <1>1, <1>2 DEF Typed, CheckRow
<1>5. Typed'
  BY <1>1, <1>2, <1>3, <1>4, Settled DEF Typed
<1>6. Goes(p)
  BY <1>2, <1>3 DEF Goes, Measuring
<1>7. Careful(p)
  BY <1>1, <1>2, <1>3, Settled DEF Careful, Measuring, Writing
<1>8. p \notin fuss.disturbed => ~Writing(p)'
  BY <1>1, <1>2 DEF Steady, Writing
<1> QED BY <1>5, <1>6, <1>7, <1>8, GoesOn

LEMMA ReleasesItsOwn ==
    ASSUME NEW p \in Procs
    PROVE  Released(p) = lease \/ (lease.owner = p /\ Released(p) = NoLease)
  BY DEF Released

LEMMA ChecksEnd ==
    ASSUME RunsInv, NEW p \in Procs, EndCheck(p)
    PROVE  RunsInv'
<1>1. Typed /\ Steady(p)
  BY DEF RunsInv
<1>2. /\ UNCHANGED <<stored, files, status, runs, writers, fuss>>
      /\ checks' = [checks EXCEPT ![p] = NoCheck] /\ checks[p].pc = "ending"
      /\ (lease' = lease \/ (lease.owner = p /\ lease' = NoLease))
  BY ReleasesItsOwn DEF EndCheck
<1>3. /\ checks' \in [Procs -> CheckRow] /\ checks'[p].pc = "none"
      /\ \A r \in Procs \ {p} : checks'[r] = checks[r]
  BY <1>1, <1>2, NothingTyped DEF Typed
<1>4. Typed'
  BY <1>1, <1>2, <1>3, NothingTyped DEF Typed
<1>5. Fair(p) /\ Careful(p)
  BY <1>2, <1>3 DEF Fair, Same, Quiet, Careful, Measuring, Writing
<1>6. Steady(p)'
  BY <1>1, <1>2, <1>3 DEF Steady, Measuring, Writing
<1> QED BY <1>4, <1>5, <1>6, OneSteps

LEMMA Beats ==
    ASSUME RunsInv, NEW p \in Procs, Beat(p)
    PROVE  RunsInv'
<1> DEFINE own == Owns(p)
           lost == ~own
           c == [checks[p] EXCEPT !.beaten = TRUE, !.lost = lost]
           w == IF checks[p].pc = "storing" /\ ~own
                THEN [writers[p] EXCEPT !.lost = TRUE] ELSE writers[p]
<1>1. Typed /\ Steady(p) /\ writers[p] \in Thread /\ checks[p] \in CheckRow
  BY DEF RunsInv, Typed
<1>2. /\ UNCHANGED <<stored, files, status, runs, fuss>>
      /\ checks' = [checks EXCEPT ![p] = c] /\ writers' = [writers EXCEPT ![p] = w]
      /\ lease' = IF own THEN Leased(p) ELSE lease
      /\ checks[p].pc # "none" /\ runs[p].pc = "on" /\ ~runs[p].paused
  BY <1>1 DEF Beat, Awake, Renewed, Typed
<1>3. lost \in BOOLEAN /\ (own => lease.owner = p) /\ lost = ~own
  BY DEF Owns
<1> HIDE DEF lost, own
<1>4. c \in CheckRow /\ c.pc = checks[p].pc /\ c.version = checks[p].version
      /\ c.lost = lost /\ c.beaten
  BY <1>1, <1>3 DEF CheckRow
<1>5. w \in Thread /\ w.pc = writers[p].pc
  BY <1>1 DEF Thread
<1> HIDE DEF c, w
<1>6. /\ checks' \in [Procs -> CheckRow] /\ checks'[p] = c
      /\ writers' \in [Procs -> Thread] /\ writers'[p].pc = writers[p].pc
      /\ \A r \in Procs \ {p} : checks'[r] = checks[r] /\ writers'[r] = writers[r]
  BY <1>1, <1>2, <1>4, <1>5 DEF Typed
<1>7. Typed'
  BY <1>1, <1>2, <1>6, LeaseTyped DEF Typed
<1>8. Fair(p) /\ Careful(p)
  BY <1>2, <1>3, <1>4, <1>6 DEF Fair, Same, Quiet, Careful, Measuring, Writing
<1>9. Steady(p)'
  <2>1. (Measuring(p)' <=> Measuring(p)) /\ (Writing(p)' <=> Writing(p))
    BY <1>4, <1>6 DEF Measuring, Writing
  <2>2. Holding(p) => own
    BY DEF Holding, own
  <2>3. own => Holding(p)'
    <3>1. LeaseBeats \in Nat /\ LeaseBeats >= 2
      BY RunAssumption
    <3>2. own => ~lost
      BY <1>3
    <3> QED BY <1>1, <1>2, <1>4, <1>6, <3>1, <3>2, LeaseTyped DEF Holding, Owns
  <2> QED BY <1>1, <1>2, <1>4, <1>6, <2>1, <2>2, <2>3 DEF Steady
<1> QED BY <1>7, <1>8, <1>9, OneSteps

-----------------------------------------------------------------------------
(* Faults                                                                  *)

LEMMA DrainFails ==
    ASSUME RunsInv, NEW p \in Procs, DrainTimesOut(p)
    PROVE  RunsInv'
<1> DEFINE x == [runs[p] EXCEPT !.pc = "on"]
<1>1. Typed /\ Steady(p) /\ runs[p] \in Run
  BY DEF RunsInv, Typed
<1>2. /\ UNCHANGED <<stored, files, status, lease, checks, writers>>
      /\ runs' = [runs EXCEPT ![p] = x] /\ runs[p].pc = "draining"
      /\ fuss' = [fuss EXCEPT !.troubles = @ + 1, !.disturbed = fuss.disturbed \union {p}]
      /\ fuss.disturbed \union {p} \in SUBSET Procs
  BY <1>1 DEF DrainTimesOut, Typed
<1>3. x \in Run
  BY <1>1 DEF Run
<1> HIDE DEF x
<1>4. runs' \in [Procs -> Run] /\ (\A r \in Procs \ {p} : runs'[r] = runs[r])
  BY <1>1, <1>2, <1>3 DEF Typed
<1>5. /\ fuss' \in [edits : Nat, troubles : Nat, disturbed : SUBSET Procs,
                    late : BOOLEAN, raced : BOOLEAN]
      /\ Quiet /\ fuss'.disturbed = fuss.disturbed \union {p}
  BY <1>1, <1>2, Troubled, Zenon
<1>6. Typed'
  BY <1>1, <1>2, <1>4, <1>5 DEF Typed
<1>7. Fair(p) /\ Careful(p)
  BY <1>2, <1>4, <1>5 DEF Fair, Same, Careful, Measuring, Writing
<1>8. Steady(p)'
  BY <1>1, <1>2, <1>5 DEF Steady
<1> QED BY <1>6, <1>7, <1>8, OneSteps

LEMMA RunsAreCancelled ==
    ASSUME RunsInv, NEW p \in Procs, CancelRun(p)
    PROVE  RunsInv'
<1> DEFINE x == [runs[p] EXCEPT !.pc = "off"]
           D == IF LeftBehind(p) = NoThread THEN fuss.disturbed \ {p} ELSE fuss.disturbed \union {p}
<1>1. Typed /\ Steady(p) /\ runs[p] \in Run /\ writers[p] \in Thread
  BY DEF RunsInv, Typed
<1>2. /\ UNCHANGED <<stored, files, status>>
      /\ runs' = [runs EXCEPT ![p] = x]
      /\ checks' = [checks EXCEPT ![p] = NoCheck]
      /\ writers' = [writers EXCEPT ![p] = LeftBehind(p)]
      /\ fuss' = [fuss EXCEPT !.troubles = @ + 1, !.disturbed = D]
      /\ (lease' = lease \/ (lease.owner = p /\ lease' = NoLease))
      /\ D \in SUBSET Procs
  BY <1>1, ReleasesItsOwn DEF CancelRun, Typed
<1>3. x \in Run /\ LeftBehind(p) \in Thread
  BY <1>1, NothingTyped DEF Run, LeftBehind
<1>4. /\ LeftBehind(p).pc \in {"queued", "writing"} => Writing(p) /\ p \in D
      /\ \A r \in Procs \ {p} : r \in D <=> r \in fuss.disturbed
  BY NothingTyped DEF LeftBehind, Writing
<1> HIDE DEF x, D
<1>5. /\ runs' \in [Procs -> Run] /\ checks' \in [Procs -> CheckRow] /\ writers' \in [Procs -> Thread]
      /\ checks'[p].pc = "none" /\ writers'[p] = LeftBehind(p)
      /\ \A r \in Procs \ {p} :
           runs'[r] = runs[r] /\ checks'[r] = checks[r] /\ writers'[r] = writers[r]
  BY <1>1, <1>2, <1>3, NothingTyped DEF Typed
<1>6. /\ fuss' \in [edits : Nat, troubles : Nat, disturbed : SUBSET Procs,
                    late : BOOLEAN, raced : BOOLEAN]
      /\ Quiet /\ fuss'.disturbed = D
  BY <1>1, <1>2, Troubled, Zenon
<1>7. Typed'
  BY <1>1, <1>2, <1>5, <1>6, NothingTyped DEF Typed
<1>8. Measuring(p)' \/ Writing(p)' => Writing(p) /\ p \in fuss'.disturbed
  BY <1>4, <1>5, <1>6 DEF Measuring, Writing
<1>9. Fair(p)
  BY <1>2, <1>4, <1>5, <1>6 DEF Fair, Same
<1>10. Careful(p)
  BY <1>2, <1>5, <1>8 DEF Careful
<1>11. Steady(p)'
  BY <1>5, <1>8 DEF Steady
<1> QED BY <1>7, <1>9, <1>10, <1>11, OneSteps

LEMMA ProcessesDie ==
    ASSUME RunsInv, NEW p \in Procs, KillProcess(p)
    PROVE  RunsInv'
<1> DEFINE x == [runs[p] EXCEPT !.pc = "off", !.known = 0, !.paused = FALSE]
           D == fuss.disturbed \ {p}
<1>1. Typed /\ runs[p] \in Run
  BY DEF RunsInv, Typed
<1>2. /\ UNCHANGED <<stored, files, status, lease>>
      /\ runs' = [runs EXCEPT ![p] = x]
      /\ checks' = [checks EXCEPT ![p] = NoCheck]
      /\ writers' = [writers EXCEPT ![p] = NoThread]
      /\ fuss' = [fuss EXCEPT !.troubles = @ + 1, !.disturbed = D]
      /\ D \in SUBSET Procs
  BY <1>1 DEF KillProcess, Typed
<1>3. x \in Run /\ (\A r \in Procs \ {p} : r \in D <=> r \in fuss.disturbed)
  BY <1>1 DEF Run
<1> HIDE DEF x, D
<1>4. /\ runs' \in [Procs -> Run] /\ checks' \in [Procs -> CheckRow] /\ writers' \in [Procs -> Thread]
      /\ checks'[p].pc = "none" /\ writers'[p].pc = "none"
      /\ \A r \in Procs \ {p} :
           runs'[r] = runs[r] /\ checks'[r] = checks[r] /\ writers'[r] = writers[r]
  BY <1>1, <1>2, <1>3, NothingTyped DEF Typed
<1>5. /\ fuss' \in [edits : Nat, troubles : Nat, disturbed : SUBSET Procs,
                    late : BOOLEAN, raced : BOOLEAN]
      /\ Quiet /\ fuss'.disturbed = D
  BY <1>1, <1>2, Troubled, Zenon
<1>6. Typed'
  BY <1>1, <1>2, <1>4, <1>5 DEF Typed
<1>7. Fair(p) /\ Careful(p) /\ Steady(p)'
  BY <1>2, <1>3, <1>4, <1>5 DEF Fair, Same, Careful, Steady, Measuring, Writing
<1> QED BY <1>6, <1>7, OneSteps

LEMMA ProcessesStall ==
    ASSUME RunsInv, NEW p \in Procs, StallProcess(p)
    PROVE  RunsInv'
<1> DEFINE x == [runs[p] EXCEPT !.paused = TRUE]
           D == IF Measuring(p) THEN fuss.disturbed \union {p} ELSE fuss.disturbed
<1>1. Typed /\ Steady(p) /\ runs[p] \in Run
  BY DEF RunsInv, Typed
<1>2. /\ UNCHANGED <<stored, files, status, lease, checks, writers>>
      /\ runs' = [runs EXCEPT ![p] = x]
      /\ fuss' = [fuss EXCEPT !.troubles = @ + 1, !.disturbed = D]
      /\ D \in SUBSET Procs
  BY <1>1 DEF StallProcess, Typed
<1>3. /\ x \in Run /\ x.pc = runs[p].pc
      /\ \A r \in Procs \ {p} : r \in D <=> r \in fuss.disturbed
      /\ p \notin D => ~Measuring(p) /\ p \notin fuss.disturbed
  BY <1>1 DEF Run
<1> HIDE DEF x, D
<1>4. /\ runs' \in [Procs -> Run] /\ runs'[p].pc = runs[p].pc
      /\ \A r \in Procs \ {p} : runs'[r] = runs[r]
  BY <1>1, <1>2, <1>3 DEF Typed
<1>5. /\ fuss' \in [edits : Nat, troubles : Nat, disturbed : SUBSET Procs,
                    late : BOOLEAN, raced : BOOLEAN]
      /\ Quiet /\ fuss'.disturbed = D
  BY <1>1, <1>2, Troubled, Zenon
<1>6. Typed'
  BY <1>1, <1>2, <1>4, <1>5 DEF Typed
<1>7. Fair(p) /\ Careful(p) /\ Steady(p)'
  BY <1>1, <1>2, <1>3, <1>4, <1>5 DEF Fair, Same, Careful, Steady, Measuring, Writing
<1> QED BY <1>6, <1>7, OneSteps

LEMMA ProcessesWake ==
    ASSUME RunsInv, NEW p \in Procs, WakeProcess(p)
    PROVE  RunsInv'
<1> DEFINE x == [runs[p] EXCEPT !.paused = FALSE]
<1>1. Typed /\ Steady(p) /\ runs[p] \in Run
  BY DEF RunsInv, Typed
<1>2. /\ UNCHANGED <<stored, files, status, lease, checks, writers, fuss>>
      /\ runs' = [runs EXCEPT ![p] = x]
  BY <1>1 DEF WakeProcess, Typed
<1>3. x \in Run /\ x.pc = runs[p].pc /\ x.epoch = runs[p].epoch /\ ~x.paused
  BY <1>1 DEF Run
<1> HIDE DEF x
<1>4. /\ runs' \in [Procs -> Run] /\ runs'[p] = x
      /\ \A r \in Procs \ {p} : runs'[r] = runs[r]
  BY <1>1, <1>2, <1>3 DEF Typed
<1>5. Typed'
  BY <1>1, <1>2, <1>4 DEF Typed
<1>6. Fair(p) /\ Careful(p)
  BY <1>2, <1>4 DEF Fair, Same, Quiet, Careful, Measuring, Writing
<1>7. Steady(p)'
  BY <1>1, <1>2, <1>3, <1>4 DEF Steady, Measuring, Writing, Holding, Owns
<1> QED BY <1>5, <1>6, <1>7, OneSteps

-----------------------------------------------------------------------------
(* The clock and the API                                                   *)

(* A check that beats has renewed its lease before the beat passes.        *)
LEMMA ClockBeats ==
    ASSUME RunsInv, BeatPasses
    PROVE  RunsInv'
<1> DEFINE n == lease.beats - 1
<1>1. Typed /\ lease.beats \in Nat /\ LeaseBeats \in Nat /\ LeaseBeats >= 2
  BY RunAssumption DEF RunsInv, Typed
<1>2. UNCHANGED <<stored, files, status, runs, writers, fuss>> /\ lease.beats > 0
  BY DEF BeatPasses
<1>3. n \in Nat /\ n = lease.beats - 1 /\ lease' = [lease EXCEPT !.beats = n]
  BY <1>1, <1>2 DEF BeatPasses
<1> HIDE DEF n
<1>4. /\ lease' \in [owner : Procs, epoch : Nat, beats : Nat]
      /\ lease'.owner = lease.owner /\ lease'.epoch = lease.epoch /\ lease'.beats = n
  BY <1>1, <1>3 DEF Typed
<1>5. checks' \in [Procs -> CheckRow]
      /\ \A r \in Procs : /\ checks'[r].pc = checks[r].pc /\ checks'[r].version = checks[r].version
                          /\ checks'[r].lost = checks[r].lost /\ ~checks'[r].beaten
  <2>1. \A r \in Procs : checks[r] \in CheckRow
    BY <1>1 DEF Typed
  <2>2. \A r \in Procs : LET c == [checks[r] EXCEPT !.beaten = FALSE] IN
           /\ c \in CheckRow /\ c.pc = checks[r].pc /\ c.version = checks[r].version
           /\ c.lost = checks[r].lost /\ ~c.beaten
    BY <2>1 DEF CheckRow
  <2> QED BY <2>2 DEF BeatPasses
<1>6. Typed'
  BY <1>1, <1>2, <1>4, <1>5 DEF Typed
<1>7. ASSUME NEW r \in Procs PROVE Steady(r)'
  <2>1. Steady(r)
    BY DEF RunsInv
  <2>2. ASSUME r \notin fuss.disturbed, Measuring(r), stored.exists PROVE Holding(r)'
    <3>1. checks[r].pc # "none" /\ runs[r].pc = "on" /\ ~runs[r].paused /\ Holding(r)
      BY <2>1, <2>2 DEF Steady, Measuring, Writing
    <3>2. checks[r].beaten
      BY <3>1 DEF BeatPasses, Awake, Holding
    <3>3. lease.beats = LeaseBeats /\ lease.owner = r /\ lease.epoch = runs[r].epoch /\ ~checks[r].lost
      BY <3>1, <3>2 DEF Holding, Owns
    <3> QED BY <1>1, <1>2, <1>3, <1>4, <1>5, <3>3 DEF Holding, Owns
  <2> QED BY <1>2, <1>5, <2>1, <2>2 DEF Steady, Measuring, Writing
<1>8. OneMeasurer' /\ Compared' /\ LateWrites'
  BY <1>2, <1>5 DEF RunsInv, OneMeasurer, Compared, LateWrites, Measuring, Writing
<1> QED BY <1>6, <1>7, <1>8 DEF RunsInv

LEMMA EditsRace ==
    ASSUME RunsInv, PatchTarget
    PROVE  RunsInv'
<1> DEFINE v == stored.version + 1
           n == fuss.edits + 1
           b == fuss.raced \/ \E p \in Procs : checks[p].pc = "matched"
<1>1. Typed
  BY DEF RunsInv
<1>2. /\ UNCHANGED <<files, status, lease, runs, checks, writers>> /\ stored.exists
      /\ stored' = [stored EXCEPT !.version = v]
      /\ fuss' = [fuss EXCEPT !.edits = n, !.raced = b]
  BY DEF PatchTarget
<1>3. v \in Nat /\ n \in Nat /\ b \in BOOLEAN
  BY <1>1 DEF Typed
<1>4. \A p \in Procs : checks[p].pc = "matched" => b
  OBVIOUS
<1> HIDE DEF v, n, b
<1>5. stored' \in [exists : BOOLEAN, version : Nat] /\ stored'.exists
  BY <1>1, <1>2, <1>3 DEF Typed
<1>6. /\ fuss' \in [edits : Nat, troubles : Nat, disturbed : SUBSET Procs,
                    late : BOOLEAN, raced : BOOLEAN]
      /\ fuss'.disturbed = fuss.disturbed /\ fuss'.raced = b
  BY <1>1, <1>2, <1>3 DEF Typed
<1>7. Typed'
  BY <1>1, <1>2, <1>5, <1>6 DEF Typed
<1>8. \A p \in Procs : Steady(p)'
  BY <1>2, <1>5, <1>6 DEF RunsInv, Steady, Measuring, Writing, Holding, Owns
<1>9. OneMeasurer' /\ Compared' /\ LateWrites'
  BY <1>2, <1>4, <1>5, <1>6
     DEF RunsInv, OneMeasurer, Compared, LateWrites, Measuring
<1> QED BY <1>7, <1>8, <1>9 DEF RunsInv

LEMMA FilesAreCleared ==
    ASSUME RunsInv, ResetMetrics \/ DeleteFiles
    PROVE  RunsInv'
<1> DEFINE n == fuss.edits + 1
           b == AnyStoring
           z == 0
<1>1. Typed
  BY DEF RunsInv
<1>2. /\ UNCHANGED <<stored, lease, runs, checks, writers>> /\ stored.exists
      /\ status' = z \/ status' = status
      /\ files' = [files EXCEPT !.count = z] \/ files' = [count |-> z, deleting |-> TRUE]
      /\ fuss' = [fuss EXCEPT !.edits = n] \/ fuss' = [fuss EXCEPT !.edits = n, !.late = b]
  BY DEF ResetMetrics, DeleteFiles
<1>3. n \in Nat /\ b \in BOOLEAN /\ z \in Nat
  BY <1>1 DEF Typed, AnyStoring
<1> HIDE DEF n, b, z
<1>4. files' \in [count : Nat, deleting : BOOLEAN] /\ status' \in Nat
  <2>1. CASE files' = [files EXCEPT !.count = z]
    BY <1>1, <1>2, <1>3, <2>1 DEF Typed
  <2>2. CASE files' = [count |-> z, deleting |-> TRUE]
    BY <1>1, <1>2, <1>3, <2>2 DEF Typed
  <2> QED BY <1>2, <2>1, <2>2
<1>5. /\ fuss' \in [edits : Nat, troubles : Nat, disturbed : SUBSET Procs,
                    late : BOOLEAN, raced : BOOLEAN]
      /\ fuss'.disturbed = fuss.disturbed /\ fuss'.raced = fuss.raced
  BY <1>1, <1>2, <1>3 DEF Typed
<1>6. Typed'
  BY <1>1, <1>2, <1>4, <1>5 DEF Typed
<1>7. \A p \in Procs : Steady(p)'
  BY <1>2, <1>5 DEF RunsInv, Steady, Measuring, Writing, Holding, Owns
<1>8. OneMeasurer' /\ Compared' /\ LateWrites'
  BY <1>2, <1>5 DEF RunsInv, OneMeasurer, Compared, LateWrites, Measuring
<1> QED BY <1>6, <1>7, <1>8 DEF RunsInv

LEMMA DeletionCommits ==
    ASSUME RunsInv, NEW p \in Procs, CommitDelete(p)
    PROVE  RunsInv'
<1> DEFINE b == fuss.late \/ AnyStoring \/ files.count > 0
           x == [runs[p] EXCEPT !.known = 0]
           z == 0
<1>1. Typed /\ runs[p] \in Run
  BY DEF RunsInv, Typed
<1>2. /\ UNCHANGED <<checks, writers>> /\ status' = z /\ lease' = NoLease
      /\ stored' = [stored EXCEPT !.exists = FALSE]
      /\ files' = [files EXCEPT !.deleting = FALSE]
      /\ runs' = [runs EXCEPT ![p] = x]
      /\ fuss' = [fuss EXCEPT !.late = b]
  BY <1>1 DEF CommitDelete, Typed
<1>3. /\ b \in BOOLEAN /\ z \in Nat
      /\ files.count > 0 => b
      /\ (\E r \in Procs : Writing(r)) => b
  BY <1>1 DEF Typed, AnyStoring, Writing
<1>4. x \in Run /\ x.pc = runs[p].pc /\ x.paused = runs[p].paused
  BY <1>1 DEF Run
<1> HIDE DEF b, x, z
<1>5. /\ stored' \in [exists : BOOLEAN, version : Nat] /\ ~stored'.exists
      /\ files' \in [count : Nat, deleting : BOOLEAN] /\ files'.count = files.count
  BY <1>1, <1>2 DEF Typed
<1>6. /\ fuss' \in [edits : Nat, troubles : Nat, disturbed : SUBSET Procs,
                    late : BOOLEAN, raced : BOOLEAN]
      /\ fuss'.disturbed = fuss.disturbed /\ fuss'.late = b
  BY <1>1, <1>2, <1>3 DEF Typed
<1>7. /\ runs' \in [Procs -> Run]
      /\ \A r \in Procs : runs'[r].pc = runs[r].pc /\ runs'[r].paused = runs[r].paused
  BY <1>1, <1>2, <1>4 DEF Typed
<1>8. Typed'
  BY <1>1, <1>2, <1>3, <1>5, <1>6, <1>7, NothingTyped DEF Typed
<1>9. \A r \in Procs : Steady(r)'
  BY <1>2, <1>5, <1>6, <1>7 DEF RunsInv, Steady, Measuring, Writing
<1>10. OneMeasurer' /\ Compared' /\ LateWrites'
  BY <1>2, <1>3, <1>5, <1>6
     DEF RunsInv, OneMeasurer, Compared, LateWrites, Measuring, Writing
<1> QED BY <1>8, <1>9, <1>10 DEF RunsInv

-----------------------------------------------------------------------------
(* The invariant and what it gives                                         *)

LEMMA RunsStart == RunInit => RunsInv
<1> SUFFICES ASSUME RunInit PROVE RunsInv
  OBVIOUS
<1>1. /\ lease \in [owner : Procs, epoch : Nat, beats : Nat]
      /\ checks \in [Procs -> CheckRow] /\ writers \in [Procs -> Thread]
      /\ \A p \in Procs : checks[p].pc = "none" /\ writers[p].pc = "none"
  BY NothingTyped DEF RunInit
<1>2. runs \in [Procs -> Run]
  BY DEF RunInit, Run
<1>3. /\ stored \in [exists : BOOLEAN, version : Nat] /\ stored.exists
      /\ files \in [count : Nat, deleting : BOOLEAN] /\ status \in Nat
      /\ fuss \in [edits : Nat, troubles : Nat, disturbed : SUBSET Procs,
                   late : BOOLEAN, raced : BOOLEAN]
  BY DEF RunInit
<1>4. \A p \in Procs : ~Measuring(p) /\ ~Writing(p)
  BY <1>1 DEF Measuring, Writing
<1> QED BY <1>1, <1>2, <1>3, <1>4 DEF RunsInv, Typed, Steady, OneMeasurer, Compared, LateWrites

LEMMA RunsStep ==
    ASSUME RunsInv, RunNext
    PROVE  RunsInv'
<1>1. ASSUME NEW p \in Procs, RunStep(p) \/ CheckStep(p) \/ ThreadStep(p) \/ Beat(p)
      PROVE  RunsInv'
  BY <1>1, RunsProceed, LocksTarget, FencesResult, HandsOver, ThreadStarts, ThreadWrites,
     MatchesStatus, StoresStatus, ChecksEnd, Beats DEF CheckStep, ThreadStep
<1>2. ASSUME NEW p \in Procs,
             \/ DrainTimesOut(p) \/ CancelRun(p) \/ KillProcess(p)
             \/ StallProcess(p) \/ WakeProcess(p) \/ CommitDelete(p)
      PROVE  RunsInv'
  BY <1>2, DrainFails, RunsAreCancelled, ProcessesDie, ProcessesStall, ProcessesWake,
     DeletionCommits
<1>3. CASE BeatPasses \/ PatchTarget \/ ResetMetrics \/ DeleteFiles
  BY <1>3, ClockBeats, EditsRace, FilesAreCleared
<1> QED BY <1>1, <1>2, <1>3 DEF RunNext

LEMMA RunsKeep == RunsInv /\ [RunNext]_runVars => RunsInv'
<1> SUFFICES ASSUME RunsInv, [RunNext]_runVars PROVE RunsInv'
  OBVIOUS
<1>1. CASE RunNext
  BY <1>1, RunsStep
<1>2. CASE UNCHANGED runVars
  BY <1>2 DEF runVars, RunsInv, Typed, Steady, OneMeasurer, Compared, LateWrites,
              Measuring, Writing, Holding, Owns
<1> QED BY <1>1, <1>2

(* Two processes measure one target together only if one of them was       *)
(* stuck, or its run was replaced while its thread was still writing:      *)
(* the lease, its heartbeat and the fence (scheduler.py, _run_target).     *)
THEOREM MeasuredByOne == RunSpec => []OneMeasurer
<1>1. RunsInv => OneMeasurer
  BY DEF RunsInv
<1> QED BY RunsStart, RunsKeep, <1>1, PTL DEF RunSpec

(* Points of a deleted target are points of a check that was storing when  *)
(* its files were removed or its row's deletion was committed.             *)
THEOREM OrphansAreLate == RunSpec => []OrphansAreLateWrites
<1>1. RunsInv => OrphansAreLateWrites
  BY DEF RunsInv, LateWrites, OrphansAreLateWrites
<1> QED BY RunsStart, RunsKeep, <1>1, PTL DEF RunSpec

LEMMA StatusIsCompared ==
    ASSUME RunsInv, RunNext, status' # status, status' # 0
    PROVE  stored.exists /\ (status' = stored.version \/ fuss.raced)
<1>1. ASSUME NEW p \in Procs, StoreStatus(p)
      PROVE  stored.exists /\ (status' = stored.version \/ fuss.raced)
  BY <1>1 DEF StoreStatus, RunsInv, Compared
<1>2. ASSUME NEW p \in Procs,
             \/ RunStep(p) \/ ThreadStep(p) \/ Beat(p) \/ DrainTimesOut(p) \/ CancelRun(p)
             \/ KillProcess(p) \/ StallProcess(p) \/ WakeProcess(p) \/ CommitDelete(p)
             \/ TryLock(p) \/ Fence(p) \/ HandOver(p) \/ MatchStatus(p) \/ EndCheck(p)
      PROVE  status' \in {status, 0}
  BY <1>2 DEF RunStep, StartRun, DrainOldThreads, ReadTargets, ApplyTargets, ThreadStep,
     StartThread, WritePoint, Beat, DrainTimesOut, CancelRun, KillProcess, StallProcess,
     WakeProcess, CommitDelete, TryLock, Fence, HandOver, MatchStatus, EndCheck
<1>3. BeatPasses \/ PatchTarget \/ ResetMetrics \/ DeleteFiles => status' \in {status, 0}
  BY DEF BeatPasses, PatchTarget, ResetMetrics, DeleteFiles
<1> QED BY <1>1, <1>2, <1>3 DEF RunNext, CheckStep

(* A status is stored for a target that exists and, unless an edit fell    *)
(* between the last comparison and the write, for the settings it has.     *)
THEOREM StatusFits == RunSpec => StatusFitsSettings
<1>1. RunsInv /\ [RunNext]_runVars =>
        [status' # status /\ status' # 0 =>
           stored.exists /\ (status' = stored.version \/ fuss.raced)]_runVars
  BY StatusIsCompared
<1> QED BY RunsStart, RunsKeep, <1>1, PTL DEF RunSpec, StatusFitsSettings

-----------------------------------------------------------------------------
(* One measurement.  A probe holds only addresses that may be probed, it   *)
(* tries them in their order until an answer ends the tries, and of the    *)
(* services of a target each has a reading of this attempt or is still to  *)
(* come.                                                                   *)

Probed == {"ping", "http", "cert", "tcp"}
Final == {"good", "unwanted", "astray"}
Try == [to : Addresses, answer : Statuses \union {"silent", "refused"}]
ProbeRow == [stage : {"idle", "asking", "pinning", "connecting", "judging", "rereading"},
             candidates : Seq(Addresses), answers : Seq(Try), resp : Statuses \union {"none"}]

(* The tries of a probe are its candidates, one by one.                    *)
InTurn(q) ==
    /\ Len(q.answers) <= Len(q.candidates)
    /\ \A i \in 1 .. Len(q.answers) :
         /\ q.answers[i].to = q.candidates[i]
         /\ i < Len(q.answers) \/ q.stage = "connecting" => q.answers[i].answer \notin Final
    /\ q.stage = "connecting" => Len(q.answers) < Len(q.candidates)
    /\ q.stage = "judging" =>
         /\ Len(q.answers) > 0
         /\ Len(q.answers) = Len(q.candidates) \/ q.answers[Len(q.answers)].answer \in Final
    /\ q.stage \in {"idle", "asking", "pinning"} => Len(q.answers) = 0

(* The status that is kept is that of the last answer that had one.        *)
Received(q) ==
    /\ \A i \in 1 .. Len(q.answers) :
         /\ q.answers[i].answer \in {"unwanted", "wanted"} => setup.custom
         /\ q.answers[i].answer = "wanted" =>
              \/ q.resp = "wanted"
              \/ \E k \in i + 1 .. Len(q.answers) : q.answers[k].answer \in Statuses
    /\ Len(q.answers) > 0 /\ q.answers[Len(q.answers)].answer \in Statuses =>
         q.resp = q.answers[Len(q.answers)].answer

Sound(q) ==
    /\ q \in ProbeRow
    /\ ToSet(q.candidates) \intersect Blocked = {}
    /\ InTurn(q) /\ Received(q)

MeasureTyped ==
    /\ setup \in [services : SUBSET Probed, host : Addresses \union {NoAddress}, ignore : BOOLEAN,
                   custom : BOOLEAN]
    /\ measure \in [attempt : Nat \ {0}, todo : Seq(Probed), pc : {"probing", "waiting", "measured"}]
    /\ readings = [s \in Probed |-> readings[s]]

ReadNow ==
    /\ measure.pc # "waiting" => \A s \in Available :
         readings[s].of = measure.attempt \/ s \in ToSet(measure.todo)
    /\ measure.pc = "waiting" => measure.attempt \in timeouts
    /\ measure.pc = "measured" => measure.todo = <<>>
    /\ 1 .. measure.attempt - 1 \subseteq timeouts
    /\ measure.pc = "measured" /\ ~EveryUp => measure.attempt > Retries \/ measure.attempt \notin timeouts

RereadsCertificates ==
    probe.stage = "rereading" => measure.pc = "probing" /\ measure.todo # <<>> /\ Kind = "cert"

ProbesInv ==
    /\ MeasureTyped /\ Sound(probe) /\ ReadNow /\ RereadsCertificates /\ DaysAreVerified

LEMMA SetOfConcat ==
    ASSUME NEW S, NEW s \in Seq(S), NEW t \in Seq(S)
    PROVE  s \o t \in Seq(S) /\ ToSet(s \o t) = ToSet(s) \union ToSet(t)
<1>1. s \o t \in Seq(S)
  BY ConcatProperties
<1>2. Range(s \o t) = Range(s) \union Range(t)
  BY RangeConcatenation
<1>3. \A x : Range(x) = ToSet(x)
  BY DEF Range, ToSet
<1> QED BY <1>1, <1>2, <1>3

LEMMA SetOfTail ==
    ASSUME NEW S, NEW s \in Seq(S), s # <<>>
    PROVE  /\ Tail(s) \in Seq(S) /\ Head(s) \in S
           /\ \A x \in ToSet(s) : x = Head(s) \/ x \in ToSet(Tail(s))
<1>1. /\ Tail(s) \in Seq(S) /\ Head(s) \in S /\ Head(s) = s[1]
      /\ Len(Tail(s)) = Len(s) - 1 /\ Len(s) \in Nat /\ Len(s) > 0
      /\ DOMAIN s = 1 .. Len(s) /\ DOMAIN Tail(s) = 1 .. Len(s) - 1
      /\ \A i \in 1 .. Len(s) - 1 : Tail(s)[i] = s[i + 1]
  OBVIOUS
<1> DEFINE r == Tail(s)
           n == Len(s)
<1> HIDE DEF r, n
<1>2. /\ DOMAIN s = 1 .. n /\ DOMAIN r = 1 .. n - 1 /\ n \in Nat
      /\ \A i \in 1 .. n - 1 : r[i] = s[i + 1]
  BY <1>1 DEF r, n
<1>3. ASSUME NEW x \in ToSet(s) PROVE x = s[1] \/ x \in ToSet(r)
  <2>1. PICK i \in 1 .. n : s[i] = x
    BY <1>2 DEF ToSet
  <2>2. CASE i = 1
    BY <2>1, <2>2
  <2>3. CASE i > 1
    <3>1. i - 1 \in 1 .. n - 1 /\ r[i - 1] = x
      BY <1>2, <2>1, <2>3
    <3> QED BY <3>1, <1>2 DEF ToSet
  <2> QED BY <1>2, <2>2, <2>3
<1> QED BY <1>1, <1>3 DEF r

LEMMA SetOfSubSeq ==
    ASSUME NEW S, NEW s \in Seq(S), NEW i \in 1 .. Len(s)
    PROVE  RemoveAt(s, i) \in Seq(S) /\ ToSet(RemoveAt(s, i)) \subseteq ToSet(s)
<1> DEFINE h == SubSeq(s, 1, i - 1)
           l == SubSeq(s, i + 1, Len(s))
<1>1. h \in Seq(S) /\ ToSet(h) \subseteq ToSet(s)
  <2>1. h \in Seq(S) /\ Len(h) = i - 1 /\ \A k \in 1 .. i - 1 : h[k] = s[k]
    OBVIOUS
  <2>2. DOMAIN h = 1 .. i - 1 /\ DOMAIN s = 1 .. Len(s) /\ Len(s) \in Nat
    BY <2>1
  <2> HIDE DEF h
  <2>3. \A k \in DOMAIN h : k \in DOMAIN s /\ h[k] = s[k]
    BY <2>1, <2>2
  <2> QED BY <2>1, <2>3 DEF ToSet
<1>2. l \in Seq(S) /\ ToSet(l) \subseteq ToSet(s)
  <2>1. l \in Seq(S) /\ Len(l) = Len(s) - i /\ \A k \in 1 .. Len(s) - i : l[k] = s[i + k]
    OBVIOUS
  <2>2. DOMAIN l = 1 .. Len(s) - i /\ DOMAIN s = 1 .. Len(s) /\ Len(s) \in Nat
    BY <2>1
  <2> HIDE DEF l
  <2>3. \A k \in DOMAIN l : i + k \in DOMAIN s /\ l[k] = s[i + k]
    BY <2>1, <2>2
  <2> QED BY <2>1, <2>3 DEF ToSet
<1> HIDE DEF h, l
<1>3. h \o l \in Seq(S) /\ ToSet(h \o l) = ToSet(h) \union ToSet(l)
  BY <1>1, <1>2, SetOfConcat
<1>4. RemoveAt(s, i) = h \o l
  BY DEF RemoveAt, h, l
<1> QED BY <1>1, <1>2, <1>3, <1>4

(* Every service that is measured has its turn in an attempt.              *)
LEMMA AllHaveTheirTurn ==
    ASSUME setup.services \subseteq Probed
    PROVE  ToProbe \in Seq(Probed) /\ Available \subseteq ToSet(ToProbe)
<1>1. \A s \in Probed : Of(s) \in Seq(Probed) /\ (s \in setup.services => s \in ToSet(Of(s)))
  <2> SUFFICES ASSUME NEW s \in Probed
               PROVE  Of(s) \in Seq(Probed) /\ (s \in setup.services => s \in ToSet(Of(s)))
    OBVIOUS
  <2>1. CASE s \in setup.services
    <3>1. Of(s) = <<s>> /\ <<s>> \in Seq(Probed) /\ DOMAIN <<s>> = 1 .. 1 /\ <<s>>[1] = s
      BY <2>1 DEF Of
    <3> QED BY <3>1 DEF ToSet
  <2>2. CASE s \notin setup.services
    <3>1. Of(s) = <<>> /\ <<>> \in Seq(Probed)
      BY <2>2 DEF Of
    <3> QED BY <3>1, <2>2
  <2> QED BY <2>1, <2>2
<1> DEFINE p == Of("ping")
           h == Of("http")
           c == Of("cert")
           t == Of("tcp")
<1>2. /\ p \in Seq(Probed) /\ h \in Seq(Probed) /\ c \in Seq(Probed) /\ t \in Seq(Probed)
      /\ "ping" \in setup.services => "ping" \in ToSet(p)
      /\ "http" \in setup.services => "http" \in ToSet(h)
      /\ "tcp" \in setup.services => "tcp" \in ToSet(t)
  BY <1>1 DEF Probed
<1> DEFINE q == p \o h
           r == q \o c
           u == r \o t
<1>3. ToProbe = u \o t
  BY DEF ToProbe
<1> HIDE DEF p, h, c, t
<1>4. q \in Seq(Probed) /\ ToSet(q) = ToSet(p) \union ToSet(h)
  BY <1>2, SetOfConcat
<1> HIDE DEF q
<1>5. r \in Seq(Probed) /\ ToSet(r) = ToSet(q) \union ToSet(c)
  BY <1>2, <1>4, SetOfConcat
<1> HIDE DEF r
<1>6. u \in Seq(Probed) /\ ToSet(u) = ToSet(r) \union ToSet(t)
  BY <1>2, <1>5, SetOfConcat
<1> HIDE DEF u
<1>7. u \o t \in Seq(Probed) /\ ToSet(u \o t) = ToSet(u) \union ToSet(t)
  BY <1>2, <1>6, SetOfConcat
<1> QED BY <1>2, <1>3, <1>4, <1>5, <1>6, <1>7 DEF Available, Measurable

-----------------------------------------------------------------------------
(* The steps of a probe                                                    *)

(* What the host resolves to is addresses, and what passes may be probed.  *)
LEMMA ListingsPass ==
    ASSUME setup.host \in Addresses \union {NoAddress}, NEW listing \in Listings
    PROVE  /\ listing \in Seq(Addresses)
           /\ Passes(listing) => Len(listing) > 0 /\ ToSet(listing) \intersect Blocked = {}
           /\ ~Named => setup.host \in Addresses /\ listing = <<setup.host>>
<1>1. listing \in Seq(Addresses) /\ (~Named => setup.host \in Addresses /\ listing = <<setup.host>>)
  <2>1. CASE Named
    <3>1. \E n \in 0 .. 2 : listing \in [1 .. n -> Addresses]
      BY <2>1 DEF Listings
    <3>2. PICK n \in 0 .. 2 : listing \in [1 .. n -> Addresses]
      BY <3>1
    <3>3. n \in Nat
      BY <3>2
    <3> QED BY <2>1, <3>2, <3>3, SeqDef
  <2>2. CASE ~Named
    <3>1. setup.host \in Addresses /\ listing = <<setup.host>>
      BY <2>2 DEF Named, Listings
    <3> QED BY <3>1
  <2> QED BY <2>1, <2>2
<1>2. Passes(listing) => Len(listing) > 0 /\ ToSet(listing) \intersect Blocked = {}
  BY <1>1 DEF Passes
<1> QED BY <1>1, <1>2

LEMMA OthersAreListed ==
    ASSUME NEW listing \in Seq(Addresses)
    PROVE  /\ Others(listing) \in Seq(Addresses) /\ ToSet(Others(listing)) \subseteq ToSet(listing)
           /\ probe.candidates = <<>> => Others(listing) = listing
<1>1. CASE probe.candidates # <<>> /\ probe.candidates[1] \in ToSet(listing)
  <2> DEFINE i == CHOOSE i \in DOMAIN listing : listing[i] = probe.candidates[1]
  <2>1. \E k \in DOMAIN listing : listing[k] = probe.candidates[1]
    BY <1>1 DEF ToSet
  <2>2. i \in DOMAIN listing
    BY <2>1
  <2>3. i \in 1 .. Len(listing)
    BY <2>2
  <2>4. Others(listing) = RemoveAt(listing, i)
    BY <1>1 DEF Others
  <2> HIDE DEF i
  <2>5. RemoveAt(listing, i) \in Seq(Addresses) /\ ToSet(RemoveAt(listing, i)) \subseteq ToSet(listing)
    BY <2>3, SetOfSubSeq
  <2> QED BY <1>1, <2>4, <2>5
<1>2. CASE ~(probe.candidates # <<>> /\ probe.candidates[1] \in ToSet(listing))
  BY <1>2 DEF Others
<1> QED BY <1>1, <1>2

LEMMA NoProbeIsSound == NoProbe \in ProbeRow /\ Sound(NoProbe) /\ NoProbe.stage # "rereading"
<1> DEFINE q == NoProbe
<1>1. q.stage = "idle" /\ q.candidates = <<>> /\ q.answers = <<>>
  BY DEF NoProbe
<1>2. q \in ProbeRow
  BY DEF NoProbe, ProbeRow
<1>3. ToSet(<<>>) = {} /\ Len(<<>>) = 0
  BY DEF ToSet
<1> HIDE DEF q
<1>4. Sound(q) /\ q.stage # "rereading"
  BY <1>1, <1>2, <1>3 DEF Sound, InTurn, Received
<1> QED BY <1>2, <1>4 DEF q

(* A probe that has tried nothing is sound with any unblocked candidates.   *)
LEMMA UntriedIsSound ==
    ASSUME NEW q, q \in ProbeRow, ToSet(q.candidates) \intersect Blocked = {},
           Len(q.answers) = 0, q.stage \in {"asking", "pinning", "connecting"},
           q.stage = "connecting" => 0 < Len(q.candidates)
    PROVE  Sound(q)
<1> DEFINE n == Len(q.answers)
           m == Len(q.candidates)
<1>1. n = 0 /\ m \in Nat /\ (q.stage = "connecting" => 0 < m)
  BY DEF ProbeRow
<1>2. q.stage # "judging"
  OBVIOUS
<1> HIDE DEF n, m
<1>3. 1 .. n = {} /\ n <= m /\ (q.stage = "connecting" => n < m)
  BY <1>1
<1>4. InTurn(q)
  BY <1>1, <1>2, <1>3 DEF InTurn, n, m
<1>5. Received(q)
  BY <1>1, <1>3 DEF Received, n
<1> QED BY <1>4, <1>5 DEF Sound

(* A probe goes on, and the measurement stays as it is.                    *)
LEMMA ProbeGoesOn ==
    ASSUME ProbesInv, NEW stage, Probing(stage), Unmoved, Sound(probe'),
           probe'.stage = "rereading" => Kind = "cert"
    PROVE  ProbesInv'
<1>1. UNCHANGED <<setup, measure, readings, timeouts>>
  BY DEF Unmoved
<1>2. MeasureTyped' /\ ReadNow' /\ DaysAreVerified'
  BY <1>1 DEF ProbesInv, MeasureTyped, ReadNow, DaysAreVerified, Available, EveryUp
<1>3. RereadsCertificates'
  BY <1>1 DEF RereadsCertificates, Probing, Kind
<1>4. Sound(probe)'
  BY <1>1 DEF Sound, Received
<1> QED BY <1>2, <1>3, <1>4 DEF ProbesInv

(* The turn of a service is over, and it has a reading.                    *)
LEMMA TurnIsOver ==
    ASSUME ProbesInv, NEW stage, Probing(stage), setup' = setup,
           measure' = [measure EXCEPT !.todo = Tail(@)], probe' = NoProbe,
           timeouts \subseteq timeouts',
           readings' = [s \in Probed |-> readings'[s]],
           \A s \in Available : readings'[s].of = measure.attempt
                                \/ (s # Kind /\ readings'[s] = readings[s]),
           DaysAreVerified'
    PROVE  ProbesInv'
<1>1. /\ measure.attempt \in Nat \ {0} /\ measure.todo \in Seq(Probed) /\ measure.todo # <<>>
      /\ measure.pc = "probing"
  BY DEF ProbesInv, MeasureTyped, Probing
<1>2. /\ Tail(measure.todo) \in Seq(Probed)
      /\ \A x \in ToSet(measure.todo) : x = Kind \/ x \in ToSet(Tail(measure.todo))
  BY <1>1, SetOfTail DEF Kind
<1>3. /\ measure' \in [attempt : Nat \ {0}, todo : Seq(Probed), pc : {"probing", "waiting", "measured"}]
      /\ measure'.attempt = measure.attempt /\ measure'.pc = "probing"
      /\ measure'.todo = Tail(measure.todo)
  BY <1>1, <1>2 DEF ProbesInv, MeasureTyped
<1>4. MeasureTyped'
  BY <1>3 DEF ProbesInv, MeasureTyped
<1>5. Available' = Available
  BY DEF Available
<1>6. \A s \in Available : readings[s].of = measure.attempt \/ s \in ToSet(measure.todo)
  BY <1>1 DEF ProbesInv, ReadNow
<1>7. \A s \in Available : readings'[s].of = measure'.attempt \/ s \in ToSet(measure'.todo)
  BY <1>2, <1>3, <1>6
<1>8. 1 .. measure'.attempt - 1 \subseteq timeouts'
  BY <1>3 DEF ProbesInv, ReadNow
<1>9. ReadNow'
  BY <1>3, <1>5, <1>7, <1>8 DEF ReadNow
<1>10. Sound(probe)' /\ RereadsCertificates'
  BY NoProbeIsSound DEF RereadsCertificates, Sound, Received
<1> QED BY <1>4, <1>9, <1>10 DEF ProbesInv

LEMMA ProbeFinishes ==
    ASSUME ProbesInv, NEW stage, Probing(stage), setup' = setup,
           NEW ok, NEW timeout, Finish(ok, timeout)
    PROVE  ProbesInv'
<1>1. measure' = [measure EXCEPT !.todo = Tail(@)] /\ probe' = NoProbe /\ timeouts \subseteq timeouts'
  BY DEF Finish
<1>2. readings = [s \in Probed |-> readings[s]] /\ DaysAreVerified
  BY DEF ProbesInv, MeasureTyped
<1>3. Kind \in Probed
  BY SetOfTail DEF Kind, Probing, ProbesInv, MeasureTyped
<1>4. CASE Kind = "cert"
  <2>1. readings' = readings
    BY <1>4 DEF Finish
  <2>2. \A s \in Available : s # Kind
    BY <1>4 DEF Available, Measurable
  <2>3. DaysAreVerified'
    BY <1>2, <2>1 DEF DaysAreVerified
  <2> QED BY <1>1, <1>2, <2>1, <2>2, <2>3, TurnIsOver
<1>5. CASE Kind # "cert"
  <2> DEFINE r == Reading(ok)
  <2>1. readings' = [readings EXCEPT ![Kind] = r]
    BY <1>5 DEF Finish
  <2>2. r.of = measure.attempt
    BY DEF Reading
  <2> HIDE DEF r
  <2>3. /\ readings' = [s \in Probed |-> readings'[s]]
        /\ readings'[Kind] = r
        /\ \A s \in Probed : s # Kind => readings'[s] = readings[s]
    BY <1>2, <1>3, <2>1
  <2>4. \A s \in Available : readings'[s].of = measure.attempt \/ (s # Kind /\ readings'[s] = readings[s])
    BY <2>2, <2>3 DEF Available, Measurable, Probed
  <2>5. "cert" \in Probed
    BY DEF Probed
  <2>6. readings'["cert"] = readings["cert"]
    BY <1>5, <2>3, <2>5
  <2>7. DaysAreVerified'
    BY <1>2, <2>6 DEF DaysAreVerified
  <2> QED BY <1>1, <2>3, <2>4, <2>7, TurnIsOver
<1> QED BY <1>4, <1>5

LEMMA CertificateIsRead ==
    ASSUME ProbesInv, NEW stage, Probing(stage), setup' = setup, Kind = "cert",
           NEW days, NEW trusted, FinishCertificate(days, trusted),
           days = "left" => setup.ignore \/ trusted
    PROVE  ProbesInv'
<1> DEFINE c == [days |-> days, trusted |-> trusted]
<1>1. /\ measure' = [measure EXCEPT !.todo = Tail(@)] /\ probe' = NoProbe /\ timeouts' = timeouts
      /\ readings' = [readings EXCEPT !["cert"] = c]
  BY DEF FinishCertificate
<1>2. c.days = days /\ c.trusted = trusted
  OBVIOUS
<1> HIDE DEF c
<1>3. readings = [s \in Probed |-> readings[s]] /\ "cert" \in Probed
  BY DEF ProbesInv, MeasureTyped, Probed
<1>4. /\ readings' = [s \in Probed |-> readings'[s]] /\ readings'["cert"] = c
      /\ \A s \in Probed : s # "cert" => readings'[s] = readings[s]
  BY <1>1, <1>3
<1>5. \A s \in Available : readings'[s].of = measure.attempt \/ (s # Kind /\ readings'[s] = readings[s])
  BY <1>4 DEF Available, Measurable, Probed
<1>6. DaysAreVerified'
  BY <1>2, <1>4 DEF DaysAreVerified
<1> QED BY <1>1, <1>4, <1>5, <1>6, TurnIsOver

LEMMA BlockedHostEnds ==
    ASSUME ProbesInv, NEW stage, Probing(stage), setup' = setup, FinishBlocked
    PROVE  ProbesInv'
<1>1. CASE Kind = "cert"
  <2>1. FinishCertificate("none", FALSE)
    BY <1>1, Zenon DEF FinishBlocked
  <2>2. "none" # "left"
    OBVIOUS
  <2> QED BY <1>1, <2>1, <2>2, CertificateIsRead
<1>2. CASE Kind # "cert"
  <2> DEFINE no == FALSE
  <2>1. Finish(no, no)
    BY <1>2, Zenon DEF FinishBlocked
  <2> HIDE DEF no
  <2> QED BY <2>1, ProbeFinishes
<1> QED BY <1>1, <1>2

LEMMA HostIsChecked == ProbesInv /\ CheckHost => ProbesInv'
<1> SUFFICES ASSUME ProbesInv, CheckHost PROVE ProbesInv'
  OBVIOUS
<1>1. Probing("idle") /\ setup' = setup
  BY DEF CheckHost
<1>2. PICK listing \in Listings :
         IF ~Passes(listing) THEN FinishBlocked
         ELSE /\ probe' = IF Named \/ Kind = "http" THEN [probe EXCEPT !.stage = "asking"]
                          ELSE [probe EXCEPT !.stage = "connecting", !.candidates = <<setup.host>>]
              /\ UNCHANGED <<measure, readings, timeouts>>
  BY DEF CheckHost
<1>3. setup.host \in Addresses \union {NoAddress} /\ Sound(probe) /\ probe \in ProbeRow /\ probe.stage = "idle"
  BY <1>1 DEF ProbesInv, MeasureTyped, Sound, Probing
<1>4. CASE ~Passes(listing)
  BY <1>1, <1>2, <1>4, BlockedHostEnds
<1>5. CASE Passes(listing) /\ (Named \/ Kind = "http")
  <2>1. probe' = [probe EXCEPT !.stage = "asking"] /\ Unmoved
    BY <1>1, <1>2, <1>5 DEF Unmoved
  <2>2. /\ probe' \in ProbeRow /\ probe'.stage = "asking"
        /\ probe'.candidates = probe.candidates /\ probe'.answers = probe.answers
    BY <1>3, <2>1 DEF ProbeRow
  <2>3. /\ ToSet(probe.candidates) \intersect Blocked = {}
        /\ Len(probe.answers) = 0
    BY <1>3 DEF Sound, InTurn
  <2>4. Sound(probe')
    <3>1. /\ ToSet(probe'.candidates) \intersect Blocked = {} /\ Len(probe'.answers) = 0
          /\ probe'.stage \in {"asking", "pinning", "connecting"}
          /\ probe'.stage = "connecting" => 0 < Len(probe'.candidates)
      BY <2>2, <2>3
    <3> QED BY <2>2, <3>1, UntriedIsSound, Zenon
  <2> QED BY <1>1, <2>1, <2>2, <2>4, ProbeGoesOn
<1>6. CASE Passes(listing) /\ ~(Named \/ Kind = "http")
  <2>1. probe' = [probe EXCEPT !.stage = "connecting", !.candidates = <<setup.host>>] /\ Unmoved
    BY <1>1, <1>2, <1>6 DEF Unmoved
  <2>2. /\ <<setup.host>> \in Seq(Addresses) /\ Len(<<setup.host>>) = 1
        /\ ToSet(<<setup.host>>) \intersect Blocked = {}
    BY <1>3, <1>6, ListingsPass
  <2>3. /\ probe' \in ProbeRow /\ probe'.stage = "connecting"
        /\ probe'.candidates = <<setup.host>> /\ probe'.answers = probe.answers
    BY <1>3, <2>1, <2>2 DEF ProbeRow
  <2>4. Len(probe.answers) = 0
    BY <1>3 DEF Sound, InTurn
  <2>5. Sound(probe')
    <3>1. /\ ToSet(probe'.candidates) \intersect Blocked = {} /\ Len(probe'.answers) = 0
          /\ probe'.stage \in {"asking", "pinning", "connecting"}
          /\ probe'.stage = "connecting" => 0 < Len(probe'.candidates)
      BY <2>2, <2>3, <2>4
    <3> QED BY <2>3, <3>1, UntriedIsSound, Zenon
  <2> QED BY <1>1, <2>1, <2>3, <2>5, ProbeGoesOn
<1> QED BY <1>4, <1>5, <1>6

LEMMA PublicAnswers == ProbesInv /\ AskPublic => ProbesInv'
<1> SUFFICES ASSUME ProbesInv, AskPublic PROVE ProbesInv'
  OBVIOUS
<1>1. Probing("asking")
  BY DEF AskPublic
<1>2. PICK answer \in Addresses \union {NoAddress} : Answered(answer)
  BY DEF AskPublic
<1>3. Sound(probe) /\ probe \in ProbeRow /\ probe.stage = "asking" /\ Len(probe.answers) = 0
  BY <1>1 DEF ProbesInv, Sound, InTurn, Probing
<1>4. CASE answer \in Blocked
  BY <1>1, <1>2, <1>4, BlockedHostEnds DEF Answered
<1>5. CASE answer \notin Blocked /\ answer = NoAddress
  <2>1. probe' = [probe EXCEPT !.stage = "pinning"] /\ Unmoved
    BY <1>2, <1>5 DEF Answered
  <2>2. /\ probe' \in ProbeRow /\ probe'.stage = "pinning"
        /\ probe'.candidates = probe.candidates /\ probe'.answers = probe.answers
    BY <1>3, <2>1 DEF ProbeRow
  <2>3. /\ ToSet(probe.candidates) \intersect Blocked = {}
        /\ Len(probe.answers) = 0
    BY <1>3 DEF Sound, InTurn
  <2>4. Sound(probe')
    <3>1. /\ ToSet(probe'.candidates) \intersect Blocked = {} /\ Len(probe'.answers) = 0
          /\ probe'.stage \in {"asking", "pinning", "connecting"}
          /\ probe'.stage = "connecting" => 0 < Len(probe'.candidates)
      BY <2>2, <2>3
    <3> QED BY <2>2, <3>1, UntriedIsSound, Zenon
  <2> QED BY <1>1, <2>1, <2>2, <2>4, ProbeGoesOn
<1>6. CASE answer \notin Blocked /\ answer # NoAddress
  <2> DEFINE st == IF Kind = "http" THEN "pinning" ELSE "connecting"
             l == <<answer>>
  <2>1. probe' = [probe EXCEPT !.stage = st, !.candidates = l] /\ Unmoved
    BY <1>2, <1>6 DEF Answered
  <2>2. l \in Seq(Addresses) /\ Len(l) = 1 /\ ToSet(l) \intersect Blocked = {}
    <3>1. l \in Seq(Addresses) /\ Len(l) = 1 /\ DOMAIN l = 1 .. 1 /\ l[1] = answer
      BY <1>6
    <3> QED BY <3>1, <1>6 DEF ToSet
  <2>3. st \in {"pinning", "connecting"}
    OBVIOUS
  <2> HIDE DEF st, l
  <2>4. /\ probe' \in ProbeRow /\ probe'.stage = st
        /\ probe'.candidates = l /\ probe'.answers = probe.answers
    BY <1>3, <2>1, <2>2, <2>3 DEF ProbeRow
  <2>5. Sound(probe')
    <3>1. ToSet(probe'.candidates) \intersect Blocked = {}
      BY <2>2, <2>4, Zenon
    <3>2. Len(probe'.answers) = 0
      BY <1>3, <2>4, Zenon
    <3>3. probe'.stage \in {"asking", "pinning", "connecting"}
      BY <2>3, <2>4, Zenon
    <3>4. 0 < Len(probe'.candidates)
      <4>1. Len(probe'.candidates) = 1
        BY <2>2, <2>4, ZenonT(60)
      <4> QED BY <4>1
    <3> QED BY <2>4, <3>1, <3>2, <3>3, <3>4, UntriedIsSound, Zenon
  <2>6. probe'.stage # "rereading"
    BY <2>3, <2>4
  <2> QED BY <1>1, <2>1, <2>5, <2>6, ProbeGoesOn
<1> QED BY <1>4, <1>5, <1>6

LEMMA AddressesArePinned == ProbesInv /\ Pin => ProbesInv'
<1> SUFFICES ASSUME ProbesInv, Pin PROVE ProbesInv'
  OBVIOUS
<1>1. Probing("pinning") /\ setup' = setup
  BY DEF Pin
<1>2. PICK listing \in Listings :
         IF ~Passes(listing) THEN FinishBlocked
         ELSE /\ probe' = [probe EXCEPT
                   !.stage = "connecting",
                   !.candidates = IF Kind = "http" THEN @ \o Others(listing) ELSE <<listing[1]>>]
              /\ UNCHANGED <<measure, readings, timeouts>>
  BY Zenon DEF Pin
<1>3. /\ setup.host \in Addresses \union {NoAddress}
      /\ probe \in ProbeRow /\ probe.candidates \in Seq(Addresses) /\ Len(probe.answers) = 0
      /\ ToSet(probe.candidates) \intersect Blocked = {}
  BY <1>1 DEF ProbesInv, MeasureTyped, Sound, InTurn, ProbeRow, Probing
<1>4. CASE ~Passes(listing)
  BY <1>1, <1>2, <1>4, BlockedHostEnds
<1>5. CASE Passes(listing)
  <2> DEFINE l == IF Kind = "http" THEN probe.candidates \o Others(listing) ELSE <<listing[1]>>
  <2>1. probe' = [probe EXCEPT !.stage = "connecting", !.candidates = l] /\ Unmoved
    BY <1>1, <1>2, <1>5 DEF Unmoved
  <2>2. listing \in Seq(Addresses) /\ Len(listing) > 0 /\ ToSet(listing) \intersect Blocked = {}
    BY <1>3, <1>5, ListingsPass
  <2>3. /\ Others(listing) \in Seq(Addresses) /\ ToSet(Others(listing)) \subseteq ToSet(listing)
        /\ probe.candidates = <<>> => Others(listing) = listing
    BY <2>2, OthersAreListed
  <2>4. l \in Seq(Addresses) /\ Len(l) > 0 /\ ToSet(l) \intersect Blocked = {}
    <3>1. CASE Kind = "http"
      <4> DEFINE q == probe.candidates
                 o == Others(listing)
      <4>1. q \in Seq(Addresses) /\ o \in Seq(Addresses)
        BY <1>3, <2>3
      <4>2. l = q \o o
        BY <3>1
      <4> HIDE DEF q, o, l
      <4>3. l \in Seq(Addresses) /\ ToSet(l) = ToSet(q) \union ToSet(o) /\ Len(l) = Len(q) + Len(o)
        BY <4>1, <4>2, SetOfConcat, ConcatProperties
      <4>4. Len(q) \in Nat /\ Len(o) \in Nat /\ (Len(q) = 0 => q = <<>>)
        BY <4>1
      <4>5. Len(q) = 0 => Len(o) > 0
        BY <2>2, <2>3, <4>4 DEF q, o
      <4> QED BY <1>3, <2>2, <2>3, <4>3, <4>4, <4>5 DEF q, o
    <3>2. CASE Kind # "http"
      <4>1. listing[1] \in Addresses /\ 1 \in DOMAIN listing /\ listing[1] \in ToSet(listing)
        BY <2>2 DEF ToSet
      <4>2. l = <<listing[1]>>
        BY <3>2
      <4> DEFINE x == listing[1]
      <4> HIDE DEF x
      <4>4. x \in Addresses /\ x \in ToSet(listing) /\ l = <<x>>
        BY <4>1, <4>2 DEF x
      <4> HIDE DEF l
      <4>3. l \in Seq(Addresses) /\ Len(l) = 1 /\ DOMAIN l = 1 .. 1 /\ l[1] = x
        BY <4>4
      <4> QED BY <2>2, <4>3, <4>4 DEF ToSet
    <3> QED BY <3>1, <3>2
  <2> HIDE DEF l
  <2>5. /\ probe' \in ProbeRow /\ probe'.stage = "connecting"
        /\ probe'.candidates = l /\ probe'.answers = probe.answers
    BY <1>3, <2>1, <2>4 DEF ProbeRow
  <2>6. Sound(probe')
    <3>1. /\ ToSet(probe'.candidates) \intersect Blocked = {} /\ Len(probe'.answers) = 0
          /\ probe'.stage \in {"asking", "pinning", "connecting"}
          /\ probe'.stage = "connecting" => 0 < Len(probe'.candidates)
      BY <1>3, <2>4, <2>5
    <3> QED BY <2>5, <3>1, UntriedIsSound, Zenon
  <2> QED BY <1>1, <2>1, <2>5, <2>6, ProbeGoesOn
<1> QED BY <1>4, <1>5

(* The next address is tried; a status from 400, or no answer, does not    *)
(* end the tries.                                                          *)
LEMMA AddressIsTried == ProbesInv /\ TryAddress => ProbesInv'
<1> SUFFICES ASSUME ProbesInv, TryAddress PROVE ProbesInv'
  OBVIOUS
<1>1. Probing("connecting") /\ Unmoved
  BY DEF TryAddress, Unmoved
<1> DEFINE n == Len(probe.answers)
           m == Len(probe.candidates)
<1>2. PICK answer \in Answers :
         probe' = [probe EXCEPT !.answers = Heard(answer),
                                !.resp = IF answer \in Statuses THEN answer ELSE @,
                                !.stage = IF LastOne \/ answer \in {"good", "unwanted", "astray"}
                                          THEN "judging" ELSE "connecting"]
  BY Zenon DEF TryAddress
<1> DEFINE t == [to |-> NextAddress, answer |-> answer]
           st == IF LastOne \/ answer \in Final THEN "judging" ELSE "connecting"
           l == Append(probe.answers, t)
           rs == IF answer \in Statuses THEN answer ELSE probe.resp
<1>3. probe' = [probe EXCEPT !.answers = l, !.resp = rs, !.stage = st]
  BY <1>2 DEF Heard, Tried, Final
<1>4. /\ probe \in ProbeRow /\ probe.answers \in Seq(Try) /\ probe.candidates \in Seq(Addresses)
      /\ n \in Nat /\ m \in Nat /\ n < m
      /\ ToSet(probe.candidates) \intersect Blocked = {}
      /\ \A i \in 1 .. n : probe.answers[i].to = probe.candidates[i] /\ probe.answers[i].answer \notin Final
  BY <1>1 DEF ProbesInv, Sound, InTurn, ProbeRow, Probing
<1>5. n + 1 \in 1 .. m /\ NextAddress = probe.candidates[n + 1] /\ NextAddress \in Addresses
  BY <1>4 DEF NextAddress, Tried
<1>6. t \in Try /\ t.to = probe.candidates[n + 1] /\ t.answer = answer
  BY <1>5 DEF Try, Answers
<1>7. /\ st \in {"judging", "connecting"} /\ (st = "judging" <=> n + 1 = m \/ answer \in Final)
      /\ rs \in Statuses \union {"none"} /\ (answer \in Statuses => rs = answer)
      /\ answer \notin Statuses => rs = probe.resp
  BY <1>4 DEF LastOne, Tried, ProbeRow
<1>14. answer \in {"unwanted", "wanted"} => setup.custom
  BY DEF Answers
<1> HIDE DEF t, st, rs
<1>8. /\ l \in Seq(Try) /\ Len(l) = n + 1 /\ l[n + 1] = t
      /\ \A i \in 1 .. n : l[i] = probe.answers[i]
  BY <1>4, <1>6, AppendProperties
<1> HIDE DEF l
<1>9. /\ probe' \in ProbeRow /\ probe'.stage = st
      /\ probe'.candidates = probe.candidates /\ probe'.answers = l /\ probe'.resp = rs
  BY <1>3, <1>4, <1>7, <1>8 DEF ProbeRow
<1>15. \A i \in 1 .. n :
         /\ probe.answers[i].answer \in {"unwanted", "wanted"} => setup.custom
         /\ probe.answers[i].answer = "wanted" =>
              \/ probe.resp = "wanted"
              \/ \E k \in i + 1 .. n : probe.answers[k].answer \in Statuses
  BY DEF ProbesInv, Sound, Received
<1> HIDE DEF n
<1>10. \A i \in 1 .. n + 1 :
         /\ l[i].to = probe.candidates[i]
         /\ i < n + 1 \/ st = "connecting" => l[i].answer \notin Final
  <2> SUFFICES ASSUME NEW i \in 1 .. n + 1
               PROVE  /\ l[i].to = probe.candidates[i]
                      /\ i < n + 1 \/ st = "connecting" => l[i].answer \notin Final
    OBVIOUS
  <2>1. CASE i = n + 1
    BY <2>1, <1>4, <1>6, <1>7, <1>8
  <2>2. CASE i # n + 1
    <3>1. i \in 1 .. n
      BY <2>2, <1>4
    <3>2. probe.answers[i].to = probe.candidates[i] /\ probe.answers[i].answer \notin Final
      BY <3>1, <1>4
    <3>3. l[i] = probe.answers[i]
      BY <3>1, <1>8
    <3> QED BY <3>2, <3>3
  <2> QED BY <2>1, <2>2
<1>11. InTurn(probe')
  BY <1>4, <1>6, <1>7, <1>8, <1>9, <1>10 DEF InTurn
<1>16. ASSUME NEW i \in 1 .. n + 1
       PROVE  /\ l[i].answer \in {"unwanted", "wanted"} => setup.custom
              /\ l[i].answer = "wanted" =>
                   \/ rs = "wanted"
                   \/ \E k \in i + 1 .. n + 1 : l[k].answer \in Statuses
  <2>1. CASE i = n + 1
    <3>1. l[i].answer = answer
      BY <2>1, <1>6, <1>8
    <3>2. answer = "wanted" => rs = "wanted"
      BY <1>7 DEF Statuses
    <3> QED BY <3>1, <3>2, <1>14
  <2>2. CASE i # n + 1
    <3>1. i \in 1 .. n /\ l[i] = probe.answers[i] /\ i \in Nat
      BY <2>2, <1>4, <1>8
    <3>2. CASE answer \in Statuses
      <4>1. n + 1 \in i + 1 .. n + 1 /\ l[n + 1].answer \in Statuses
        BY <3>1, <3>2, <1>4, <1>6, <1>8
      <4> QED BY <3>1, <4>1, <1>15
    <3>3. CASE answer \notin Statuses
      <4>1. rs = probe.resp
        BY <3>3, <1>7
      <4>2. \A k \in i + 1 .. n : k \in i + 1 .. n + 1 /\ l[k] = probe.answers[k]
        BY <3>1, <1>4, <1>8
      <4> QED BY <3>1, <4>1, <4>2, <1>15
    <3> QED BY <3>2, <3>3
  <2> QED BY <2>1, <2>2
<1>17. Received(probe')
  <2>1. probe'.answers = l /\ probe'.resp = rs /\ Len(l) = n + 1 /\ l[n + 1].answer = answer
    BY <1>6, <1>8, <1>9
  <2> QED BY <2>1, <1>7, <1>16 DEF Received
<1>12. Sound(probe')
  BY <1>4, <1>9, <1>11, <1>17 DEF Sound
<1>13. probe'.stage # "rereading"
  BY <1>7, <1>9
<1> QED BY <1>1, <1>12, <1>13, ProbeGoesOn

LEMMA CertificateIsFetched == ProbesInv /\ FetchCertificate => ProbesInv'
<1> SUFFICES ASSUME ProbesInv, FetchCertificate PROVE ProbesInv'
  OBVIOUS
<1>1. Probing("connecting") /\ Kind = "cert" /\ setup' = setup
  BY DEF FetchCertificate
<1>2. CASE FinishCertificate("none", FALSE)
  <2>1. "none" # "left"
    OBVIOUS
  <2> QED BY <1>1, <1>2, <2>1, CertificateIsRead
<1>3. ASSUME NEW c \in Certificates, setup.ignore \/ Verified(c), FinishCertificate(c.days, c.trusted)
      PROVE  ProbesInv'
  <2>1. c.days = "left" => setup.ignore \/ c.trusted
    BY <1>3 DEF Verified
  <2> QED BY <1>1, <1>3, <2>1, CertificateIsRead
<1>4. CASE probe' = [probe EXCEPT !.stage = "rereading"] /\ UNCHANGED <<measure, readings, timeouts>>
  <2>1. Unmoved
    BY <1>1, <1>4 DEF Unmoved
  <2>2. Sound(probe) /\ probe \in ProbeRow /\ probe.stage = "connecting"
    BY <1>1 DEF ProbesInv, Sound, Probing
  <2>3. /\ probe' \in ProbeRow /\ probe'.stage = "rereading"
        /\ probe'.candidates = probe.candidates /\ probe'.answers = probe.answers
        /\ probe'.resp = probe.resp
    BY <1>4, <2>2 DEF ProbeRow
  <2>4. Sound(probe')
    BY <2>2, <2>3 DEF Sound, InTurn, Received
  <2> QED BY <1>1, <2>1, <2>4, ProbeGoesOn
<1> QED BY <1>2, <1>3, <1>4 DEF FetchCertificate

LEMMA CertificateIsReread == ProbesInv /\ FetchUnverified => ProbesInv'
<1> SUFFICES ASSUME ProbesInv, FetchUnverified PROVE ProbesInv'
  OBVIOUS
<1>1. Probing("rereading") /\ Kind = "cert" /\ setup' = setup
  BY DEF FetchUnverified, Probing, ProbesInv, RereadsCertificates
<1>2. CASE FinishCertificate("none", FALSE)
  <2>1. "none" # "left"
    OBVIOUS
  <2> QED BY <1>1, <1>2, <2>1, CertificateIsRead
<1>3. ASSUME NEW c \in Certificates,
             FinishCertificate(IF c.days = "left" THEN "none" ELSE "over", c.trusted)
      PROVE  ProbesInv'
  <2> DEFINE d == IF c.days = "left" THEN "none" ELSE "over"
  <2>1. d # "left"
    OBVIOUS
  <2>2. FinishCertificate(d, c.trusted)
    BY <1>3
  <2> HIDE DEF d
  <2> QED BY <1>1, <2>1, <2>2, CertificateIsRead
<1> QED BY <1>2, <1>3 DEF FetchUnverified

(* An attempt ends; the one that follows starts with all of its probes.    *)
LEMMA AttemptEnds == ProbesInv /\ EndAttempt => ProbesInv'
<1> SUFFICES ASSUME ProbesInv, EndAttempt PROVE ProbesInv'
  OBVIOUS
<1> DEFINE over == EveryUp \/ measure.attempt > Retries \/ measure.attempt \notin timeouts
           place == IF over THEN "measured" ELSE "waiting"
<1>1. /\ measure' = [measure EXCEPT !.pc = place] /\ measure.pc = "probing" /\ measure.todo = <<>>
      /\ UNCHANGED <<setup, readings, probe, negative, timeouts>>
  BY DEF EndAttempt
<1>2. place \in {"measured", "waiting"} /\ (place = "waiting" => ~over) /\ (place = "measured" => over)
  OBVIOUS
<1>3. place = "waiting" => measure.attempt \in timeouts
  BY <1>2
<1>4. place = "measured" /\ ~EveryUp => measure.attempt > Retries \/ measure.attempt \notin timeouts
  BY <1>2
<1> HIDE DEF place, over
<1>5. /\ measure' \in [attempt : Nat \ {0}, todo : Seq(Probed), pc : {"probing", "waiting", "measured"}]
      /\ measure'.attempt = measure.attempt /\ measure'.pc = place /\ measure'.todo = measure.todo
  BY <1>1, <1>2 DEF ProbesInv, MeasureTyped
<1>6. MeasureTyped' /\ Sound(probe)' /\ DaysAreVerified'
  BY <1>1, <1>5 DEF ProbesInv, MeasureTyped, DaysAreVerified, Sound, Received
<1>7. Available' = Available /\ EveryUp' = EveryUp
  BY <1>1 DEF Available, EveryUp
<1>8. \A s \in Available : readings[s].of = measure.attempt \/ s \in ToSet(measure.todo)
  BY <1>1 DEF ProbesInv, ReadNow
<1>9. ReadNow'
  BY <1>1, <1>3, <1>4, <1>5, <1>7, <1>8, <1>2 DEF ProbesInv, ReadNow
<1>10. RereadsCertificates'
  BY <1>1 DEF ProbesInv, RereadsCertificates
<1> QED BY <1>6, <1>9, <1>10 DEF ProbesInv

LEMMA AttemptFollows == ProbesInv /\ EndBackoff => ProbesInv'
<1> SUFFICES ASSUME ProbesInv, EndBackoff PROVE ProbesInv'
  OBVIOUS
<1> DEFINE n == measure.attempt + 1
           go == "probing"
<1>1. /\ measure.pc = "waiting" /\ UNCHANGED <<setup, probe, negative, timeouts>>
      /\ measure' = [attempt |-> n, todo |-> ToProbe, pc |-> go]
      /\ readings' = [readings EXCEPT !["cert"] = NoCertificate]
  BY DEF EndBackoff
<1>2. setup.services \subseteq Probed
  BY DEF ProbesInv, MeasureTyped
<1>3. ToProbe \in Seq(Probed) /\ Available \subseteq ToSet(ToProbe)
  BY <1>2, AllHaveTheirTurn
<1>4. measure.attempt \in Nat \ {0} /\ n \in Nat \ {0} /\ n - 1 = measure.attempt /\ go = "probing"
  BY DEF ProbesInv, MeasureTyped
<1> HIDE DEF n, go
<1>5. /\ measure' \in [attempt : Nat \ {0}, todo : Seq(Probed), pc : {"probing", "waiting", "measured"}]
      /\ measure'.attempt = n /\ measure'.pc = "probing" /\ measure'.todo = ToProbe
  BY <1>1, <1>3, <1>4
<1>6. readings = [s \in Probed |-> readings[s]] /\ "cert" \in Probed
  BY DEF ProbesInv, MeasureTyped, Probed
<1>7. readings' = [s \in Probed |-> readings'[s]] /\ readings'["cert"] = NoCertificate
  BY <1>1, <1>6
<1>8. NoCertificate.days # "left"
  BY DEF NoCertificate
<1>9. MeasureTyped' /\ Sound(probe)' /\ DaysAreVerified'
  BY <1>1, <1>5, <1>7, <1>8 DEF ProbesInv, MeasureTyped, DaysAreVerified, Sound, Received
<1>10. Available' = Available
  BY <1>1 DEF Available
<1>11. 1 .. n - 1 \subseteq timeouts
  <2>1. 1 .. measure.attempt - 1 \subseteq timeouts /\ measure.attempt \in timeouts
    BY <1>1 DEF ProbesInv, ReadNow
  <2>2. \A i \in 1 .. n - 1 : i \in 1 .. measure.attempt - 1 \/ i = measure.attempt
    BY <1>4
  <2> QED BY <2>1, <2>2
<1>12. ReadNow'
  BY <1>1, <1>3, <1>5, <1>10, <1>11 DEF ReadNow
<1>13. RereadsCertificates'
  BY <1>1 DEF ProbesInv, RereadsCertificates
<1> QED BY <1>9, <1>12, <1>13 DEF ProbesInv

-----------------------------------------------------------------------------
(* What the invariant of a measurement gives                               *)

LEMMA ProbesStart == ProbesInit => ProbesInv
<1> SUFFICES ASSUME ProbesInit PROVE ProbesInv
  OBVIOUS
<1> DEFINE one == 1
           go == "probing"
<1>1. /\ setup \in [services : SUBSET Probed, host : Addresses \union {NoAddress}, ignore : BOOLEAN,
                     custom : BOOLEAN]
      /\ measure = [attempt |-> one, todo |-> ToProbe, pc |-> go]
      /\ readings = [s \in Probed |-> IF s = "cert" THEN NoCertificate ELSE NoReading]
      /\ probe = NoProbe /\ timeouts = {}
  <2>1. Measurable \union {"cert"} = Probed
    BY DEF Measurable, Probed
  <2> QED BY <2>1 DEF ProbesInit
<1>2. setup.services \subseteq Probed
  BY <1>1
<1>3. ToProbe \in Seq(Probed) /\ Available \subseteq ToSet(ToProbe)
  BY <1>2, AllHaveTheirTurn
<1>4. one = 1 /\ go = "probing" /\ one \in Nat \ {0}
  OBVIOUS
<1> HIDE DEF one, go
<1>5. /\ measure \in [attempt : Nat \ {0}, todo : Seq(Probed), pc : {"probing", "waiting", "measured"}]
      /\ measure.attempt = 1 /\ measure.pc = "probing" /\ measure.todo = ToProbe
  BY <1>1, <1>3, <1>4
<1>6. readings["cert"] = NoCertificate /\ NoCertificate.days # "left"
  BY <1>1 DEF Probed, NoCertificate
<1>7. readings = [s \in Probed |-> readings[s]]
  BY <1>1
<1>8. MeasureTyped /\ DaysAreVerified
  BY <1>1, <1>5, <1>6, <1>7 DEF MeasureTyped, DaysAreVerified
<1>9. ReadNow
  BY <1>3, <1>5 DEF ReadNow
<1>10. Sound(probe) /\ RereadsCertificates
  BY <1>1, NoProbeIsSound DEF RereadsCertificates
<1> QED BY <1>8, <1>9, <1>10 DEF ProbesInv

LEMMA ProbesStep == ProbesInv /\ ProbesNext => ProbesInv'
<1> SUFFICES ASSUME ProbesInv, ProbesNext PROVE ProbesInv'
  OBVIOUS
<1>1. CASE Judge
  <2>1. Probing("judging") /\ setup' = setup
        /\ Finish(Allowed, probe.resp = "none" /\ Last(Tried).answer = "silent")
    BY <1>1 DEF Judge
  <2> QED BY <2>1, ProbeFinishes
<1>2. ASSUME NEW kind, Once(kind) PROVE ProbesInv'
  <2>1. Probing("connecting") /\ setup' = setup
    BY <1>2 DEF Once
  <2>2. PICK answer : Finish(answer = "good", answer = "silent")
    BY <1>2 DEF Once
  <2> QED BY <2>1, <2>2, ProbeFinishes
<1>3. CASE OthersAsk \/ NegativePasses
  <2>1. UNCHANGED <<setup, measure, readings, timeouts, probe>>
    BY <1>3 DEF OthersAsk, NegativePasses, Unmoved
  <2> QED BY <2>1
        DEF ProbesInv, MeasureTyped, ReadNow, RereadsCertificates, DaysAreVerified, Available, EveryUp, Kind,
            Sound, Received
<1> QED BY <1>1, <1>2, <1>3, HostIsChecked, PublicAnswers, AddressesArePinned, AddressIsTried,
           CertificateIsFetched, CertificateIsReread, AttemptEnds, AttemptFollows
        DEF ProbesNext, PingHost, TcpConnect

LEMMA ProbesKeep == ProbesInv /\ [ProbesNext]_probeVars => ProbesInv'
<1>1. ProbesInv /\ UNCHANGED probeVars => ProbesInv'
  BY SMTT(60)
    DEF probeVars, ProbesInv, MeasureTyped, ReadNow, RereadsCertificates, DaysAreVerified, Available, EveryUp,
        Kind, Sound, Received
<1> QED BY <1>1, ProbesStep

LEMMA DownWasTried == ProbesInv => DownIsTried
<1> SUFFICES ASSUME ProbesInv, probe.stage = "judging", ~Allowed
             PROVE  /\ \A t \in ToSet(Tried) : t.answer # "good"
                    /\ \A i \in DOMAIN Tried : Tried[i].answer = "wanted" =>
                         \E k \in DOMAIN Tried : k > i /\ Tried[k].answer \in Statuses
                    /\ \/ {t.to : t \in ToSet(Tried)} = ToSet(probe.candidates)
                       \/ Last(Tried).answer = "astray"
                       \/ setup.custom /\ Last(Tried).answer = "unwanted"
  BY DEF DownIsTried
<1> DEFINE n == Len(Tried)
<1>1. Tried \in Seq(Try) /\ probe.candidates \in Seq(Addresses) /\ n > 0
  BY DEF ProbesInv, Sound, InTurn, ProbeRow, Tried
<1>2. /\ n <= Len(probe.candidates)
      /\ n = Len(probe.candidates) \/ Tried[n].answer \in Final
      /\ \A i \in 1 .. n : Tried[i].to = probe.candidates[i] /\ (i < n => Tried[i].answer \notin Final)
  BY DEF ProbesInv, Sound, InTurn, Tried
<1>3. /\ \A i \in 1 .. n :
           /\ Tried[i].answer \in {"unwanted", "wanted"} => setup.custom
           /\ Tried[i].answer = "wanted" => \E k \in i + 1 .. n : Tried[k].answer \in Statuses
      /\ Tried[n].answer \in Statuses => Tried[n].answer = probe.resp
  BY <1>1 DEF ProbesInv, Sound, Received, Tried, Allowed
<1>4. n \in Nat /\ DOMAIN Tried = 1 .. n
  BY <1>1
<1>5. Last(Tried) = Tried[n]
  BY DEF Last
<1> HIDE DEF n
<1>6. Tried[n].answer # "good"
  BY <1>3 DEF Statuses, Allowed
<1>7. \A i \in 1 .. n : Tried[i].answer # "good"
  <2> SUFFICES ASSUME NEW i \in 1 .. n PROVE Tried[i].answer # "good"
    OBVIOUS
  <2>1. i = n \/ i < n
    BY <1>4
  <2> QED BY <2>1, <1>2, <1>6 DEF Final
<1>8. \A t \in ToSet(Tried) : t.answer # "good"
  BY <1>4, <1>7 DEF ToSet
<1>9. ASSUME NEW i \in DOMAIN Tried, Tried[i].answer = "wanted"
      PROVE  \E k \in DOMAIN Tried : k > i /\ Tried[k].answer \in Statuses
  <2>1. i \in 1 .. n
    BY <1>4
  <2>2. PICK k \in i + 1 .. n : Tried[k].answer \in Statuses
    BY <1>3, <1>9, <2>1
  <2>3. k \in DOMAIN Tried /\ k > i
    BY <1>4, <2>1
  <2> QED BY <2>2, <2>3
<1>10. \/ {t.to : t \in ToSet(Tried)} = ToSet(probe.candidates)
       \/ Tried[n].answer = "astray"
       \/ setup.custom /\ Tried[n].answer = "unwanted"
  <2>1. CASE n = Len(probe.candidates)
    <3>1. DOMAIN probe.candidates = 1 .. n
      BY <1>1, <2>1
    <3>2. \A x \in ToSet(probe.candidates) : \E t \in ToSet(Tried) : t.to = x
      <4> SUFFICES ASSUME NEW i \in 1 .. n PROVE \E t \in ToSet(Tried) : t.to = probe.candidates[i]
        BY <3>1 DEF ToSet
      <4>1. Tried[i] \in ToSet(Tried) /\ Tried[i].to = probe.candidates[i]
        BY <1>2, <1>4 DEF ToSet
      <4> QED BY <4>1
    <3>3. \A t \in ToSet(Tried) : t.to \in ToSet(probe.candidates)
      BY <1>2, <1>4, <3>1 DEF ToSet
    <3> QED BY <3>2, <3>3
  <2>2. CASE Tried[n].answer \in Final
    <3>1. n \in 1 .. n
      BY <1>1, <1>4 DEF n
    <3> QED BY <2>2, <3>1, <1>3, <1>6 DEF Final
  <2> QED BY <1>2, <2>1, <2>2
<1> QED BY <1>5, <1>8, <1>9, <1>10

LEMMA ProbesInvKept == ProbesInv => ProbesKept
<1> SUFFICES ASSUME ProbesInv PROVE ProbesKept
  OBVIOUS
<1>1. Pinned /\ DaysAreVerified
  BY DEF ProbesInv, Sound, Pinned
<1>2. measure.pc = "measured" => \A s \in Available : readings[s].of = measure.attempt
  <2> SUFFICES ASSUME measure.pc = "measured", NEW s \in Available
               PROVE  readings[s].of = measure.attempt
    OBVIOUS
  <2>1. ToSet(measure.todo) = {}
    BY DEF ProbesInv, ReadNow, ToSet
  <2> QED BY <2>1 DEF ProbesInv, ReadNow
<1>3. OneAttempt
  BY <1>2 DEF ProbesInv, ReadNow, OneAttempt
<1> QED BY <1>1, <1>3, DownWasTried DEF ProbesKept

(* A probe connects only to addresses that may be probed; a site is down   *)
(* only after all of them were tried and none answered well, but for an    *)
(* answer that leads astray or, with codes of its own, one below 400 that  *)
(* does not count; the readings stored are of one attempt, and days are    *)
(* left only of a certificate that was verified (checks.py, http_head and  *)
(* cert_expiration; scheduler.py, _run_target).                            *)
THEOREM ProbesAreKept == ProbesSpec => []ProbesKept
BY ProbesStart, ProbesKeep, ProbesInvKept, PTL DEF ProbesSpec

(* Beside the monitor's alerts: whichever of the three moves, the others   *)
(* stay as they are.                                                       *)
THEOREM RunsAreKept == RuntimeSpec => []RunsKept
<1> DEFINE Moves == AlertingMoves \/ RunsMove \/ ProbesMove
           Kept == RunsInv /\ ProbesInv
<1>1. RuntimeInit => Kept
  BY RunsStart, ProbesStart DEF RuntimeInit
<1>2. [Moves]_runtimeVars => [RunNext]_runVars /\ [ProbesNext]_probeVars
  BY DEF AlertingMoves, RunsMove, ProbesMove, runtimeVars, runVars, probeVars
<1>3. Kept /\ [Moves]_runtimeVars => Kept'
  BY <1>2, RunsKeep, ProbesKeep
<1>4. Kept => RunsKept
  BY ProbesInvKept DEF RunsKept, RunsInv, LateWrites, OrphansAreLateWrites
<1> QED BY <1>1, <1>3, <1>4, PTL DEF RuntimeSpec
=============================================================================
