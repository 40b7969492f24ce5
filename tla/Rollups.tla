-------------------------------- MODULE Rollups --------------------------------
(***************************************************************************)
(* The resolutions of one up/down metric: raw samples, 5-minute points and *)
(* hourly points (app/db/tsdb.py).  The daily housekeeping converts what   *)
(* is about to expire and then prunes; a query stitches the three series   *)
(* together at fixed ages, whatever the housekeeping has managed.          *)
(***************************************************************************)
EXTENDS Integers, FiniteSets, FiniteSetsExt

CONSTANTS
    DayTicks,           \* ticks of a day; one sample per tick
    FineTicks,          \* a 5-minute bucket
    CoarseTicks,        \* an hourly bucket
    RawDays, FineDays,  \* the caps of raw samples and of 5-minute points
    KeepDays,           \* the retentions a user may choose
    LastTick, MaxOdd, MaxLate, MaxTroubles      \* bounds

ASSUME RollupAssumption ==
    /\ {DayTicks, FineTicks, CoarseTicks, RawDays, FineDays} \subseteq Nat \ {0}
    /\ CoarseTicks % FineTicks = 0 /\ CoarseTicks <= DayTicks /\ RawDays < FineDays
    /\ KeepDays \subseteq Nat \ {0}
    /\ {LastTick, MaxOdd, MaxLate, MaxTroubles} \subseteq Nat

VARIABLES
    clock,              \* the tick about to be measured
    raw, fine, coarse,  \* points of the three series: start and "was it down"
    keep,               \* the target's retention in days
    job,                \* the housekeeping run: its step, when it began, when the next is due
    record              \* histories, read by the properties only

rollupVars == <<clock, raw, fine, coarse, keep, job, record>>

Ticks == 0 .. LastTick
Point == [ts : Ticks, down : BOOLEAN]
NoJob(due) == [step |-> 0, now |-> 0, keep |-> 1, due |-> due]

RollupInit ==
    /\ clock = 0 /\ raw = {} /\ fine = {} /\ coarse = {}
    /\ keep \in KeepDays
    /\ job = NoJob(0)
    /\ record = [gaps |-> {}, downs |-> {}, expired |-> 0 - DayTicks,
                 rolled |-> 0, late |-> 0, troubles |-> 0]

Lesser(a, b) == IF a <= b THEN a ELSE b
Greater(a, b) == IF a >= b THEN a ELSE b
Since(series, cutoff) == {p \in series : p.ts >= cutoff}

(* What the retention allows to forget, now and at any earlier time.       *)
Expired(now, days) == Greater(record.expired, now - days * DayTicks)

Recent(ticks) == {t \in ticks : t >= record.expired}

(* One tick: a sample, unless the check did not run.  The append prunes    *)
(* now and then, by the target's retention and not by the raw cap.  A run  *)
(* of the housekeeping takes less than two ticks.                          *)
Measure(measured, down, prune) ==
    LET cutoff == clock - keep * DayTicks
        grown == raw \union {[ts |-> clock, down |-> down]}
    IN  /\ clock < LastTick
        /\ job.step = 0 \/ clock <= job.now
        /\ clock >= job.due => record.late < MaxLate
        /\ down => measured
        /\ down \/ ~measured => Cardinality(record.downs \union record.gaps) < MaxOdd
        /\ prune => measured /\ \E p \in raw : p.ts < cutoff
        /\ raw' = IF ~measured THEN raw ELSE IF prune THEN Since(grown, cutoff) ELSE grown
        /\ clock' = clock + 1
        /\ record' = [record EXCEPT
                        !.gaps = Recent(IF measured THEN @ ELSE @ \union {clock}),
                        !.downs = Recent(IF down THEN @ \union {clock} ELSE @),
                        !.late = IF clock >= job.due THEN @ + 1 ELSE @,
                        !.expired = Expired(clock + 1, keep)]
        /\ UNCHANGED <<fine, coarse, keep, job>>

(* The user changes the retention; a running housekeeping keeps its value. *)
EditRetention(days) ==
    /\ record.troubles < MaxTroubles /\ days # keep
    /\ keep' = days
    /\ record' = [record EXCEPT !.troubles = @ + 1, !.expired = Expired(clock, days)]
    /\ UNCHANGED <<clock, raw, fine, coarse, job>>

---------------------------------------------------------------------------
(* downsample_series: the complete buckets before `until` that are newer   *)
(* than the newest point there is.  A bucket is down if any sample was.    *)
BucketOf(ts, ticks) == (ts \div ticks) * ticks

(* Mutant: the bucket `until` falls into is closed before it is complete.  *)
DownsampledEarly(source, target, ticks, until) ==
    LET watermark == Max({p.ts : p \in target})
        lo == IF target = {} THEN 0 ELSE BucketOf(watermark, ticks) + ticks
        inside == {p \in source : p.ts >= lo /\ p.ts < Greater(until, 0)}
    IN  target \union
        {[ts |-> b, down |-> \E p \in inside : BucketOf(p.ts, ticks) = b /\ p.down] :
            b \in {BucketOf(p.ts, ticks) : p \in inside}}

Downsampled(source, target, ticks, until) ==
    LET watermark == Max({p.ts : p \in target})
        lo == IF target = {} THEN 0 ELSE BucketOf(watermark, ticks) + ticks
        hi == BucketOf(Greater(until, 0), ticks)
        inside == {p \in source : p.ts >= lo /\ p.ts < hi}
    IN  target \union
        {[ts |-> b, down |-> \E p \in inside : BucketOf(p.ts, ticks) = b /\ p.down] :
            b \in {BucketOf(p.ts, ticks) : p \in inside}}

Handoff(cap) == job.now - Greater(0, Lesser(cap, job.keep) - 1) * DayTicks

(* housekeep_target: roll up twice, then prune the three series by name.   *)
(* The next run is due a day after this one began, or late.                *)
StartHousekeeping ==
    /\ job.step = 0 /\ clock >= job.due
    /\ job' = [step |-> 1, now |-> clock, keep |-> keep, due |-> clock + DayTicks]
    /\ UNCHANGED <<clock, raw, fine, coarse, keep, record>>

RollUpFine ==
    /\ job.step = 1 /\ job' = [job EXCEPT !.step = 2]
    /\ fine' = Downsampled(raw, fine, FineTicks, Handoff(RawDays))
    /\ UNCHANGED <<clock, raw, coarse, keep, record>>

RollUpCoarse ==
    /\ job.step = 2 /\ job' = [job EXCEPT !.step = 3]
    /\ coarse' = Downsampled(fine, coarse, CoarseTicks, Handoff(FineDays))
    /\ record' = [record EXCEPT !.rolled = job.now]
    /\ UNCHANGED <<clock, raw, fine, keep>>

PruneRaw ==
    /\ job.step = 3 /\ job' = [job EXCEPT !.step = 4]
    /\ raw' = Since(raw, clock - Lesser(RawDays, job.keep) * DayTicks)
    /\ UNCHANGED <<clock, fine, coarse, keep, record>>

PruneCoarse ==
    /\ job.step = 4 /\ job' = [job EXCEPT !.step = 5]
    /\ coarse' = Since(coarse, clock - job.keep * DayTicks)
    /\ record' = [record EXCEPT !.expired = Expired(clock, job.keep)]
    /\ UNCHANGED <<clock, raw, fine, keep>>

PruneFine ==
    /\ job.step = 5 /\ job' = NoJob(job.due)
    /\ fine' = Since(fine, clock - Lesser(FineDays, job.keep) * DayTicks)
    /\ UNCHANGED <<clock, raw, coarse, keep, record>>

(* The process stops, a restore begins or a series cannot be read: the     *)
(* rest of the run is left for the next one, which is tried soon.          *)
StopHousekeeping ==
    /\ job.step # 0 /\ record.troubles < MaxTroubles
    /\ job' = NoJob(clock + 1)
    /\ record' = [record EXCEPT !.troubles = @ + 1]
    /\ UNCHANGED <<clock, raw, fine, coarse, keep>>

RollupNext ==
    \/ \E measured, down, prune \in BOOLEAN : Measure(measured, down, prune)
    \/ \E days \in KeepDays : EditRetention(days)
    \/ StartHousekeeping \/ RollUpFine \/ RollUpCoarse
    \/ PruneRaw \/ PruneCoarse \/ PruneFine
    \/ StopHousekeeping

RollupSpec == RollupInit /\ [][RollupNext]_rollupVars

---------------------------------------------------------------------------
RollupTypeOK ==
    /\ clock \in Ticks /\ keep \in KeepDays /\ job.step \in 0 .. 5
    /\ \A series \in {raw, fine, coarse} :
         /\ series \subseteq Point
         /\ \A p, q \in series : p.ts = q.ts => p = q

Measured == {t \in 0 .. clock - 1 : t \notin record.gaps}
Covering(points, ticks, t) == {p \in points : BucketOf(t, ticks) = p.ts}
Answers(r, f, c, t) ==
    Covering(r, 1, t) \union Covering(f, FineTicks, t) \union Covering(c, CoarseTicks, t)

(* An hourly point expires with its start, so up to an hour of the oldest  *)
(* samples goes early.                                                     *)
Kept == {t \in Measured : t >= record.expired + CoarseTicks}

(* Until the retention ends, every sample is in some series, and no series *)
(* shows an outage as up: rolling up, pruning, a stop between two steps, a *)
(* missed day or an edited retention lose neither.                         *)
OutagesStayOnRecord ==
    \A t \in Kept :
        LET answers == Answers(raw, fine, coarse, t)
        IN  answers # {} /\ (\A p \in answers : t \in record.downs => p.down)

(* query_auto_resolution shows hourly points before the 5-minute cap,      *)
(* 5-minute points before the raw cap, raw samples after it.  All of it is *)
(* there while the last rollup is younger than a day less one bucket; when *)
(* the daily run is late, the end of each stretch is missing until it ran. *)
Displayed(t) ==
    LET rawCut == clock - RawDays * DayTicks
        fineCut == clock - FineDays * DayTicks
    IN  Answers(Since(raw, rawCut), {p \in Since(fine, fineCut) : p.ts < rawCut},
                {p \in coarse : p.ts < fineCut}, t)

NoHoleWhenOnTime ==
    clock - record.rolled <= DayTicks - CoarseTicks => \A t \in Kept : Displayed(t) # {}

(* What the three series promise together.                                 *)
HistoryKept == OutagesStayOnRecord /\ NoHoleWhenOnTime
=============================================================================
