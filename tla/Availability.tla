----------------------------- MODULE Availability -----------------------------
(***************************************************************************)
(* The algorithms that turn stored up/down samples into what users see:    *)
(* one sample per check cycle, downtime periods, the step line of a        *)
(* service and its cap, and resampled charts (app/db/tsdb.py,              *)
(* app/utils/uptime_metric.py).  The state is the data observed so far;    *)
(* the properties compare each algorithm with what it stands for.          *)
(***************************************************************************)
EXTENDS Integers, Sequences, FiniteSets, SequencesExt

CONSTANTS
    Metrics,            \* the availability metrics of the target
    MetricRank,         \* the order in which streams of equal time are merged
    CycleGaps,          \* seconds between two check cycles
    Spreads,            \* how far the points of one old cycle lie apart
    Window,             \* _CYCLE_WINDOW
    MinDuration,        \* closed downtimes below it are not listed
    Every, RollEvery,   \* expected distance of raw samples, of rolled up points
    PointGaps,          \* distances between two points of a line
    MaxCycles, MaxLine  \* bounds

ASSUME AvailabilityAssumption ==
    /\ MetricRank \in [Metrics -> Nat]
    /\ \A g \in CycleGaps, s \in Spreads : s <= Window /\ g > Window + s
    /\ {Every, RollEvery} \subseteq Nat \ {0} /\ PointGaps \subseteq Nat \ {0}

VARIABLES
    cycles,     \* check cycles: time, and per metric "up", "down" or "none"
    line        \* the points of one metric: time, value, rolled up or raw

availVars == <<cycles, line>>

AvailInit == cycles = <<>> /\ line = <<>>

LastTs(s) == IF s = <<>> THEN 0 ELSE Last(s).ts

(* One check cycle: all points share a stamp, points of old versions do    *)
(* not.  Metrics that are not enabled have no point.                       *)
ObserveCycle(gap, state, spread) ==
    /\ line = <<>> /\ Len(cycles) < MaxCycles
    /\ \E m \in Metrics : state[m] # "none"
    /\ cycles' = Append(cycles, [ts |-> LastTs(cycles) + gap, state |-> state, spread |-> spread])
    /\ UNCHANGED line

(* Rolled up points come first, raw samples after them.                    *)
ObservePoint(gap, value, rolled) ==
    /\ cycles = <<>> /\ Len(line) < MaxLine
    /\ rolled => gap % RollEvery = 0 /\ \A i \in DOMAIN line : line[i].rolled
    /\ line' = Append(line, [ts |-> LastTs(line) + gap, value |-> value, rolled |-> rolled])
    /\ UNCHANGED cycles

AvailNext ==
    \/ \E gap \in CycleGaps, state \in [Metrics -> {"up", "down", "none"}], spread \in Spreads :
         ObserveCycle(gap, state, spread)
    \/ \E gap \in PointGaps, value \in {"up", "down"}, rolled \in BOOLEAN :
         ObservePoint(gap, value, rolled)

AvailSpec == AvailInit /\ [][AvailNext]_availVars

---------------------------------------------------------------------------
(* The merged streams of all metrics, in the order of time.                *)
EventsOf(c) ==
    {[ts |-> c.ts + (IF MetricRank[m] = 0 THEN 0 ELSE c.spread), metric |-> m,
      up |-> c.state[m] = "up"] : m \in {n \in Metrics : c.state[n] # "none"}}
Earlier(a, b) == a.ts < b.ts \/ (a.ts = b.ts /\ MetricRank[a.metric] < MetricRank[b.metric])
AllEvents == UNION {EventsOf(cycles[i]) : i \in DOMAIN cycles}
Events == SetToSortSeq(AllEvents, Earlier)

(* combine_availability: a metric seen twice, or a late point, opens the   *)
(* next cycle.                                                             *)
CombineAvailability(events) ==
    LET Closed(acc) == IF acc.seen = {} THEN acc.out
                       ELSE Append(acc.out, [ts |-> acc.start, up |-> acc.up])
        Fold(acc, e) ==
            IF acc.seen = {} \/ e.metric \in acc.seen \/ e.ts - acc.start > Window
            THEN [start |-> e.ts, seen |-> {e.metric}, up |-> e.up, out |-> Closed(acc)]
            ELSE [acc EXCEPT !.seen = @ \union {e.metric}, !.up = @ /\ e.up]
    IN  Closed(FoldLeft(Fold, [start |-> 0, seen |-> {}, up |-> TRUE, out |-> <<>>], events))

(* Mutant: any check that is up ends the downtime.                         *)
DowntimeUntilAnyUp(since) ==
    LET times == SetToSortSeq({e.ts : e \in {x \in AllEvents : x.ts >= since}}, <)
        at(t) == {e \in AllEvents : e.ts = t}
        Fold(acc, t) ==
            LET down == {e.metric : e \in {x \in at(t) : ~x.up}} IN
            IF down # {}
            THEN [acc EXCEPT !.start = IF acc.failed = {} THEN t ELSE @,
                             !.failed = @ \union down]
            ELSE [start |-> 0, failed |-> {},
                  out |-> IF acc.failed # {} /\ t - acc.start >= MinDuration
                          THEN acc.out \union {[start |-> acc.start, end |-> t, failed |-> acc.failed]}
                          ELSE acc.out]
        end == FoldLeft(Fold, [start |-> 0, failed |-> {}, out |-> {}], times)
    IN  IF end.failed = {} THEN end.out
        ELSE end.out \union {[start |-> end.start, end |-> 0, failed |-> end.failed]}

(* query_downtime_periods: a downtime lasts while the last known value of  *)
(* any metric is down.  What was known before `since` counts.              *)
DowntimePeriods(since) ==
    LET times == SetToSortSeq({e.ts : e \in {x \in AllEvents : x.ts >= since}}, <)
        at(t, m) == {e \in AllEvents : e.ts = t /\ e.metric = m}
        before(m) == {e \in AllEvents : e.metric = m /\ e.ts <= since}
        known == {m \in Metrics : before(m) # {} /\
                    ~(CHOOSE e \in before(m) : \A f \in before(m) : f.ts <= e.ts).up}
        Fold(acc, t) ==
            LET down == {m \in Metrics : IF at(t, m) = {} THEN m \in acc.down
                                         ELSE \E e \in at(t, m) : ~e.up}
                long == t - acc.start >= MinDuration
            IN  IF down # {}
                THEN [acc EXCEPT !.down = down,
                        !.start = IF acc.failed = {} THEN t ELSE @,
                        !.failed = @ \union down]
                ELSE [start |-> 0, down |-> {}, failed |-> {},
                      out |-> IF acc.failed # {} /\ long
                              THEN acc.out \union {[start |-> acc.start, end |-> t, failed |-> acc.failed]}
                              ELSE acc.out]
        end == FoldLeft(Fold, [start |-> 0, down |-> known, failed |-> {}, out |-> {}], times)
    IN  IF end.failed = {} THEN end.out
        ELSE end.out \union {[start |-> end.start, end |-> 0, failed |-> end.failed]}

---------------------------------------------------------------------------
(* _availability_transitions.  Times are doubled: an odd time is the       *)
(* microsecond behind a sample, where a gap begins.                        *)
Mark(at, value) == [at |-> at, value |-> value]

Transitions ==
    LET Close(acc) ==
            IF acc.up = "none" \/ Last(acc.out).at = 2 * acc.ts THEN <<>>
            ELSE <<Mark(2 * acc.ts, acc.up)>>
        Fold(acc, p) ==
            LET gap == p.ts - acc.ts
                expected == IF p.rolled THEN RollEvery
                            ELSE IF acc.interval # 0 THEN acc.interval ELSE Every
                silent == acc.any /\ gap > 3 * expected
                closed == IF silent /\ acc.up # "none"
                          THEN acc.out \o Close(acc) \o <<Mark(2 * acc.ts + 1, "gap")>>
                          ELSE acc.out
                up == IF silent THEN "none" ELSE acc.up
                lost == p.rolled /\ p.value = "down"
            IN  [any |-> TRUE, ts |-> p.ts,
                 up |-> IF lost THEN "none" ELSE p.value,
                 interval |-> IF ~acc.any \/ silent \/ p.rolled THEN acc.interval
                              ELSE IF acc.interval = 0 \/ gap < acc.interval THEN gap
                              ELSE acc.interval,
                 out |-> IF lost THEN closed \o <<Mark(2 * p.ts, "down"), Mark(2 * p.ts + 1, "gap")>>
                         ELSE IF up # p.value THEN Append(closed, Mark(2 * p.ts, p.value))
                         ELSE closed]
        end == FoldLeft(Fold, [any |-> FALSE, ts |-> 0, up |-> "none", interval |-> 0,
                               out |-> <<>>], line)
    IN  end.out \o Close(end)

(* _limit_availability_points: the indices kept.  Down and gap points form *)
(* episodes with their neighbours; the newest episodes are kept first.     *)
Limited(points, limit) ==
    LET last == Len(points)
        around(i) == {i - 1, i, i + 1} \intersect (1 .. last)
        Grow(eps, i) ==
            IF eps # <<>> /\ i - 1 <= Last(eps)[2] + 1
            THEN Append(Front(eps), <<Last(eps)[1], CHOOSE h \in around(i) : \A k \in around(i) : k <= h>>)
            ELSE Append(eps, <<CHOOSE l \in around(i) : \A k \in around(i) : l <= k,
                               CHOOSE h \in around(i) : \A k \in around(i) : k <= h>>)
        outages == SelectSeq([i \in 1 .. last |-> i], LAMBDA i : points[i].value # "up")
        episodes == FoldLeft(Grow, <<>>, outages)
        newest == IF episodes # <<>> /\ Last(episodes)[2] = last THEN {} ELSE {last}
        Keep(kept, e) ==
            LET free == limit - Cardinality(kept)
            IN  IF free <= 0 THEN kept
                ELSE kept \union {i \in e[1] .. e[2] : i > e[2] - free}
    IN  IF last <= limit THEN 1 .. last
        ELSE FoldLeft(Keep, newest, Reverse(episodes))

(* _resample_points for an up/down metric: the minimum of each bucket, and *)
(* an even selection if there are still too many buckets.                  *)
BucketWidth(limit) ==
    LET range == Last(line).ts - Head(line).ts
        width == (range + limit - 1) \div limit
    IN  IF width < 1 THEN 1 ELSE width

Buckets(width) ==
    LET starts == {(line[i].ts \div width) * width : i \in DOMAIN line}
        worst(b) == IF \E i \in DOMAIN line :
                          (line[i].ts \div width) * width = b /\ line[i].value = "down"
                    THEN "down" ELSE "up"
    IN  [i \in 1 .. Cardinality(starts) |->
            LET b == SetToSortSeq(starts, <)[i] IN [ts |-> b, value |-> worst(b)]]

Resampled(limit) ==
    LET all == Buckets(BucketWidth(limit))
    IN  IF Len(line) <= limit THEN [i \in DOMAIN line |-> [ts |-> line[i].ts, value |-> line[i].value]]
        ELSE IF Len(all) <= limit THEN all
        ELSE [i \in 1 .. limit |-> all[(((i - 1) * Len(all)) \div limit) + 1]]

---------------------------------------------------------------------------
(* The availability of a report counts one sample per check cycle, up only *)
(* if every check of the cycle was up, however its points were stamped.    *)
OneSamplePerCycle ==
    LET first(c) == CHOOSE e \in EventsOf(c) : \A f \in EventsOf(c) : e.ts <= f.ts
    IN  CombineAvailability(Events) =
            [i \in DOMAIN cycles |->
                [ts |-> first(cycles[i]).ts, up |-> \A e \in EventsOf(cycles[i]) : e.up]]

(* The listed downtimes are the maximal stretches in which some check was  *)
(* last seen down, with exactly the checks that were down in them; only    *)
(* short closed ones are left out.  Nothing depends on where a query       *)
(* starts, except that a downtime under way begins there.                  *)
DowntimesAreMaximal ==
    \A since \in {0} \union {c.ts : c \in ToSet(cycles)} :
        LET times == {e.ts : e \in {x \in AllEvents : x.ts >= since}}
            down(t) == {m \in Metrics : \E e \in AllEvents :
                          /\ e.metric = m /\ e.ts <= t /\ ~e.up
                          /\ \A f \in AllEvents : f.metric = m /\ f.ts <= t => f.ts <= e.ts}
            upAfter(t) == {u \in times : u > t /\ down(u) = {}}
            end(t) == IF upAfter(t) = {} THEN 0
                      ELSE CHOOSE u \in upAfter(t) : \A v \in upAfter(t) : u <= v
            starts == {t \in times : down(t) # {} /\
                        \A u \in times : u < t /\ down(u) # {} => \E v \in times : u < v /\ v < t /\ down(v) = {}}
            inside(t) == {u \in times : u >= t /\ (end(t) = 0 \/ u < end(t))}
        IN  DowntimePeriods(since) =
                {[start |-> t, end |-> end(t), failed |-> UNION {down(u) : u \in inside(t)}] :
                    t \in {s \in starts : end(s) = 0 \/ end(s) - s >= MinDuration}}

(* What reports and downtime lists promise.                                *)
DowntimesAreTrue == OneSamplePerCycle /\ DowntimesAreMaximal

(* Reading the step line at the time of a sample gives that sample; it     *)
(* does not stay up across a silence of more than three check intervals    *)
(* once two samples came at that interval, and an outage known only as a   *)
(* rolled up point is not stretched to the next one.                       *)
Shown(points, at) == points[CHOOSE i \in DOMAIN points :
    points[i].at <= at /\ \A j \in DOMAIN points : points[j].at <= at => j <= i].value

LineTellsTheTruth ==
    LET points == Transitions
        regular(i) == \E j \in 2 .. i : ~line[j].rolled /\ line[j].ts - line[j - 1].ts = Every
    IN  \A i \in DOMAIN line :
          /\ Shown(points, 2 * line[i].ts) = line[i].value
          /\ (\/ line[i].rolled /\ line[i].value = "down"
              \/ /\ i < Len(line) /\ ~line[i + 1].rolled /\ regular(i)
                 /\ line[i + 1].ts - line[i].ts > 3 * Every)
             => Shown(points, 2 * line[i].ts + 1) = "gap"

(* The cap drops the oldest outages first and none while all of them fit;  *)
(* the newest outage survives any cap of three points.                     *)
OutagesSurviveTheCap ==
    LET points == Transitions
        bad == {i \in DOMAIN points : points[i].value # "up"}
        near == {i \in DOMAIN points : {i - 1, i, i + 1} \intersect bad # {}}
    IN  points # <<>> => \A limit \in 1 .. Len(points) :
          LET kept == Limited(points, limit) IN
          /\ Cardinality(kept) <= limit
          /\ \A i, j \in bad : i < j /\ i \in kept => j \in kept
          /\ Cardinality(near \union {Len(points)}) <= limit => near \subseteq kept
          /\ limit >= 3 /\ bad # {} => \E i \in bad : i \in kept /\ \A j \in bad : j <= i

(* A chart of an up/down metric has at most the points asked for, and      *)
(* shows every outage unless the buckets themselves are too many.          *)
ChartsShowOutages ==
    line # <<>> => \A limit \in 1 .. Len(line) :
        LET width == BucketWidth(limit)
            shown == ToSet(Resampled(limit))
        IN  /\ Len(Resampled(limit)) <= limit
            /\ Len(line) > limit /\ Len(Buckets(width)) <= limit =>
                 \A i \in DOMAIN line : line[i].value = "down" =>
                    [ts |-> (line[i].ts \div width) * width, value |-> "down"] \in shown

(* What the charts of an up/down metric promise.                           *)
ChartsAreTrue == LineTellsTheTruth /\ OutagesSurviveTheCap /\ ChartsShowOutages
=============================================================================
