----------------------------- MODULE SeriesStore -----------------------------
(***************************************************************************)
(* One series of the time series store: the append-only active file and    *)
(* the compressed segments its closed days move into (app/db/tsdb.py,      *)
(* app/db/tsdb_segments.py).  Appends, readers and the backup take the     *)
(* series lock; the compaction does most of its work without it and checks *)
(* under the lock that nothing was replaced meanwhile.  A crash leaves the *)
(* files as they are.                                                      *)
(***************************************************************************)
EXTENDS Integers, Sequences, FiniteSets, SequencesExt

CONSTANTS
    LastDay,        \* days are 1 .. LastDay
    PeriodOf,       \* the period (segment key) of a day, by increasing start
    MaxSamples,     \* bound on the measurements appended
    Retention,      \* days a sample is kept
    Readers,        \* queries and the backup
    MaxStoreFaults  \* bound on crashes, full volumes, damaged files, deletions

ASSUME StoreAssumption ==
    /\ LastDay \in Nat /\ MaxSamples \in Nat /\ Retention \in Nat \ {0}
    /\ PeriodOf \in [1 .. LastDay -> 1 .. LastDay]
    /\ \A d, e \in 1 .. LastDay : d <= e => PeriodOf[d] <= PeriodOf[e]
    /\ IsFiniteSet(Readers) /\ MaxStoreFaults \in Nat

VARIABLES
    today,      \* the current UTC day: everything older is closed
    active,     \* the active file: inode (0: no file), lines, torn last line
    segments,   \* per period: version (0: no file), lines, damaged
    compactor,  \* the housekeeping thread of the target
    reading,    \* per reader: what it has opened
    story       \* histories, read by the properties only

storeVars == <<today, active, segments, compactor, reading, story>>

Periods == {PeriodOf[d] : d \in 1 .. LastDay}
Sample == [id : 1 .. MaxSamples, day : 1 .. LastDay]
NoFile == [ino |-> 0, lines |-> <<>>, torn |-> FALSE]
NoSegment == [version |-> 0, lines |-> <<>>, damaged |-> FALSE]
Idle == [pc |-> "idle", ino |-> 0, size |-> 0, consumed |-> 0,
         plan |-> <<>>, rest |-> <<>>, todo |-> {}]
NoReader == [pc |-> "idle", since |-> 1, segs |-> <<>>, ino |-> 0,
             lines |-> <<>>, live |-> FALSE, must |-> {}]

StoreInit ==
    /\ today = 1
    /\ active = NoFile
    /\ segments = [p \in Periods |-> NoSegment]
    /\ compactor = Idle
    /\ reading = [r \in Readers |-> NoReader]
    /\ story = [appended |-> {}, swallowed |-> {}, damaged |-> {}, wiped |-> {},
                faults |-> {}, halfDone |-> FALSE]

(* The members of a finite set in a total order: the k-th one has k - 1    *)
(* before it.                                                              *)
Sorted(some, order) ==
    [k \in 1 .. Cardinality(some) |->
        CHOOSE x \in some : Cardinality({y \in some : <<y, x>> \in order}) = k - 1]

(* The lines of a file that are among some samples, as they stand there.   *)
Lines(s) == ToSet(s)
Ascending(numbers) == Sorted(numbers, {x \in numbers \X numbers : x[1] < x[2]})
Among(lines, some) ==
    LET places == Ascending({i \in DOMAIN lines : lines[i] \in some})
    IN  [k \in DOMAIN places |-> lines[places[k]]]

(* The lines of several segments, one segment after the other.             *)
AllSegments(segs) ==
    LET places == UNION {{p} \X DOMAIN segs[p].lines : p \in Periods}
        Comes(x, y) == x[1] < y[1] \/ (x[1] = y[1] /\ x[2] < y[2])
        order == Sorted(places, {x \in places \X places : Comes(x[1], x[2])})
    IN  [k \in DOMAIN order |-> segs[order[k][1]].lines[order[k][2]]]

Stored == Lines(active.lines) \union UNION {Lines(segments[p].lines) : p \in Periods}
Cutoff == today - Retention
Fresh(lines) == Among(lines, {s \in Sample : s.day >= Cutoff})

(* The lock is held across steps only while a compaction is committed.     *)
SeriesLocked == compactor.pc = "publishing"

(* A new file is told from every file somebody still knows.               *)
NewIno == CHOOSE n \in 1 .. Cardinality(Readers) + 3 :
            n \notin {active.ino, compactor.ino} \union {reading[r].ino : r \in Readers}
NewVersion(p) == CHOOSE n \in 1 .. 3 :
            n # segments[p].version
            /\ (p \in DOMAIN compactor.plan => n # compactor.plan[p].expected)

(* A rewrite without expired lines goes to a new file that takes the name; *)
(* a file whose first line is not expired is left alone.                   *)
Pruned(file) ==
    IF file.lines = <<>> \/ Head(file.lines).day >= Cutoff THEN file
    ELSE IF Fresh(file.lines) = <<>> THEN NoFile
    ELSE [ino |-> NewIno, lines |-> Fresh(file.lines), torn |-> FALSE]

MayFail(fault) ==
    fault \notin story.faults /\ Cardinality(story.faults) < MaxStoreFaults

(* append_point: one line at the end, with the time the measurement was    *)
(* taken: around midnight a line of yesterday may follow lines of today.   *)
(* After a torn line the new one ends up on the same line, which no reader *)
(* can parse.  Now and then the append prunes as well.  Queries that have  *)
(* the file open see the line.                                             *)
AppendPoint(day, prune) ==
    LET s == [id |-> Cardinality(story.appended) + 1, day |-> day]
        base == IF active.ino = 0 THEN NewIno ELSE active.ino
        grown == [ino |-> base,
                  lines |-> IF active.torn THEN active.lines ELSE Append(active.lines, s),
                  torn |-> FALSE]
    IN  /\ ~SeriesLocked
        /\ Cardinality(story.appended) < MaxSamples
        /\ day = today \/ (day = today - 1 /\ day > 0 /\ MayFail("late"))
        /\ active' = IF prune THEN Pruned(grown) ELSE grown
        /\ story' = [story EXCEPT !.appended = @ \union {s},
                        !.swallowed = IF active.torn THEN @ \union {s} ELSE @,
                        !.faults = IF day = today THEN @ ELSE @ \union {"late"}]
        /\ reading' = [r \in Readers |->
                        IF reading[r].live /\ reading[r].ino = base
                        THEN [reading[r] EXCEPT !.lines = grown.lines]
                        ELSE reading[r]]
        /\ UNCHANGED <<today, segments, compactor>>

(* A write that ends in the middle of a line: the volume is full.          *)
TornAppend ==
    /\ ~SeriesLocked /\ MayFail("torn")
    /\ active' = [active EXCEPT !.ino = IF @ = 0 THEN NewIno ELSE @, !.torn = TRUE]
    /\ story' = [story EXCEPT !.faults = @ \union {"torn"}]
    /\ UNCHANGED <<today, segments, compactor, reading>>

NextDay ==
    /\ today < LastDay
    /\ today' = today + 1
    /\ UNCHANGED <<active, segments, compactor, reading, story>>

---------------------------------------------------------------------------
(* Housekeeping: prune, then compress.                                     *)

(* prune_series: expired segments go, the one that straddles the cutoff is *)
(* rewritten and published; damaged ones are left as they are.             *)
PrunedSegment(p) ==
    LET seg == segments[p] IN
    IF seg.version = 0 THEN seg
    ELSE IF \A d \in 1 .. LastDay : PeriodOf[d] = p => d < Cutoff THEN NoSegment
    ELSE IF seg.damaged \/ Fresh(seg.lines) = seg.lines THEN seg
    ELSE IF Fresh(seg.lines) = <<>> THEN NoSegment
    ELSE [version |-> NewVersion(p), lines |-> Fresh(seg.lines), damaged |-> FALSE]

PruneSeries ==
    /\ compactor.pc = "idle"
    /\ segments' = [p \in Periods |-> PrunedSegment(p)]
    /\ active' = Pruned(active)
    /\ <<segments', active'>> # <<segments, active>>
    /\ UNCHANGED <<today, compactor, reading, story>>

(* The closed prefix is read without the lock; the scan stops at the first *)
(* line of the current day.                                                *)
ClosedLines ==
    LET n == CHOOSE k \in 0 .. Len(active.lines) :
               /\ \A i \in 1 .. k : active.lines[i].day < today
               /\ k < Len(active.lines) => active.lines[k + 1].day >= today
    IN  SubSeq(active.lines, 1, n)

ScanClosedPrefix ==
    /\ compactor.pc = "idle"
    /\ active.ino # 0 /\ ClosedLines # <<>>
    /\ compactor' = [Idle EXCEPT !.pc = "scanned", !.ino = active.ino,
                        !.size = Len(active.lines), !.consumed = Len(ClosedLines),
                        !.rest = ClosedLines]
    /\ UNCHANGED <<today, active, segments, reading, story>>

(* One segment's replacement: a newer chunk is added to the old bytes,     *)
(* anything else is merged by time and identical lines collapse.           *)
Before(a, b) == a.day < b.day \/ (a.day = b.day /\ a.id < b.id)
InOrder(lines) == \A i, j \in DOMAIN lines : i < j => Before(lines[i], lines[j])
Merged(old, new) ==
    LET all == Lines(old) \union Lines(new)
    IN  Sorted(all, {x \in all \X all : Before(x[1], x[2])})

Replacement(p, chunk) ==
    LET seg == segments[p]
        newer == \A a \in Lines(seg.lines), b \in Lines(chunk) : Before(a, b)
    IN  IF seg.version = 0 THEN chunk
        ELSE IF ~seg.damaged /\ newer /\ InOrder(chunk) THEN seg.lines \o chunk
        ELSE Merged(seg.lines, chunk)

(* Mutant: a period that has a segment is taken for done.                  *)
PlanNewPeriods ==
    LET chunk(p) == Among(compactor.rest, {s \in Sample : PeriodOf[s.day] = p})
        keys == {p \in Periods : chunk(p) # <<>>}
    IN  /\ compactor.pc = "scanned"
        /\ compactor' =
             IF active.ino # compactor.ino \/ \E p \in keys : segments[p].version # 0 THEN Idle
             ELSE [compactor EXCEPT !.pc = "planned",
                     !.plan = [p \in keys |-> [lines |-> Replacement(p, chunk(p)),
                                               expected |-> segments[p].version]],
                     !.rest = SubSeq(active.lines, compactor.consumed + 1, compactor.size)]
        /\ UNCHANGED <<today, active, segments, reading, story>>

(* The plans are built, and the lines behind the prefix are staged; the    *)
(* attempt is dropped if the active file was replaced.                     *)
PlanSegments ==
    LET chunk(p) == Among(compactor.rest, {s \in Sample : PeriodOf[s.day] = p})
        keys == {p \in Periods : chunk(p) # <<>>}
    IN  /\ compactor.pc = "scanned"
        /\ compactor' =
             IF active.ino # compactor.ino THEN Idle
             ELSE [compactor EXCEPT !.pc = "planned",
                     !.plan = [p \in keys |-> [lines |-> Replacement(p, chunk(p)),
                                               expected |-> segments[p].version]],
                     !.rest = SubSeq(active.lines, compactor.consumed + 1, compactor.size)]
        /\ UNCHANGED <<today, active, segments, reading, story>>

(* Under the lock: the files must be those the plan was made from; lines   *)
(* appended since are copied behind the staged ones.                       *)
CommitChecks ==
    /\ compactor.pc = "planned"
    /\ compactor' =
         IF \/ active.ino # compactor.ino
            \/ Len(active.lines) < compactor.size
            \/ \E p \in DOMAIN compactor.plan :
                 segments[p].version # compactor.plan[p].expected
         THEN Idle
         ELSE [compactor EXCEPT !.pc = "publishing",
                 !.rest = @ \o SubSeq(active.lines, compactor.size + 1, Len(active.lines)),
                 !.todo = DOMAIN compactor.plan]
    /\ UNCHANGED <<today, active, segments, reading, story>>

(* One rename per period, oldest first.                                    *)
PublishSegment(p) ==
    /\ compactor.pc = "publishing"
    /\ p \in compactor.todo /\ \A q \in compactor.todo : p <= q
    /\ segments' = [segments EXCEPT ![p] =
                      [version |-> NewVersion(p), lines |-> compactor.plan[p].lines,
                       damaged |-> FALSE]]
    /\ compactor' = [compactor EXCEPT !.todo = @ \ {p}]
    /\ UNCHANGED <<today, active, reading, story>>

(* The last rename: the active file drops the days the segments hold.      *)
ReplaceActive ==
    /\ compactor.pc = "publishing" /\ compactor.todo = {}
    /\ active' = [ino |-> NewIno, lines |-> compactor.rest, torn |-> active.torn]
    /\ compactor' = Idle
    /\ story' = [story EXCEPT !.halfDone = FALSE]
    /\ UNCHANGED <<today, segments, reading>>

---------------------------------------------------------------------------
(* Mutant: the files are opened without the lock of the series.            *)
OpenUnlocked(r, since, live) ==
    LET ends(p) == \A d \in 1 .. LastDay : PeriodOf[d] = p => d < since
        opened == [p \in Periods |-> IF ends(p) \/ today <= since THEN NoSegment
                                     ELSE segments[p]]
    IN  /\ reading[r].pc = "idle"
        /\ reading' = [reading EXCEPT ![r] =
             [pc |-> "open", since |-> since, segs |-> AllSegments(opened),
              ino |-> active.ino, lines |-> active.lines, live |-> live,
              must |-> {s \in Stored : s.day >= since}]]
        /\ UNCHANGED <<today, active, segments, compactor, story>>

(* Readers.  _open_snapshot opens the segments that can hold a line of the *)
(* window and the active file, under the shared lock; the handles keep     *)
(* their files.  A query reads the active file to its end, the backup only *)
(* up to the size it noted (live = FALSE).                                 *)
OpenSnapshot(r, since, live) ==
    LET ends(p) == \A d \in 1 .. LastDay : PeriodOf[d] = p => d < since
        opened == [p \in Periods |-> IF ends(p) \/ today <= since THEN NoSegment
                                     ELSE segments[p]]
    IN  /\ reading[r].pc = "idle" /\ ~SeriesLocked
        /\ reading' = [reading EXCEPT ![r] =
             [pc |-> "open", since |-> since, segs |-> AllSegments(opened),
              ino |-> active.ino, lines |-> active.lines,
              live |-> live,
              must |-> {s \in Stored : s.day >= since}]]
        /\ UNCHANGED <<today, active, segments, compactor, story>>

CloseSnapshot(r) ==
    /\ reading[r].pc = "open"
    /\ reading' = [reading EXCEPT ![r] = NoReader]
    /\ UNCHANGED <<today, active, segments, compactor, story>>

---------------------------------------------------------------------------
(* Mutant: a compaction under way keeps its temporary files.               *)
DeleteSeriesOnly ==
    /\ MayFail("deleted")
    /\ active' = NoFile
    /\ segments' = [p \in Periods |-> NoSegment]
    /\ story' = [story EXCEPT !.wiped = @ \union story.appended, !.faults = @ \union {"deleted"},
                              !.halfDone = FALSE]
    /\ UNCHANGED <<today, reading, compactor>>

(* delete_target: the directory goes, with the temporary files of a        *)
(* compaction, which then finds nothing to rename.                         *)
DeleteTarget ==
    /\ MayFail("deleted")
    /\ active' = NoFile
    /\ segments' = [p \in Periods |-> NoSegment]
    /\ compactor' = Idle
    /\ story' = [story EXCEPT !.wiped = @ \union story.appended, !.faults = @ \union {"deleted"},
                              !.halfDone = FALSE]
    /\ UNCHANGED <<today, reading>>

(* A segment of which only the beginning can be decoded any more.          *)
DamageSegment(p) ==
    /\ MayFail("damaged")
    /\ segments[p].version # 0 /\ ~segments[p].damaged
    /\ \E n \in 0 .. Len(segments[p].lines) - 1 :
         /\ segments' = [segments EXCEPT ![p].lines = SubSeq(@, 1, n), ![p].damaged = TRUE]
         /\ story' = [story EXCEPT !.faults = @ \union {"damaged"},
              !.damaged = @ \union Lines(SubSeq(segments[p].lines, n + 1, Len(segments[p].lines)))]
    /\ UNCHANGED <<today, active, compactor, reading>>

(* The process dies: locks, handles and plans are gone, files stay.        *)
StoreCrash ==
    /\ MayFail("crash")
    /\ compactor' = Idle
    /\ reading' = [r \in Readers |-> NoReader]
    /\ story' = [story EXCEPT !.faults = @ \union {"crash"},
                   !.halfDone = @ \/ (compactor.pc = "publishing"
                                       /\ compactor.todo # DOMAIN compactor.plan)]
    /\ UNCHANGED <<today, active, segments>>

CompactionStep ==
    \/ ScanClosedPrefix \/ PlanSegments \/ CommitChecks
    \/ \E p \in Periods : PublishSegment(p)
    \/ ReplaceActive

StoreNext ==
    \/ \E day \in 1 .. LastDay, prune \in BOOLEAN : AppendPoint(day, prune)
    \/ TornAppend
    \/ NextDay
    \/ PruneSeries
    \/ CompactionStep
    \/ \E r \in Readers, since \in 1 .. today, live \in BOOLEAN : OpenSnapshot(r, since, live)
    \/ \E r \in Readers : CloseSnapshot(r)
    \/ DeleteTarget
    \/ \E p \in Periods : DamageSegment(p)
    \/ StoreCrash

StoreSpec == StoreInit /\ [][StoreNext]_storeVars
StoreFairSpec == StoreSpec /\ WF_storeVars(CompactionStep)

---------------------------------------------------------------------------
StoreTypeOK ==
    /\ today \in 1 .. LastDay
    /\ active \in [ino : Nat, lines : Seq(Sample), torn : BOOLEAN]
    /\ segments \in [Periods -> [version : Nat, lines : Seq(Sample), damaged : BOOLEAN]]
    /\ \A p \in Periods : \A s \in Lines(segments[p].lines) : PeriodOf[s.day] = p
    /\ compactor.pc \in {"idle", "scanned", "planned", "publishing"}
    /\ \A r \in Readers : reading[r].pc \in {"idle", "open"}

(* A measurement that was stored stays on disk until it expires, whatever  *)
(* compaction, pruning and crashes do; lost are only those a full volume   *)
(* or a damaged segment takes, and those deleted on purpose.               *)
NothingLost ==
    \A s \in story.appended :
        s.day >= Cutoff =>
            s \in Stored \union story.swallowed \union story.damaged \union story.wiped

(* What was deleted does not come back out of a compaction under way.      *)
DeletedStaysDeleted == Stored \intersect story.wiped = {}

(* Segment and active file never hold the same line, except while the      *)
(* renames of a compaction are under way or were interrupted by a crash;   *)
(* the next compaction merges them.                                        *)
StoredOnce ==
    \/ SeriesLocked \/ story.halfDone
    \/ /\ IsInjective(active.lines \o AllSegments(segments))

(* What the store promises of its files.                                   *)
SeriesKept == NothingLost /\ DeletedStaysDeleted /\ StoredOnce

(* A reader's view holds everything of its window that was stored when it  *)
(* opened the series, in the order of time, and each line once; the backup *)
(* is exactly that state.  Only what a crash left twice is read twice.     *)
View(r) ==
    Among(reading[r].segs \o reading[r].lines, {s \in Sample : s.day >= reading[r].since})
ReadersSeeAState ==
    \A r \in Readers : reading[r].pc = "open" =>
        /\ reading[r].must \subseteq Lines(View(r))
        /\ ~reading[r].live => Lines(View(r)) = reading[r].must
        /\ \/ story.halfDone
           \/ "crash" \in story.faults
           \/ IsInjective(View(r)) /\ ("late" \in story.faults \/ InOrder(View(r)))

(* Closed days leave the active file.                                      *)
ClosedDaysAreCompressed == (ClosedLines # <<>>) ~> (ClosedLines = <<>>)
=============================================================================
