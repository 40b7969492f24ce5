----------------------------- MODULE GeoDatabase -----------------------------
(***************************************************************************)
(* The local location database of app/services/traceroute_geo.py: threads  *)
(* look an address up while the file is replaced, removed or unreadable.   *)
(* A lookup takes the reader, looks into the cache, asks the reader under  *)
(* the query lock and keeps the answer; every lock section is a step.  An  *)
(* answer is the version of the file that it was read from.                *)
(***************************************************************************)
EXTENDS Integers, Sequences

CONSTANTS
    Lookups,        \* threads
    Attempts,       \* _MAX_READER_ATTEMPTS
    MaxVersions     \* bound on the versions of the file

NoThread == 0

ASSUME GeoDatabaseAssumption ==
    Attempts \in Nat \ {0} /\ MaxVersions \in Nat /\ NoThread \notin Lookups

VARIABLES
    file,       \* the version on disk, 0 without a file
    version,    \* history: the newest version that was ever there
    readers,    \* what each reader has open, the last is _reader: _reader_generation counts them
    stamp,      \* _reader_stamp
    discarded,     \* the readers that were discarded
    kept,       \* _geo_cache for one address, 0 without an answer
    loading,    \* the holder of _reader_lock, or nobody
    querying,   \* the holder of _reader_query_lock, or nobody
    searches

geoVars == <<file, version, readers, stamp, discarded, kept, loading, querying, searches>>

Generation == Len(readers)
Version(reader) == IF reader = 0 THEN 0 ELSE readers[reader]

NoSearch == [pc |-> "idle", cached |-> TRUE, reader |-> 0, tries |-> 0, at |-> 0, answer |-> 0,
             floor |-> 0, excused |-> FALSE]

Done(l, answer) ==
    [NoSearch EXCEPT !.pc = "done", !.answer = answer, !.floor = l.floor, !.excused = l.excused]

GeoInit ==
    /\ file \in {0, 1} /\ version = file
    /\ readers = <<>> /\ stamp = 0 /\ discarded = {} /\ kept = 0
    /\ loading = NoThread /\ querying = NoThread
    /\ searches = [t \in Lookups |-> NoSearch]

---------------------------------------------------------------------------
(* The file: replaced by a rename, or removed                              *)

ReplaceFile ==
    /\ version < MaxVersions
    /\ version' = version + 1 /\ file' = version'
    /\ UNCHANGED <<readers, stamp, discarded, kept, loading, querying, searches>>

RemoveFile ==
    /\ file # 0 /\ file' = 0
    /\ UNCHANGED <<version, readers, stamp, discarded, kept, loading, querying, searches>>

---------------------------------------------------------------------------
(* geolocate_ip keeps answers, geolocate_country does not.                 *)

BeginLookup(t, cached) ==
    /\ searches[t].pc = "idle"
    /\ searches' = [searches EXCEPT ![t] = [NoSearch EXCEPT !.pc = "reader", !.cached = cached, !.floor = file]]
    /\ UNCHANGED <<file, version, readers, stamp, discarded, kept, loading, querying>>

(* What _get_reader returns: the reader of that moment, or None.           *)
WithReader(l) ==
    IF Generation = 0 THEN Done(l, 0)
    ELSE [l EXCEPT !.pc = IF l.cached THEN "look" ELSE "query", !.reader = Generation, !.at = 0, !.answer = 0]

Unchanged == Generation # 0 /\ file # 0 /\ stamp = file

ReuseReader(t) ==
    /\ searches[t].pc = "reader" /\ Unchanged
    /\ searches' = [searches EXCEPT ![t] = WithReader(@)]
    /\ UNCHANGED <<file, version, readers, stamp, discarded, kept, loading, querying>>

(* Under _reader_lock: no file keeps the reader; or note its stamp.        *)
LockReader(t) ==
    /\ searches[t].pc = "reader" /\ ~Unchanged /\ loading = NoThread
    /\ IF file = 0
       THEN /\ searches' = [searches EXCEPT ![t] = [WithReader(@) EXCEPT !.excused = TRUE]]
            /\ UNCHANGED loading
       ELSE searches' = [searches EXCEPT ![t].pc = "open", ![t].at = file] /\ loading' = t
    /\ UNCHANGED <<file, version, readers, stamp, discarded, kept, querying>>

(* The file may be another one by now, or not be readable.                 *)
OpenReader(t) ==
    /\ searches[t].pc = "open"
    /\ \/ /\ file # 0
          /\ searches' = [searches EXCEPT ![t].pc = "swap", ![t].answer = file] /\ UNCHANGED loading
       \/ /\ searches' = [searches EXCEPT ![t] = [WithReader(@) EXCEPT !.excused = TRUE]]
          /\ loading' = NoThread
    /\ UNCHANGED <<file, version, readers, stamp, discarded, kept, querying>>

(* Reader, stamp, generation and cache change together.                    *)
SwapReader(t) ==
    /\ searches[t].pc = "swap"
    /\ readers' = Append(readers, searches[t].answer) /\ stamp' = searches[t].at /\ kept' = 0
    /\ searches' = [searches EXCEPT ![t].pc = "close"]
    /\ UNCHANGED <<file, version, discarded, loading, querying>>

(* Not while somebody asks it.                                             *)
CloseReader(t) ==
    /\ searches[t].pc = "close" /\ (Generation = 1 \/ querying = NoThread)
    /\ discarded' = discarded \union {g \in {Generation - 1} : g > 0}
    /\ loading' = NoThread /\ searches' = [searches EXCEPT ![t] = WithReader(@)]
    /\ UNCHANGED <<file, version, readers, stamp, kept, querying>>

LookIntoCache(t) ==
    /\ searches[t].pc = "look"
    /\ searches' = [searches EXCEPT ![t] = IF kept # 0 THEN Done(@, kept) ELSE [@ EXCEPT !.pc = "query"]]
    /\ UNCHANGED <<file, version, readers, stamp, discarded, kept, loading, querying>>

(* _ReaderSwappedError                                                     *)
Swapped(t) == searches[t].reader # Generation

(* _read_record until the query: its reader is the current one, or again.  *)
ReadRecord(t) ==
    /\ searches[t].pc = "query" /\ querying = NoThread
    /\ IF Swapped(t)
       THEN /\ LET l == searches[t]
                   tries == l.tries + 1 IN
               searches' = [searches EXCEPT ![t] = IF tries = Attempts THEN Done(l, 0)
                                                   ELSE [l EXCEPT !.pc = "reader", !.tries = tries, !.reader = 0]]
            /\ UNCHANGED querying
       ELSE searches' = [searches EXCEPT ![t].pc = "asking", ![t].at = Generation] /\ querying' = t
    /\ UNCHANGED <<file, version, readers, stamp, discarded, kept, loading>>

(* An error of the reader is no answer.                                    *)
Queried(t) ==
    /\ searches[t].pc = "asking" /\ querying' = NoThread
    /\ LET answer == Version(searches[t].reader) IN
       \/ searches' = [searches EXCEPT ![t] = IF @.cached THEN [@ EXCEPT !.pc = "put", !.answer = answer]
                                            ELSE Done(@, answer)]
       \/ searches' = [searches EXCEPT ![t] = Done(@, 0)]
    /\ UNCHANGED <<file, version, readers, stamp, discarded, kept, loading>>

(* _cache_put: of this generation only, and not into a full cache.         *)
CachePut(t) ==
    /\ searches[t].pc = "put"
    /\ kept' \in {kept} \union (IF searches[t].at = Generation THEN {searches[t].answer} ELSE {})
    /\ searches' = [searches EXCEPT ![t] = Done(@, @.answer)]
    /\ UNCHANGED <<file, version, readers, stamp, discarded, loading, querying>>

EndLookup(t) ==
    /\ searches[t].pc = "done" /\ searches' = [searches EXCEPT ![t] = NoSearch]
    /\ UNCHANGED <<file, version, readers, stamp, discarded, kept, loading, querying>>

GeoNext ==
    \/ ReplaceFile \/ RemoveFile
    \/ \E t \in Lookups :
          \/ \E cached \in BOOLEAN : BeginLookup(t, cached)
          \/ ReuseReader(t) \/ LockReader(t) \/ OpenReader(t) \/ SwapReader(t) \/ CloseReader(t)
          \/ LookIntoCache(t) \/ ReadRecord(t) \/ Queried(t) \/ CachePut(t) \/ EndLookup(t)

GeoSpec == GeoInit /\ [][GeoNext]_geoVars

---------------------------------------------------------------------------
(* The cache has answers of the current reader only, whoever was under way *)
(* when it was swapped.                                                    *)
CacheIsCurrent == kept # 0 => kept = Version(Generation)

(* Nobody asks a discarded reader, and every replaced one is discarded.    *)
ReadersAreClosed ==
    /\ \A t \in Lookups : searches[t].pc = "asking" => searches[t].reader \notin discarded
    /\ loading = NoThread => discarded = 1 .. Generation - 1

(* A lookup that began after a replacement does not answer from before it, *)
(* unless the file could not be read.                                      *)
AnswersAreFresh ==
    \A t \in Lookups :
       searches[t].pc = "done" /\ searches[t].answer # 0 /\ ~searches[t].excused => searches[t].answer >= searches[t].floor

GeoDatabaseKept == CacheIsCurrent /\ ReadersAreClosed /\ AnswersAreFresh
=============================================================================
