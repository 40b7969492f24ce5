---------------------------- MODULE UpkeepProofs ----------------------------
(***************************************************************************)
(* What the location database, the choice of a location, the online        *)
(* providers, the login rate limit, the backups, the locations of data     *)
(* centres, the release check and the inbox promise, for any number of     *)
(* threads, callers, addresses, clients, releases, keys, archives,         *)
(* downloads, observations, users and notices, and any files, limits and   *)
(* times that the code allows.                                             *)
(***************************************************************************)
EXTENDS GeoDatabase, GeoResolver, GeoOnline, RateLimit, Archive, PopRefresh, PopCandidates,
        ReleaseCheck, Inbox, FiniteSetTheorems, SequenceTheorems, WellFoundedInduction, TLAPS

-----------------------------------------------------------------------------
(* The local location database                                             *)

LookupSteps == {"idle", "reader", "open", "swap", "close", "look", "query", "asking", "put", "done"}
Search == [pc : LookupSteps, cached : BOOLEAN, reader : Nat, tries : Nat, at : Nat, answer : Nat,
           floor : Nat, excused : BOOLEAN]

GeoTyped ==
    /\ version \in Nat /\ file \in {0, version} /\ stamp \in Nat /\ kept \in Nat
    /\ readers \in Seq(Nat) /\ searches \in [Lookups -> Search]

(* Each reader has a version that is not older than the one before it, and *)
(* what is noted of the file is not newer than the reader.                 *)
ReadersFit ==
    /\ \A i \in 1 .. Generation : readers[i] <= version
    /\ \A i, j \in 1 .. Generation : i <= j => readers[i] <= readers[j]
    /\ Generation # 0 => stamp <= readers[Generation]
    /\ discarded \subseteq 1 .. Generation - 1

(* What a lookup has in its hands, by its step: who loads holds the lock   *)
(* and a version that is not older than any reader, who asks holds the     *)
(* other lock and a reader that nobody discards, and no reader is older    *)
(* than the file of the begin unless the file could not be read.           *)
NotOlder(l, v) == l.excused \/ l.floor <= v
SearchFits(l, t, loader, questioner) ==
    /\ l.floor <= version
    /\ l.pc \in {"open", "swap", "close"} => loader = t
    /\ l.pc \in {"open", "swap"} => discarded = 1 .. Generation - 1
    /\ l.pc = "open" => l.at # 0 /\ l.at <= version
    /\ l.pc = "swap" => /\ l.at <= l.answer /\ l.floor <= l.answer /\ l.answer <= version
                        /\ \A i \in 1 .. Generation : readers[i] <= l.answer
    /\ l.pc = "close" => /\ Generation \in Nat \ {0} /\ discarded = 1 .. Generation - 2
                         /\ NotOlder(l, readers[Generation])
    /\ l.pc \in {"look", "query", "asking", "put"} =>
          l.reader \in 1 .. Generation /\ NotOlder(l, readers[l.reader])
    /\ l.pc = "asking" => questioner = t /\ l.at = l.reader /\ l.reader \notin discarded
    /\ l.pc = "put" => l.at = l.reader /\ l.answer = readers[l.at]
    /\ l.pc = "done" /\ l.answer # 0 => NotOlder(l, l.answer)

GeoInv ==
    /\ GeoTyped /\ ReadersFit /\ CacheIsCurrent
    /\ loading = NoThread => discarded = 1 .. Generation - 1
    /\ \A t \in Lookups : SearchFits(searches[t], t, loading, querying)

LEMMA GenerationIsNat == ASSUME GeoTyped PROVE Generation \in Nat
  BY DEF GeoTyped, Generation

LEMMA GeoInvIsEnough == GeoInv => GeoDatabaseKept
<1> SUFFICES ASSUME GeoInv PROVE GeoDatabaseKept
  OBVIOUS
<1>1. ASSUME NEW t \in Lookups
      PROVE  /\ searches[t].pc = "asking" => searches[t].reader \notin discarded
             /\ searches[t].pc = "done" /\ searches[t].answer # 0 /\ ~searches[t].excused =>
                   searches[t].answer >= searches[t].floor
  <2>1. SearchFits(searches[t], t, loading, querying) /\ searches[t] \in Search
    BY DEF GeoInv, GeoTyped
  <2>2. searches[t].answer \in Nat /\ searches[t].floor \in Nat
    BY <2>1 DEF Search
  <2> QED BY <2>1, <2>2 DEF SearchFits, NotOlder
<1> QED BY <1>1 DEF GeoInv, GeoDatabaseKept, ReadersAreClosed, AnswersAreFresh

LEMMA SearchParts ==
    ASSUME GeoInv, NEW t \in Lookups
    PROVE  /\ searches[t] \in Search /\ SearchFits(searches[t], t, loading, querying)
           /\ searches[t].reader \in Nat /\ searches[t].at \in Nat /\ searches[t].answer \in Nat
           /\ searches[t].floor \in Nat /\ searches[t].tries \in Nat
           /\ searches[t].excused \in BOOLEAN /\ searches[t].cached \in BOOLEAN
  BY DEF GeoInv, GeoTyped, Search

LEMMA NoSearchFacts ==
    /\ NoSearch \in Search /\ NoSearch.pc = "idle" /\ NoSearch.floor = 0 /\ NoSearch.answer = 0
<1> DEFINE z == 0
           y == TRUE
           n == FALSE
<1>1. z \in Nat /\ y \in BOOLEAN /\ n \in BOOLEAN
  OBVIOUS
<1>2. NoSearch = [pc |-> "idle", cached |-> y, reader |-> z, tries |-> z, at |-> z, answer |-> z,
                  floor |-> z, excused |-> n]
  BY DEF NoSearch
<1>3. z = 0
  OBVIOUS
<1> HIDE DEF z, y, n
<1> QED BY <1>1, <1>2, <1>3 DEF Search, LookupSteps

LEMMA DoneFacts ==
    ASSUME NEW l \in Search, NEW a \in Nat
    PROVE  /\ Done(l, a) \in Search /\ Done(l, a).pc = "done" /\ Done(l, a).answer = a
           /\ Done(l, a).floor = l.floor /\ Done(l, a).excused = l.excused
<1>1. l.floor \in Nat /\ l.excused \in BOOLEAN
  BY DEF Search
<1>2. NoSearch \in Search
  BY NoSearchFacts
<1> QED BY <1>1, <1>2 DEF Done, Search, LookupSteps

(* One lookup goes on, the readers stay.                                   *)
LEMMA SearchGoes ==
    ASSUME GeoInv, NEW t \in Lookups, NEW s \in Search, searches' = [searches EXCEPT ![t] = s],
           UNCHANGED <<file, version, readers, stamp, discarded>>,
           SearchFits(s, t, loading', querying'),
           \A q \in Lookups \ {t} : (loading = q => loading' = q) /\ (querying = q => querying' = q),
           loading' = NoThread => discarded = 1 .. Generation - 1,
           kept' \in Nat, kept' # 0 => kept' = Version(Generation)
    PROVE  GeoInv'
<1>1. /\ searches' \in [Lookups -> Search] /\ searches'[t] = s
      /\ \A q \in Lookups \ {t} : searches'[q] = searches[q]
  BY DEF GeoInv, GeoTyped
<1>2. Generation' = Generation /\ \A r : Version(r)' = Version(r)
  BY DEF Generation, Version
<1>3. GeoTyped' /\ ReadersFit' /\ CacheIsCurrent'
  BY <1>1, <1>2 DEF GeoInv, GeoTyped, ReadersFit, CacheIsCurrent, Version
<1>4. ASSUME NEW q \in Lookups PROVE SearchFits(searches[q], q, loading, querying)'
  <2>1. CASE q = t
    <3>1. SearchFits(searches'[q], q, loading', querying')
      BY <1>1, <2>1
    <3> QED BY <3>1, <1>2 DEF SearchFits, NotOlder
  <2>2. CASE q # t
    <3>1. SearchFits(searches[q], q, loading, querying)
      BY DEF GeoInv
    <3>2. SearchFits(searches[q], q, loading', querying')
      BY <3>1, <2>2 DEF SearchFits
    <3>3. SearchFits(searches'[q], q, loading', querying')
      BY <1>1, <2>2, <3>2
    <3> QED BY <3>3, <1>2 DEF SearchFits, NotOlder
  <2> QED BY <2>1, <2>2
<1>5. loading' = NoThread => discarded' = 1 .. Generation' - 1
  BY <1>2
<1> QED BY <1>3, <1>4, <1>5 DEF GeoInv

(* The locks and the answers kept stay too.                                *)
LEMMA SearchOnly ==
    ASSUME GeoInv, NEW t \in Lookups, NEW s \in Search, searches' = [searches EXCEPT ![t] = s],
           UNCHANGED <<file, version, readers, stamp, discarded, kept, loading, querying>>,
           SearchFits(s, t, loading, querying)
    PROVE  GeoInv'
<1>1. SearchFits(s, t, loading', querying')
  OBVIOUS
<1>2. /\ kept' \in Nat /\ (kept' # 0 => kept' = Version(Generation))
      /\ loading' = NoThread => discarded = 1 .. Generation - 1
  BY DEF GeoInv, GeoTyped, CacheIsCurrent
<1>3. \A q \in Lookups \ {t} : (loading = q => loading' = q) /\ (querying = q => querying' = q)
  OBVIOUS
<1> QED BY <1>1, <1>2, <1>3, SearchGoes

(* With the current reader a lookup is as fresh as that reader is.         *)
LEMMA WithReaderFits ==
    ASSUME GeoInv, NEW t \in Lookups, NEW l \in Search, NEW m \in Search, l.floor <= version,
           Generation # 0 => NotOlder(l, readers[Generation]),
           m = WithReader(l), NEW ld, NEW qr
    PROVE  SearchFits(m, t, ld, qr)
<1>1. /\ l.floor \in Nat /\ l.excused \in BOOLEAN /\ version \in Nat /\ Generation \in Nat
      /\ l.cached \in BOOLEAN
  BY GenerationIsNat DEF Search, GeoInv, GeoTyped
<1>2. m.floor = l.floor /\ m.excused = l.excused
  <2>1. CASE Generation = 0
    <3>1. WithReader(l) = Done(l, 0)
      BY <2>1 DEF WithReader
    <3>2. WithReader(l).floor = l.floor /\ WithReader(l).excused = l.excused
      BY <3>1, DoneFacts
    <3> QED BY <3>2
  <2>2. CASE Generation # 0
    BY <2>2 DEF WithReader, Search
  <2> QED BY <2>1, <2>2
<1>3. CASE Generation = 0
  <2>1. WithReader(l) = Done(l, 0)
    BY <1>3 DEF WithReader
  <2>2. WithReader(l) \in Search /\ WithReader(l).pc = "done" /\ WithReader(l).answer = 0
    BY <2>1, DoneFacts
  <2>3. m.pc = "done" /\ m.answer = 0
    BY <2>2 DEF Search
  <2> QED BY <1>1, <1>2, <2>3 DEF SearchFits
<1>4. CASE Generation # 0
  <2>1. m.pc = (IF l.cached THEN "look" ELSE "query") /\ m.reader = Generation
    BY <1>4 DEF WithReader, Search
  <2>2. m.pc \in {"look", "query"}
    BY <2>1
  <2>3. Generation \in 1 .. Generation /\ NotOlder(m, readers[Generation])
    BY <1>1, <1>2, <1>4 DEF NotOlder
  <2> QED BY <1>1, <1>2, <2>1, <2>2, <2>3 DEF SearchFits
<1> QED BY <1>3, <1>4

LEMMA WithReaderIsSearch ==
    ASSUME GeoInv, NEW l \in Search
    PROVE  WithReader(l) \in Search /\ [WithReader(l) EXCEPT !.excused = TRUE] \in Search
<1>1. WithReader(l) \in Search
  <2> DEFINE z == 0
             g == Generation
             p == IF l.cached THEN "look" ELSE "query"
  <2>1. z \in Nat /\ g \in Nat /\ p \in LookupSteps
    BY GenerationIsNat DEF GeoInv, LookupSteps
  <2>2. CASE Generation = 0
    BY <2>1, <2>2, DoneFacts DEF WithReader
  <2>3. CASE Generation # 0
    <3>1. WithReader(l) = [l EXCEPT !.pc = p, !.reader = g, !.at = z, !.answer = z]
      BY <2>3 DEF WithReader
    <3> HIDE DEF z, g, p
    <3> QED BY <2>1, <3>1 DEF Search
  <2> QED BY <2>2, <2>3
<1> DEFINE y == TRUE
<1>2. y \in BOOLEAN
  OBVIOUS
<1>3. [WithReader(l) EXCEPT !.excused = y] \in Search
  <2> HIDE DEF y
  <2> QED BY <1>1, <1>2 DEF Search
<1> QED BY <1>1, <1>3

LEMMA LookupBegins ==
    ASSUME GeoInv, NEW t \in Lookups, NEW cached \in BOOLEAN, BeginLookup(t, cached)
    PROVE  GeoInv'
<1> DEFINE s == [NoSearch EXCEPT !.pc = "reader", !.cached = cached, !.floor = file]
<1>1. /\ searches' = [searches EXCEPT ![t] = s]
      /\ UNCHANGED <<file, version, readers, stamp, discarded, kept, loading, querying>>
  BY DEF BeginLookup
<1>2. file \in Nat /\ file <= version
  BY DEF GeoInv, GeoTyped
<1>3. s \in Search /\ s.pc = "reader" /\ s.floor = file
  BY <1>2, NoSearchFacts DEF Search, LookupSteps
<1> HIDE DEF s
<1>4. SearchFits(s, t, loading, querying)
  BY <1>2, <1>3 DEF SearchFits
<1> QED BY <1>1, <1>3, <1>4, SearchOnly

LEMMA LookupEnded ==
    ASSUME GeoInv, NEW t \in Lookups, EndLookup(t)
    PROVE  GeoInv'
<1>1. /\ searches' = [searches EXCEPT ![t] = NoSearch]
      /\ UNCHANGED <<file, version, readers, stamp, discarded, kept, loading, querying>>
  BY DEF EndLookup
<1>2. version \in Nat
  BY DEF GeoInv, GeoTyped
<1>3. SearchFits(NoSearch, t, loading, querying)
  BY <1>2, NoSearchFacts DEF SearchFits
<1> QED BY <1>1, <1>3, NoSearchFacts, SearchOnly

(* The reader is reused where its stamp is the file's.                     *)
LEMMA ReaderReused ==
    ASSUME GeoInv, NEW t \in Lookups, ReuseReader(t)
    PROVE  GeoInv'
<1> DEFINE l == searches[t]
           s == WithReader(l)
<1>1. /\ searches' = [searches EXCEPT ![t] = s] /\ Unchanged
      /\ UNCHANGED <<file, version, readers, stamp, discarded, kept, loading, querying>>
  BY DEF ReuseReader, GeoInv, GeoTyped
<1>2. l \in Search /\ SearchFits(l, t, loading, querying) /\ l.floor \in Nat
  BY SearchParts
<1>3. s \in Search
  BY <1>2, WithReaderIsSearch
<1>4. /\ file = version /\ stamp = version /\ version \in Nat /\ Generation \in Nat
      /\ stamp <= readers[Generation] /\ readers[Generation] \in Nat
  BY <1>1, GenerationIsNat DEF GeoInv, GeoTyped, ReadersFit, Unchanged, Generation
<1>5. l.floor <= version /\ NotOlder(l, readers[Generation])
  BY <1>2, <1>4 DEF SearchFits, NotOlder
<1> HIDE DEF l
<1>6. SearchFits(s, t, loading, querying)
  BY <1>2, <1>3, <1>5, WithReaderFits
<1> HIDE DEF s
<1> QED BY <1>1, <1>3, <1>6, SearchOnly

(* A lookup that goes on without the file is excused.                      *)
LEMMA ExcusedFits ==
    ASSUME GeoInv, NEW t \in Lookups, NEW l \in Search, l.floor <= version, NEW ld, NEW qr
    PROVE  SearchFits([WithReader(l) EXCEPT !.excused = TRUE], t, ld, qr)
<1> DEFINE y == TRUE
           x == [l EXCEPT !.excused = y]
<1>1. y \in BOOLEAN /\ y
  OBVIOUS
<1>2. x \in Search /\ x.floor = l.floor /\ x.excused
  <2> HIDE DEF y
  <2> QED BY <1>1 DEF Search
<1>3. [WithReader(l) EXCEPT !.excused = TRUE] = WithReader(x)
  <2>1. CASE Generation = 0
    BY <2>1 DEF WithReader, Done, NoSearch, Search
  <2>2. CASE Generation # 0
    BY <2>2 DEF WithReader, Search
  <2> QED BY <2>1, <2>2
<1> HIDE DEF x
<1>4. NotOlder(x, readers[Generation])
  BY <1>2 DEF NotOlder
<1>5. WithReader(x) \in Search /\ x.floor <= version
  BY <1>2, WithReaderIsSearch
<1>6. SearchFits(WithReader(x), t, ld, qr)
  BY <1>2, <1>4, <1>5, WithReaderFits
<1> QED BY <1>3, <1>6

LEMMA ReaderLocked ==
    ASSUME GeoInv, NEW t \in Lookups, LockReader(t)
    PROVE  GeoInv'
<1> DEFINE l == searches[t]
<1>1. /\ l \in Search /\ SearchFits(l, t, loading, querying) /\ l.floor <= version
      /\ loading = NoThread /\ discarded = 1 .. Generation - 1
      /\ UNCHANGED <<file, version, readers, stamp, discarded, kept, querying>>
  BY SearchParts DEF LockReader, GeoInv, SearchFits
<1>2. CASE file = 0
  <2> DEFINE s == [WithReader(l) EXCEPT !.excused = TRUE]
  <2>1. searches' = [searches EXCEPT ![t] = s] /\ loading' = loading
    BY <1>2 DEF LockReader, GeoInv, GeoTyped
  <2>2. s \in Search /\ SearchFits(s, t, loading, querying)
    BY <1>1, WithReaderIsSearch, ExcusedFits
  <2> HIDE DEF s
  <2> QED BY <1>1, <2>1, <2>2, SearchOnly
<1>3. CASE file # 0
  <2> DEFINE s == [l EXCEPT !.pc = "open", !.at = file]
  <2>1. searches' = [searches EXCEPT ![t] = s] /\ loading' = t
    BY <1>3 DEF LockReader, GeoInv, GeoTyped
  <2>2. file \in Nat /\ file <= version
    BY DEF GeoInv, GeoTyped
  <2>3. s \in Search /\ s.pc = "open" /\ s.at = file /\ s.floor = l.floor
    BY <1>1, <2>2 DEF Search, LookupSteps
  <2> HIDE DEF s
  <2>4. SearchFits(s, t, loading', querying')
    BY <1>1, <1>3, <2>1, <2>2, <2>3 DEF SearchFits
  <2>5. \A q \in Lookups \ {t} : (loading = q => loading' = q) /\ (querying = q => querying' = q)
    BY <1>1, GeoDatabaseAssumption
  <2>6. /\ kept' \in Nat /\ (kept' # 0 => kept' = Version(Generation))
        /\ loading' = NoThread => discarded = 1 .. Generation - 1
    BY <1>1, <2>1 DEF GeoInv, GeoTyped, CacheIsCurrent
  <2> QED BY <1>1, <2>1, <2>3, <2>4, <2>5, <2>6, SearchGoes
<1> QED BY <1>2, <1>3

(* Who opens the file gets the version of that moment.                     *)
LEMMA ReaderOpened ==
    ASSUME GeoInv, NEW t \in Lookups, OpenReader(t)
    PROVE  GeoInv'
<1> DEFINE l == searches[t]
<1>1. /\ l \in Search /\ SearchFits(l, t, loading, querying) /\ l.floor <= version
      /\ l.at \in Nat /\ l.floor \in Nat /\ l.pc = "open"
      /\ loading = t /\ discarded = 1 .. Generation - 1
      /\ UNCHANGED <<file, version, readers, stamp, discarded, kept, querying>>
  BY SearchParts DEF OpenReader, SearchFits
<1>2. /\ kept' \in Nat /\ (kept' # 0 => kept' = Version(Generation))
      /\ loading' = NoThread => discarded = 1 .. Generation - 1
      /\ \A q \in Lookups \ {t} : (loading = q => loading' = q) /\ (querying = q => querying' = q)
  BY <1>1 DEF GeoInv, GeoTyped, CacheIsCurrent
<1>3. CASE file # 0 /\ loading' = loading
           /\ searches' = [searches EXCEPT ![t].pc = "swap", ![t].answer = file]
  <2> DEFINE s == [l EXCEPT !.pc = "swap", !.answer = file]
  <2>1. searches' = [searches EXCEPT ![t] = s]
    BY <1>3 DEF GeoInv, GeoTyped
  <2>2. file = version /\ version \in Nat /\ \A i \in 1 .. Generation : readers[i] <= version
    BY <1>3 DEF GeoInv, GeoTyped, ReadersFit
  <2>3. s \in Search /\ s.pc = "swap" /\ s.at = l.at /\ s.floor = l.floor /\ s.answer = file
    BY <1>1, <2>2 DEF Search, LookupSteps
  <2> HIDE DEF s
  <2>4. l.at <= version
    BY <1>1 DEF SearchFits
  <2>5. SearchFits(s, t, loading', querying')
    BY <1>1, <1>3, <2>2, <2>3, <2>4 DEF SearchFits
  <2> HIDE DEF l
  <2> QED BY <1>1, <1>2, <2>1, <2>3, <2>5, SearchGoes
<1>4. CASE loading' = NoThread
           /\ searches' = [searches EXCEPT ![t] = [WithReader(@) EXCEPT !.excused = TRUE]]
  <2> DEFINE s == [WithReader(l) EXCEPT !.excused = TRUE]
  <2>1. searches' = [searches EXCEPT ![t] = s]
    BY <1>4 DEF GeoInv, GeoTyped
  <2>2. s \in Search /\ SearchFits(s, t, loading', querying')
    BY <1>1, WithReaderIsSearch, ExcusedFits
  <2> HIDE DEF s
  <2> QED BY <1>1, <1>2, <2>1, <2>2, SearchGoes
<1> QED BY <1>3, <1>4 DEF OpenReader

LEMMA CacheLooked ==
    ASSUME GeoInv, NEW t \in Lookups, LookIntoCache(t)
    PROVE  GeoInv'
<1> DEFINE l == searches[t]
<1>1. /\ l \in Search /\ SearchFits(l, t, loading, querying) /\ l.floor <= version
      /\ l.floor \in Nat /\ l.excused \in BOOLEAN /\ l.reader \in 1 .. Generation
      /\ NotOlder(l, readers[l.reader]) /\ l.pc = "look"
      /\ UNCHANGED <<file, version, readers, stamp, discarded, kept, loading, querying>>
  BY SearchParts DEF LookIntoCache, SearchFits
<1>2. CASE kept # 0
  <2> DEFINE s == Done(l, kept)
  <2>1. searches' = [searches EXCEPT ![t] = s]
    BY <1>2 DEF LookIntoCache, GeoInv, GeoTyped
  <2>2. kept \in Nat /\ Generation \in Nat /\ kept = readers[Generation]
    BY <1>1, <1>2, GenerationIsNat DEF GeoInv, GeoTyped, CacheIsCurrent, Version
  <2>3. /\ s \in Search /\ s.pc = "done" /\ s.answer = kept /\ s.floor = l.floor
        /\ s.excused = l.excused
    BY <1>1, <2>2, DoneFacts
  <2>4. /\ readers[l.reader] <= readers[Generation] /\ readers[l.reader] \in Nat
        /\ readers[Generation] \in Nat
    <3>1. l.reader \in 1 .. Generation /\ Generation \in 1 .. Generation /\ l.reader <= Generation
      BY <1>1, <2>2
    <3>2. \A i \in 1 .. Generation : readers[i] \in Nat
      BY DEF GeoInv, GeoTyped, Generation
    <3> HIDE DEF l
    <3> QED BY <3>1, <3>2 DEF GeoInv, ReadersFit
  <2> HIDE DEF s, l
  <2>5. NotOlder(s, s.answer)
    BY <1>1, <2>2, <2>3, <2>4 DEF NotOlder
  <2>6. SearchFits(s, t, loading, querying)
    BY <1>1, <2>3, <2>5 DEF SearchFits
  <2> QED BY <1>1, <2>1, <2>3, <2>6, SearchOnly
<1>3. CASE kept = 0
  <2> DEFINE s == [l EXCEPT !.pc = "query"]
  <2>1. searches' = [searches EXCEPT ![t] = s]
    BY <1>3 DEF LookIntoCache, GeoInv, GeoTyped
  <2>2. /\ s \in Search /\ s.pc = "query" /\ s.reader = l.reader /\ s.floor = l.floor
        /\ s.excused = l.excused
    BY <1>1 DEF Search, LookupSteps
  <2> HIDE DEF s, l
  <2>3. SearchFits(s, t, loading, querying)
    BY <1>1, <2>2 DEF SearchFits, NotOlder
  <2> QED BY <1>1, <2>1, <2>2, <2>3, SearchOnly
<1> QED BY <1>2, <1>3

(* The reader is asked only while it is the current one.                   *)
LEMMA RecordRead ==
    ASSUME GeoInv, NEW t \in Lookups, ReadRecord(t)
    PROVE  GeoInv'
<1> DEFINE l == searches[t]
<1>1. /\ l \in Search /\ SearchFits(l, t, loading, querying) /\ l.floor <= version
      /\ l.floor \in Nat /\ l.excused \in BOOLEAN /\ l.tries \in Nat
      /\ l.reader \in 1 .. Generation /\ l.reader \in Nat
      /\ NotOlder(l, readers[l.reader]) /\ l.pc = "query" /\ querying = NoThread
      /\ UNCHANGED <<file, version, readers, stamp, discarded, kept, loading>>
  BY SearchParts DEF ReadRecord, SearchFits
<1>2. CASE Swapped(t) /\ l.tries + 1 = Attempts
  <2> DEFINE s == Done(l, 0)
  <2>1. searches' = [searches EXCEPT ![t] = s] /\ querying' = querying
    BY <1>2 DEF ReadRecord, GeoInv, GeoTyped
  <2>2. s \in Search /\ s.pc = "done" /\ s.answer = 0 /\ s.floor = l.floor
    BY <1>1, DoneFacts
  <2> HIDE DEF s, l
  <2>3. SearchFits(s, t, loading, querying)
    BY <1>1, <2>2 DEF SearchFits
  <2> QED BY <1>1, <2>1, <2>2, <2>3, SearchOnly
<1>3. CASE Swapped(t) /\ l.tries + 1 # Attempts
  <2> DEFINE z == 0
             n == l.tries + 1
             s == [l EXCEPT !.pc = "reader", !.tries = n, !.reader = z]
  <2>1. searches' = [searches EXCEPT ![t] = s] /\ querying' = querying
    BY <1>3 DEF ReadRecord, GeoInv, GeoTyped
  <2>2. z \in Nat /\ n \in Nat
    BY <1>1
  <2> HIDE DEF z, n
  <2>3. s \in Search /\ s.pc = "reader" /\ s.floor = l.floor
    BY <1>1, <2>2 DEF Search, LookupSteps
  <2> HIDE DEF s, l
  <2>4. SearchFits(s, t, loading, querying)
    BY <1>1, <2>3 DEF SearchFits
  <2> QED BY <1>1, <2>1, <2>3, <2>4, SearchOnly
<1>4. CASE ~Swapped(t)
  <2> DEFINE s == [l EXCEPT !.pc = "asking", !.at = Generation]
  <2>1. searches' = [searches EXCEPT ![t] = s] /\ querying' = t /\ l.reader = Generation
    BY <1>4 DEF ReadRecord, Swapped, GeoInv, GeoTyped
  <2>2. /\ s \in Search /\ s.pc = "asking" /\ s.at = Generation /\ s.reader = Generation
        /\ s.floor = l.floor /\ s.excused = l.excused
    BY <1>1, <2>1 DEF Search, LookupSteps
  <2>3. Generation \in Nat /\ Generation \notin discarded
    BY GenerationIsNat DEF GeoInv, ReadersFit
  <2> HIDE DEF s, l
  <2>4. NotOlder(s, readers[s.reader])
    BY <1>1, <2>1, <2>2 DEF NotOlder
  <2>5. SearchFits(s, t, loading', querying')
    BY <1>1, <2>1, <2>2, <2>3, <2>4 DEF SearchFits
  <2>6. /\ kept' \in Nat /\ (kept' # 0 => kept' = Version(Generation))
        /\ loading' = NoThread => discarded = 1 .. Generation - 1
        /\ \A q \in Lookups \ {t} : (loading = q => loading' = q) /\ (querying = q => querying' = q)
    BY <1>1, GeoDatabaseAssumption DEF GeoInv, GeoTyped, CacheIsCurrent
  <2> QED BY <1>1, <2>1, <2>2, <2>5, <2>6, SearchGoes
<1> QED BY <1>2, <1>3, <1>4

LEMMA SearchQueried ==
    ASSUME GeoInv, NEW t \in Lookups, Queried(t)
    PROVE  GeoInv'
<1> DEFINE l == searches[t]
           answer == Version(l.reader)
<1>1. /\ l \in Search /\ SearchFits(l, t, loading, querying) /\ l.floor <= version
      /\ l.floor \in Nat /\ l.excused \in BOOLEAN /\ l.at = l.reader
      /\ l.reader \in 1 .. Generation /\ NotOlder(l, readers[l.reader]) /\ l.pc = "asking"
      /\ querying = t /\ querying' = NoThread
      /\ UNCHANGED <<file, version, readers, stamp, discarded, kept, loading>>
  BY SearchParts DEF Queried, SearchFits
<1>2. /\ kept' \in Nat /\ (kept' # 0 => kept' = Version(Generation))
      /\ loading' = NoThread => discarded = 1 .. Generation - 1
      /\ \A q \in Lookups \ {t} : (loading = q => loading' = q) /\ (querying = q => querying' = q)
  BY <1>1 DEF GeoInv, GeoTyped, CacheIsCurrent
<1>3. answer = readers[l.reader] /\ answer \in Nat
  <2>1. l.reader # 0
    BY <1>1
  <2>2. \A i \in 1 .. Generation : readers[i] \in Nat
    BY DEF GeoInv, GeoTyped, Generation
  <2> QED BY <1>1, <2>1, <2>2 DEF Version
<1>4. CASE l.cached /\ searches' = [searches EXCEPT ![t] = [l EXCEPT !.pc = "put", !.answer = answer]]
  <2> DEFINE s == [l EXCEPT !.pc = "put", !.answer = answer]
  <2> HIDE DEF answer
  <2>1. /\ s \in Search /\ s.pc = "put" /\ s.answer = answer /\ s.at = l.at /\ s.reader = l.reader
        /\ s.floor = l.floor /\ s.excused = l.excused
    BY <1>1, <1>3 DEF Search, LookupSteps
  <2> HIDE DEF s
  <2>2. SearchFits(s, t, loading', querying')
    BY <1>1, <1>3, <2>1 DEF SearchFits, NotOlder
  <2>3. searches' = [searches EXCEPT ![t] = s]
    BY <1>4 DEF s
  <2> HIDE DEF l
  <2> QED BY <1>1, <1>2, <2>1, <2>2, <2>3, SearchGoes
<1>5. CASE searches' = [searches EXCEPT ![t] = Done(l, answer)]
  <2> DEFINE s == Done(l, answer)
  <2> HIDE DEF answer
  <2>1. /\ s \in Search /\ s.pc = "done" /\ s.answer = answer /\ s.floor = l.floor
        /\ s.excused = l.excused
    BY <1>1, <1>3, DoneFacts
  <2> HIDE DEF s
  <2>2. SearchFits(s, t, loading', querying')
    BY <1>1, <1>3, <2>1 DEF SearchFits, NotOlder
  <2>3. searches' = [searches EXCEPT ![t] = s]
    BY <1>5 DEF s
  <2> HIDE DEF l
  <2> QED BY <1>1, <1>2, <2>1, <2>2, <2>3, SearchGoes
<1>6. CASE searches' = [searches EXCEPT ![t] = Done(l, 0)]
  <2> DEFINE s == Done(l, 0)
  <2>1. s \in Search /\ s.pc = "done" /\ s.answer = 0 /\ s.floor = l.floor
    BY <1>1, DoneFacts
  <2> HIDE DEF s
  <2>2. SearchFits(s, t, loading', querying')
    BY <1>1, <2>1 DEF SearchFits
  <2>3. searches' = [searches EXCEPT ![t] = s]
    BY <1>6 DEF s
  <2> HIDE DEF l
  <2> QED BY <1>1, <1>2, <2>1, <2>2, <2>3, SearchGoes
<1> QED
  <2>1. \/ searches' = [searches EXCEPT ![t] = IF l.cached THEN [l EXCEPT !.pc = "put", !.answer = answer]
                                                 ELSE Done(l, answer)]
        \/ searches' = [searches EXCEPT ![t] = Done(l, 0)]
    BY DEF Queried, GeoInv, GeoTyped
  <2> HIDE DEF answer, l
  <2> QED BY <1>4, <1>5, <1>6, <2>1

(* What is kept is of the reader that is the current one at that moment.   *)
LEMMA AnswerKept ==
    ASSUME GeoInv, NEW t \in Lookups, CachePut(t)
    PROVE  GeoInv'
<1> DEFINE l == searches[t]
           s == Done(l, l.answer)
<1>1. /\ l \in Search /\ SearchFits(l, t, loading, querying) /\ l.floor <= version
      /\ l.floor \in Nat /\ l.excused \in BOOLEAN /\ l.at = l.reader /\ l.answer \in Nat
      /\ l.reader \in 1 .. Generation /\ NotOlder(l, readers[l.reader]) /\ l.pc = "put"
      /\ l.answer = readers[l.at]
      /\ UNCHANGED <<file, version, readers, stamp, discarded, loading, querying>>
  BY SearchParts DEF CachePut, SearchFits
<1>2. searches' = [searches EXCEPT ![t] = s]
  BY DEF CachePut, GeoInv, GeoTyped
<1>3. kept' = kept \/ (l.at = Generation /\ kept' = l.answer)
  BY DEF CachePut
<1>4. kept' \in Nat /\ (kept' # 0 => kept' = Version(Generation))
  <2>1. CASE kept' = kept
    BY <2>1 DEF GeoInv, GeoTyped, CacheIsCurrent
  <2>2. CASE l.at = Generation /\ kept' = l.answer
    <3>1. Generation # 0
      BY <1>1, <2>2
    <3> QED BY <1>1, <2>2, <3>1 DEF Version
  <2> QED BY <1>3, <2>1, <2>2
<1>5. /\ s \in Search /\ s.pc = "done" /\ s.answer = l.answer /\ s.floor = l.floor
      /\ s.excused = l.excused
  BY <1>1, DoneFacts
<1> HIDE DEF s, l
<1>6. SearchFits(s, t, loading', querying')
  BY <1>1, <1>5 DEF SearchFits, NotOlder
<1>7. /\ loading' = NoThread => discarded = 1 .. Generation - 1
      /\ \A q \in Lookups \ {t} : (loading = q => loading' = q) /\ (querying = q => querying' = q)
  BY <1>1 DEF GeoInv
<1> QED BY <1>1, <1>2, <1>4, <1>5, <1>6, <1>7, SearchGoes

(* The file changes, nothing else.                                         *)
LEMMA FileChanges ==
    ASSUME GeoInv, ReplaceFile \/ RemoveFile
    PROVE  GeoInv'
<1>1. /\ version \in Nat /\ version' \in Nat /\ version <= version' /\ file' \in {0, version'}
      /\ UNCHANGED <<readers, stamp, discarded, kept, loading, querying, searches>>
  BY DEF ReplaceFile, RemoveFile, GeoInv, GeoTyped
<1>2. Generation' = Generation /\ \A r : Version(r)' = Version(r)
  BY <1>1 DEF Generation, Version
<1>3. \A i \in 1 .. Generation : readers[i] \in Nat
  BY DEF GeoInv, GeoTyped, Generation
<1>4. GeoTyped' /\ ReadersFit'
  BY <1>1, <1>2, <1>3 DEF GeoInv, GeoTyped, ReadersFit
<1>5. CacheIsCurrent' /\ (loading' = NoThread => discarded' = 1 .. Generation' - 1)
  BY <1>1, <1>2 DEF GeoInv, CacheIsCurrent, Version
<1>6. ASSUME NEW t \in Lookups PROVE SearchFits(searches[t], t, loading, querying)'
  <2>1. /\ SearchFits(searches[t], t, loading, querying) /\ searches[t].floor \in Nat
        /\ searches[t].at \in Nat /\ searches[t].answer \in Nat
    BY SearchParts
  <2> QED BY <1>1, <1>2, <2>1 DEF SearchFits, NotOlder
<1> QED BY <1>4, <1>5, <1>6 DEF GeoInv

(* A reader that is swapped in is the newest, and nothing kept is older.   *)
LEMMA ReaderSwapped ==
    ASSUME GeoInv, NEW t \in Lookups, SwapReader(t)
    PROVE  GeoInv'
<1> DEFINE l == searches[t]
           s == [l EXCEPT !.pc = "close"]
<1>1. /\ l \in Search /\ SearchFits(l, t, loading, querying) /\ l.pc = "swap" /\ loading = t
      /\ l.at \in Nat /\ l.answer \in Nat /\ l.floor \in Nat
      /\ l.at <= l.answer /\ l.floor <= l.answer /\ l.answer <= version /\ l.floor <= version
      /\ \A i \in 1 .. Generation : readers[i] <= l.answer
      /\ discarded = 1 .. Generation - 1
      /\ readers' = Append(readers, l.answer) /\ stamp' = l.at /\ kept' = 0
      /\ UNCHANGED <<file, version, discarded, loading, querying>>
  BY SearchParts DEF SwapReader, SearchFits
<1>2. searches' = [searches EXCEPT ![t] = s]
  BY DEF SwapReader, GeoInv, GeoTyped
<1>3. s \in Search /\ s.pc = "close" /\ s.floor = l.floor /\ s.excused = l.excused
  BY <1>1 DEF Search, LookupSteps
<1>4. /\ searches' \in [Lookups -> Search] /\ searches'[t] = s
      /\ \A q \in Lookups \ {t} : searches'[q] = searches[q]
  BY <1>2, <1>3 DEF GeoInv, GeoTyped
<1> HIDE DEF s, l
<1>5. /\ readers \in Seq(Nat) /\ readers' \in Seq(Nat) /\ Generation \in Nat
      /\ Generation' = Generation + 1 /\ readers'[Generation + 1] = l.answer
      /\ \A i \in 1 .. Generation : readers'[i] = readers[i] /\ readers[i] \in Nat
  BY <1>1 DEF GeoInv, GeoTyped, Generation
<1>6. GeoTyped'
  BY <1>1, <1>4, <1>5 DEF GeoInv, GeoTyped
<1>7. ReadersFit'
  <2>1. ASSUME NEW i \in 1 .. Generation + 1
        PROVE  readers'[i] <= l.answer /\ readers'[i] \in Nat /\ readers'[i] <= version
    <3>1. version \in Nat
      BY DEF GeoInv, GeoTyped
    <3>2. CASE i = Generation + 1
      <4>1. readers'[i] = l.answer
        BY <1>5, <3>2
      <4> QED BY <1>1, <3>1, <4>1
    <3>3. CASE i \in 1 .. Generation
      <4>1. readers'[i] = readers[i] /\ readers[i] \in Nat /\ readers[i] <= l.answer
        BY <1>1, <1>5, <3>3
      <4> QED BY <1>1, <3>1, <4>1
    <3> QED BY <1>5, <3>2, <3>3
  <2>2. ASSUME NEW i \in 1 .. Generation + 1, NEW j \in 1 .. Generation + 1, i <= j
        PROVE  readers'[i] <= readers'[j]
    <3>1. CASE j = Generation + 1
      BY <2>1, <1>5, <3>1
    <3>2. CASE j \in 1 .. Generation
      <4>1. i \in 1 .. Generation /\ readers'[i] = readers[i] /\ readers'[j] = readers[j]
        BY <2>2, <3>2, <1>5
      <4> QED BY <2>2, <3>2, <4>1 DEF GeoInv, ReadersFit
    <3> QED BY <3>1, <3>2, <1>5
  <2>3. \A i \in 1 .. Generation + 1 : readers'[i] <= version
    BY <2>1
  <2>4. discarded \subseteq 1 .. Generation
    BY <1>1, <1>5
  <2>5. stamp' <= readers'[Generation + 1]
    BY <1>1, <1>5
  <2>6. Generation' - 1 = Generation
    BY <1>5
  <2> DEFINE n == Generation + 1
  <2>7. Generation' = n
    BY <1>5
  <2>8. /\ \A i \in 1 .. n : readers'[i] <= version
        /\ \A i, j \in 1 .. n : i <= j => readers'[i] <= readers'[j]
        /\ stamp' <= readers'[n] /\ discarded' \subseteq 1 .. Generation
    BY <1>1, <2>2, <2>3, <2>4, <2>5
  <2> HIDE DEF n
  <2> QED BY <1>1, <2>6, <2>7, <2>8 DEF ReadersFit
<1>8. ASSUME NEW q \in Lookups PROVE SearchFits(searches[q], q, loading, querying)'
  <2>1. CASE q = t
    <3>1. readers'[Generation'] = l.answer
      BY <1>5
    <3>2. /\ searches'[q] = s /\ Generation' \in Nat \ {0} /\ discarded = 1 .. Generation' - 2
          /\ s.floor <= readers'[Generation']
      BY <1>1, <1>3, <1>4, <1>5, <2>1, <3>1
    <3> QED BY <1>1, <1>3, <2>1, <3>2 DEF SearchFits, NotOlder
  <2>2. CASE q # t
    <3>1. searches'[q] = searches[q] /\ SearchFits(searches[q], q, loading, querying)
      BY <1>4, <2>2, SearchParts
    <3>2. searches[q].pc \notin {"open", "swap", "close"}
      BY <3>1, <1>1, <2>2 DEF SearchFits
    <3>3. ASSUME NEW i \in 1 .. Generation
          PROVE  i \in 1 .. Generation' /\ readers'[i] = readers[i]
      BY <1>5
    <3> QED BY <1>1, <2>2, <3>1, <3>2, <3>3, ZenonT(60) DEF SearchFits, NotOlder
  <2> QED BY <2>1, <2>2
<1>9. CacheIsCurrent' /\ (loading' = NoThread => discarded' = 1 .. Generation' - 1)
  BY <1>1, GeoDatabaseAssumption DEF CacheIsCurrent
<1> QED BY <1>6, <1>7, <1>8, <1>9 DEF GeoInv

(* What is discarded nobody asks any more.                                 *)
LEMMA ReaderClosed ==
    ASSUME GeoInv, NEW t \in Lookups, CloseReader(t)
    PROVE  GeoInv'
<1> DEFINE l == searches[t]
           s == WithReader(l)
<1>1. /\ l \in Search /\ SearchFits(l, t, loading, querying) /\ l.pc = "close" /\ loading = t
      /\ l.floor <= version /\ Generation \in Nat \ {0} /\ discarded = 1 .. Generation - 2
      /\ NotOlder(l, readers[Generation])
      /\ Generation = 1 \/ querying = NoThread
      /\ discarded' = discarded \union {g \in {Generation - 1} : g > 0} /\ loading' = NoThread
      /\ UNCHANGED <<file, version, readers, stamp, kept, querying>>
  BY SearchParts DEF CloseReader, SearchFits
<1>2. searches' = [searches EXCEPT ![t] = s]
  BY DEF CloseReader, GeoInv, GeoTyped
<1>3. s \in Search /\ SearchFits(s, t, loading', querying')
  BY <1>1, WithReaderFits, WithReaderIsSearch
<1>4. s.pc \in {"look", "query"}
  BY <1>1 DEF WithReader, Search
<1>5. /\ searches' \in [Lookups -> Search] /\ searches'[t] = s
      /\ \A q \in Lookups \ {t} : searches'[q] = searches[q]
  BY <1>2, <1>3 DEF GeoInv, GeoTyped
<1> HIDE DEF s, l
<1>6. Generation' = Generation /\ \A r : Version(r)' = Version(r)
  BY <1>1 DEF Generation, Version
<1>7. discarded' = 1 .. Generation - 1
  BY <1>1
<1>8. GeoTyped' /\ ReadersFit' /\ CacheIsCurrent'
  BY <1>1, <1>5, <1>6, <1>7 DEF GeoInv, GeoTyped, ReadersFit, CacheIsCurrent, Version
<1>9. ASSUME NEW q \in Lookups PROVE SearchFits(searches[q], q, loading, querying)'
  <2>1. CASE q = t
    BY <1>1, <1>3, <1>4, <1>5, <1>6, <2>1 DEF SearchFits, NotOlder
  <2>2. CASE q # t
    <3>1. searches'[q] = searches[q] /\ SearchFits(searches[q], q, loading, querying)
      BY <1>5, <2>2, SearchParts
    <3>2. searches[q].pc \notin {"open", "swap", "close"}
      BY <3>1, <1>1, <2>2 DEF SearchFits
    <3>3. searches[q].pc = "asking" => searches[q].reader \notin discarded'
      <4>1. searches[q].pc = "asking" => querying = q
        BY <3>1 DEF SearchFits
      <4>2. querying = q => Generation = 1
        BY <1>1, GeoDatabaseAssumption
      <4>3. Generation = 1 => discarded' = {}
        BY <1>7
      <4> QED BY <4>1, <4>2, <4>3
    <3> QED BY <1>1, <1>6, <2>2, <3>1, <3>2, <3>3 DEF SearchFits, NotOlder
  <2> QED BY <2>1, <2>2
<1> QED BY <1>1, <1>6, <1>7, <1>8, <1>9 DEF GeoInv

LEMMA GeoStarts == GeoInit => GeoInv
<1> SUFFICES ASSUME GeoInit PROVE GeoInv
  OBVIOUS
<1>1. /\ file \in {0, 1} /\ version = file /\ readers = <<>> /\ stamp = 0 /\ discarded = {}
      /\ kept = 0 /\ loading = NoThread /\ searches = [t \in Lookups |-> NoSearch]
  BY DEF GeoInit
<1>2. GeoTyped
  BY <1>1, NoSearchFacts DEF GeoTyped
<1>3. Generation = 0
  BY <1>1 DEF Generation
<1>4. ReadersFit /\ CacheIsCurrent /\ discarded = 1 .. Generation - 1
  BY <1>1, <1>3 DEF ReadersFit, CacheIsCurrent
<1>5. ASSUME NEW t \in Lookups PROVE SearchFits(searches[t], t, loading, querying)
  <2>1. searches[t] = NoSearch /\ version \in Nat
    BY <1>1
  <2> QED BY <2>1, NoSearchFacts DEF SearchFits
<1> QED BY <1>2, <1>4, <1>5 DEF GeoInv

LEMMA GeoStays == ASSUME GeoInv, UNCHANGED geoVars PROVE GeoInv'
<1>1. UNCHANGED <<file, version, readers, stamp, discarded, kept, loading, querying, searches>>
  BY DEF geoVars
<1>2. Generation' = Generation
  BY <1>1 DEF Generation
<1>3. GeoTyped' /\ ReadersFit' /\ CacheIsCurrent'
  BY <1>1, <1>2 DEF GeoInv, GeoTyped, ReadersFit, CacheIsCurrent, Version
<1>4. ASSUME NEW q \in Lookups PROVE SearchFits(searches[q], q, loading, querying)'
  BY <1>1, <1>2, SearchParts DEF SearchFits, NotOlder
<1> QED BY <1>1, <1>2, <1>3, <1>4 DEF GeoInv

LEMMA GeoStep == GeoInv /\ [GeoNext]_geoVars => GeoInv'
<1> SUFFICES ASSUME GeoInv, [GeoNext]_geoVars PROVE GeoInv'
  OBVIOUS
<1>1. CASE ReplaceFile \/ RemoveFile
  BY <1>1, FileChanges
<1>2. ASSUME NEW t \in Lookups, NEW cached \in BOOLEAN, BeginLookup(t, cached) PROVE GeoInv'
  BY <1>2, LookupBegins
<1>3. ASSUME NEW t \in Lookups, ReuseReader(t) \/ LockReader(t) \/ OpenReader(t) PROVE GeoInv'
  BY <1>3, ReaderReused, ReaderLocked, ReaderOpened
<1>4. ASSUME NEW t \in Lookups, SwapReader(t) \/ CloseReader(t) \/ LookIntoCache(t) PROVE GeoInv'
  BY <1>4, ReaderSwapped, ReaderClosed, CacheLooked
<1>5. ASSUME NEW t \in Lookups, ReadRecord(t) \/ Queried(t) \/ CachePut(t) \/ EndLookup(t)
      PROVE  GeoInv'
  BY <1>5, RecordRead, SearchQueried, AnswerKept, LookupEnded
<1>6. CASE UNCHANGED geoVars
  BY <1>6, GeoStays
<1> QED BY <1>1, <1>2, <1>3, <1>4, <1>5, <1>6 DEF GeoNext

(* However lookups cross with a file that is replaced, removed or cannot   *)
(* be read: nothing kept is of a replaced reader, nobody asks a discarded  *)
(* one, every replaced one is discarded, and no answer is older than the   *)
(* file was when its lookup began.                                         *)
THEOREM GeoDatabaseIsKept == GeoSpec => []GeoDatabaseKept
<1>1. GeoInv => GeoDatabaseKept
  BY GeoInvIsEnough
<1> QED BY <1>1, GeoStarts, GeoStep, PTL DEF GeoSpec

-----------------------------------------------------------------------------
(* Where an address is                                                     *)

Evident(c) == IsHighQuality(c) \/ IsVerifiedPop(c)

(* Only what was asked is known; the providers were asked only where there *)
(* was no evidence, and they have none.                                    *)
ResolverInv ==
    /\ \A s \in Sources : claims[s] \in Claims(s)
    /\ \A s \in Sources : claimed[s] # NoClaim => s \in considered /\ claimed[s] \in Claims(s)
    /\ ~(considered \subseteq Local) => ~\E c \in ClaimsIn(claimed) : Evident(c)
    /\ decision # NoClaim => considered # {} /\ decision = Select(ClaimsIn(claimed), considered)

LEMMA ClaimFields ==
    ASSUME NEW s \in Sources, NEW c \in Claims(s), c # NoClaim
    PROVE  /\ c.source = s /\ c.place \in Places /\ c.place.x \in Int /\ c.level \in 1 .. 3
           /\ c.radius \in Int /\ c.confidence \in Int
<1>1. c \in [source : {s}, place : Places, level : Levels,
             radius : IF s = Geolite THEN Radii ELSE {-1},
             confidence : IF s = Pop THEN {VerifiedConfidence - 1, VerifiedConfidence} ELSE {-1}]
  BY DEF Claims
<1>2. /\ c.radius \in (IF s = Geolite THEN Radii ELSE {-1})
      /\ c.confidence \in (IF s = Pop THEN {VerifiedConfidence - 1, VerifiedConfidence} ELSE {-1})
      /\ c.source = s /\ c.place \in Places /\ c.level \in Levels
  BY <1>1
<1>3. c.radius \in Radii \union {-1} /\ c.confidence \in {-1, 84, 85}
  BY <1>2 DEF VerifiedConfidence
<1>4. c.radius \in Int /\ c.confidence \in Int
  <2>1. Radii \subseteq Int /\ -1 \in Int /\ 84 \in Int /\ 85 \in Int
    BY ResolverAssumption
  <2>2. c.confidence = -1 \/ c.confidence = 84 \/ c.confidence = 85
    BY <1>3
  <2> QED BY <1>3, <2>1, <2>2, ZenonT(60)
<1>5. c.place.x \in Int
  BY <1>2, ResolverAssumption
<1> QED BY <1>2, <1>4, <1>5 DEF Levels

LEMMA KnownClaims ==
    ASSUME ResolverInv, NEW c \in ClaimsIn(claimed)
    PROVE  /\ \E s \in Sources : c = claimed[s] /\ c \in Claims(s) /\ s \in considered
           /\ c # NoClaim /\ c.source \in Sources /\ c.source \in considered /\ c.place.x \in Int
           /\ c.level \in 1 .. 3 /\ c.radius \in Int /\ c.confidence \in Int
<1>1. PICK s \in Sources : c = claimed[s]
  BY DEF ClaimsIn
<1>2. c # NoClaim /\ c \in Claims(s) /\ s \in considered
  BY <1>1 DEF ClaimsIn, ResolverInv
<1> QED BY <1>1, <1>2, ClaimFields

(* Evidence is local, and is what the rank of a claim says.                *)
LEMMA EvidenceIsLocal ==
    ASSUME NEW c
    PROVE  /\ Evident(c) => c.source \in Local
           /\ EvidenceRank(c) = 4 <=> Evident(c)
<1>1. Evident(c) => c.source \in Local
  BY DEF Evident, IsHighQuality, IsVerifiedPop, Local
<1>2. EvidenceRank(c) = 4 <=> Evident(c)
  <2>1. CASE Evident(c)
    BY <2>1 DEF EvidenceRank, Evident
  <2>2. CASE ~Evident(c)
    BY <2>2 DEF EvidenceRank, Evident
  <2> QED BY <2>1, <2>2
<1> QED BY <1>1, <1>2

LEMMA KeysAreNumbers ==
    ASSUME ResolverInv, NEW c \in ClaimsIn(claimed)
    PROVE  QualityKey(c) \in Int
<1>1. EvidenceRank(c) \in {1, 2, 3, 4}
  BY DEF EvidenceRank
<1>2. SourceQuality(c) \in {0, 1}
  BY DEF SourceQuality
<1>3. c.level \in 1 .. 3 /\ c.source \in 1 .. 4
  BY KnownClaims DEF Sources, Geolite, Pop, Pro, IpWho
<1> QED BY <1>1, <1>2, <1>3 DEF QualityKey

LEMMA BetterOfTwo ==
    ASSUME ResolverInv, NEW a \in ClaimsIn(claimed), NEW b \in ClaimsIn(claimed)
    PROVE  QualityKey(a) <= QualityKey(b) \/ QualityKey(b) <= QualityKey(a)
  BY KeysAreNumbers

(* There is a best of some claims, because there is one for each source at *)
(* most.                                                                   *)
LEMMA BestIsOne ==
    ASSUME ResolverInv, NEW some, some \subseteq ClaimsIn(claimed), some # {}
    PROVE  Best(some) \in some
<1> DEFINE Among(known) == \E c \in some \intersect known :
                              \A d \in some \intersect known : QualityKey(d) <= QualityKey(c)
           none(known) == some \intersect known = {}
           One(s) == {claimed[s]}
<1>1. ASSUME NEW left, NEW right, none(left) \/ Among(left), none(right) \/ Among(right)
      PROVE  none(left \union right) \/ Among(left \union right)
  <2>1. CASE none(left)
    <3>1. some \intersect (left \union right) = some \intersect right
      BY <2>1
    <3> QED BY <1>1, <3>1
  <2>2. CASE none(right)
    <3>1. some \intersect (left \union right) = some \intersect left
      BY <2>2
    <3> QED BY <1>1, <3>1
  <2>3. CASE Among(left) /\ Among(right)
    <3>1. PICK a \in some \intersect left : \A d \in some \intersect left : QualityKey(d) <= QualityKey(a)
      BY <2>3
    <3>2. PICK b \in some \intersect right : \A d \in some \intersect right : QualityKey(d) <= QualityKey(b)
      BY <2>3
    <3>3. /\ QualityKey(a) \in Int /\ QualityKey(b) \in Int
          /\ \A d \in some : QualityKey(d) \in Int
      BY KeysAreNumbers
    <3>4. CASE QualityKey(a) <= QualityKey(b)
      <4>1. \A d \in some \intersect (left \union right) : QualityKey(d) <= QualityKey(b)
        BY <3>1, <3>2, <3>3, <3>4
      <4> QED BY <4>1
    <3>5. CASE QualityKey(b) <= QualityKey(a)
      <4>1. \A d \in some \intersect (left \union right) : QualityKey(d) <= QualityKey(a)
        BY <3>1, <3>2, <3>3, <3>5
      <4> QED BY <4>1
    <3> QED BY <3>3, <3>4, <3>5
  <2> QED BY <1>1, <2>1, <2>2, <2>3
<1>2. ASSUME NEW s PROVE none(One(s)) \/ Among(One(s))
  <2>1. ASSUME claimed[s] \in some PROVE Among(One(s))
    <3>1. claimed[s] \in some \intersect One(s)
      BY <2>1
    <3>2. QualityKey(claimed[s]) \in Int
      BY <2>1, KeysAreNumbers
    <3>3. \A d \in some \intersect One(s) : QualityKey(d) <= QualityKey(claimed[s])
      BY <3>2
    <3> QED BY <3>1, <3>3
  <2> QED BY <2>1
<1> DEFINE two == One(Geolite) \union One(Pop)
           three == two \union One(Pro)
           four == three \union One(IpWho)
<1>3. some \subseteq four
  BY DEF ClaimsIn, Sources
<1> HIDE DEF Among, none, One
<1>4. none(two) \/ Among(two)
  BY <1>1, <1>2
<1>5. none(three) \/ Among(three)
  BY <1>1, <1>2, <1>4
<1>6. none(four) \/ Among(four)
  BY <1>1, <1>2, <1>5
<1> HIDE DEF two, three, four
<1>7. Among(four)
  BY <1>3, <1>6 DEF none
<1>8. some \intersect four = some
  BY <1>3
<1>9. \E c \in some : \A d \in some : QualityKey(d) <= QualityKey(c)
  BY <1>7, <1>8 DEF Among
<1> QED BY <1>9 DEF Best

(* What is selected is known, and local if a local claim is known.         *)
LEMMA WinnerIsKnown ==
    ASSUME ResolverInv, ClaimsIn(claimed) # {}
    PROVE  /\ Winner(ClaimsIn(claimed)) \in ClaimsIn(claimed)
           /\ LocalHeard # {} => Winner(ClaimsIn(claimed)) = Best(LocalHeard)
           /\ LocalHeard # {} => Winner(LocalHeard) = Best(LocalHeard)
<1> DEFINE known == ClaimsIn(claimed)
<1>1. /\ {c \in known : c.source \in Local} = LocalHeard /\ LocalHeard \subseteq known
      /\ {c \in LocalHeard : c.source \in Local} = LocalHeard
  BY DEF LocalHeard
<1>2. CASE LocalHeard = {}
  <2>1. Winner(known) = Best(known)
    BY <1>1, <1>2 DEF Winner
  <2> QED BY <1>2, <2>1, BestIsOne
<1>3. CASE LocalHeard # {}
  <2>1. Winner(known) = Best(LocalHeard) /\ Winner(LocalHeard) = Best(LocalHeard)
    BY <1>1, <1>3 DEF Winner
  <2>2. Best(LocalHeard) \in LocalHeard
    BY <1>1, <1>3, BestIsOne
  <2> QED BY <1>1, <2>1, <2>2
<1> QED BY <1>2, <1>3

LEMMA DistanceFacts ==
    ASSUME NEW c, NEW d, c.place.x \in Int, d.place.x \in Int
    PROVE  Distance(c, d) \in Int /\ Distance(c, d) = Distance(d, c) /\ Distance(c, c) = 0
  BY DEF Distance

LEMMA SelectParts ==
    ASSUME NEW known, NEW offered, known # {}
    PROVE  LET w == Winner(known) upgrades == TextUpgrades(w, known) d == Select(known, offered) IN
           /\ d.selected = w
           /\ d.accuracy = "precise" <=> EvidenceRank(w) = 4 /\ PreciseRivals(w, known) = {}
           /\ d.accuracy \in {"precise", "approximate"}
           /\ d.text = IF upgrades = {} THEN NoClaim ELSE Best(upgrades)
<1> DEFINE w == Winner(known)
           sure == EvidenceRank(w) = 4 /\ PreciseRivals(w, known) = {}
           a == IF sure THEN "precise" ELSE "approximate"
           t == IF TextUpgrades(w, known) = {} THEN NoClaim ELSE Best(TextUpgrades(w, known))
           f == w.source = Geolite /\ \E s \in offered \ {Geolite} : ~\E c \in known : c.source = s
<1>1. Select(known, offered) = [selected |-> w, accuracy |-> a, text |-> t, fallback |-> f]
  BY DEF Select
<1>2. (a = "precise" <=> sure) /\ a \in {"precise", "approximate"}
  BY Zenon
<1> HIDE DEF a, f
<1>3. /\ Select(known, offered).selected = w /\ Select(known, offered).accuracy = a
      /\ Select(known, offered).text = t
  <2> HIDE DEF w, t
  <2> QED BY <1>1
<1> QED BY <1>2, <1>3

LEMMA NothingKnown ==
    ASSUME NEW offered
    PROVE  Select({}, offered).selected = NoClaim /\ Select({}, offered).accuracy = "unknown"
  BY DEF Select

(* Rivals are evidence, and evidence is local.                             *)
LEMMA RivalsAreLocal ==
    ASSUME NEW w
    PROVE  PreciseRivals(w, ClaimsIn(claimed)) = PreciseRivals(w, LocalHeard)
<1>1. ASSUME NEW c \in ClaimsIn(claimed), EvidenceRank(c) = 4 PROVE c \in LocalHeard
  BY <1>1, EvidenceIsLocal DEF LocalHeard
<1> QED BY <1>1 DEF PreciseRivals, LocalHeard

LEMMA ResolverInvIsEnough == ResolverInv => DecisionsKept
<1> SUFFICES ASSUME ResolverInv, Decided PROVE OnlineMovesNothing /\ PreciseIsEvidenced /\ TextFits
  BY DEF DecisionsKept, OnlineMovesNothing, PreciseIsEvidenced, TextFits
<1> DEFINE known == ClaimsIn(claimed)
           w == Winner(known)
<1>1. decision = Select(known, considered) /\ LocalHeard \subseteq known
  BY DEF ResolverInv, Decided, LocalHeard
<1>2. CASE known = {}
  <2>1. decision.selected = NoClaim /\ decision.accuracy = "unknown" /\ LocalHeard = {}
    BY <1>1, <1>2, NothingKnown
  <2> QED BY <2>1 DEF OnlineMovesNothing, PreciseIsEvidenced, TextFits
<1>3. CASE known # {}
  <2>1. /\ decision.selected = w
        /\ decision.accuracy = "precise" <=> EvidenceRank(w) = 4 /\ PreciseRivals(w, known) = {}
        /\ decision.accuracy \in {"precise", "approximate"}
        /\ decision.text = IF TextUpgrades(w, known) = {} THEN NoClaim ELSE Best(TextUpgrades(w, known))
    BY <1>1, <1>3, SelectParts
  <2>2. /\ w \in known /\ (LocalHeard # {} => w = Best(LocalHeard) /\ Winner(LocalHeard) = w)
    BY <1>3, WinnerIsKnown
  <2> HIDE DEF w
  <2>3. OnlineMovesNothing
    <3> SUFFICES ASSUME LocalHeard # {}
                 PROVE  LET alone == Select(LocalHeard, considered \intersect Local) IN
                        decision.selected = alone.selected /\ decision.accuracy = alone.accuracy
      BY DEF OnlineMovesNothing
    <3> DEFINE alone == Select(LocalHeard, considered \intersect Local)
    <3>1. /\ alone.selected = w
          /\ alone.accuracy = "precise" <=> EvidenceRank(w) = 4 /\ PreciseRivals(w, LocalHeard) = {}
          /\ alone.accuracy \in {"precise", "approximate"}
      BY <2>2, SelectParts
    <3> HIDE DEF alone
    <3>2. alone.accuracy = decision.accuracy
      BY <2>1, <3>1, RivalsAreLocal
    <3> QED BY <2>1, <3>1, <3>2 DEF alone
  <2>4. PreciseIsEvidenced
    <3> SUFFICES ASSUME decision.accuracy = "precise"
                 PROVE  /\ considered \subseteq Local /\ ~NeedsOnlineFallback({decision.selected})
                        /\ \A c \in LocalHeard : ~NeedsOnlineFallback({c}) =>
                              Distance(c, decision.selected) <= Contradiction
      BY DEF PreciseIsEvidenced
    <3>1. EvidenceRank(w) = 4 /\ PreciseRivals(w, known) = {}
      BY <2>1
    <3>2. Evident(w)
      BY <3>1, EvidenceIsLocal
    <3>3. considered \subseteq Local
      BY <2>2, <3>2 DEF ResolverInv
    <3>4. \A c : ~NeedsOnlineFallback({c}) <=> Evident(c)
      BY DEF NeedsOnlineFallback, Evident
    <3>5. ASSUME NEW c \in LocalHeard, Evident(c) PROVE Distance(c, w) <= Contradiction
      <4>1. c \in known /\ c.place.x \in Int /\ w.place.x \in Int
        BY <1>1, <2>2, KnownClaims
      <4>2. EvidenceRank(c) = 4
        BY <3>5, EvidenceIsLocal
      <4>3. CASE c = w
        BY <4>1, <4>3, DistanceFacts DEF Contradiction
      <4>4. CASE c # w
        <5>1. ~(Distance(w, c) > Contradiction)
          BY <3>1, <4>1, <4>2, <4>4 DEF PreciseRivals
        <5> QED BY <4>1, <5>1, DistanceFacts DEF Contradiction
      <4> QED BY <4>3, <4>4
    <3> QED BY <2>1, <3>2, <3>3, <3>4, <3>5
  <2>5. TextFits
    <3> SUFFICES ASSUME decision.text # NoClaim
                 PROVE  /\ decision.text.place.country = w.place.country
                        /\ decision.text.level > w.level
      BY <2>1 DEF TextFits
    <3> DEFINE upgrades == TextUpgrades(w, known)
    <3>1. upgrades # {} /\ decision.text = Best(upgrades) /\ upgrades \subseteq known
      BY <2>1 DEF TextUpgrades
    <3>2. decision.text \in upgrades
      <4> HIDE DEF upgrades
      <4> QED BY <3>1, BestIsOne
    <3>3. /\ w.level < 3 /\ decision.text.level = 3
          /\ decision.text.place.country = w.place.country
      BY <3>2 DEF TextUpgrades
    <3> QED BY <2>2, <3>3, KnownClaims
  <2> QED BY <2>3, <2>4, <2>5
<1> QED BY <1>2, <1>3

LEMMA ResolverStarts == ResolverInit => ResolverInv
<1> SUFFICES ASSUME ResolverInit PROVE ResolverInv
  OBVIOUS
<1>1. \A s \in Sources : claims[s] \in Claims(s)
  BY DEF ResolverInit, Sources, Geolite, Pop, Pro, IpWho
<1>2. considered = {} /\ decision = NoClaim /\ \A s \in Sources : claimed[s] = NoClaim
  BY DEF ResolverInit
<1> QED BY <1>1, <1>2 DEF ResolverInv

LEMMA ResolverStep == ResolverInv /\ [ResolverNext]_resolverVars => ResolverInv'
<1> SUFFICES ASSUME ResolverInv, [ResolverNext]_resolverVars PROVE ResolverInv'
  OBVIOUS
<1>1. ASSUME NEW named \in BOOLEAN, AskLocal(named) PROVE ResolverInv'
  <2>1. /\ considered = {} /\ considered' \subseteq Local
        /\ UNCHANGED <<claims, decision>>
    BY <1>1 DEF AskLocal, Local
  <2>2. \A s \in Sources : claimed'[s] = IF s \in considered' THEN claims[s] ELSE NoClaim
    BY <1>1 DEF AskLocal
  <2>3. decision = NoClaim
    BY <2>1 DEF ResolverInv
  <2> QED BY <2>1, <2>2, <2>3 DEF ResolverInv
<1>2. ASSUME NEW withKey \in BOOLEAN, NEW inTime \in SUBSET {Pro, IpWho}, AskOnline(withKey, inTime)
      PROVE  ResolverInv'
  <2> DEFINE providers == {IpWho} \union (IF withKey THEN {Pro} ELSE {})
  <2>1. /\ considered # {} /\ decision = NoClaim /\ NeedsOnlineFallback(ClaimsIn(claimed))
        /\ inTime \subseteq providers /\ considered' = considered \union providers
        /\ \A s \in Sources : claimed'[s] = IF s \in inTime THEN claims[s] ELSE claimed[s]
        /\ UNCHANGED <<claims, decision>>
    BY <1>2 DEF AskOnline
  <2> HIDE DEF providers
  <2>2. ASSUME NEW s \in Sources, claimed'[s] # NoClaim
        PROVE  s \in considered' /\ claimed'[s] \in Claims(s)'
    <3>1. s \in considered' /\ claimed'[s] \in Claims(s)
      BY <2>1, <2>2 DEF ResolverInv
    <3> QED BY <3>1 DEF Claims
  <2>3. ASSUME NEW c \in ClaimsIn(claimed') PROVE ~Evident(c)
    <3>1. PICK s \in Sources : c = claimed'[s] /\ c # NoClaim
      BY <2>3 DEF ClaimsIn
    <3>2. CASE s \in inTime
      <4>1. c \in Claims(s) /\ s \in {Pro, IpWho}
        BY <2>1, <3>1, <3>2 DEF ResolverInv
      <4>2. c.source = s
        BY <4>1, <3>1, ClaimFields
      <4>3. c.source \notin Local
        BY <4>1, <4>2 DEF Pro, IpWho, Local, Geolite, Pop
      <4> QED BY <4>3, EvidenceIsLocal
    <3>3. CASE s \notin inTime
      <4>1. c \in ClaimsIn(claimed)
        BY <2>1, <3>1, <3>3 DEF ClaimsIn
      <4> QED BY <2>1, <4>1 DEF NeedsOnlineFallback, Evident
    <3> QED BY <3>2, <3>3
  <2>4. ~\E c \in ClaimsIn(claimed') : Evident(c)'
    BY <2>3 DEF Evident, IsHighQuality, IsVerifiedPop
  <2>5. \A s \in Sources : claims'[s] \in Claims(s)'
    BY <2>1 DEF ResolverInv, Claims
  <2> QED BY <2>1, <2>2, <2>4, <2>5 DEF ResolverInv, ClaimsIn
<1>3. ASSUME Resolve PROVE ResolverInv'
  <2>1. /\ considered # {} /\ decision' = Select(ClaimsIn(claimed), considered)
        /\ UNCHANGED <<claims, claimed, considered>>
    BY <1>3 DEF Resolve
  <2> QED BY <2>1 DEF ResolverInv
<1>4. ASSUME UNCHANGED resolverVars PROVE ResolverInv'
  BY <1>4 DEF resolverVars, ResolverInv
<1> QED BY <1>1, <1>2, <1>3, <1>4 DEF ResolverNext

(* Whatever the database, host names and providers say, and whoever of     *)
(* them answers in time: a local position stays where it is and as sure as *)
(* it is, a precise one is evidenced and was asked of nobody outside, and  *)
(* a name from elsewhere is finer and of the same country.                 *)
THEOREM DecisionsAreKept == ResolverSpec => []DecisionsKept
<1>1. ResolverInv => DecisionsKept
  BY ResolverInvIsEnough
<1> QED BY <1>1, ResolverStarts, ResolverStep, PTL DEF ResolverSpec

-----------------------------------------------------------------------------
(* What an online provider is asked                                        *)

ProviderAnswers == [ip : Addresses, found : BOOLEAN, asked : Nat, expiry : Nat]

(* One answer per address, and no more than fit.                           *)
AnswersFit(cached) ==
    /\ cached \in Seq(ProviderAnswers) /\ Len(cached) <= CacheSize
    /\ \A i, j \in DOMAIN cached : cached[i].ip = cached[j].ip => i = j

OnlineCalls ==
    [pc : {"idle", "done", "waiting", "woken", "leading", "cleared", "asking", "storing"},
     ip : Addresses \union {0}, now : Nat, told : Nat, result : Seq(ProviderAnswers)]

Leads(a) == a.pc \in {"leading", "cleared", "asking", "storing"}

(* A leader is in time, so that what it brings is good for everyone who    *)
(* has called before; what a waiter finds later is good for the waiter.    *)
CallFits(a, t, cached) ==
    /\ a \in OnlineCalls /\ a.now <= t /\ a.told <= a.now + Timeout
    /\ a.pc # "idle" => a.ip \in Addresses
    /\ Leads(a) => t <= a.now + Timeout
    /\ a.pc \in {"storing", "done"} /\ a.result # <<>> => a.result[1].ip = a.ip
    /\ a.pc = "storing" => a.result # <<>> /\ a.result[1].expiry > a.now + Timeout
    /\ a.pc = "done" /\ a.result # <<>> => a.result[1].expiry > a.now
    /\ a.pc \in {"waiting", "woken"} =>
          \A i \in DOMAIN cached : cached[i].ip = a.ip => cached[i].expiry > a.now

CallsFit(asks, t, cached) ==
    /\ DOMAIN asks = Askers
    /\ \A c \in Askers : CallFits(asks[c], t, cached)

LeadersFit(asks, led) ==
    /\ led \subseteq Addresses
    /\ \A ip \in led : \E c \in Askers : Leads(asks[c]) /\ asks[c].ip = ip
    /\ \A c, d \in Askers : Leads(asks[c]) /\ Leads(asks[d]) /\ asks[c].ip = asks[d].ip => c = d
    /\ \A c \in Askers : Leads(asks[c]) \/ asks[c].pc = "waiting" => asks[c].ip \in led

(* What was said counts from the answer, what is kept from the call that   *)
(* was answered.                                                           *)
PauseFits ==
    /\ breaker = [until |-> breaker.until, failures |-> breaker.failures]
    /\ paused \in Nat
    /\ paused # 0 => breaker.until \in Nat /\ paused <= breaker.until + Timeout

OnlineInv ==
    /\ second \in Nat /\ AnswersFit(answers) /\ CallsFit(askers, second, answers)
    /\ LeadersFit(askers, inflight) /\ PauseFits

LEMMA AnswerFacts ==
    ASSUME NEW cached \in Seq(ProviderAnswers), NEW i \in DOMAIN cached
    PROVE  cached[i] \in ProviderAnswers /\ cached[i].ip \in Addresses /\ cached[i].expiry \in Nat
<1>1. cached[i] \in ProviderAnswers
  BY SMT
<1> QED BY <1>1 DEF ProviderAnswers

LEMMA CallFacts ==
    ASSUME NEW a \in OnlineCalls
    PROVE  /\ a.now \in Nat /\ a.told \in Nat /\ a.result \in Seq(ProviderAnswers)
           /\ a.pc \in {"idle", "done", "waiting", "woken", "leading", "cleared", "asking", "storing"}
           /\ a.result # <<>> => a.result[1] \in ProviderAnswers /\ a.result[1].expiry \in Nat
<1>1. /\ a.now \in Nat /\ a.told \in Nat /\ a.result \in Seq(ProviderAnswers)
      /\ a.pc \in {"idle", "done", "waiting", "woken", "leading", "cleared", "asking", "storing"}
  BY DEF OnlineCalls
<1>2. a.result # <<>> => a.result[1] \in ProviderAnswers
  BY <1>1
<1> QED BY <1>1, <1>2 DEF ProviderAnswers

LEMMA OnlineInvIsEnough == OnlineInv => OnlineKept
<1> SUFFICES ASSUME OnlineInv PROVE OnlineKept
  OBVIOUS
<1> USE DEF OnlineInv
<1>1. \A c \in Askers : Leading(c) <=> Leads(askers[c])
  BY DEF Leading, Leads
<1>2. OneLeader
  <2>1. ASSUME NEW ip \in inflight
        PROVE  Cardinality({c \in Askers : Leading(c) /\ askers[c].ip = ip}) = 1
    <3>1. PICK c \in Askers : Leads(askers[c]) /\ askers[c].ip = ip
      BY DEF LeadersFit
    <3>2. {d \in Askers : Leading(d) /\ askers[d].ip = ip} = {c}
      BY <1>1, <3>1 DEF LeadersFit
    <3> QED BY <3>2, FS_Singleton
  <2> QED BY <1>1, <2>1 DEF OneLeader, LeadersFit
<1>3. PausesAreKept
  BY DEF PausesAreKept, CallsFit, CallFits
<1>4. AnswersAreGood
  BY DEF AnswersAreGood, CallsFit, CallFits
<1>5. AnswersAreBounded
  <2>1. ASSUME NEW ip \in Addresses PROVE Cardinality(Entries(ip)) <= 1
    <3>1. CASE Entries(ip) = {}
      BY <3>1, FS_EmptySet
    <3>2. CASE Entries(ip) # {}
      <4>1. PICK i : i \in Entries(ip)
        BY <3>2
      <4>2. Entries(ip) = {i}
        BY <4>1 DEF Entries, AnswersFit
      <4>3. Cardinality({i}) = 1
        BY FS_Singleton
      <4> QED BY <4>2, <4>3
    <3> QED BY <3>1, <3>2
  <2> QED BY <2>1 DEF AnswersAreBounded, AnswersFit
<1> QED BY <1>2, <1>3, <1>4, <1>5 DEF OnlineKept

(* What is taken out of a sequence leaves the others in their order.       *)
LEMMA WithoutOne ==
    ASSUME NEW S, NEW s \in Seq(S), NEW i \in DOMAIN s
    PROVE  LET rest == RemoveAt(s, i) IN
           /\ rest \in Seq(S) /\ Len(rest) = Len(s) - 1 /\ DOMAIN rest = 1 .. Len(s) - 1
           /\ \A j \in 1 .. Len(s) - 1 : rest[j] = IF j < i THEN s[j] ELSE s[j + 1]
<1> DEFINE n == Len(s)
           before == SubSeq(s, 1, i - 1)
           after == SubSeq(s, i + 1, n)
           rest == before \o after
<1>1. n \in Nat /\ DOMAIN s = 1 .. n /\ i \in 1 .. n
  OBVIOUS
<1>2. before \in Seq(S) /\ Len(before) = i - 1 /\ \A j \in 1 .. i - 1 : before[j] = s[j]
  BY <1>1
<1>3. after \in Seq(S) /\ Len(after) = n - i /\ \A j \in 1 .. n - i : after[j] = s[i + j]
  BY <1>1
<1>4. RemoveAt(s, i) = rest
  BY DEF RemoveAt
<1> HIDE DEF before, after, n
<1>5. /\ rest \in Seq(S) /\ Len(rest) = Len(before) + Len(after)
      /\ \A j \in 1 .. Len(before) + Len(after) :
           rest[j] = IF j <= Len(before) THEN before[j] ELSE after[j - Len(before)]
  BY <1>2, <1>3, ConcatProperties, Zenon
<1> HIDE DEF rest
<1>6. Len(rest) = n - 1 /\ DOMAIN rest = 1 .. n - 1
  BY <1>1, <1>2, <1>3, <1>5, SMTT(60)
<1>7. ASSUME NEW j \in 1 .. n - 1 PROVE rest[j] = IF j < i THEN s[j] ELSE s[j + 1]
  <2>1. CASE j < i
    BY <1>1, <1>2, <1>5, <1>6, <2>1
  <2>2. CASE ~(j < i)
    <3>1. j - (i - 1) \in 1 .. n - i /\ i + (j - (i - 1)) = j + 1 /\ ~(j <= i - 1)
      BY <1>1, <2>2
    <3> QED BY <1>1, <1>2, <1>3, <1>5, <1>6, <2>2, <3>1, ZenonT(60)
  <2> QED BY <2>1, <2>2
<1> QED BY <1>4, <1>5, <1>6, <1>7 DEF n

(* Every answer in after is one of before.                                 *)
OnlyFrom(after, before) == \A i \in DOMAIN after : \E j \in DOMAIN before : before[j] = after[i]

LEMMA AnswerTaken ==
    ASSUME AnswersFit(answers), NEW ip
    PROVE  /\ AnswersFit(EntriesBut(ip)) /\ OnlyFrom(EntriesBut(ip), answers)
           /\ \A i \in DOMAIN EntriesBut(ip) : EntriesBut(ip)[i].ip # ip
           /\ Entries(ip) # {} => Len(EntriesBut(ip)) < Len(answers)
<1>1. /\ answers \in Seq(ProviderAnswers) /\ Len(answers) <= CacheSize
      /\ \A i, j \in DOMAIN answers : answers[i].ip = answers[j].ip => i = j
      /\ Len(answers) \in Nat /\ DOMAIN answers = 1 .. Len(answers) /\ CacheSize \in Nat
  BY GeoOnlineAssumption DEF AnswersFit
<1>2. CASE Entries(ip) = {}
  <2>1. EntriesBut(ip) = answers
    BY <1>2 DEF EntriesBut
  <2>2. \A i \in DOMAIN answers : answers[i].ip # ip
    BY <1>2 DEF Entries
  <2> QED BY <1>2, <2>1, <2>2 DEF OnlyFrom
<1>3. CASE Entries(ip) # {}
  <2> DEFINE p == PlaceOf(ip)
             rest == RemoveAt(answers, p)
             n == Len(answers)
  <2>1. p \in DOMAIN answers /\ answers[p].ip = ip
    BY <1>3 DEF PlaceOf, Entries
  <2>2. EntriesBut(ip) = rest
    BY <1>3 DEF EntriesBut
  <2> HIDE DEF p
  <2>3. /\ rest \in Seq(ProviderAnswers) /\ Len(rest) = n - 1 /\ DOMAIN rest = 1 .. n - 1
        /\ \A j \in 1 .. n - 1 : rest[j] = IF j < p THEN answers[j] ELSE answers[j + 1]
    <3>1. answers \in Seq(ProviderAnswers) /\ p \in DOMAIN answers
      BY <1>1, <2>1
    <3> QED BY <3>1, WithoutOne
  <2> HIDE DEF rest
  <2> DEFINE at(j) == IF j < p THEN j ELSE j + 1
  <2>4. /\ \A j \in 1 .. n - 1 : at(j) \in 1 .. n /\ at(j) # p
        /\ \A j, k \in 1 .. n - 1 : at(j) = at(k) => j = k
    <3>1. n \in Nat /\ p \in 1 .. n
      BY <1>1, <2>1
    <3> HIDE DEF n
    <3>2. ASSUME NEW j \in 1 .. n - 1 PROVE at(j) \in 1 .. n /\ at(j) # p
      BY <3>1
    <3>3. ASSUME NEW j \in 1 .. n - 1, NEW k \in 1 .. n - 1, at(j) = at(k) PROVE j = k
      BY <3>1, <3>3
    <3> QED BY <3>2, <3>3
  <2>5. \A j \in 1 .. n - 1 : rest[j] = answers[at(j)]
    BY <2>3
  <2> HIDE DEF at, n
  <2>6. OnlyFrom(rest, answers)
    BY <1>1, <2>3, <2>4, <2>5 DEF OnlyFrom, n
  <2>7. \A i \in DOMAIN rest : rest[i].ip # ip
    BY <1>1, <2>1, <2>3, <2>4, <2>5, SMTT(60) DEF n
  <2>8. \A i, j \in DOMAIN rest : rest[i].ip = rest[j].ip => i = j
    <3>1. \A i, j \in 1 .. n : answers[i].ip = answers[j].ip => i = j
      BY <1>1 DEF n
    <3>2. ASSUME NEW i \in 1 .. n - 1, NEW j \in 1 .. n - 1, rest[i].ip = rest[j].ip
          PROVE  i = j
      <4>1. at(i) \in 1 .. n /\ at(j) \in 1 .. n
        BY <2>4
      <4>2. answers[at(i)].ip = answers[at(j)].ip
        BY <2>5, <3>2
      <4>3. at(i) = at(j)
        BY <3>1, <4>1, <4>2
      <4> QED BY <2>4, <4>3
    <3> QED BY <2>3, <3>2
  <2>9. Len(rest) <= CacheSize /\ Len(rest) < n
    BY <1>1, <2>3 DEF n
  <2> QED BY <2>2, <2>3, <2>6, <2>7, <2>8, <2>9 DEF AnswersFit, n
<1> QED BY <1>2, <1>3

LEMMA AnswerAdded ==
    ASSUME NEW s, AnswersFit(s), NEW e \in ProviderAnswers, \A i \in DOMAIN s : s[i].ip # e.ip
    PROVE  /\ Append(s, e) \in Seq(ProviderAnswers) /\ Len(Append(s, e)) = Len(s) + 1
           /\ \A i, j \in DOMAIN Append(s, e) :
                Append(s, e)[i].ip = Append(s, e)[j].ip => i = j
           /\ \A i \in DOMAIN Append(s, e) :
                Append(s, e)[i] = e \/ \E j \in DOMAIN s : s[j] = Append(s, e)[i]
<1> DEFINE a == Append(s, e)
           n == Len(s)
<1>1. /\ s \in Seq(ProviderAnswers) /\ n \in Nat /\ DOMAIN s = 1 .. n
      /\ \A i, j \in DOMAIN s : s[i].ip = s[j].ip => i = j
  BY DEF AnswersFit
<1>2. /\ a \in Seq(ProviderAnswers) /\ Len(a) = n + 1 /\ DOMAIN a = 1 .. n + 1
      /\ a[n + 1] = e /\ \A i \in 1 .. n : a[i] = s[i]
  BY <1>1
<1> HIDE DEF a, n
<1>3. \A i \in 1 .. n + 1 : i = n + 1 \/ i \in 1 .. n
  BY <1>1
<1>4. ASSUME NEW i \in DOMAIN a, NEW j \in DOMAIN a, a[i].ip = a[j].ip PROVE i = j
  <2>1. CASE i = n + 1
    BY <1>1, <1>2, <1>3, <1>4, <2>1
  <2>2. CASE i \in 1 .. n
    BY <1>1, <1>2, <1>3, <1>4, <2>2
  <2> QED BY <1>2, <1>3, <2>1, <2>2
<1>5. ASSUME NEW i \in DOMAIN a PROVE a[i] = e \/ \E j \in DOMAIN s : s[j] = a[i]
  BY <1>1, <1>2, <1>3
<1> QED BY <1>2, <1>4, <1>5 DEF a, n

LEMMA LeastOfTwo ==
    ASSUME NEW m \in Nat, NEW n \in Nat
    PROVE  Min({m, n}) \in Nat /\ Min({m, n}) <= m /\ Min({m, n}) <= n /\ Min({m, n}) \in {m, n}
<1>1. \E x \in {m, n} : \A y \in {m, n} : x <= y
  BY Z3
<1>2. Min({m, n}) \in {m, n} /\ \A y \in {m, n} : Min({m, n}) <= y
  BY <1>1 DEF Min
<1> QED BY <1>2

(* The oldest go, the newest stays.                                        *)
LEMMA AnswerStored ==
    ASSUME AnswersFit(answers), NEW e \in ProviderAnswers
    PROVE  /\ AnswersFit(Stored(e))
           /\ \A i \in DOMAIN Stored(e) :
                Stored(e)[i] = e \/ \E j \in DOMAIN answers : answers[j] = Stored(e)[i]
<1> DEFINE all == Append(EntriesBut(e.ip), e)
           n == Len(all)
           m == Min({CacheSize, n})
           rest == SubSeq(all, n - m + 1, n)
<1>1. /\ AnswersFit(EntriesBut(e.ip)) /\ OnlyFrom(EntriesBut(e.ip), answers)
      /\ \A i \in DOMAIN EntriesBut(e.ip) : EntriesBut(e.ip)[i].ip # e.ip
  BY AnswerTaken
<1>2. /\ all \in Seq(ProviderAnswers)
      /\ \A i, j \in DOMAIN all : all[i].ip = all[j].ip => i = j
      /\ \A i \in DOMAIN all : all[i] = e \/ \E j \in DOMAIN answers : answers[j] = all[i]
  <2>1. /\ all \in Seq(ProviderAnswers)
        /\ \A i, j \in DOMAIN all : all[i].ip = all[j].ip => i = j
        /\ \A i \in DOMAIN all :
             all[i] = e \/ \E j \in DOMAIN EntriesBut(e.ip) : EntriesBut(e.ip)[j] = all[i]
    BY <1>1, AnswerAdded
  <2> HIDE DEF all
  <2> QED BY <1>1, <2>1 DEF OnlyFrom
<1>3. Stored(e) = rest
  BY DEF Stored
<1> HIDE DEF all
<1>4. n \in Nat /\ DOMAIN all = 1 .. n /\ CacheSize \in Nat
  BY <1>2, GeoOnlineAssumption
<1>5. m \in Nat /\ m <= n /\ m <= CacheSize
  BY <1>4, LeastOfTwo
<1> HIDE DEF m, n
<1>6. n - m + 1 \in 1 .. n + 1 /\ n - (n - m + 1) + 1 = m
  BY <1>4, <1>5
<1> DEFINE l == n - m + 1
<1>7. l \in 1 .. n + 1 /\ n - l + 1 = m /\ rest = SubSeq(all, l, n)
  BY <1>6
<1> HIDE DEF rest, l
<1>8. /\ rest \in Seq(ProviderAnswers) /\ Len(rest) = m /\ DOMAIN rest = 1 .. m
      /\ \A i \in 1 .. m : rest[i] = all[l + i - 1]
  <2>1. SubSeq(all, l, n) \in Seq(ProviderAnswers) /\ Len(SubSeq(all, l, n)) = n - l + 1
        /\ \A i \in 1 .. n - l + 1 : SubSeq(all, l, n)[i] = all[l + i - 1]
    BY <1>2, <1>4, <1>7 DEF n
  <2> QED BY <1>5, <1>7, <2>1
<1>9. \A i \in 1 .. m : l + i - 1 \in 1 .. n
  BY <1>4, <1>5, <1>7
<1>10. \A i, j \in 1 .. m : l + i - 1 = l + j - 1 => i = j
  BY <1>4, <1>5, <1>7
<1>11. \A i, j \in DOMAIN rest : rest[i].ip = rest[j].ip => i = j
  BY <1>2, <1>4, <1>8, <1>9, <1>10
<1>12. \A i \in DOMAIN rest : rest[i] = e \/ \E j \in DOMAIN answers : answers[j] = rest[i]
  BY <1>2, <1>4, <1>8, <1>9
<1> QED BY <1>3, <1>5, <1>8, <1>11, <1>12 DEF AnswersFit

LEMMA NothingAsked ==
    ASSUME NEW t \in Nat, NEW cached
    PROVE  CallFits(NoAsk, t, cached) /\ ~Leads(NoAsk) /\ NoAsk.pc = "idle"
<1> DEFINE z == 0
<1>1. z \in Nat /\ z <= t /\ z <= z + Timeout
  BY GeoOnlineAssumption
<1>2. NoAsk = [pc |-> "idle", ip |-> z, now |-> z, told |-> z, result |-> <<>>]
  BY DEF NoAsk
<1>3. NoAsk.ip \in {0}
  BY <1>2
<1> HIDE DEF z
<1>4. NoAsk \in OnlineCalls /\ NoAsk.now = z /\ NoAsk.told = z /\ NoAsk.pc = "idle"
  <2>1. <<>> \in Seq(ProviderAnswers)
    OBVIOUS
  <2> QED BY <1>1, <1>2, <1>3, <2>1 DEF OnlineCalls
<1> QED BY <1>1, <1>4 DEF CallFits, Leads

LEMMA OnlineStarts == OnlineInit => OnlineInv
<1> SUFFICES ASSUME OnlineInit PROVE OnlineInv
  OBVIOUS
<1>1. /\ second = 0 /\ answers = <<>> /\ inflight = {} /\ paused = 0
      /\ askers = [c \in Askers |-> NoAsk] /\ second \in Nat
  BY DEF OnlineInit
<1>2. AnswersFit(answers)
  BY <1>1, GeoOnlineAssumption DEF AnswersFit
<1>3. CallsFit(askers, second, answers)
  BY <1>1, NothingAsked DEF CallsFit
<1>4. LeadersFit(askers, inflight)
  <2>1. \A c \in Askers : askers[c].pc = "idle"
    BY <1>1, NothingAsked
  <2> QED BY <1>1, <2>1 DEF LeadersFit, Leads
<1>5. PauseFits
  <2> DEFINE z == 0
  <2>1. breaker = [until |-> z, failures |-> z]
    BY DEF OnlineInit, NoBreaker
  <2> HIDE DEF z
  <2>2. breaker = [until |-> breaker.until, failures |-> breaker.failures]
    BY <2>1
  <2> QED BY <1>1, <2>2 DEF PauseFits
<1> QED BY <1>1, <1>2, <1>3, <1>4, <1>5 DEF OnlineInv

(* A waiter loses nothing when answers go.                                 *)
LEMMA CallStaysWith ==
    ASSUME NEW a, NEW t, NEW cached, NEW after, CallFits(a, t, cached), OnlyFrom(after, cached)
    PROVE  CallFits(a, t, after)
  BY DEF CallFits, OnlyFrom

LEMMA LeadersStay ==
    ASSUME NEW asks, NEW led, DOMAIN asks = Askers, LeadersFit(asks, led), NEW c \in Askers, NEW r,
           Leads(r) <=> Leads(asks[c]), Leads(r) => r.ip = asks[c].ip,
           r.pc = "waiting" => r.ip \in led
    PROVE  LeadersFit([asks EXCEPT ![c] = r], led)
<1> DEFINE after == [asks EXCEPT ![c] = r]
<1>1. after[c] = r /\ \A d \in Askers : d # c => after[d] = asks[d]
  OBVIOUS
<1> HIDE DEF after
<1>2. \A d \in Askers : Leads(after[d]) <=> Leads(asks[d])
  BY <1>1
<1>3. \A d \in Askers : Leads(asks[d]) => after[d].ip = asks[d].ip
  BY <1>1
<1>4. \A d \in Askers : Leads(after[d]) \/ after[d].pc = "waiting" => after[d].ip \in led
  BY <1>1, <1>2, <1>3 DEF LeadersFit
<1> QED BY <1>2, <1>3, <1>4 DEF LeadersFit, after

LEMMA LeaderEnters ==
    ASSUME NEW asks, NEW led, DOMAIN asks = Askers, LeadersFit(asks, led), NEW c \in Askers, NEW r,
           ~Leads(asks[c]), Leads(r), r.ip \in Addresses, r.ip \notin led
    PROVE  LeadersFit([asks EXCEPT ![c] = r], led \union {r.ip})
<1> DEFINE after == [asks EXCEPT ![c] = r]
           now == led \union {r.ip}
<1>1. after[c] = r /\ \A d \in Askers : d # c => after[d] = asks[d]
  OBVIOUS
<1> HIDE DEF after
<1>2. \A d \in Askers : Leads(asks[d]) => d # c /\ asks[d].ip \in led /\ asks[d].ip # r.ip
  BY DEF LeadersFit
<1>3. \A ip \in now : \E d \in Askers : Leads(after[d]) /\ after[d].ip = ip
  BY <1>1, <1>2 DEF LeadersFit
<1>4. \A d, e \in Askers : Leads(after[d]) /\ Leads(after[e]) /\ after[d].ip = after[e].ip => d = e
  BY <1>1, <1>2 DEF LeadersFit
<1>5. \A d \in Askers : Leads(after[d]) \/ after[d].pc = "waiting" => after[d].ip \in now
  BY <1>1 DEF LeadersFit
<1>6. now \subseteq Addresses
  BY DEF LeadersFit
<1> QED BY <1>3, <1>4, <1>5, <1>6 DEF LeadersFit, after

(* The leader takes the address out of flight, and nobody waits for it.    *)
LEMMA LeaderLeaves ==
    ASSUME OnlineInv, NEW c \in Askers, Leads(askers[c]), NEW result \in Seq(ProviderAnswers),
           result # <<>> => result[1].ip = askers[c].ip /\ result[1].expiry > askers[c].now,
           NEW after,
           \A d \in Askers : askers[d].pc \in {"waiting", "woken"} =>
              \A i \in DOMAIN after : after[i].ip = askers[d].ip => after[i].expiry > askers[d].now
    PROVE  /\ CallsFit(Left(c, result), second, after)
           /\ LeadersFit(Left(c, result), inflight \ {askers[c].ip})
<1> DEFINE asks == Left(c, result)
           ip == askers[c].ip
<1>1. /\ DOMAIN askers = Askers /\ \A d \in Askers : CallFits(askers[d], second, answers)
      /\ LeadersFit(askers, inflight)
  BY DEF OnlineInv, CallsFit
<1>2. \A d \in Askers : askers[d] \in OnlineCalls
  BY <1>1 DEF CallFits
<1>3. DOMAIN asks = Askers
  BY DEF Left
<1>4. asks[c] \in OnlineCalls /\ asks[c].pc = "done" /\ asks[c].ip = ip
      /\ asks[c].now = askers[c].now /\ asks[c].told = askers[c].told /\ asks[c].result = result
  <2>1. asks[c] = [askers[c] EXCEPT !.pc = "done", !.result = result]
    BY DEF Left
  <2> HIDE DEF asks, ip
  <2> QED BY <1>2, <2>1 DEF OnlineCalls, ip
<1>5. ASSUME NEW d \in Askers, d # c
      PROVE  /\ asks[d] \in OnlineCalls /\ asks[d].ip = askers[d].ip /\ asks[d].now = askers[d].now
             /\ asks[d].told = askers[d].told /\ asks[d].result = askers[d].result
             /\ asks[d].pc = IF askers[d].pc = "waiting" /\ askers[d].ip = ip THEN "woken"
                             ELSE askers[d].pc
  <2>1. asks[d] = IF askers[d].pc = "waiting" /\ askers[d].ip = ip
                  THEN [askers[d] EXCEPT !.pc = "woken"] ELSE askers[d]
    BY <1>5 DEF Left
  <2> HIDE DEF asks, ip
  <2>2. CASE askers[d].pc = "waiting" /\ askers[d].ip = ip
    BY <1>2, <2>1, <2>2 DEF OnlineCalls
  <2>3. CASE ~(askers[d].pc = "waiting" /\ askers[d].ip = ip)
    BY <1>2, <2>1, <2>3
  <2> QED BY <2>2, <2>3
<1> HIDE DEF asks, ip
<1>6. CallFits(asks[c], second, after)
  BY <1>1, <1>4 DEF CallFits, Leads, ip
<1>7. ASSUME NEW d \in Askers, d # c PROVE CallFits(asks[d], second, after)
  <2>1. CallFits(askers[d], second, answers)
    BY <1>1
  <2>2. CASE askers[d].pc = "waiting" /\ askers[d].ip = ip
    BY <1>5, <1>7, <2>1, <2>2 DEF CallFits, Leads
  <2>3. CASE ~(askers[d].pc = "waiting" /\ askers[d].ip = ip)
    BY <1>5, <1>7, <2>1, <2>3 DEF CallFits, Leads
  <2> QED BY <2>2, <2>3
<1>8. LeadersFit(asks, inflight \ {ip})
  <2>1. ~Leads(asks[c]) /\ asks[c].pc # "waiting"
    BY <1>4 DEF Leads
  <2>2. \A d \in Askers : d # c => (Leads(asks[d]) <=> Leads(askers[d])) /\ asks[d].ip = askers[d].ip
    BY <1>5 DEF Leads
  <2>3. \A d \in Askers : d # c /\ Leads(askers[d]) => askers[d].ip # ip
    BY <1>1 DEF LeadersFit, ip
  <2>4. \A d \in Askers : asks[d].pc = "waiting" => d # c /\ askers[d].pc = "waiting" /\ askers[d].ip # ip
    BY <1>5, <2>1
  <2>5. ASSUME NEW a \in inflight \ {ip} PROVE \E d \in Askers : Leads(asks[d]) /\ asks[d].ip = a
    BY <1>1, <2>2 DEF LeadersFit, ip
  <2>6. \A d, e \in Askers : Leads(asks[d]) /\ Leads(asks[e]) /\ asks[d].ip = asks[e].ip => d = e
    BY <1>1, <2>1, <2>2 DEF LeadersFit
  <2>7. \A d \in Askers : Leads(asks[d]) \/ asks[d].pc = "waiting" => asks[d].ip \in inflight \ {ip}
    BY <1>1, <2>1, <2>2, <2>3, <2>4 DEF LeadersFit
  <2>8. inflight \ {ip} \subseteq Addresses
    BY <1>1 DEF LeadersFit
  <2> QED BY <2>5, <2>6, <2>7, <2>8 DEF LeadersFit
<1> QED BY <1>3, <1>6, <1>7, <1>8 DEF CallsFit, asks, ip

LEMMA OnlineFacts ==
    ASSUME OnlineInv, NEW c \in Askers
    PROVE  /\ CallFits(askers[c], second, answers) /\ askers[c] \in OnlineCalls
           /\ askers[c].now \in Nat /\ askers[c].told \in Nat
           /\ askers[c].told <= askers[c].now + Timeout
           /\ askers[c].result \in Seq(ProviderAnswers)
           /\ second \in Nat /\ DOMAIN askers = Askers
           /\ askers[c].pc \in {"idle", "done", "waiting", "woken", "leading", "cleared", "asking",
                                 "storing"}
           /\ Asking(c) => Leads(askers[c]) /\ askers[c].pc = "asking"
<1>1. CallFits(askers[c], second, answers) /\ second \in Nat /\ DOMAIN askers = Askers
  BY DEF OnlineInv, CallsFit
<1>2. askers[c] \in OnlineCalls
  BY <1>1 DEF CallFits
<1>3. askers[c].told <= askers[c].now + Timeout
  BY <1>1 DEF CallFits
<1> QED BY <1>1, <1>2, <1>3, CallFacts DEF Asking, Leads

(* One asker moves, and answers may go.                                    *)
LEMMA OneAskerMoves ==
    ASSUME OnlineInv, NEW c \in Askers, NEW r, NEW after, OnlyFrom(after, answers),
           CallFits(r, second, after)
    PROVE  CallsFit([askers EXCEPT ![c] = r], second, after)
<1>1. \A d \in Askers : CallFits(askers[d], second, after)
  BY OnlineFacts, CallStaysWith
<1>2. DOMAIN askers = Askers
  BY OnlineFacts
<1> QED BY <1>1, <1>2 DEF CallsFit

LEMMA CallKeepsOnline ==
    ASSUME OnlineInv, NEW c \in Askers, NEW ip \in Addresses, Call(c, ip)
    PROVE  OnlineInv'
<1> DEFINE call == [NoAsk EXCEPT !.ip = ip, !.now = second]
           good == Entries(ip) # {} /\ TheEntry(ip).expiry > second
<1>1. /\ askers[c].pc = "idle" /\ UNCHANGED <<second, breaker, asked, paused>>
      /\ second \in Nat /\ AnswersFit(answers) /\ LeadersFit(askers, inflight) /\ PauseFits
      /\ DOMAIN askers = Askers /\ ~Leads(askers[c])
  BY OnlineFacts DEF Call, OnlineInv, Leads
<1>2. /\ AnswersFit(EntriesBut(ip)) /\ OnlyFrom(EntriesBut(ip), answers)
      /\ \A i \in DOMAIN EntriesBut(ip) : EntriesBut(ip)[i].ip # ip
      /\ Entries(ip) # {} => Len(EntriesBut(ip)) < Len(answers)
  BY <1>1, AnswerTaken
<1>3. /\ call \in [pc : {"idle"}, ip : Addresses, now : Nat, told : Nat, result : Seq(ProviderAnswers)]
      /\ call.ip = ip /\ call.now = second /\ call.result = <<>> /\ call.told <= second + Timeout
  <2> DEFINE z == 0
  <2>1. NoAsk = [pc |-> "idle", ip |-> z, now |-> z, told |-> z, result |-> <<>>]
    BY DEF NoAsk
  <2>2. z \in Nat /\ <<>> \in Seq(ProviderAnswers) /\ z <= second + Timeout
    BY <1>1, GeoOnlineAssumption
  <2> HIDE DEF z
  <2>3. /\ NoAsk \in [pc : {"idle"}, ip : {z}, now : {z}, told : {z}, result : Seq(ProviderAnswers)]
        /\ NoAsk.result = <<>> /\ NoAsk.told = z
    BY <2>1, <2>2
  <2>4. call.told = z
    BY <2>1
  <2> QED BY <1>1, <2>2, <2>3, <2>4
<1>4. second <= second /\ second <= second + Timeout
  BY <1>1, GeoOnlineAssumption
<1>5. CASE good
  <2> DEFINE e == TheEntry(ip)
             r == [call EXCEPT !.pc = "done", !.result = <<e>>]
  <2>1. /\ answers' = Append(EntriesBut(ip), e) /\ askers' = [askers EXCEPT ![c] = r]
        /\ inflight' = inflight
    BY <1>5 DEF Call
  <2>2. /\ e \in ProviderAnswers /\ e.ip = ip /\ e.expiry > second
        /\ \E j \in DOMAIN answers : answers[j] = e
    <3>1. PlaceOf(ip) \in DOMAIN answers /\ answers[PlaceOf(ip)].ip = ip
      BY <1>5 DEF PlaceOf, Entries
    <3>2. answers[PlaceOf(ip)] \in ProviderAnswers
      BY <1>1, <3>1, AnswerFacts DEF AnswersFit
    <3> QED BY <1>5, <3>1, <3>2 DEF TheEntry
  <2> HIDE DEF e
  <2>3. /\ answers' \in Seq(ProviderAnswers) /\ Len(answers') = Len(EntriesBut(ip)) + 1
        /\ \A i, j \in DOMAIN answers' : answers'[i].ip = answers'[j].ip => i = j
        /\ \A i \in DOMAIN answers' :
             answers'[i] = e \/ \E j \in DOMAIN EntriesBut(ip) : EntriesBut(ip)[j] = answers'[i]
    <3>1. \A i \in DOMAIN EntriesBut(ip) : EntriesBut(ip)[i].ip # e.ip
      BY <1>2, <2>2
    <3> QED BY <1>2, <2>1, <2>2, <3>1, AnswerAdded
  <2>4. AnswersFit(answers')
    <3>1. Len(answers') <= Len(answers) /\ Len(answers) <= CacheSize
      <4>1. Len(answers) \in Nat /\ Len(EntriesBut(ip)) \in Nat /\ Len(answers) <= CacheSize
        BY <1>1, <1>2 DEF AnswersFit
      <4> QED BY <1>2, <1>5, <2>3, <4>1
    <3>2. Len(answers) \in Nat /\ Len(answers') \in Nat /\ CacheSize \in Nat
      BY <1>1, <2>3, GeoOnlineAssumption DEF AnswersFit
    <3>3. Len(answers') <= CacheSize
      BY <3>1, <3>2
    <3> QED BY <2>3, <3>3 DEF AnswersFit
  <2>5. OnlyFrom(answers', answers)
    BY <1>2, <2>2, <2>3 DEF OnlyFrom
  <2>6. /\ r \in OnlineCalls /\ r.pc = "done" /\ r.ip = ip /\ r.now = second /\ r.result = <<e>>
        /\ r.told <= second + Timeout
    <3>1. <<e>> \in Seq(ProviderAnswers)
      BY <2>2
    <3> QED BY <1>3, <3>1 DEF OnlineCalls
  <2> HIDE DEF r
  <2>7. r.result[1] = e
    BY <2>6
  <2>8. CallFits(r, second, answers')
    BY <1>4, <2>2, <2>6, <2>7 DEF CallFits, Leads
  <2>9. CallsFit(askers', second, answers')
    BY <2>1, <2>5, <2>8, OneAskerMoves
  <2>10. LeadersFit(askers', inflight')
    <3>1. ~Leads(r) /\ r.pc # "waiting"
      BY <2>6 DEF Leads
    <3> QED BY <1>1, <2>1, <3>1, LeadersStay
  <2> QED BY <1>1, <2>4, <2>9, <2>10 DEF OnlineInv, PauseFits
<1>6. CASE ~good
  <2> DEFINE p == IF ip \in inflight THEN "waiting" ELSE "leading"
             r == [call EXCEPT !.pc = p]
  <2>1. /\ answers' = EntriesBut(ip) /\ askers' = [askers EXCEPT ![c] = r]
        /\ inflight' = inflight \union {ip}
    BY <1>6 DEF Call
  <2>2. p \in {"waiting", "leading"} /\ (p = "waiting" <=> ip \in inflight)
    OBVIOUS
  <2> HIDE DEF p, call
  <2>3. /\ r \in OnlineCalls /\ r.pc = p /\ r.ip = ip /\ r.now = second /\ r.result = <<>>
        /\ r.told <= second + Timeout
    BY <1>3, <2>2 DEF OnlineCalls
  <2> HIDE DEF r
  <2>4. CallFits(r, second, answers')
    BY <1>2, <1>4, <2>1, <2>2, <2>3 DEF CallFits, Leads
  <2>5. CallsFit(askers', second, answers')
    BY <1>2, <2>1, <2>4, OneAskerMoves
  <2>6. LeadersFit(askers', inflight')
    <3>1. CASE ip \in inflight
      <4>1. inflight' = inflight /\ ~Leads(r) /\ r.ip \in inflight
        BY <2>1, <2>2, <2>3, <3>1 DEF Leads
      <4>2. /\ Leads(r) <=> Leads(askers[c])
            /\ Leads(r) => r.ip = askers[c].ip
            /\ r.pc = "waiting" => r.ip \in inflight
        BY <1>1, <4>1
      <4>3. LeadersFit([askers EXCEPT ![c] = r], inflight)
        BY <1>1, <4>2, LeadersStay
      <4> QED BY <2>1, <4>1, <4>3
    <3>2. CASE ip \notin inflight
      <4>1. inflight' = inflight \union {r.ip} /\ Leads(r) /\ r.ip \notin inflight /\ r.ip \in Addresses
        BY <2>1, <2>2, <2>3, <3>2 DEF Leads
      <4>2. LeadersFit([askers EXCEPT ![c] = r], inflight \union {r.ip})
        BY <1>1, <4>1, LeaderEnters
      <4> QED BY <2>1, <4>1, <4>2
    <3> QED BY <3>1, <3>2
  <2> QED BY <1>1, <1>2, <2>1, <2>5, <2>6 DEF OnlineInv, PauseFits
<1> QED BY <1>5, <1>6

LEMMA ReadAfterWaitKeepsOnline ==
    ASSUME OnlineInv, NEW c \in Askers, ReadAfterWait(c)
    PROVE  OnlineInv'
<1> DEFINE ip == askers[c].ip
           result == IF Entries(ip) = {} THEN <<>> ELSE <<TheEntry(ip)>>
           r == [askers[c] EXCEPT !.pc = "done", !.result = result]
<1>1. /\ askers[c].pc \in {"woken", "waiting"} /\ askers' = [askers EXCEPT ![c] = r]
      /\ UNCHANGED <<second, answers, inflight, breaker, asked, paused>>
      /\ AnswersFit(answers) /\ LeadersFit(askers, inflight) /\ DOMAIN askers = Askers
      /\ CallFits(askers[c], second, answers) /\ askers[c] \in OnlineCalls
  BY OnlineFacts DEF ReadAfterWait, Reply, OnlineInv
<1>2. /\ result \in Seq(ProviderAnswers)
      /\ result # <<>> => result[1].ip = ip /\ result[1].expiry > askers[c].now
  <2>1. CASE Entries(ip) = {}
    BY <2>1
  <2>2. CASE Entries(ip) # {}
    <3>1. PlaceOf(ip) \in DOMAIN answers /\ answers[PlaceOf(ip)].ip = ip
      BY <2>2 DEF PlaceOf, Entries
    <3>2. answers[PlaceOf(ip)] \in ProviderAnswers
      BY <1>1, <3>1, AnswerFacts DEF AnswersFit
    <3>3. answers[PlaceOf(ip)].expiry > askers[c].now
      BY <1>1, <3>1 DEF CallFits
    <3> DEFINE e == answers[PlaceOf(ip)]
    <3>4. result = <<e>>
      BY <2>2 DEF TheEntry
    <3> HIDE DEF e, result
    <3>5. result[1] = e /\ result \in Seq(ProviderAnswers)
      BY <3>2, <3>4 DEF e
    <3> QED BY <3>1, <3>3, <3>5 DEF e
  <2> QED BY <2>1, <2>2
<1> HIDE DEF result
<1>3. /\ r \in OnlineCalls /\ r.pc = "done" /\ r.ip = ip /\ r.now = askers[c].now
      /\ r.told = askers[c].told /\ r.result = result
  BY <1>1, <1>2 DEF OnlineCalls
<1> HIDE DEF r
<1>4. CallFits(r, second, answers)
  BY <1>1, <1>2, <1>3 DEF CallFits, Leads
<1>5. OnlyFrom(answers, answers)
  BY DEF OnlyFrom
<1>6. CallsFit(askers', second, answers)
  BY <1>1, <1>4, <1>5, OneAskerMoves
<1>7. LeadersFit(askers', inflight)
  <2>1. ~Leads(r) /\ r.pc # "waiting" /\ ~Leads(askers[c])
    BY <1>1, <1>3 DEF Leads
  <2> QED BY <1>1, <2>1, LeadersStay
<1> QED BY <1>1, <1>6, <1>7 DEF OnlineInv, PauseFits

LEMMA CallsKeep ==
    ASSUME OnlineInv, NEW c \in Askers, NEW r, CallFits(r, second, answers),
           Leads(r) <=> Leads(askers[c]), Leads(r) => r.ip = askers[c].ip, r.pc # "waiting"
    PROVE  /\ CallsFit([askers EXCEPT ![c] = r], second, answers)
           /\ LeadersFit([askers EXCEPT ![c] = r], inflight)
<1>1. OnlyFrom(answers, answers)
  BY DEF OnlyFrom
<1>2. CallsFit([askers EXCEPT ![c] = r], second, answers)
  BY <1>1, OneAskerMoves
<1>3. DOMAIN askers = Askers /\ LeadersFit(askers, inflight)
  BY OnlineFacts DEF OnlineInv
<1>4. LeadersFit([askers EXCEPT ![c] = r], inflight)
  BY <1>3, LeadersStay
<1> QED BY <1>2, <1>4

(* Without an answer nothing is stored, and what is stored stays good.     *)
LEMMA LeavesEmpty ==
    ASSUME OnlineInv, NEW c \in Askers, Leads(askers[c])
    PROVE  /\ CallsFit(Left(c, <<>>), second, answers)
           /\ LeadersFit(Left(c, <<>>), inflight \ {askers[c].ip})
<1> DEFINE none == <<>>
<1>1. none \in Seq(ProviderAnswers) /\ none = <<>>
  OBVIOUS
<1>2. \A d \in Askers : askers[d].pc \in {"waiting", "woken"} =>
        \A i \in DOMAIN answers : answers[i].ip = askers[d].ip => answers[i].expiry > askers[d].now
  BY OnlineFacts DEF CallFits
<1> HIDE DEF none
<1>3. /\ CallsFit(Left(c, none), second, answers)
      /\ LeadersFit(Left(c, none), inflight \ {askers[c].ip})
  BY <1>1, <1>2, LeaderLeaves
<1> QED BY <1>1, <1>3

LEMMA PassBreakerKeepsOnline ==
    ASSUME OnlineInv, NEW c \in Askers, PassBreaker(c)
    PROVE  OnlineInv'
<1>1. /\ askers[c].pc = "leading" /\ Leads(askers[c])
      /\ UNCHANGED <<second, answers, breaker, paused>>
      /\ AnswersFit(answers) /\ PauseFits /\ second \in Nat
  BY DEF PassBreaker, OnlineInv, Leads
<1>2. CASE Blocked(askers[c].now)
  <2>1. askers' = Left(c, <<>>) /\ inflight' = inflight \ {askers[c].ip}
    BY <1>2 DEF PassBreaker, Leave
  <2> QED BY <1>1, <2>1, LeavesEmpty DEF OnlineInv, PauseFits
<1>3. CASE ~Blocked(askers[c].now)
  <2> DEFINE r == [askers[c] EXCEPT !.pc = "cleared", !.told = paused]
  <2>1. paused \in Nat /\ paused <= askers[c].now + Timeout
    <3>1. /\ paused \in Nat /\ askers[c].now \in Nat /\ Timeout \in Nat
          /\ paused # 0 => breaker.until \in Nat /\ paused <= breaker.until + Timeout
      BY <1>1, OnlineFacts, GeoOnlineAssumption DEF PauseFits
    <3>2. ~(breaker.until > askers[c].now)
      BY <1>3 DEF Blocked
    <3> QED BY <3>1, <3>2
  <2>2. askers' = [askers EXCEPT ![c] = r] /\ inflight' = inflight
    BY <1>3 DEF PassBreaker
  <2>3. CallFits(askers[c], second, answers) /\ askers[c] \in OnlineCalls
    BY OnlineFacts
  <2>4. /\ r \in OnlineCalls /\ r.pc = "cleared" /\ r.ip = askers[c].ip /\ r.now = askers[c].now
        /\ r.told = paused /\ r.result = askers[c].result
    BY <2>1, <2>3 DEF OnlineCalls
  <2> HIDE DEF r
  <2>5. CallFits(r, second, answers) /\ Leads(r)
    BY <1>1, <2>1, <2>3, <2>4 DEF CallFits, Leads
  <2>6. /\ CallsFit([askers EXCEPT ![c] = r], second, answers)
        /\ LeadersFit([askers EXCEPT ![c] = r], inflight)
    BY <1>1, <2>4, <2>5, CallsKeep
  <2> QED BY <1>1, <2>2, <2>6 DEF OnlineInv, PauseFits
<1> QED BY <1>2, <1>3

LEMMA SendRequestKeepsOnline ==
    ASSUME OnlineInv, NEW c \in Askers, SendRequest(c)
    PROVE  OnlineInv'
<1> DEFINE r == [askers[c] EXCEPT !.pc = "asking"]
<1>1. /\ askers[c].pc = "cleared" /\ Leads(askers[c]) /\ askers' = [askers EXCEPT ![c] = r]
      /\ UNCHANGED <<second, answers, inflight, breaker, paused>>
      /\ AnswersFit(answers) /\ PauseFits /\ second \in Nat
  BY DEF SendRequest, OnlineInv, Leads
<1>2. CallFits(askers[c], second, answers) /\ askers[c] \in OnlineCalls
  BY OnlineFacts
<1>3. /\ r \in OnlineCalls /\ r.pc = "asking" /\ r.ip = askers[c].ip /\ r.now = askers[c].now
      /\ r.told = askers[c].told /\ r.result = askers[c].result
  BY <1>2 DEF OnlineCalls
<1> HIDE DEF r
<1>4. CallFits(r, second, answers) /\ Leads(r)
  BY <1>1, <1>2, <1>3 DEF CallFits, Leads
<1>5. /\ CallsFit([askers EXCEPT ![c] = r], second, answers)
      /\ LeadersFit([askers EXCEPT ![c] = r], inflight)
  BY <1>1, <1>3, <1>4, CallsKeep
<1> QED BY <1>1, <1>5 DEF OnlineInv, PauseFits

LEMMA FailureKeepsOnline ==
    ASSUME OnlineInv, NEW c \in Askers,
           NoAnswer(c) \/ \E pause \in Pauses : Throttled(c, pause)
    PROVE  OnlineInv'
<1>1. /\ Leads(askers[c]) /\ askers' = Left(c, <<>>) /\ inflight' = inflight \ {askers[c].ip}
      /\ UNCHANGED <<second, answers, asked>>
      /\ AnswersFit(answers) /\ PauseFits /\ second \in Nat
  BY OnlineFacts DEF NoAnswer, Throttled, Leave, OnlineInv
<1>2. PauseFits'
  <2>1. CASE NoAnswer(c)
    <3> DEFINE z == 0
               u == askers[c].now + BackoffOf(breaker.failures + 1)
               n == breaker.failures + 1
    <3>1. breaker' = [until |-> u, failures |-> n] /\ paused' = 0
      BY <2>1 DEF NoAnswer
    <3> HIDE DEF u, n
    <3>2. breaker' = [until |-> breaker'.until, failures |-> breaker'.failures]
      BY <3>1
    <3> QED BY <3>1, <3>2 DEF PauseFits
  <2>2. CASE \E pause \in Pauses : Throttled(c, pause)
    <3>1. PICK pause \in Pauses : Throttled(c, pause)
      BY <2>2
    <3> DEFINE u == askers[c].now + pause
    <3>2. u \in Nat /\ second + pause \in Nat /\ second + pause <= u + Timeout
      <4>1. second \in Nat /\ askers[c].now \in Nat /\ pause \in Nat /\ Timeout \in Nat
        BY OnlineFacts, GeoOnlineAssumption
      <4>2. second <= askers[c].now + Timeout
        BY <1>1, OnlineFacts DEF CallFits
      <4> QED BY <4>1, <4>2
    <3>3. breaker' = [breaker EXCEPT !.until = u] /\ paused' = second + pause
      BY <3>1 DEF Throttled
    <3> HIDE DEF u
    <3>4. /\ breaker'.until = u
          /\ breaker' = [until |-> breaker'.until, failures |-> breaker'.failures]
      BY <1>1, <3>3 DEF PauseFits
    <3> QED BY <3>2, <3>3, <3>4 DEF PauseFits
  <2> QED BY <2>1, <2>2
<1> QED BY <1>1, <1>2, LeavesEmpty DEF OnlineInv

(* An answer is good for longer than a request may take.                   *)
LEMMA AskAnsweredKeepsOnline ==
    ASSUME OnlineInv, NEW c \in Askers, NEW found \in BOOLEAN, AskAnswered(c, found)
    PROVE  OnlineInv'
<1> DEFINE x == askers[c].now + (IF found THEN Ttl ELSE NegativeTtl)
           e == [ip |-> askers[c].ip, found |-> found, asked |-> askers[c].now, expiry |-> x]
           r == [askers[c] EXCEPT !.pc = "storing", !.result = <<e>>]
<1>1. /\ Leads(askers[c]) /\ breaker' = NoBreaker /\ paused' = 0
      /\ UNCHANGED <<second, answers, inflight, asked>>
      /\ AnswersFit(answers) /\ second \in Nat
      /\ CallFits(askers[c], second, answers) /\ askers[c] \in OnlineCalls /\ askers[c].now \in Nat
      /\ askers[c].pc = "asking"
  BY OnlineFacts DEF AskAnswered, OnlineInv
<1>2. askers' = [askers EXCEPT ![c] = r]
  BY DEF AskAnswered
<1>3. x \in Nat /\ x > askers[c].now + Timeout
  BY <1>1, GeoOnlineAssumption
<1> HIDE DEF x
<1>4. e \in ProviderAnswers /\ e.ip = askers[c].ip /\ e.expiry = x
  BY <1>1, <1>3 DEF ProviderAnswers, CallFits
<1> HIDE DEF e
<1>5. <<e>> \in Seq(ProviderAnswers) /\ <<e>>[1] = e /\ <<e>> # <<>>
  BY <1>4
<1>6. /\ r \in OnlineCalls /\ r.pc = "storing" /\ r.ip = askers[c].ip /\ r.now = askers[c].now
      /\ r.told = askers[c].told /\ r.result = <<e>>
  BY <1>1, <1>5 DEF OnlineCalls
<1> HIDE DEF r
<1>7. CallFits(r, second, answers) /\ Leads(r)
  BY <1>1, <1>3, <1>4, <1>5, <1>6 DEF CallFits, Leads
<1>8. /\ CallsFit([askers EXCEPT ![c] = r], second, answers)
      /\ LeadersFit([askers EXCEPT ![c] = r], inflight)
  BY <1>1, <1>6, <1>7, CallsKeep
<1>9. PauseFits'
  <2> DEFINE z == 0
  <2>1. breaker' = [until |-> z, failures |-> z]
    BY <1>1 DEF NoBreaker
  <2> HIDE DEF z
  <2>2. breaker' = [until |-> breaker'.until, failures |-> breaker'.failures]
    BY <2>1
  <2> QED BY <1>1, <2>2 DEF PauseFits
<1> QED BY <1>1, <1>2, <1>8, <1>9 DEF OnlineInv

(* Who waits has called before the leader's time was over.                 *)
LEMMA StoreKeepsOnline ==
    ASSUME OnlineInv, NEW c \in Askers, Store(c)
    PROVE  OnlineInv'
<1> DEFINE result == askers[c].result
           e == result[1]
<1>1. /\ askers[c].pc = "storing" /\ Leads(askers[c]) /\ answers' = Stored(e)
      /\ askers' = Left(c, result) /\ inflight' = inflight \ {askers[c].ip}
      /\ UNCHANGED <<second, breaker, asked, paused>>
      /\ AnswersFit(answers) /\ PauseFits /\ second \in Nat
      /\ CallFits(askers[c], second, answers) /\ askers[c] \in OnlineCalls /\ askers[c].now \in Nat
  BY OnlineFacts DEF Store, Leave, OnlineInv, Leads
<1>2. /\ result \in Seq(ProviderAnswers) /\ result # <<>> /\ e \in ProviderAnswers
      /\ e.ip = askers[c].ip /\ e.expiry \in Nat /\ e.expiry > askers[c].now + Timeout
      /\ second <= askers[c].now + Timeout
  <2>1. /\ result \in Seq(ProviderAnswers)
        /\ result # <<>> => e \in ProviderAnswers /\ e.expiry \in Nat
    BY <1>1, CallFacts
  <2>2. /\ result # <<>> /\ e.ip = askers[c].ip /\ e.expiry > askers[c].now + Timeout
        /\ second <= askers[c].now + Timeout
    BY <1>1 DEF CallFits
  <2> QED BY <2>1, <2>2
<1>3. e.expiry > second /\ e.expiry > askers[c].now
  <2> DEFINE x == e.expiry
             n == askers[c].now
  <2>1. /\ x \in Nat /\ n \in Nat /\ second \in Nat /\ Timeout \in Nat
        /\ x > n + Timeout /\ second <= n + Timeout
    BY <1>1, <1>2, GeoOnlineAssumption
  <2> HIDE DEF x, n
  <2>2. x > second /\ x > n
    BY <2>1
  <2> QED BY <2>2 DEF x, n
<1> HIDE DEF e
<1>4. /\ AnswersFit(Stored(e))
      /\ \A i \in DOMAIN Stored(e) :
           Stored(e)[i] = e \/ \E j \in DOMAIN answers : answers[j] = Stored(e)[i]
  BY <1>1, <1>2, AnswerStored
<1>5. ASSUME NEW d \in Askers, askers[d].pc \in {"waiting", "woken"},
             NEW i \in DOMAIN Stored(e), Stored(e)[i].ip = askers[d].ip
      PROVE  Stored(e)[i].expiry > askers[d].now
  <2>1. CallFits(askers[d], second, answers) /\ askers[d].now \in Nat
    BY OnlineFacts
  <2>2. CASE Stored(e)[i] = e
    <3>1. askers[d].now <= second
      BY <2>1 DEF CallFits
    <3> QED BY <1>1, <1>2, <1>3, <2>1, <2>2, <3>1
  <2>3. CASE \E j \in DOMAIN answers : answers[j] = Stored(e)[i]
    BY <1>5, <2>1, <2>3 DEF CallFits
  <2> QED BY <1>4, <2>2, <2>3
<1>6. /\ CallsFit(Left(c, result), second, Stored(e))
      /\ LeadersFit(Left(c, result), inflight \ {askers[c].ip})
  <2>1. result # <<>> => result[1].ip = askers[c].ip /\ result[1].expiry > askers[c].now
    BY <1>2, <1>3 DEF e
  <2> HIDE DEF result
  <2> QED BY <1>1, <1>2, <1>5, <2>1, LeaderLeaves
<1> QED BY <1>1, <1>4, <1>6 DEF OnlineInv, PauseFits

LEMMA EndCallKeepsOnline ==
    ASSUME OnlineInv, NEW c \in Askers, EndCall(c)
    PROVE  OnlineInv'
<1>1. /\ askers[c].pc = "done" /\ askers' = [askers EXCEPT ![c] = NoAsk]
      /\ UNCHANGED <<second, answers, inflight, breaker, asked, paused>>
      /\ AnswersFit(answers) /\ PauseFits /\ second \in Nat
  BY DEF EndCall, OnlineInv
<1>2. CallFits(NoAsk, second, answers) /\ ~Leads(NoAsk) /\ NoAsk.pc # "waiting"
  BY <1>1, NothingAsked
<1>3. ~Leads(askers[c])
  BY <1>1 DEF Leads
<1>4. /\ CallsFit([askers EXCEPT ![c] = NoAsk], second, answers)
      /\ LeadersFit([askers EXCEPT ![c] = NoAsk], inflight)
  BY <1>2, <1>3, CallsKeep
<1> QED BY <1>1, <1>4 DEF OnlineInv, PauseFits

LEMMA ElapseKeepsOnline ==
    ASSUME OnlineInv, Elapse
    PROVE  OnlineInv'
<1>1. /\ second' = second + 1 /\ second \in Nat
      /\ UNCHANGED <<answers, inflight, breaker, askers, asked, paused>>
      /\ \A c \in Askers : Leading(c) => second < askers[c].now + Timeout
  BY DEF Elapse, OnlineInv
<1>2. ASSUME NEW c \in Askers PROVE CallFits(askers[c], second + 1, answers)
  <2>1. CallFits(askers[c], second, answers) /\ askers[c].now \in Nat
    BY OnlineFacts
  <2>2. askers[c].now <= second + 1
    BY <1>1, <2>1 DEF CallFits
  <2>3. Leads(askers[c]) => second + 1 <= askers[c].now + Timeout
    <3>1. Leads(askers[c]) => second < askers[c].now + Timeout
      BY <1>1 DEF Leads, Leading
    <3> QED BY <1>1, <2>1, <3>1, GeoOnlineAssumption
  <2> QED BY <2>1, <2>2, <2>3 DEF CallFits
<1>3. CallsFit(askers, second + 1, answers)
  BY <1>2 DEF OnlineInv, CallsFit
<1>4. second + 1 \in Nat
  BY <1>1
<1> QED BY <1>1, <1>3, <1>4 DEF OnlineInv, PauseFits

LEMMA OnlineStep == OnlineInv /\ [OnlineNext]_onlineVars => OnlineInv'
<1> SUFFICES ASSUME OnlineInv, [OnlineNext]_onlineVars PROVE OnlineInv'
  OBVIOUS
<1>1. ASSUME NEW c \in Askers, \E ip \in Addresses : Call(c, ip) PROVE OnlineInv'
  BY <1>1, CallKeepsOnline
<1>2. ASSUME NEW c \in Askers,
             \/ ReadAfterWait(c) \/ PassBreaker(c) \/ SendRequest(c)
             \/ Store(c) \/ EndCall(c)
      PROVE  OnlineInv'
  BY <1>2, ReadAfterWaitKeepsOnline, PassBreakerKeepsOnline, SendRequestKeepsOnline,
     StoreKeepsOnline, EndCallKeepsOnline
<1>3. ASSUME NEW c \in Askers, NoAnswer(c) \/ \E pause \in Pauses : Throttled(c, pause)
      PROVE  OnlineInv'
  BY <1>3, FailureKeepsOnline
<1>4. ASSUME NEW c \in Askers, \E found \in BOOLEAN : AskAnswered(c, found) PROVE OnlineInv'
  BY <1>4, AskAnsweredKeepsOnline
<1>5. CASE Elapse
  BY <1>5, ElapseKeepsOnline
<1>6. CASE UNCHANGED onlineVars
  BY <1>6 DEF onlineVars, OnlineInv, PauseFits
<1> QED BY <1>1, <1>2, <1>3, <1>4, <1>5, <1>6 DEF OnlineNext

(* An address is asked by one caller at a time; who looks whether the      *)
(* provider may be asked was called when the pause it had named was over,  *)
(* but for what a request may take; everyone gets an answer that was good  *)
(* when they called, and no more are held than fit: for every number of    *)
(* callers and addresses, and any times in which a request is shorter than *)
(* an answer is good.                                                      *)
THEOREM OnlineIsKept == OnlineSpec => []OnlineKept
<1> QED BY OnlineStarts, OnlineStep, OnlineInvIsEnough, PTL DEF OnlineSpec

-----------------------------------------------------------------------------
(* A least number of a set of numbers, from the library's theorem that <   *)
(* is well-founded on them.                                                *)
Below == {p \in Nat \X Nat : p[1] < p[2]}

LEMMA BelowIsWellFounded == IsWellFoundedOn(Below, Nat)
<1>1. OpToRel(<, Nat) = Below
  BY Zenon DEF OpToRel, Below
<1> QED BY <1>1, NatLessThanWellFounded, Zenon

LEMMA LeastNumber ==
    ASSUME NEW some, some \subseteq Nat, some # {}
    PROVE  \E n \in some : \A m \in some : n <= m
<1>1. PICK n \in some : \A m \in some : ~(<<m, n>> \in Below)
  BY WFMin, BelowIsWellFounded
<1>2. \A m \in some : ~(m < n)
  BY <1>1 DEF Below
<1> QED BY <1>1, <1>2

-----------------------------------------------------------------------------
(* The window of requests                                                  *)

(* Times that do not go back, none of them to come.                        *)
TimesFit(s) ==
    /\ s \in Seq(Int) /\ \A i \in 1 .. Len(s) : s[i] <= moment
    /\ \A i, j \in 1 .. Len(s) : i <= j => s[i] <= s[j]

(* What was admitted and still counts is what the history ends with.       *)
Remembered(a, h) ==
    \A k \in 1 .. Len(a) :
       ~Expired(a[k]) => Len(a) - k < Len(h) /\ h[Len(h) - (Len(a) - k)] = a[k]

ToldFits(c) ==
    told[c] # 0 =>
       \/ /\ c \in Tracked /\ Len(hits[c]) >= limit.count
          /\ told[c] = hits[c][Len(hits[c]) - limit.count + 1] + limit.window
       \/ c \notin Tracked /\ told[c] <= moment

RateInv ==
    /\ moment \in Nat /\ limit \in Limits /\ since \in Nat /\ lastSweep \in Int
    /\ since <= moment /\ lastSweep <= moment
    /\ \A d \in Tracked : TimesFit(hits[d]) /\ Len(hits[d]) # 0
    /\ admitted \in [Clients -> Seq(Int)] /\ told \in [Clients -> Int]
    /\ \A c \in Clients : Remembered(admitted[c], History(c)) /\ ToldFits(c)
    /\ since < lastSweep =>
          \A d \in Tracked : hits[d][Len(hits[d])] > lastSweep - limit.window
    /\ BudgetKept

LEMMA LimitIsPositive ==
    ASSUME RateInv
    PROVE  limit.count \in Nat \ {0} /\ limit.window \in Nat \ {0} /\ moment \in Nat
  BY RateLimitAssumption DEF RateInv

(* The oldest that have expired are dropped: what is left has not expired, *)
(* and what is dropped has.                                                *)
LEMMA ExpiringFacts ==
    ASSUME RateInv, NEW s, s \in Seq(Int)
    PROVE  /\ Expiring(s) \in 0 .. Len(s)
           /\ \A i \in 1 .. Expiring(s) : Expired(s[i])
           /\ Expiring(s) < Len(s) => ~Expired(s[Expiring(s) + 1])
<1> DEFINE Stops == {n \in Nat : n < Len(s) => ~Expired(s[n + 1])}
<1>1. Len(s) \in Nat
  OBVIOUS
<1>2. Len(s) \in Stops
  BY <1>1
<1>3. PICK n \in Stops : \A m \in Stops : n <= m
  <2>1. Stops \subseteq Nat /\ Stops # {}
    BY <1>2
  <2> HIDE DEF Stops
  <2> QED BY <2>1, LeastNumber
<1>4. n \in 0 .. Len(s)
  BY <1>1, <1>2, <1>3
<1>5. ASSUME NEW i \in 1 .. n PROVE Expired(s[i])
  <2>1. i - 1 \in Nat /\ i - 1 < n /\ i - 1 < Len(s) /\ (i - 1) + 1 = i
    BY <1>1, <1>4, <1>5
  <2>2. i - 1 \notin Stops
    BY <1>3, <2>1
  <2> QED BY <2>1, <2>2
<1> QED BY <1>3, <1>4, <1>5 DEF Expiring

LEMMA HistoryFits ==
    ASSUME RateInv, NEW c
    PROVE  /\ TimesFit(History(c)) /\ Len(History(c)) \in Nat
           /\ Len(History(c)) = 0 => c \notin Tracked
<1>1. CASE c \in Tracked
  BY <1>1 DEF RateInv, History, TimesFit
<1>2. CASE c \notin Tracked
  BY <1>2 DEF RateInv, History, TimesFit
<1> QED BY <1>1, <1>2

LEMMA CountingFacts ==
    ASSUME RateInv, NEW c
    PROVE  LET h == History(c) n == Expiring(h) s == Counting(c) IN
           /\ n \in 0 .. Len(h) /\ Len(s) = Len(h) - n /\ s \in Seq(Int)
           /\ \A i \in 1 .. Len(s) : s[i] = h[n + i] /\ ~Expired(s[i])
           /\ \A i \in 1 .. n : Expired(h[i])
           /\ TimesFit(s)
<1> DEFINE h == History(c)
           n == Expiring(h)
           s == Counting(c)
<1>1. h \in Seq(Int) /\ TimesFit(h) /\ Len(h) \in Nat
  BY HistoryFits DEF TimesFit
<1>2. /\ n \in 0 .. Len(h) /\ (\A i \in 1 .. n : Expired(h[i]))
      /\ n < Len(h) => ~Expired(h[n + 1])
  BY <1>1, ExpiringFacts
<1>3. s = SubSeq(h, n + 1, Len(h))
  BY DEF Counting
<1> HIDE DEF h, n, s
<1>4. /\ Len(s) = Len(h) - n /\ s \in Seq(Int)
      /\ \A i \in 1 .. Len(s) : s[i] = h[n + i]
  <2>1. n + 1 \in 1 .. Len(h) + 1 /\ Len(h) - (n + 1) + 1 = Len(h) - n
    BY <1>1, <1>2
  <2>2. \A i \in n + 1 .. Len(h) : h[i] \in Int
    BY <1>1, <1>2
  <2>3. s \in Seq(Int) /\ Len(s) = Len(h) - n
    <3>1. n + 1 \in Int /\ Len(h) \in Int
      BY <1>1, <1>2
    <3>2. s \in Seq(Int) /\ Len(s) = IF n + 1 <= Len(h) THEN Len(h) - (n + 1) + 1 ELSE 0
      BY <1>3, <2>2, <3>1, SubSeqProperties
    <3> QED BY <1>1, <1>2, <3>2
  <2>4. ASSUME NEW i \in 1 .. Len(h) - n PROVE s[i] = h[n + i]
    <3>1. s[i] = h[n + 1 + i - 1]
      BY <1>1, <1>2, <1>3, <2>1, SubSeqProperties
    <3>2. n + 1 + i - 1 = n + i
      BY <1>2
    <3> QED BY <3>1, <3>2
  <2> QED BY <2>3, <2>4
<1>5. ASSUME NEW i \in 1 .. Len(s) PROVE ~Expired(s[i])
  <2>1. n + 1 \in 1 .. Len(h) /\ n + i \in 1 .. Len(h) /\ n + 1 <= n + i
    BY <1>1, <1>2, <1>4, SMTT(60)
  <2>2. h[n + 1] <= h[n + i] /\ ~Expired(h[n + 1]) /\ h[n + 1] \in Int /\ h[n + i] \in Int
    BY <1>1, <1>2, <2>1 DEF TimesFit
  <2>3. s[i] = h[n + i]
    BY <1>4
  <2> QED BY <2>2, <2>3, LimitIsPositive DEF Expired
<1>6. TimesFit(s)
  <2>1. ASSUME NEW i \in 1 .. Len(s) PROVE n + i \in 1 .. Len(h) /\ s[i] = h[n + i]
    BY <1>1, <1>2, <1>4
  <2>2. ASSUME NEW i \in 1 .. Len(s), NEW j \in 1 .. Len(s), i <= j
        PROVE  s[i] <= s[j] /\ s[i] <= moment
    <3>1. n + i <= n + j
      BY <1>2, <2>2
    <3> QED BY <1>1, <2>1, <3>1 DEF TimesFit
  <2> QED BY <1>4, <2>2 DEF TimesFit
<1> QED BY <1>2, <1>4, <1>5, <1>6 DEF h, n, s

(* Who is dropped from the table has nothing left that counts.             *)
LEMMA DroppedIsIdle ==
    ASSUME RateInv, NEW c, NEW d \in Tracked, d \notin Remaining(c)
    PROVE  d # c /\ \A i \in 1 .. Len(hits[d]) : Expired(hits[d][i])
<1>1. Sweeps(c) /\ d \in Idling
  BY DEF Remaining
<1>2. d # c
  BY <1>1 DEF Sweeps
<1> DEFINE h == hits[d]
<1>3. TimesFit(h) /\ Len(h) # 0 /\ Len(h) \in Nat
  <2>1. TimesFit(h) /\ Len(h) # 0
    BY DEF RateInv
  <2>2. h \in Seq(Int)
    BY <2>1 DEF TimesFit
  <2> QED BY <2>1, <2>2, LenProperties
<1>4. h # <<>>
  <2>1. Len(<<>>) = 0
    OBVIOUS
  <2> HIDE DEF h
  <2> QED BY <1>3, <2>1
<1>5. Expired(h[Len(h)])
  BY <1>1, <1>4 DEF Idling
<1> HIDE DEF h
<1>6. ASSUME NEW i \in 1 .. Len(h) PROVE Expired(h[i])
  <2>1. Len(h) \in 1 .. Len(h) /\ i <= Len(h)
    BY <1>3
  <2>2. h[i] <= h[Len(h)] /\ h[i] \in Int /\ h[Len(h)] \in Int
    BY <1>3, <2>1 DEF TimesFit
  <2> QED BY <1>5, <2>2, LimitIsPositive DEF Expired
<1> QED BY <1>2, <1>6 DEF h

(* The table after a hit: the other clients of it stay as they were, or go *)
(* without a loss.                                                         *)
LEMMA OthersStay ==
    ASSUME RateInv, NEW c, UNCHANGED <<moment, limit, since>>,
           \A d \in Remaining(c) \ {c} : d \in Tracked' /\ hits'[d] = hits[d],
           Tracked' \ {c} = Remaining(c) \ {c},
           NEW d \in Clients, d # c, admitted'[d] = admitted[d], told'[d] = told[d]
    PROVE  Remembered(admitted[d], History(d))' /\ ToldFits(d)'
<1>1. \A s : Expired(s)' <=> Expired(s)
  BY DEF Expired
<1>2. CASE d \in Remaining(c)
  <2>1. d \in Tracked /\ d \in Tracked' /\ hits'[d] = hits[d]
    BY <1>2 DEF Remaining
  <2>2. History(d)' = History(d)
    BY <2>1 DEF History
  <2>3. Remembered(admitted[d], History(d)) /\ ToldFits(d)
    BY DEF RateInv
  <2> QED BY <1>1, <2>1, <2>2, <2>3 DEF Remembered, ToldFits, Expired
<1>3. CASE d \notin Tracked
  <2>1. d \notin Tracked'
    BY <1>3 DEF Remaining
  <2>2. History(d)' = History(d)
    BY <1>3, <2>1 DEF History
  <2>3. Remembered(admitted[d], History(d)) /\ ToldFits(d)
    BY DEF RateInv
  <2> QED BY <1>1, <1>3, <2>1, <2>2, <2>3 DEF Remembered, ToldFits, Expired
<1>4. CASE d \in Tracked /\ d \notin Remaining(c)
  <2>1. d \notin Tracked' /\ History(d) = hits[d] /\ History(d)' = <<>>
    BY <1>4 DEF Remaining, History
  <2> DEFINE h == hits[d]
             a == admitted[d]
  <2>2. /\ Remembered(a, h) /\ ToldFits(d) /\ TimesFit(h) /\ Len(h) \in Nat /\ a \in Seq(Int)
        /\ told[d] \in Int
    BY <1>4, <2>1 DEF RateInv, TimesFit
  <2>3. \A i \in 1 .. Len(h) : Expired(h[i])
    BY <1>4, DroppedIsIdle
  <2> HIDE DEF h
  <2>4. ASSUME NEW k \in 1 .. Len(a) PROVE Expired(a[k])
    <3> SUFFICES ASSUME ~Expired(a[k]) PROVE FALSE
      OBVIOUS
    <3>1. Len(a) - k < Len(h) /\ h[Len(h) - (Len(a) - k)] = a[k]
      BY <2>2 DEF Remembered
    <3>2. Len(a) \in Nat /\ Len(h) - (Len(a) - k) \in 1 .. Len(h)
      BY <2>2, <3>1, SMTT(60)
    <3> QED BY <2>3, <3>1, <3>2
  <2>5. Remembered(admitted[d], History(d))'
    BY <1>1, <2>4 DEF Remembered, Expired
  <2>6. told[d] # 0 => told[d] <= moment
    <3>1. CASE told[d] # 0
      <4>1. /\ Len(h) >= limit.count
            /\ told[d] = h[Len(h) - limit.count + 1] + limit.window
        BY <1>4, <2>2, <3>1 DEF ToldFits, h
      <4>2. Len(h) - limit.count + 1 \in 1 .. Len(h)
        BY <2>2, <4>1, LimitIsPositive
      <4>3. Expired(h[Len(h) - limit.count + 1]) /\ h[Len(h) - limit.count + 1] \in Int
        BY <2>2, <2>3, <4>2 DEF TimesFit
      <4> QED BY <4>1, <4>3, LimitIsPositive DEF Expired
    <3> QED BY <3>1
  <2>7. ToldFits(d)'
    BY <2>1, <2>6 DEF ToldFits
  <2> QED BY <2>5, <2>7
<1> QED BY <1>2, <1>3, <1>4

(* Who stays in the table has been there since the last sweep.             *)
LEMMA SweepHolds ==
    ASSUME RateInv, NEW c, Sweeping(c), UNCHANGED <<moment, limit, since>>,
           \A d \in Remaining(c) \ {c} : d \in Tracked' /\ hits'[d] = hits[d],
           Tracked' \ {c} = Remaining(c) \ {c},
           c \in Tracked' /\ since < lastSweep' => hits'[c][Len(hits'[c])] > lastSweep' - limit.window
    PROVE  /\ since' < lastSweep' =>
                \A d \in Tracked' : hits'[d][Len(hits'[d])] > lastSweep' - limit'.window
           /\ lastSweep' \in Int /\ lastSweep' <= moment'
<1>1. lastSweep' = (IF Sweeps(c) THEN moment ELSE lastSweep) /\ moment \in Int /\ lastSweep \in Int
  BY DEF Sweeping, RateInv
<1>2. ASSUME since < lastSweep', NEW d \in Remaining(c) \ {c}
      PROVE  hits[d][Len(hits[d])] > lastSweep' - limit.window
  <2>1. d \in Tracked /\ TimesFit(hits[d]) /\ Len(hits[d]) # 0
    BY <1>2 DEF RateInv, Remaining
  <2>2. CASE Sweeps(c)
    <3>1. d \notin Idling /\ hits[d] # <<>>
      BY <1>2, <2>1, <2>2 DEF Remaining
    <3>2. ~Expired(hits[d][Len(hits[d])]) /\ hits[d][Len(hits[d])] \in Int
      BY <2>1, <3>1 DEF Idling, TimesFit
    <3> QED BY <1>1, <2>2, <3>2, LimitIsPositive DEF Expired
  <2>3. CASE ~Sweeps(c)
    BY <1>1, <1>2, <2>1, <2>3 DEF RateInv
  <2> QED BY <2>2, <2>3
<1>3. ASSUME since' < lastSweep', NEW d \in Tracked'
      PROVE  hits'[d][Len(hits'[d])] > lastSweep' - limit'.window
  <2>1. CASE d = c
    BY <1>3, <2>1
  <2>2. CASE d # c
    <3>1. d \in Remaining(c) \ {c} /\ hits'[d] = hits[d]
      BY <1>3, <2>2
    <3> QED BY <1>2, <1>3, <3>1
  <2> QED BY <2>1, <2>2
<1>4. lastSweep' \in Int /\ lastSweep' <= moment'
  BY <1>1 DEF RateInv
<1> QED BY <1>3, <1>4

LEMMA KeptFacts ==
    ASSUME NEW c, NEW s, hits' = Kept(c, s)
    PROVE  /\ Tracked' = Remaining(c) \union {c} /\ hits'[c] = s
           /\ \A d \in Remaining(c) \ {c} : d \in Tracked' /\ hits'[d] = hits[d]
           /\ Tracked' \ {c} = Remaining(c) \ {c}
  BY DEF Kept, Tracked

(* A hit of one client.                                                    *)
LEMMA HitStep ==
    ASSUME RateInv, NEW c \in Clients, NEW s, TimesFit(s), Len(s) # 0,
           hits' = Kept(c, s), Sweeping(c), UNCHANGED <<moment, limit, since>>,
           since < lastSweep' => s[Len(s)] > lastSweep' - limit.window,
           admitted' \in [Clients -> Seq(Int)], told' \in [Clients -> Int],
           \A d \in Clients \ {c} : admitted'[d] = admitted[d] /\ told'[d] = told[d],
           Remembered(admitted'[c], s),
           told'[c] # 0 => Len(s) >= limit.count /\ told'[c] = s[Len(s) - limit.count + 1] + limit.window,
           BudgetKept'
    PROVE  RateInv'
<1>1. /\ Tracked' = Remaining(c) \union {c} /\ hits'[c] = s
      /\ \A d \in Remaining(c) \ {c} : d \in Tracked' /\ hits'[d] = hits[d]
      /\ Tracked' \ {c} = Remaining(c) \ {c}
  BY KeptFacts
<1>2. ASSUME NEW d \in Tracked' PROVE TimesFit(hits[d])' /\ Len(hits'[d]) # 0
  <2>1. TimesFit(hits'[d]) /\ Len(hits'[d]) # 0
    <3>1. CASE d = c
      BY <1>1, <3>1
    <3>2. CASE d # c
      <4>1. d \in Tracked /\ hits'[d] = hits[d]
        BY <1>1, <3>2 DEF Remaining
      <4> QED BY <4>1 DEF RateInv
    <3> QED BY <3>1, <3>2
  <2> QED BY <2>1 DEF TimesFit
<1>3. Remembered(admitted[c], History(c))' /\ ToldFits(c)'
  <2>1. c \in Tracked' /\ History(c)' = s
    BY <1>1 DEF History
  <2> QED BY <1>1, <2>1 DEF Remembered, ToldFits, Expired
<1>4. \A d \in Clients : Remembered(admitted[d], History(d))' /\ ToldFits(d)'
  <2>1. ASSUME NEW d \in Clients, d # c
        PROVE  Remembered(admitted[d], History(d))' /\ ToldFits(d)'
    BY <1>1, <2>1, OthersStay
  <2> QED BY <1>3, <2>1
<1>5. /\ since' < lastSweep' =>
           \A d \in Tracked' : hits'[d][Len(hits'[d])] > lastSweep' - limit'.window
      /\ lastSweep' \in Int /\ lastSweep' <= moment'
  BY <1>1, SweepHolds
<1>6. moment' \in Nat /\ limit' \in Limits /\ since' \in Nat /\ since' <= moment'
  BY DEF RateInv
<1> QED BY <1>2, <1>4, <1>5, <1>6 DEF RateInv

(* Nothing that counts is dropped from a history.                          *)
LEMMA CountingRemembers ==
    ASSUME RateInv, NEW c \in Clients
    PROVE  Remembered(admitted[c], Counting(c))
<1> DEFINE a == admitted[c]
           h == History(c)
           n == Expiring(h)
           s == Counting(c)
<1>1. /\ n \in 0 .. Len(h) /\ Len(s) = Len(h) - n
      /\ \A i \in 1 .. Len(s) : s[i] = h[n + i]
      /\ \A i \in 1 .. n : Expired(h[i])
  BY CountingFacts
<1>2. Len(h) \in Nat /\ a \in Seq(Int) /\ Remembered(a, h)
  BY HistoryFits DEF RateInv
<1> HIDE DEF a, h, n, s
<1>3. ASSUME NEW k \in 1 .. Len(a), ~Expired(a[k])
      PROVE  Len(a) - k < Len(s) /\ s[Len(s) - (Len(a) - k)] = a[k]
  <2> DEFINE p == Len(h) - (Len(a) - k)
  <2>1. Len(a) - k < Len(h) /\ h[p] = a[k] /\ Len(a) \in Nat
    BY <1>2, <1>3 DEF Remembered
  <2>2. p \in 1 .. Len(h) /\ p \notin 1 .. n
    BY <1>1, <1>2, <1>3, <2>1, SMTT(60)
  <2>3. p > n /\ Len(a) - k < Len(s) /\ Len(s) - (Len(a) - k) = p - n
    BY <1>1, <1>2, <2>1, <2>2, SMTT(60)
  <2>4. p - n \in 1 .. Len(s) /\ n + (p - n) = p
    BY <1>1, <1>2, <2>1, <2>3
  <2> HIDE DEF p
  <2>5. s[p - n] = h[p]
    BY <1>1, <2>4
  <2> QED BY <2>1, <2>3, <2>5
<1> QED BY <1>3 DEF Remembered, a, s

LEMMA Admitting ==
    ASSUME RateInv, NEW c \in Clients, Admit(c)
    PROVE  RateInv'
<1> DEFINE t == Counting(c)
           s == Append(t, moment)
           a == admitted[c]
           b == Append(a, moment)
<1>1. /\ Len(t) < limit.count /\ hits' = Kept(c, s)
      /\ admitted' = [admitted EXCEPT ![c] = b] /\ told' = [told EXCEPT ![c] = 0]
      /\ Sweeping(c) /\ UNCHANGED <<moment, limit, since>>
  BY DEF Admit, RateInv
<1>2. /\ moment \in Nat /\ limit.count \in Nat \ {0} /\ limit.window \in Nat \ {0}
      /\ lastSweep \in Int /\ lastSweep <= moment
  BY LimitIsPositive DEF RateInv
<1>3. TimesFit(t) /\ t \in Seq(Int) /\ Len(t) \in Nat /\ Remembered(a, t) /\ a \in Seq(Int)
  <2>1. TimesFit(t) /\ t \in Seq(Int)
    BY CountingFacts
  <2>2. Remembered(a, t)
    BY CountingRemembers
  <2>3. a \in Seq(Int)
    BY DEF RateInv
  <2>4. Len(t) \in Nat
    BY <2>1
  <2> QED BY <2>1, <2>2, <2>3, <2>4
<1>4. /\ s \in Seq(Int) /\ Len(s) = Len(t) + 1 /\ s[Len(t) + 1] = moment
      /\ \A i \in 1 .. Len(t) : s[i] = t[i]
  BY <1>2, <1>3
<1>5. /\ b \in Seq(Int) /\ Len(b) = Len(a) + 1 /\ b[Len(a) + 1] = moment
      /\ \A i \in 1 .. Len(a) : b[i] = a[i]
  BY <1>2, <1>3
<1> HIDE DEF t, s, a, b
<1>6. TimesFit(s) /\ Len(s) # 0
  <2>1. ASSUME NEW i \in 1 .. Len(s) PROVE s[i] <= moment /\ s[i] \in Int
    <3>1. CASE i = Len(t) + 1
      <4>1. s[i] = moment
        BY <1>4, <3>1
      <4> QED BY <1>2, <4>1
    <3>2. CASE i \in 1 .. Len(t)
      <4>1. s[i] = t[i] /\ t[i] \in Int /\ t[i] <= moment
        BY <1>3, <1>4, <3>2, SMTT(60) DEF TimesFit
      <4> QED BY <4>1
    <3> QED BY <1>3, <1>4, <3>1, <3>2
  <2>2. ASSUME NEW i \in 1 .. Len(s), NEW j \in 1 .. Len(s), i <= j PROVE s[i] <= s[j]
    <3>1. CASE j = Len(t) + 1
      <4>1. s[j] = moment
        BY <1>4, <3>1
      <4> QED BY <2>1, <4>1
    <3>2. CASE j \in 1 .. Len(t)
      <4>1. i \in 1 .. Len(t) /\ s[i] = t[i] /\ s[j] = t[j]
        BY <1>3, <1>4, <2>2, <3>2, SMTT(60)
      <4> QED BY <1>3, <2>2, <3>2, <4>1 DEF TimesFit
    <3> QED BY <1>3, <1>4, <3>1, <3>2
  <2> QED BY <1>3, <1>4, <2>1, <2>2 DEF TimesFit
<1>7. ASSUME since < lastSweep' PROVE s[Len(s)] > lastSweep' - limit.window
  <2>1. s[Len(s)] = moment
    BY <1>4
  <2>2. lastSweep' = moment \/ lastSweep' = lastSweep
    BY <1>1 DEF Sweeping
  <2> QED BY <1>2, <2>1, <2>2
<1>8. Remembered(b, s)
  <2>1. ASSUME NEW k \in 1 .. Len(b), ~Expired(b[k])
        PROVE  Len(b) - k < Len(s) /\ s[Len(s) - (Len(b) - k)] = b[k]
    <3>1. CASE k = Len(a) + 1
      <4>1. Len(b) - k = 0 /\ Len(s) - (Len(b) - k) = Len(t) + 1 /\ b[k] = moment
        BY <1>3, <1>4, <1>5, <3>1
      <4> QED BY <1>3, <1>4, <4>1
    <3>2. CASE k \in 1 .. Len(a)
      <4>1. b[k] = a[k]
        BY <1>5, <3>2
      <4>2. Len(a) - k < Len(t) /\ t[Len(t) - (Len(a) - k)] = a[k]
        BY <1>3, <2>1, <3>2, <4>1 DEF Remembered
      <4>3. /\ Len(b) - k < Len(s) /\ Len(t) - (Len(a) - k) \in 1 .. Len(t)
            /\ Len(s) - (Len(b) - k) = Len(t) - (Len(a) - k)
        <5>1. /\ Len(a) \in Nat /\ Len(t) \in Nat /\ k \in 1 .. Len(a)
              /\ Len(s) = Len(t) + 1 /\ Len(b) = Len(a) + 1 /\ Len(a) - k < Len(t)
          BY <1>3, <1>4, <1>5, <3>2, <4>2
        <5> QED BY <5>1
      <4> QED BY <1>4, <4>1, <4>2, <4>3
    <3> QED BY <1>3, <1>5, <3>1, <3>2
  <2> QED BY <2>1 DEF Remembered
<1>9. /\ admitted' \in [Clients -> Seq(Int)] /\ told' \in [Clients -> Int]
      /\ admitted'[c] = b /\ told'[c] = 0
      /\ \A d \in Clients \ {c} : admitted'[d] = admitted[d] /\ told'[d] = told[d]
  <2>1. admitted \in [Clients -> Seq(Int)] /\ told \in [Clients -> Int]
    BY DEF RateInv
  <2> QED BY <1>1, <1>5, <2>1
<1>10. BudgetKept'
  <2> SUFFICES ASSUME NEW d \in Clients, NEW i \in DOMAIN admitted'[d], i > limit.count
               PROVE  admitted'[d][i] - admitted'[d][i - limit.count] >= limit.window
    BY <1>1 DEF BudgetKept
  <2>1. CASE d # c
    <3>1. admitted'[d] = admitted[d]
      BY <1>9, <2>1
    <3> QED BY <3>1 DEF RateInv, BudgetKept
  <2>2. CASE d = c
    <3>1. i \in 1 .. Len(a) + 1 /\ admitted'[d] = b
      BY <1>5, <1>9, <2>2
    <3>2. CASE i \in 1 .. Len(a)
      <4>1. i - limit.count \in 1 .. Len(a)
        BY <1>2, <1>3, <3>2
      <4>2. b[i] = a[i] /\ b[i - limit.count] = a[i - limit.count]
        BY <1>5, <3>2, <4>1
      <4>3. i \in DOMAIN admitted[c]
        BY <1>3, <3>2 DEF a
      <4>4. admitted[c][i] - admitted[c][i - limit.count] >= limit.window
        BY <4>3 DEF RateInv, BudgetKept
      <4> QED BY <3>1, <4>2, <4>4 DEF a
    <3>3. CASE i = Len(a) + 1
      <4> DEFINE k == i - limit.count
      <4>1. k \in 1 .. Len(a) /\ Len(a) - k = limit.count - 1
        BY <1>2, <1>3, <3>3
      <4>2. ~(Len(a) - k < Len(t))
        BY <1>1, <1>2, <1>3, <4>1
      <4> HIDE DEF k
      <4>3. Expired(a[k]) /\ a[k] \in Int
        BY <1>3, <4>1, <4>2 DEF Remembered
      <4>4. b[k] = a[k] /\ b[i] = moment
        BY <1>5, <3>3, <4>1
      <4>5. b[i] - b[k] >= limit.window
        BY <1>2, <4>3, <4>4 DEF Expired
      <4> QED BY <3>1, <4>5 DEF k
    <3> QED BY <1>3, <3>1, <3>2, <3>3
  <2> QED BY <2>1, <2>2
<1> QED BY <1>1, <1>6, <1>7, <1>8, <1>9, <1>10, HitStep

LEMMA Rejecting ==
    ASSUME RateInv, NEW c \in Clients, RejectHit(c)
    PROVE  RateInv'
<1> DEFINE s == Counting(c)
           w == moment + Wait(s)
<1>1. /\ Len(s) >= limit.count /\ hits' = Kept(c, s) /\ admitted' = admitted
      /\ told' = [told EXCEPT ![c] = w]
      /\ Sweeping(c) /\ UNCHANGED <<moment, limit, since>>
  BY DEF RejectHit
<1>2. /\ moment \in Nat /\ limit.count \in Nat \ {0} /\ limit.window \in Nat \ {0}
      /\ lastSweep \in Int /\ lastSweep <= moment
  BY LimitIsPositive DEF RateInv
<1>3. /\ TimesFit(s) /\ s \in Seq(Int) /\ Len(s) \in Nat /\ Remembered(admitted[c], s)
      /\ \A i \in 1 .. Len(s) : ~Expired(s[i])
  BY CountingFacts, CountingRemembers DEF TimesFit
<1>4. /\ w = s[Len(s) - limit.count + 1] + limit.window /\ w \in Int
  <2>1. Len(s) - limit.count + 1 \in 1 .. Len(s)
    BY <1>1, <1>2, <1>3
  <2>2. s[Len(s) - limit.count + 1] \in Int
    BY <1>3, <2>1
  <2> HIDE DEF s
  <2> QED BY <1>2, <2>2, SMTT(60) DEF Wait
<1> HIDE DEF s, w
<1>5. Len(s) # 0 /\ c \in Tracked
  <2>1. Len(s) # 0
    BY <1>1, <1>2
  <2>2. ASSUME c \notin Tracked PROVE FALSE
    <3>1. History(c) = <<>>
      BY <2>2 DEF History
    <3>2. Len(History(c)) = 0 /\ Expiring(History(c)) \in 0 .. Len(History(c))
      BY <3>1, CountingFacts
    <3>3. Len(s) = Len(History(c)) - Expiring(History(c))
      BY CountingFacts DEF s
    <3> QED BY <2>1, <3>2, <3>3
  <2> QED BY <2>1, <2>2
<1>6. ASSUME since < lastSweep' PROVE s[Len(s)] > lastSweep' - limit.window
  <2>1. lastSweep' = lastSweep
    BY <1>1, <1>5 DEF Sweeping, Sweeps
  <2>2. ~Expired(s[Len(s)]) /\ s[Len(s)] \in Int
    BY <1>3, <1>5
  <2> QED BY <1>2, <2>1, <2>2 DEF Expired
<1>7. /\ admitted' \in [Clients -> Seq(Int)] /\ told' \in [Clients -> Int]
      /\ told'[c] = w
      /\ \A d \in Clients \ {c} : admitted'[d] = admitted[d] /\ told'[d] = told[d]
  <2>1. admitted \in [Clients -> Seq(Int)] /\ told \in [Clients -> Int]
    BY DEF RateInv
  <2> QED BY <1>1, <1>4, <2>1
<1>8. BudgetKept'
  BY <1>1 DEF RateInv, BudgetKept
<1> QED BY <1>1, <1>3, <1>4, <1>5, <1>6, <1>7, <1>8, HitStep

(* A client that finds no room leaves the table as the sweep has left it.  *)
LEMMA TurningAway ==
    ASSUME RateInv, NEW c \in Clients, TurnAway(c)
    PROVE  RateInv'
<1>1. /\ hits' = [d \in Remaining(c) |-> hits[d]] /\ Sweeping(c) /\ c \notin Tracked
      /\ UNCHANGED <<moment, limit, admitted, told, since>>
  BY DEF TurnAway, NoRoom
<1>2. /\ Tracked' = Remaining(c) /\ c \notin Remaining(c) /\ Remaining(c) \subseteq Tracked
      /\ \A d \in Remaining(c) : hits'[d] = hits[d]
  BY <1>1 DEF Remaining, Tracked
<1>3. /\ \A d \in Remaining(c) \ {c} : d \in Tracked' /\ hits'[d] = hits[d]
      /\ Tracked' \ {c} = Remaining(c) \ {c} /\ c \notin Tracked'
  BY <1>2
<1>4. ASSUME NEW d \in Tracked' PROVE TimesFit(hits[d])' /\ Len(hits'[d]) # 0
  <2>1. TimesFit(hits[d]) /\ Len(hits[d]) # 0 /\ hits'[d] = hits[d]
    BY <1>2 DEF RateInv
  <2> QED BY <1>1, <2>1 DEF TimesFit
<1>5. ASSUME NEW d \in Clients PROVE Remembered(admitted[d], History(d))' /\ ToldFits(d)'
  <2>1. CASE d # c
    BY <1>1, <1>3, <2>1, OthersStay
  <2>2. CASE d = c
    <3>1. History(d)' = History(d) /\ d \notin Tracked /\ d \notin Tracked'
      BY <1>1, <1>3, <2>2 DEF History
    <3>2. Remembered(admitted[d], History(d)) /\ ToldFits(d)
      BY DEF RateInv
    <3> QED BY <1>1, <3>1, <3>2 DEF Remembered, ToldFits, Expired
  <2> QED BY <2>1, <2>2
<1>6. /\ since' < lastSweep' =>
           \A d \in Tracked' : hits'[d][Len(hits'[d])] > lastSweep' - limit'.window
      /\ lastSweep' \in Int /\ lastSweep' <= moment'
  BY <1>1, <1>3, SweepHolds
<1>7. BudgetKept'
  BY <1>1 DEF RateInv, BudgetKept
<1> QED BY <1>1, <1>4, <1>5, <1>6, <1>7 DEF RateInv

(* Another limit is another account of what was admitted and told.         *)
LEMMA LimitChanges ==
    ASSUME RateInv, ChangeLimit
    PROVE  RateInv'
<1>1. /\ limit' \in Limits /\ since' = moment
      /\ admitted' = [c \in Clients |-> <<>>] /\ told' = [c \in Clients |-> 0]
      /\ UNCHANGED <<moment, hits, lastSweep>>
  BY DEF ChangeLimit
<1>2. \A d \in Tracked' : TimesFit(hits[d])' /\ Len(hits'[d]) # 0
  BY <1>1 DEF RateInv, Tracked, TimesFit
<1>3. ASSUME NEW c \in Clients
      PROVE  /\ Remembered(admitted[c], History(c))' /\ ToldFits(c)' /\ admitted'[c] = <<>>
  <2>1. admitted'[c] = <<>> /\ told'[c] = 0 /\ Len(admitted'[c]) = 0
    BY <1>1
  <2> QED BY <2>1 DEF Remembered, ToldFits
<1>4. BudgetKept'
  BY <1>3 DEF BudgetKept
<1>5. since' \in Nat /\ since' <= moment' /\ ~(since' < lastSweep')
  BY <1>1 DEF RateInv
<1>6. admitted' \in [Clients -> Seq(Int)] /\ told' \in [Clients -> Int]
  <2>1. <<>> \in Seq(Int) /\ 0 \in Int
    OBVIOUS
  <2> QED BY <1>1, <2>1
<1> QED BY <1>1, <1>2, <1>3, <1>4, <1>5, <1>6 DEF RateInv

(* What has expired stays so.                                              *)
LEMMA TimePasses ==
    ASSUME RateInv, Pass
    PROVE  RateInv'
<1>1. /\ moment' = moment + 1 /\ UNCHANGED <<limit, hits, lastSweep, admitted, told, since>>
  BY DEF Pass
<1>2. /\ moment \in Nat /\ limit.window \in Nat \ {0} /\ lastSweep \in Int /\ since \in Nat
      /\ lastSweep <= moment /\ since <= moment /\ limit \in Limits
  BY LimitIsPositive DEF RateInv
<1>3. Tracked' = Tracked /\ \A c : History(c)' = History(c)
  BY <1>1 DEF Tracked, History
<1>4. ASSUME NEW d \in Tracked' PROVE TimesFit(hits[d])' /\ Len(hits'[d]) # 0
  <2> DEFINE h == hits[d]
  <2>1. TimesFit(h) /\ Len(h) # 0 /\ h \in Seq(Int)
    BY <1>3 DEF RateInv, TimesFit
  <2>2. \A i \in 1 .. Len(h) : h[i] \in Int
    BY <2>1
  <2>3. \A i \in 1 .. Len(h) : h[i] <= moment + 1
    BY <1>2, <2>1, <2>2 DEF TimesFit
  <2> QED BY <1>1, <2>1, <2>3 DEF TimesFit
<1>5. ASSUME NEW c \in Clients PROVE Remembered(admitted[c], History(c))' /\ ToldFits(c)'
  <2> DEFINE a == admitted[c]
             h == History(c)
  <2>1. Remembered(a, h) /\ ToldFits(c) /\ a \in Seq(Int) /\ told[c] \in Int
    BY DEF RateInv
  <2>2. ASSUME NEW k \in 1 .. Len(a), ~(a[k] <= moment + 1 - limit.window)
        PROVE  Len(a) - k < Len(h) /\ h[Len(h) - (Len(a) - k)] = a[k]
    <3>1. a[k] \in Int
      BY <2>1
    <3>2. ~Expired(a[k])
      BY <1>2, <2>2, <3>1, SMTT(60) DEF Expired
    <3> QED BY <2>1, <3>2 DEF Remembered
  <2>3. Remembered(admitted[c], History(c))'
    <3>1. a' = a /\ h' = h
      BY <1>1, <1>3
    <3>2. Remembered(a, h)'
      <4> HIDE DEF a, h
      <4>1. moment' - limit'.window = moment + 1 - limit.window
        <5>1. moment' = moment + 1 /\ limit'.window = limit.window
          BY <1>1
        <5> QED BY <1>2, <5>1
      <4>2. ASSUME NEW k \in 1 .. Len(a'), ~(a'[k] <= moment' - limit'.window)
            PROVE  Len(a') - k < Len(h') /\ h'[Len(h') - (Len(a') - k)] = a'[k]
        BY <2>2, <3>1, <4>1, <4>2
      <4> QED BY <4>2 DEF Remembered, Expired
    <3> QED BY <3>2
  <2>4. ToldFits(c)'
    <3>1. told[c] <= moment => told[c] <= moment + 1
      BY <1>2, <2>1
    <3> HIDE DEF a, h
    <3> QED BY <1>1, <1>3, <2>1, <3>1 DEF ToldFits
  <2> QED BY <2>3, <2>4
<1>6. BudgetKept' /\ admitted' \in [Clients -> Seq(Int)] /\ told' \in [Clients -> Int]
  BY <1>1 DEF RateInv, BudgetKept
<1>7. since' < lastSweep' =>
         \A d \in Tracked' : hits'[d][Len(hits'[d])] > lastSweep' - limit'.window
  BY <1>1, <1>3 DEF RateInv
<1>8. /\ moment' \in Nat /\ since' \in Nat /\ lastSweep' \in Int /\ limit' \in Limits
      /\ since' <= moment' /\ lastSweep' <= moment'
  BY <1>1, <1>2
<1> QED BY <1>4, <1>5, <1>6, <1>7, <1>8 DEF RateInv

LEMMA RateStarts == RateInit => RateInv
<1> SUFFICES ASSUME RateInit PROVE RateInv
  OBVIOUS
<1>1. /\ moment = 1 /\ limit \in Limits /\ since = 1 /\ hits = <<>> /\ lastSweep = 1 - SweepInterval
      /\ admitted = [c \in Clients |-> <<>>] /\ told = [c \in Clients |-> 0]
  BY DEF RateInit
<1>2. Tracked = {}
  BY <1>1 DEF Tracked
<1>3. SweepInterval \in Nat \ {0}
  BY RateLimitAssumption
<1>4. admitted \in [Clients -> Seq(Int)] /\ told \in [Clients -> Int]
  <2>1. <<>> \in Seq(Int) /\ 0 \in Int
    OBVIOUS
  <2> QED BY <1>1, <2>1
<1>5. ASSUME NEW c \in Clients
      PROVE  /\ Remembered(admitted[c], History(c)) /\ ToldFits(c) /\ DOMAIN admitted[c] = {}
  <2>1. admitted[c] = <<>> /\ told[c] = 0 /\ Len(admitted[c]) = 0
    BY <1>1
  <2> QED BY <2>1 DEF Remembered, ToldFits
<1>6. BudgetKept
  BY <1>5 DEF BudgetKept
<1> QED BY <1>1, <1>2, <1>3, <1>4, <1>5, <1>6 DEF RateInv

LEMMA RateStep == RateInv /\ [RateNext]_rateVars => RateInv'
<1> SUFFICES ASSUME RateInv, [RateNext]_rateVars PROVE RateInv'
  OBVIOUS
<1>1. ASSUME NEW c \in Clients, Admit(c) \/ RejectHit(c) \/ TurnAway(c) PROVE RateInv'
  BY <1>1, Admitting, Rejecting, TurningAway
<1>2. CASE ChangeLimit \/ Pass
  BY <1>2, LimitChanges, TimePasses
<1>3. CASE UNCHANGED rateVars
  <2>1. UNCHANGED <<moment, limit, hits, lastSweep, admitted, told, since>>
    BY <1>3 DEF rateVars
  <2>2. Tracked' = Tracked /\ \A c : History(c)' = History(c)
    BY <2>1 DEF Tracked, History
  <2>3. \A d \in Tracked' : TimesFit(hits[d])' /\ Len(hits'[d]) # 0
    BY <2>1, <2>2 DEF RateInv, TimesFit
  <2>4. \A c \in Clients : Remembered(admitted[c], History(c))' /\ ToldFits(c)'
    BY <2>1, <2>2 DEF RateInv, Remembered, ToldFits, Expired
  <2>5. BudgetKept'
    BY <2>1 DEF RateInv, BudgetKept
  <2> QED BY <2>1, <2>2, <2>3, <2>4, <2>5 DEF RateInv
<1> QED BY <1>1, <1>2, <1>3 DEF RateNext

LEMMA ToldIsTrue ==
    ASSUME RateInv, NEW c \in Clients, told[c] # 0
    PROVE  IF moment < told[c] THEN Len(Counting(c)) >= limit.count
           ELSE Len(Counting(c)) < limit.count
<1> DEFINE h == History(c)
           n == Expiring(h)
           t == Counting(c)
           p == Len(h) - limit.count + 1
<1>1. /\ n \in 0 .. Len(h) /\ Len(t) = Len(h) - n
      /\ \A i \in 1 .. Len(t) : t[i] = h[n + i] /\ ~Expired(t[i])
      /\ \A i \in 1 .. n : Expired(h[i])
  BY CountingFacts
<1>2. TimesFit(h) /\ Len(h) \in Nat /\ h \in Seq(Int)
  BY HistoryFits DEF TimesFit
<1>3. /\ moment \in Nat /\ limit.count \in Nat \ {0} /\ limit.window \in Nat \ {0}
      /\ told[c] \in Int /\ ToldFits(c)
  BY LimitIsPositive DEF RateInv
<1>4. CASE c \notin Tracked
  <2>1. Len(h) = 0 /\ told[c] <= moment
    BY <1>3, <1>4 DEF History, ToldFits
  <2> HIDE DEF h, n, t
  <2> QED BY <1>1, <1>3, <2>1 DEF t
<1>5. CASE c \in Tracked
  <2>1. h = hits[c]
    BY <1>5 DEF History
  <2>2. Len(h) >= limit.count /\ told[c] = h[p] + limit.window
    BY <1>3, <1>5, <2>1 DEF ToldFits
  <2> HIDE DEF h, n, t
  <2>3. p \in 1 .. Len(h)
    BY <1>2, <1>3, <2>2, SMTT(60)
  <2>4. p \in Nat /\ Len(h) = p + limit.count - 1 /\ h[p] \in Int
    <3>1. Len(h) = p + limit.count - 1
      BY <1>2, <1>3
    <3> HIDE DEF p
    <3> QED BY <1>2, <2>3, <3>1
  <2> HIDE DEF p
  <2> DEFINE until == told[c]
             one == h[p]
             long == limit.window
  <2>5. until \in Int /\ one \in Int /\ long \in Int /\ moment \in Int /\ until = one + long
    BY <1>3, <2>2, <2>4, SMTT(60)
  <2>6. Expired(one) <=> one <= moment - long
    BY DEF Expired
  <2>7. CASE moment < told[c]
    <3>1. ~Expired(h[p])
      <4> HIDE DEF until, one, long
      <4>1. moment < until
        BY <2>7 DEF until
      <4>2. ~Expired(one)
        BY <2>5, <2>6, <4>1
      <4> QED BY <4>2 DEF one
    <3>2. ~(p \in 1 .. n)
      BY <1>1, <3>1
    <3>3. Len(t) >= limit.count
      BY <1>1, <1>3, <2>3, <2>4, <3>2
    <3> QED BY <2>7, <3>3 DEF t
  <2>8. CASE ~(moment < told[c])
    <3>1. Expired(h[p])
      <4> HIDE DEF until, one, long
      <4>1. ~(moment < until)
        BY <2>8 DEF until
      <4>2. Expired(one)
        BY <2>5, <2>6, <4>1
      <4> QED BY <4>2 DEF one
    <3>2. ASSUME p > n PROVE FALSE
      <4>1. p - n \in 1 .. Len(t) /\ n + (p - n) = p
        BY <1>1, <1>2, <2>3, <3>2
      <4> QED BY <1>1, <3>1, <4>1
    <3>3. Len(t) < limit.count
      BY <1>1, <1>2, <1>3, <2>4, <3>2
    <3> QED BY <2>8, <3>3 DEF t
  <2> QED BY <2>7, <2>8
<1> QED BY <1>4, <1>5

LEMMA RateInvIsEnough == RateInv => RateKept
<1> SUFFICES ASSUME RateInv PROVE RateKept
  OBVIOUS
<1>1. WaitIsTrue
  BY ToldIsTrue DEF WaitIsTrue
<1>2. FullOfActive
  <2> SUFFICES ASSUME NEW c \in Clients, NoRoom(c), since <= lastSweep - limit.window,
                      NEW d \in Remaining(c)
               PROVE  hits[d][Len(hits[d])] > moment - limit.window - SweepInterval
    BY DEF FullOfActive
  <2>1. /\ d \in Tracked /\ TimesFit(hits[d]) /\ Len(hits[d]) # 0 /\ c \notin Tracked
        /\ SweepInterval \in Nat \ {0}
    BY RateLimitAssumption DEF RateInv, Remaining, NoRoom
  <2>2. /\ moment \in Nat /\ limit.window \in Nat \ {0} /\ lastSweep \in Int /\ since \in Nat
        /\ hits[d] # <<>> /\ hits[d][Len(hits[d])] \in Int
    BY <2>1, LimitIsPositive DEF RateInv, TimesFit
  <2>3. CASE Sweeps(c)
    <3>1. ~Expired(hits[d][Len(hits[d])])
      BY <2>2, <2>3 DEF Remaining, Idling
    <3> QED BY <2>1, <2>2, <3>1, SMTT(60) DEF Expired
  <2>4. CASE ~Sweeps(c)
    <3>1. Cardinality(Tracked) >= MaxKeys
      BY <2>4 DEF NoRoom, Remaining
    <3>2. ~(moment - lastSweep >= SweepInterval)
      BY <2>1, <2>4, <3>1 DEF Sweeps
    <3>3. hits[d][Len(hits[d])] > lastSweep - limit.window
      BY <2>1, <2>2, SMTT(60) DEF RateInv
    <3> QED BY <2>1, <2>2, <3>2, <3>3, SMTT(60)
  <2> QED BY <2>3, <2>4
<1> QED BY <1>1, <1>2 DEF RateInv, RateKept

(* Under one setting no window admits more than the limit, who waits as    *)
(* long as it was told is admitted and not before, and a full table is     *)
(* full of active clients, whatever clients are dropped from it.           *)
THEOREM RateIsKept == RateSpec => []RateKept
<1>1. RateInv => RateKept
  BY RateInvIsEnough
<1> QED BY <1>1, RateStarts, RateStep, PTL DEF RateSpec

-----------------------------------------------------------------------------
(* Backups, restores and upgrades                                          *)

Layouted(d) == d \in Databases /\ d.layout = Layout(d.version)

AppFits ==
    /\ app \in [pc : {"down", "checked", "running"}, release : Releases,
                keys : Seq(Secrets) \ {<<>>}, seen : Nat]
    /\ Layouted(db) /\ lost = FALSE
    /\ app.pc = "checked" => app.seen = db.version /\ db.version <= Schema(app.release)
    /\ Running => db.version = Schema(app.release)
    /\ ~Running => backup = NoBackup /\ upload = Idle

(* What has been copied is of the release that runs, and data only grows   *)
(* while a backup is made.                                                 *)
BackupFits ==
    /\ backup \in [pc : {"idle", "sqlite", "series", "sign"}, begun : Nat,
                   copy : Databases \union {Missing}, series : Nat]
    /\ backup.pc = "sqlite" => backup.begun <= db.data
    /\ backup.pc \in {"series", "sign"} =>
          /\ Layouted(backup.copy) /\ backup.copy.version = Schema(app.release)
          /\ backup.begun <= backup.copy.data /\ backup.copy.data <= db.data
    /\ backup.pc = "sign" => backup.copy.data <= backup.series /\ backup.series <= db.data
    /\ upload.pc = "swapped" => backup = NoBackup

ArchiveFits(a) ==
    /\ a \in Archived /\ Layouted(a.db)
    /\ a.begun <= a.db.data /\ a.db.data <= a.series /\ a.series <= a.ended
    /\ a.manifest.version = a.db.version /\ a.manifest.layout = a.db.layout
    /\ a.db.version = Schema(a.manifest.release)

FilesFit ==
    /\ DOMAIN files = Archives
    /\ \A f \in Archives : files[f] # Missing => ArchiveFits(files[f])

(* What is staged has passed the manifest's and the databases' checks.     *)
UploadFits ==
    /\ upload \in [pc : {"idle", "extract", "migrate", "swap", "swapped", "refused", "failed"},
                   file : Archives \union {Missing}, staged : Databases \union {Missing}]
    /\ upload.pc \in {"extract", "migrate", "swap", "refused"} =>
          upload.file \in Archives /\ files[upload.file] # Missing
    /\ upload.pc \in {"extract", "migrate", "swap"} => MayImport(files[upload.file].manifest)
    /\ upload.pc = "migrate" => Layouted(upload.staged) /\ upload.staged.version <= Schema(app.release)
    /\ upload.pc = "swap" => Layouted(upload.staged) /\ upload.staged.version = Schema(app.release)

ArchiveInv == AppFits /\ BackupFits /\ FilesFit /\ UploadFits /\ OursAreAccepted

LEMMA ReleaseNumbers ==
    ASSUME NEW r \in Releases
    PROVE  /\ Schema(r) = r.number /\ r.number \in Nat \ {0} /\ r.pre \in STRING
           /\ \A q \in Releases : q.number = r.number /\ q.pre = r.pre => q = r
  BY ArchiveAssumption DEF Schema

LEMMA AppFacts ==
    ASSUME AppFits
    PROVE  /\ app.release \in Releases /\ app.seen \in Nat /\ app.keys \in Seq(Secrets)
           /\ app.keys # <<>> /\ app.pc \in {"down", "checked", "running"}
           /\ Schema(app.release) = app.release.number /\ app.release.number \in Nat \ {0}
  BY ReleaseNumbers DEF AppFits

LEMMA DatabaseFacts ==
    ASSUME NEW d \in Databases
    PROVE  /\ d.version \in Nat /\ d.layout \in SUBSET Steps /\ d.data \in Nat
           /\ d.chosen \in BOOLEAN
  BY DEF Databases

LEMMA ArchiveInvIsEnough == ArchiveInv => ArchivesKept
<1> SUFFICES ASSUME ArchiveInv PROVE RunsOnItsSchema /\ ArchiveIsOneState
  BY DEF ArchivesKept, ArchiveInv
<1>1. RunsOnItsSchema
  BY DEF ArchiveInv, AppFits, UploadFits, RunsOnItsSchema, Layouted
<1>2. ArchiveIsOneState
  BY DEF ArchiveInv, FilesFit, ArchiveFits, ArchiveIsOneState
<1> QED BY <1>1, <1>2

LEMMA NewDbFits ==
    ASSUME NEW v \in Nat
    PROVE  Layouted(NewDb(v)) /\ NewDb(v).version = v
<1> DEFINE z == 0
           n == FALSE
           y == Layout(v)
<1>1. z \in Nat /\ n \in BOOLEAN /\ y \in SUBSET Steps
  BY DEF Layout
<1>2. NewDb(v) = [version |-> v, layout |-> y, data |-> z, chosen |-> n]
  BY DEF NewDb
<1> HIDE DEF z, n, y
<1>3. NewDb(v) \in Databases /\ NewDb(v).version = v /\ NewDb(v).layout = y
  BY <1>1, <1>2 DEF Databases
<1> QED BY <1>3 DEF Layouted, y

(* A migrated database has the layout of its release.                      *)
LEMMA MigratedFits ==
    ASSUME NEW d, Layouted(d), NEW r \in Releases, d.version <= Schema(r)
    PROVE  LET m == Migrated(d, d.version, r) IN
           /\ Layouted(m) /\ m.version = Schema(r) /\ m.data = d.data
           /\ Rebuild \in d.layout => m.chosen = d.chosen
<1> DEFINE v == Schema(r)
           y == IF d.version = 0 THEN Layout(v) ELSE d.layout \union Pending(d.version, r)
           c == d.chosen /\ Rebuild \notin Pending(d.version, r)
           m == [d EXCEPT !.version = v, !.layout = y, !.chosen = c]
<1>1. /\ d \in Databases /\ d.layout = Layout(d.version) /\ v \in Nat \ {0} /\ d.version \in Nat
      /\ d.chosen \in BOOLEAN /\ Steps \subseteq Nat
  BY ReleaseNumbers, DatabaseFacts, ArchiveAssumption DEF Layouted
<1>2. y = Layout(v)
  <2>1. CASE d.version = 0
    BY <2>1
  <2>2. CASE d.version # 0
    <3>1. \A s \in Steps : s <= v <=> s <= d.version \/ (d.version < s /\ s <= v)
      BY <1>1
    <3>2. Pending(d.version, r) = {s \in Steps : d.version < s /\ s <= v}
      BY DEF Pending, Chain
    <3> HIDE DEF v
    <3> QED BY <1>1, <2>2, <3>1, <3>2 DEF Layout
  <2> QED BY <2>1, <2>2
<1>3. y \in SUBSET Steps /\ c \in BOOLEAN
  BY <1>1, <1>2 DEF Layout
<1>4. Rebuild \in d.layout => c = d.chosen
  <2>1. ASSUME Rebuild \in d.layout PROVE Rebuild \notin Pending(d.version, r)
    <3>1. Rebuild \in Nat /\ Rebuild <= d.version
      BY <1>1, <2>1, ArchiveAssumption DEF Layout
    <3> QED BY <1>1, <3>1 DEF Pending, Chain
  <2> QED BY <1>1, <2>1
<1>5. Migrated(d, d.version, r) = m
  BY <1>1 DEF Migrated, Databases
<1> HIDE DEF v, y, c
<1>6. m \in Databases /\ m.version = v /\ m.layout = y /\ m.data = d.data /\ m.chosen = c
  BY <1>1, <1>3 DEF Databases
<1> QED BY <1>2, <1>4, <1>5, <1>6 DEF Layouted, v

LEMMA OneKeyOrMore ==
    ASSUME NEW k \in Secrets, NEW l \in Secrets, NEW m \in Secrets
    PROVE  {<<k>>, <<k, l>>, <<k, l, m>>} \subseteq Seq(Secrets) \ {<<>>}
<1>1. <<k>> \in Seq(Secrets) /\ <<k>> # <<>>
  OBVIOUS
<1>2. <<k, l>> \in Seq(Secrets) /\ <<k, l>> # <<>>
  OBVIOUS
<1>3. <<k, l, m>> \in Seq(Secrets) /\ <<k, l, m>> # <<>>
  OBVIOUS
<1> QED BY <1>1, <1>2, <1>3

LEMMA NothingBegun ==
    /\ NoBackup \in [pc : {"idle", "sqlite", "series", "sign"}, begun : Nat,
                     copy : Databases \union {Missing}, series : Nat]
    /\ NoBackup.pc = "idle"
    /\ Idle \in [pc : {"idle", "extract", "migrate", "swap", "swapped", "refused", "failed"},
                 file : Archives \union {Missing}, staged : Databases \union {Missing}]
    /\ Idle.pc = "idle"
<1> DEFINE z == 0
<1>1. z \in Nat
  OBVIOUS
<1>2. NoBackup = [pc |-> "idle", begun |-> z, copy |-> Missing, series |-> z]
  BY DEF NoBackup
<1> HIDE DEF z
<1> QED BY <1>1, <1>2 DEF Idle

LEMMA BothIdle ==
    ASSUME backup = NoBackup, upload = Idle
    PROVE  BackupFits /\ UploadFits /\ OursAreAccepted
  BY NothingBegun DEF BackupFits, UploadFits, OursAreAccepted

LEMMA ArchiveStarts == ArchiveInit => ArchiveInv
<1> SUFFICES ASSUME ArchiveInit PROVE ArchiveInv
  OBVIOUS
<1>1. BackupFits /\ UploadFits /\ OursAreAccepted
  BY BothIdle DEF ArchiveInit
<1>2. FilesFit
  BY DEF ArchiveInit, FilesFit
<1>3. AppFits
  <2>1. Layouted(db)
    <3>1. \A r \in Releases : Schema(r) \in Nat
      BY ReleaseNumbers
    <3>2. \A v \in Nat : Layouted(NewDb(v))
      BY NewDbFits
    <3>3. db = NewDb(0) \/ \E r \in Releases : db = NewDb(Schema(r))
      BY DEF ArchiveInit
    <3>4. 0 \in Nat
      OBVIOUS
    <3> QED BY <3>1, <3>2, <3>3, <3>4
  <2>2. app \in [pc : {"down", "checked", "running"}, release : Releases,
                 keys : Seq(Secrets) \ {<<>>}, seen : Nat]
    <3> DEFINE K == {<<k>> : k \in Secrets}
               z == 0
    <3>1. \A x \in K : x \in Seq(Secrets) \ {<<>>}
      BY OneKeyOrMore
    <3>2. z \in Nat
      OBVIOUS
    <3>3. app \in [pc : {"down"}, release : Releases, keys : K, seen : {z}]
      BY DEF ArchiveInit
    <3> HIDE DEF K, z
    <3> QED BY <3>1, <3>2, <3>3
  <2>3. app.pc = "down" /\ lost = FALSE /\ backup = NoBackup /\ upload = Idle
    BY DEF ArchiveInit
  <2> QED BY <2>1, <2>2, <2>3 DEF AppFits, Running
<1> QED BY <1>1, <1>2, <1>3 DEF ArchiveInv

(* The check at a start lets a database pass that is not of a newer schema. *)
LEMMA StartKeepsArchives ==
    ASSUME ArchiveInv, NEW release \in Releases, NEW keys \in Seq(Secrets) \ {<<>>},
           Start(release, keys)
    PROVE  ArchiveInv'
<1>1. /\ app.pc = "down" /\ ~Running
      /\ UNCHANGED <<db, backup, files, upload, lost>>
      /\ AppFits /\ FilesFit
  BY DEF Start, ArchiveInv, Running
<1>2. backup' = NoBackup /\ upload' = Idle /\ backup = NoBackup /\ upload = Idle
  BY <1>1 DEF AppFits
<1>3. BackupFits' /\ UploadFits' /\ OursAreAccepted'
  BY <1>2, NothingBegun DEF BackupFits, UploadFits, OursAreAccepted
<1>4. FilesFit'
  BY <1>1 DEF FilesFit
<1>5. AppFits'
  <2> DEFINE z == 0
  <2>1. z \in Nat /\ db.version \in Nat /\ Schema(release) \in Nat
    BY <1>1, ReleaseNumbers, DatabaseFacts DEF AppFits, Layouted
  <2>2. app' = IF Compatible(db, release)
               THEN [pc |-> "checked", release |-> release, keys |-> keys, seen |-> db.version]
               ELSE [pc |-> "down", release |-> release, keys |-> keys, seen |-> z]
    BY DEF Start
  <2>3. Compatible(db, release) => db.version <= Schema(release)
    BY <2>1 DEF Compatible
  <2> HIDE DEF z
  <2>4. /\ app' \in [pc : {"down", "checked", "running"}, release : Releases,
                     keys : Seq(Secrets) \ {<<>>}, seen : Nat]
        /\ app'.pc # "running"
        /\ app'.pc = "checked" => app'.seen = db.version /\ db.version <= Schema(app'.release)
    <3>1. CASE Compatible(db, release)
      BY <2>1, <2>2, <2>3, <3>1
    <3>2. CASE ~Compatible(db, release)
      BY <2>1, <2>2, <3>2
    <3> QED BY <3>1, <3>2
  <2> QED BY <1>1, <1>2, <2>4 DEF AppFits, Layouted, Running
<1> QED BY <1>3, <1>4, <1>5 DEF ArchiveInv

(* The migrations lead to the schema of the release, and none runs again   *)
(* on a table that was rebuilt before.                                     *)
LEMMA InitSchemaKeepsArchives == ASSUME ArchiveInv, InitSchema PROVE ArchiveInv'
<1>1. /\ app.pc = "checked" /\ ~Running /\ UNCHANGED <<backup, files, upload, starts>>
      /\ AppFits /\ FilesFit
  BY DEF InitSchema, ArchiveInv, Running
<1>2. backup' = NoBackup /\ upload' = Idle /\ backup = NoBackup /\ upload = Idle
  BY <1>1 DEF AppFits
<1>3. BackupFits' /\ UploadFits' /\ OursAreAccepted'
  BY <1>2, NothingBegun DEF BackupFits, UploadFits, OursAreAccepted
<1>4. FilesFit'
  BY <1>1 DEF FilesFit
<1>5. AppFits'
  <2>1. app.release \in Releases /\ Layouted(db) /\ app.seen = db.version
        /\ db.version <= Schema(app.release) /\ lost = FALSE
    BY <1>1 DEF AppFits
  <2>2. CASE db' = Migrated(db, app.seen, app.release)
             /\ lost' = (lost \/ (db.chosen /\ ~db'.chosen /\ Rebuild \in db.layout))
             /\ app' = [app EXCEPT !.pc = "running"]
    <3>1. Layouted(db') /\ db'.version = Schema(app.release)
          /\ (Rebuild \in db.layout => db'.chosen = db.chosen)
      BY <2>1, <2>2, MigratedFits
    <3>2. lost' = FALSE
      BY <2>1, <2>2, <3>1
    <3>3. app' \in [pc : {"down", "checked", "running"}, release : Releases,
                    keys : Seq(Secrets) \ {<<>>}, seen : Nat]
          /\ app'.pc = "running" /\ app'.release = app.release
      BY <1>1, <2>2 DEF AppFits
    <3> QED BY <3>1, <3>2, <3>3 DEF AppFits, Layouted, Running
  <2>3. CASE app' = [app EXCEPT !.pc = "down"] /\ UNCHANGED <<db, lost>>
    <3>1. app' \in [pc : {"down", "checked", "running"}, release : Releases,
                    keys : Seq(Secrets) \ {<<>>}, seen : Nat]
          /\ app'.pc = "down"
      BY <1>1, <2>3 DEF AppFits
    <3> QED BY <1>2, <2>1, <2>3, <3>1 DEF AppFits, Layouted, Running
  <2> QED BY <2>2, <2>3 DEF InitSchema
<1> QED BY <1>3, <1>4, <1>5 DEF ArchiveInv

LEMMA StopKeepsArchives == ASSUME ArchiveInv, Stop PROVE ArchiveInv'
<1>1. /\ app' = [app EXCEPT !.pc = "down"] /\ backup' = NoBackup /\ upload' = Idle
      /\ UNCHANGED <<db, files, starts, lost>> /\ AppFits /\ FilesFit
  BY DEF Stop, ArchiveInv
<1>2. BackupFits' /\ UploadFits' /\ OursAreAccepted'
  BY <1>1, NothingBegun DEF BackupFits, UploadFits, OursAreAccepted
<1>3. FilesFit'
  BY <1>1 DEF FilesFit
<1>4. AppFits'
  <2>1. app' \in [pc : {"down", "checked", "running"}, release : Releases,
                  keys : Seq(Secrets) \ {<<>>}, seen : Nat]
        /\ app'.pc = "down"
    BY <1>1 DEF AppFits
  <2> QED BY <1>1, <2>1 DEF AppFits, Layouted, Running
<1> QED BY <1>2, <1>3, <1>4 DEF ArchiveInv

(* An upload looks at the process and at the file that it is of.           *)
LEMMA UploadStays ==
    ASSUME UploadFits, OursAreAccepted, UNCHANGED <<app, upload>>, DOMAIN files' = DOMAIN files,
           upload.pc \in {"extract", "migrate", "swap", "refused"} =>
              /\ files'[upload.file] # Missing
              /\ files'[upload.file].manifest = files[upload.file].manifest
              /\ files'[upload.file].db = files[upload.file].db
              /\ HmacOk(upload.file)' => HmacOk(upload.file)
    PROVE  UploadFits' /\ OursAreAccepted'
<1>1. UploadFits'
  BY DEF UploadFits, MayImport
<1>2. OursAreAccepted'
  BY DEF OursAreAccepted
<1> QED BY <1>1, <1>2

LEMMA UploadStaysAlone ==
    ASSUME UploadFits, OursAreAccepted, UNCHANGED <<app, upload, files>>
    PROVE  UploadFits' /\ OursAreAccepted'
<1>1. UploadFits'
  BY DEF UploadFits, MayImport
<1>2. OursAreAccepted'
  BY DEF OursAreAccepted, HmacOk
<1> QED BY <1>1, <1>2

LEMMA CommitKeepsArchives == ASSUME ArchiveInv, Commit PROVE ArchiveInv'
<1>1. /\ Running /\ upload.pc # "swapped" /\ UNCHANGED <<app, backup, files, upload, starts, lost>>
      /\ AppFits /\ FilesFit /\ UploadFits /\ OursAreAccepted /\ BackupFits
  BY DEF Commit, ArchiveInv
<1>2. /\ db' \in Databases /\ db'.version = db.version /\ db'.layout = db.layout
      /\ db'.data = db.data + 1
  <2>1. db \in Databases
    BY <1>1 DEF AppFits, Layouted
  <2>2. PICK choice \in {db.chosen, Rebuild \in db.layout} :
          db' = [db EXCEPT !.data = @ + 1, !.chosen = @ \/ choice]
    BY DEF Commit
  <2> DEFINE n == db.data + 1
             c == db.chosen \/ choice
  <2>3. n \in Nat /\ c \in BOOLEAN
    BY <2>1, <2>2, DatabaseFacts
  <2>4. db' = [db EXCEPT !.data = n, !.chosen = c]
    BY <2>1, <2>2 DEF Databases
  <2>5. n = db.data + 1
    OBVIOUS
  <2> HIDE DEF n, c
  <2> QED BY <2>1, <2>3, <2>4, <2>5 DEF Databases
<1>3. AppFits'
  BY <1>1, <1>2 DEF AppFits, Layouted, Running
<1>4. BackupFits'
  <2>1. /\ db.data \in Nat /\ backup.begun \in Nat /\ backup.series \in Nat
        /\ backup.pc \in {"series", "sign"} => backup.copy.data \in Nat
    BY <1>1, DatabaseFacts DEF AppFits, BackupFits, Layouted
  <2>2. \A n \in Nat : n <= db.data => n <= db'.data
    BY <1>2, <2>1
  <2> QED BY <1>1, <2>1, <2>2 DEF BackupFits
<1>5. UploadFits' /\ OursAreAccepted'
  BY <1>1, UploadStaysAlone
<1> QED BY <1>1, <1>3, <1>4, <1>5 DEF ArchiveInv, FilesFit

(* The copy is a state of the database while the backup runs.              *)
LEMMA SnapshotsKeepArchives ==
    ASSUME ArchiveInv, BeginBackup \/ SnapshotSqlite \/ SnapshotSeries
    PROVE  ArchiveInv'
<1>1. /\ Running /\ UNCHANGED <<app, db, files, upload, starts, lost>>
      /\ AppFits /\ FilesFit /\ UploadFits /\ OursAreAccepted /\ BackupFits
  BY DEF BeginBackup, SnapshotSqlite, SnapshotSeries, ArchiveInv
<1>2. AppFits' /\ FilesFit'
  BY <1>1 DEF AppFits, Layouted, Running, FilesFit
<1>3. UploadFits' /\ OursAreAccepted'
  BY <1>1, UploadStaysAlone
<1>4. BackupFits'
  <2>1. db \in Databases /\ db.data \in Nat /\ Layouted(db) /\ db.version = Schema(app.release)
        /\ db.data <= db.data
    BY <1>1, DatabaseFacts DEF AppFits, Layouted
  <2>2. CASE BeginBackup
    <3>1. backup' = [NoBackup EXCEPT !.pc = "sqlite", !.begun = db.data] /\ upload.pc # "swapped"
      BY <2>2 DEF BeginBackup
    <3>2. /\ backup' \in [pc : {"idle", "sqlite", "series", "sign"}, begun : Nat,
                          copy : Databases \union {Missing}, series : Nat]
          /\ backup'.pc = "sqlite" /\ backup'.begun = db.data
      BY <2>1, <3>1, NothingBegun
    <3> QED BY <1>1, <2>1, <3>1, <3>2 DEF BackupFits
  <2>3. CASE SnapshotSqlite
    <3>1. backup.pc = "sqlite" /\ backup' = [backup EXCEPT !.pc = "series", !.copy = db]
      BY <2>3 DEF SnapshotSqlite
    <3>2. /\ backup' \in [pc : {"idle", "sqlite", "series", "sign"}, begun : Nat,
                          copy : Databases \union {Missing}, series : Nat]
          /\ backup'.pc = "series" /\ backup'.begun = backup.begun /\ backup'.copy = db
      BY <1>1, <2>1, <3>1 DEF BackupFits
    <3>3. backup.begun <= db.data /\ upload.pc # "swapped"
      BY <1>1, <3>1, NothingBegun DEF BackupFits
    <3> QED BY <1>1, <2>1, <3>2, <3>3 DEF BackupFits, Layouted
  <2>4. CASE SnapshotSeries
    <3>1. backup.pc = "series" /\ backup' = [backup EXCEPT !.pc = "sign", !.series = db.data]
      BY <2>4 DEF SnapshotSeries
    <3>2. /\ backup' \in [pc : {"idle", "sqlite", "series", "sign"}, begun : Nat,
                          copy : Databases \union {Missing}, series : Nat]
          /\ backup'.pc = "sign" /\ backup'.begun = backup.begun /\ backup'.copy = backup.copy
          /\ backup'.series = db.data
      BY <1>1, <2>1, <3>1 DEF BackupFits
    <3>3. /\ Layouted(backup.copy) /\ backup.copy.version = Schema(app.release)
          /\ backup.begun <= backup.copy.data /\ backup.copy.data <= db.data
          /\ upload.pc # "swapped"
      BY <1>1, <3>1, NothingBegun DEF BackupFits
    <3> QED BY <1>1, <2>1, <3>2, <3>3 DEF BackupFits, Layouted
  <2> QED BY <2>2, <2>3, <2>4
<1> QED BY <1>2, <1>3, <1>4 DEF ArchiveInv

LEMMA SignBackupKeepsArchives ==
    ASSUME ArchiveInv, NEW f \in Archives, SignBackup(f)
    PROVE  ArchiveInv'
<1>1. /\ Running /\ backup.pc = "sign" /\ files[f] = Missing /\ backup' = NoBackup
      /\ UNCHANGED <<app, db, upload, starts, lost>>
      /\ AppFits /\ FilesFit /\ UploadFits /\ OursAreAccepted /\ BackupFits
  BY DEF SignBackup, ArchiveInv
<1> DEFINE t == TRUE
           a == [manifest |-> Manifest(backup.copy), db |-> backup.copy, series |-> backup.series,
                 begun |-> backup.begun, ended |-> db.data, key |-> app.keys[1], whole |-> t]
<1>2. files' = [files EXCEPT ![f] = a]
  BY DEF SignBackup
<1>3. ArchiveFits(a)
  <2>1. /\ Layouted(backup.copy) /\ backup.copy.version = Schema(app.release)
        /\ backup.begun <= backup.copy.data /\ backup.copy.data <= backup.series
        /\ backup.series <= db.data /\ backup.begun \in Nat /\ backup.series \in Nat
    BY <1>1 DEF BackupFits
  <2>2. db.data \in Nat /\ backup.copy \in Databases
    BY <1>1, <2>1, DatabaseFacts DEF AppFits, Layouted
  <2>3. app.keys[1] \in Secrets
    <3>1. app.keys \in Seq(Secrets) /\ app.keys # <<>>
      BY <1>1, AppFacts
    <3> QED BY <3>1
  <2>4. t \in BOOLEAN
    OBVIOUS
  <2> DEFINE m == Manifest(backup.copy)
             k == app.keys[1]
  <2>5. /\ m \in Manifests /\ m.version = backup.copy.version /\ m.layout = backup.copy.layout
        /\ m.release = app.release
    BY <1>1, <2>1, <2>2, AppFacts, DatabaseFacts DEF Manifests, Manifest
  <2> HIDE DEF m, k, t
  <2>6. a \in Archived
    BY <2>1, <2>2, <2>3, <2>4, <2>5 DEF Archived, k, m
  <2> QED BY <2>1, <2>5, <2>6 DEF ArchiveFits, m
<1> HIDE DEF a
<1>4. FilesFit'
  BY <1>1, <1>2, <1>3 DEF FilesFit
<1>5. AppFits' /\ BackupFits'
  BY <1>1, NothingBegun DEF AppFits, BackupFits, Layouted, Running
<1>6. UploadFits' /\ OursAreAccepted'
  <2>1. upload.pc \in {"extract", "migrate", "swap", "refused"} =>
          upload.file \in Archives /\ upload.file # f /\ files[upload.file] # Missing
    BY <1>1 DEF UploadFits
  <2>2. upload.pc \in {"extract", "migrate", "swap", "refused"} =>
          files'[upload.file] = files[upload.file]
    BY <1>1, <1>2, <2>1 DEF FilesFit
  <2>3. DOMAIN files' = DOMAIN files
    BY <1>2
  <2>4. upload.pc \in {"extract", "migrate", "swap", "refused"} =>
          (HmacOk(upload.file)' => HmacOk(upload.file))
    BY <1>1, <2>2 DEF HmacOk
  <2> QED BY <1>1, <2>1, <2>2, <2>3, <2>4, UploadStays
<1> QED BY <1>4, <1>5, <1>6 DEF ArchiveInv

LEMMA DamageKeepsArchives ==
    ASSUME ArchiveInv, NEW f \in Archives, Damage(f)
    PROVE  ArchiveInv'
<1> DEFINE n == FALSE
           a == [files[f] EXCEPT !.whole = n]
<1>1. /\ files[f] # Missing /\ files' = [files EXCEPT ![f] = a]
      /\ UNCHANGED <<app, db, backup, upload, starts, lost>>
      /\ AppFits /\ FilesFit /\ UploadFits /\ OursAreAccepted /\ BackupFits
  BY DEF Damage, ArchiveInv
<1>2. n \in BOOLEAN /\ (n <=> FALSE) /\ ArchiveFits(files[f])
  BY <1>1 DEF FilesFit
<1> HIDE DEF n
<1>3. /\ ArchiveFits(a) /\ a.manifest = files[f].manifest /\ a.db = files[f].db /\ ~a.whole
      /\ a # Missing
  <2>1. /\ a \in Archived /\ a.manifest = files[f].manifest /\ a.db = files[f].db /\ a.whole = n
        /\ a.begun = files[f].begun /\ a.ended = files[f].ended /\ a.series = files[f].series
    BY <1>2 DEF ArchiveFits, Archived
  <2> HIDE DEF a
  <2>2. a # Missing
    BY <2>1, ArchiveAssumption
  <2> QED BY <1>2, <2>1, <2>2 DEF ArchiveFits
<1> HIDE DEF a
<1>4. FilesFit'
  BY <1>1, <1>3 DEF FilesFit
<1>5. AppFits' /\ BackupFits'
  BY <1>1 DEF AppFits, BackupFits, Layouted, Running
<1>6. UploadFits' /\ OursAreAccepted'
  <2>1. DOMAIN files' = DOMAIN files
    BY <1>1
  <2>2. CASE upload.file = f
    <3>1. files'[upload.file] = a
      BY <1>1, <2>2 DEF FilesFit
    <3>2. ~HmacOk(upload.file)'
      BY <1>1, <1>3, <3>1 DEF HmacOk
    <3> QED BY <1>1, <1>3, <2>1, <2>2, <3>1, <3>2, UploadStays
  <2>3. CASE upload.file # f
    <3>1. upload.pc \in {"extract", "migrate", "swap", "refused"} =>
            /\ upload.file \in Archives /\ files[upload.file] # Missing
            /\ files'[upload.file] = files[upload.file]
      BY <1>1, <2>3 DEF FilesFit, UploadFits
    <3>2. upload.pc \in {"extract", "migrate", "swap", "refused"} =>
            (HmacOk(upload.file)' => HmacOk(upload.file))
      BY <1>1, <3>1 DEF HmacOk
    <3> QED BY <1>1, <2>1, <3>1, <3>2, UploadStays
  <2> QED BY <2>2, <2>3
<1> QED BY <1>4, <1>5, <1>6 DEF ArchiveInv

(* What an older or the same release has written is let in, but for a      *)
(* pre-release before another pre-release.                                 *)
LEMMA OnlyNewerIsRefused ==
    ASSUME NEW r \in Releases, NEW i \in Releases, CompareReleases(r, i) \notin {-1, 0}
    PROVE  r.number > i.number \/ (r.number = i.number /\ r # i /\ i.pre # "final")
<1>1. /\ r.number \in Nat /\ i.number \in Nat
      /\ r.number = i.number /\ r.pre = i.pre => r = i
  BY ReleaseNumbers
<1>2. r # i
  BY DEF CompareReleases
<1>3. CASE r.number # i.number
  <2>1. ~(r.number < i.number)
    BY <1>2, <1>3 DEF CompareReleases
  <2> QED BY <1>1, <1>3, <2>1
<1>4. CASE r.number = i.number
  <2>1. i.pre # "final"
    <3> SUFFICES ASSUME i.pre = "final" PROVE FALSE
      OBVIOUS
    <3>1. CASE r.pre = "final"
      BY <1>1, <1>2, <1>4, <3>1
    <3>2. CASE r.pre # "final"
      BY <1>2, <1>4, <3>2 DEF CompareReleases
    <3> QED BY <3>1, <3>2
  <2> QED BY <1>2, <1>4, <2>1
<1> QED BY <1>3, <1>4

LEMMA UploadKeepsArchives ==
    ASSUME ArchiveInv, NEW f \in Archives, Upload(f)
    PROVE  ArchiveInv'
<1>1. /\ Running /\ upload.pc = "idle" /\ files[f] # Missing
      /\ UNCHANGED <<app, db, backup, files, starts, lost>>
      /\ AppFits /\ FilesFit /\ UploadFits /\ BackupFits
  BY DEF Upload, ArchiveInv
<1>2. ArchiveFits(files[f])
  BY <1>1 DEF FilesFit
<1> DEFINE p == IF HmacOk(f) /\ Inspected(f) THEN "extract" ELSE "refused"
<1>3. p \in {"extract", "refused"} /\ (p = "extract" <=> HmacOk(f) /\ Inspected(f))
  OBVIOUS
<1>4. upload' = [Idle EXCEPT !.pc = p, !.file = f]
  BY DEF Upload
<1> HIDE DEF p
<1>5. /\ upload' \in [pc : {"idle", "extract", "migrate", "swap", "swapped", "refused", "failed"},
                      file : Archives \union {Missing}, staged : Databases \union {Missing}]
      /\ upload'.pc = p /\ upload'.file = f
  BY <1>3, <1>4, NothingBegun
<1>6. AppFits' /\ FilesFit' /\ BackupFits'
  BY <1>1, <1>3, <1>5 DEF AppFits, FilesFit, BackupFits, Layouted, Running
<1>7. UploadFits'
  BY <1>1, <1>3, <1>5 DEF UploadFits, Inspected, MayImport
<1>8. OursAreAccepted'
  <2> DEFINE r == files[f].manifest.release
             i == app.release
  <2>1. /\ r \in Releases /\ i \in Releases /\ files[f].manifest \in Manifests
        /\ files[f].manifest.version = files[f].db.version /\ files[f].db.version = Schema(r)
        /\ Schema(r) = r.number /\ Schema(i) = i.number /\ r.number \in Nat /\ i.number \in Nat
    BY <1>1, <1>2, AppFacts, ReleaseNumbers DEF ArchiveFits, Archived, Manifests
  <2>2. CASE p = "extract"
    <3>1. CompareReleases(r, i) \in {-1, 0}
      BY <1>3, <2>2 DEF Inspected, MayImport
    <3> QED BY <1>1, <1>5, <2>2, <3>1 DEF OursAreAccepted
  <2>3. CASE p = "refused"
    <3>1. HmacOk(f)' => HmacOk(f)
      BY <1>1 DEF HmacOk
    <3>2. ASSUME HmacOk(f)
          PROVE  \/ r.number > i.number
                 \/ r.number = i.number /\ r # i /\ i.pre # "final"
                 \/ MissingMigrations(files[f].db.version, Schema(i))
      <4>1. ~MayImport(files[f].manifest)
        BY <1>3, <2>1, <2>3, <3>2 DEF Inspected, WellFormed
      <4>2. \/ CompareReleases(r, i) \notin {-1, 0}
            \/ ~(Schema(r) <= Schema(i))
            \/ MissingMigrations(files[f].db.version, Schema(i))
        BY <2>1, <4>1 DEF MayImport
      <4> HIDE DEF r, i
      <4>3. ~(Schema(r) <= Schema(i)) => r.number > i.number
        BY <2>1
      <4> QED BY <2>1, <4>2, <4>3, OnlyNewerIsRefused
    <3> QED BY <1>1, <1>5, <2>3, <3>1, <3>2 DEF OursAreAccepted
  <2> QED BY <1>3, <2>2, <2>3
<1> QED BY <1>6, <1>7, <1>8 DEF ArchiveInv

LEMMA ExtractKeepsArchives == ASSUME ArchiveInv, Extract PROVE ArchiveInv'
<1> DEFINE f == upload.file
           copy == files[f].db
           m == files[f].manifest
<1>1. /\ Running /\ upload.pc = "extract"
      /\ UNCHANGED <<app, db, backup, files, starts, lost>>
      /\ AppFits /\ FilesFit /\ UploadFits /\ BackupFits
      /\ upload' = IF Verified(copy, m) THEN [upload EXCEPT !.pc = "migrate", !.staged = copy]
                   ELSE [upload EXCEPT !.pc = "refused"]
  BY DEF Extract, ArchiveInv
<1>2. f \in Archives /\ files[f] # Missing /\ MayImport(m)
  BY <1>1 DEF UploadFits
<1>3. /\ ArchiveFits(files[f]) /\ Layouted(copy) /\ m \in Manifests /\ m.version = copy.version
      /\ m.layout = copy.layout /\ copy.version \in Nat \ {0} /\ app.release \in Releases
      /\ Schema(app.release) \in Nat /\ copy \in Databases
  BY <1>1, <1>2, AppFacts DEF FilesFit, ArchiveFits, Archived, Manifests, Layouted
<1>4. copy.version <= Schema(app.release) /\ ~MissingMigrations(copy.version, Schema(app.release))
  BY <1>2, <1>3 DEF MayImport
<1>5. Verified(copy, m)
  <2>1. Compatible(copy, app.release)
    <3>1. CASE copy.version = Schema(app.release)
      BY <1>3, <3>1 DEF Compatible, Layouted
    <3>2. CASE copy.version # Schema(app.release)
      <4>1. copy.version > 0 /\ copy.version < Schema(app.release)
        <5> HIDE DEF copy
        <5> QED BY <1>3, <1>4, <3>2
      <4> QED BY <1>4, <4>1 DEF Compatible
    <3> QED BY <3>1, <3>2
  <2> QED BY <1>3, <2>1 DEF Verified
<1> HIDE DEF f, copy, m
<1>6. upload' = [upload EXCEPT !.pc = "migrate", !.staged = copy]
  BY <1>1, <1>5
<1>7. /\ upload' \in [pc : {"idle", "extract", "migrate", "swap", "swapped", "refused", "failed"},
                      file : Archives \union {Missing}, staged : Databases \union {Missing}]
      /\ upload'.pc = "migrate" /\ upload'.file = f /\ upload'.staged = copy
  BY <1>1, <1>3, <1>6 DEF UploadFits, f
<1>8. AppFits' /\ FilesFit' /\ BackupFits'
  BY <1>1, <1>7 DEF AppFits, FilesFit, BackupFits, Layouted, Running
<1>9. UploadFits'
  <2>1. upload'.file \in Archives /\ files'[upload'.file] = files[f] /\ files[f] # Missing
    BY <1>1, <1>2, <1>7
  <2>2. MayImport(files[upload.file].manifest)'
    BY <1>1, <1>2, <1>7 DEF MayImport, m
  <2>3. upload'.staged.version <= Schema(app'.release)
    BY <1>1, <1>4, <1>7
  <2>4. Layouted(upload'.staged)
    BY <1>3, <1>7
  <2> QED BY <1>7, <2>1, <2>2, <2>3, <2>4 DEF UploadFits, Layouted
<1>10. OursAreAccepted'
  <2>1. CompareReleases(files[f].manifest.release, app.release) \in {-1, 0}
    BY <1>2 DEF MayImport, m
  <2> QED BY <1>1, <1>7, <2>1 DEF OursAreAccepted
<1> QED BY <1>8, <1>9, <1>10 DEF ArchiveInv

LEMMA MigrateStagedKeepsArchives == ASSUME ArchiveInv, MigrateStaged PROVE ArchiveInv'
<1> DEFINE d == upload.staged
           e == IF d.version < Schema(app.release) THEN Migrated(d, d.version, app.release) ELSE d
<1>1. /\ Running /\ upload.pc = "migrate"
      /\ UNCHANGED <<app, db, backup, files, starts, lost>>
      /\ AppFits /\ FilesFit /\ UploadFits /\ BackupFits /\ OursAreAccepted
  BY DEF MigrateStaged, ArchiveInv
<1>2. /\ Layouted(d) /\ d.version <= Schema(app.release) /\ app.release \in Releases
      /\ d.version \in Nat /\ Schema(app.release) \in Nat
      /\ upload.file \in Archives /\ files[upload.file] # Missing
      /\ MayImport(files[upload.file].manifest)
  BY <1>1, AppFacts, DatabaseFacts DEF UploadFits, Layouted
<1>3. Layouted(e) /\ e.version = Schema(app.release)
  <2>1. CASE d.version < Schema(app.release)
    BY <1>2, <2>1, MigratedFits
  <2>2. CASE ~(d.version < Schema(app.release))
    <3>1. d.version = Schema(app.release)
      <4> HIDE DEF d
      <4> QED BY <1>2, <2>2
    <3> QED BY <1>2, <2>2, <3>1
  <2> QED BY <2>1, <2>2
<1>4. \/ upload' = [upload EXCEPT !.pc = "swap", !.staged = e]
      \/ upload' = [upload EXCEPT !.pc = "failed", !.staged = Missing]
  BY <1>1 DEF MigrateStaged, UploadFits
<1> HIDE DEF e
<1>5. /\ upload' \in [pc : {"idle", "extract", "migrate", "swap", "swapped", "refused", "failed"},
                      file : Archives \union {Missing}, staged : Databases \union {Missing}]
      /\ upload'.file = upload.file
      /\ (upload'.pc = "swap" /\ upload'.staged = e) \/ upload'.pc = "failed"
  BY <1>1, <1>3, <1>4 DEF UploadFits, Layouted
<1>6. AppFits' /\ FilesFit' /\ BackupFits'
  BY <1>1, <1>5 DEF AppFits, FilesFit, BackupFits, Layouted, Running
<1>7. UploadFits'
  BY <1>1, <1>2, <1>3, <1>5 DEF UploadFits, MayImport, Layouted
<1>8. OursAreAccepted'
  BY <1>1, <1>5 DEF OursAreAccepted
<1> QED BY <1>6, <1>7, <1>8 DEF ArchiveInv

LEMMA SwapKeepsArchives == ASSUME ArchiveInv, Swap PROVE ArchiveInv'
<1>1. /\ Running /\ upload.pc = "swap" /\ backup = NoBackup
      /\ UNCHANGED <<app, backup, files, starts, lost>>
      /\ AppFits /\ FilesFit /\ UploadFits /\ BackupFits
      /\ Layouted(upload.staged) /\ upload.staged.version = Schema(app.release)
  BY DEF Swap, ArchiveInv, UploadFits
<1>2. \/ db' = upload.staged /\ upload' = [upload EXCEPT !.pc = "swapped", !.staged = Missing]
      \/ UNCHANGED db /\ upload' = [upload EXCEPT !.pc = "failed", !.staged = Missing]
  BY DEF Swap
<1>3. /\ upload' \in [pc : {"idle", "extract", "migrate", "swap", "swapped", "refused", "failed"},
                      file : Archives \union {Missing}, staged : Databases \union {Missing}]
      /\ upload'.pc \in {"swapped", "failed"} /\ db' \in {db, upload.staged}
  BY <1>1, <1>2 DEF UploadFits
<1>4. AppFits'
  BY <1>1, <1>3 DEF AppFits, Layouted, Running
<1>5. BackupFits' /\ UploadFits' /\ OursAreAccepted' /\ FilesFit'
  BY <1>1, <1>3, NothingBegun DEF BackupFits, UploadFits, OursAreAccepted, FilesFit
<1> QED BY <1>4, <1>5 DEF ArchiveInv

LEMMA AnswerKeepsArchives == ASSUME ArchiveInv, Answer PROVE ArchiveInv'
<1>1. /\ upload.pc \in {"refused", "failed"} /\ upload' = Idle
      /\ UNCHANGED <<app, db, backup, files, starts, lost>>
      /\ AppFits /\ FilesFit /\ UploadFits /\ BackupFits
  BY DEF Answer, ArchiveInv
<1>2. AppFits' /\ BackupFits' /\ UploadFits' /\ OursAreAccepted' /\ FilesFit'
  BY <1>1, NothingBegun
     DEF AppFits, BackupFits, UploadFits, OursAreAccepted, FilesFit, Layouted, Running
<1> QED BY <1>2 DEF ArchiveInv

LEMMA ArchiveStep == ArchiveInv /\ [ArchiveNext]_archiveVars => ArchiveInv'
<1> SUFFICES ASSUME ArchiveInv, [ArchiveNext]_archiveVars PROVE ArchiveInv'
  OBVIOUS
<1>1. ASSUME NEW release \in Releases, NEW k \in Secrets, NEW l \in Secrets, NEW m \in Secrets,
             NEW keys \in {<<k>>, <<k, l>>, <<k, l, m>>}, Start(release, keys)
      PROVE  ArchiveInv'
  <2>1. keys \in Seq(Secrets) \ {<<>>}
    BY <1>1, OneKeyOrMore
  <2> QED BY <1>1, <2>1, StartKeepsArchives
<1>2. CASE InitSchema \/ Stop \/ Commit
  BY <1>2, InitSchemaKeepsArchives, StopKeepsArchives, CommitKeepsArchives
<1>3. CASE BeginBackup \/ SnapshotSqlite \/ SnapshotSeries
  BY <1>3, SnapshotsKeepArchives
<1>4. ASSUME NEW f \in Archives, SignBackup(f) \/ Damage(f) \/ Upload(f)
      PROVE  ArchiveInv'
  BY <1>4, SignBackupKeepsArchives, DamageKeepsArchives, UploadKeepsArchives
<1>5. CASE Extract \/ MigrateStaged \/ Swap \/ Answer
  BY <1>5, ExtractKeepsArchives, MigrateStagedKeepsArchives, SwapKeepsArchives, AnswerKeepsArchives
<1>6. CASE UNCHANGED archiveVars
  <2>1. UNCHANGED <<app, db, backup, files, upload, starts, lost>>
    BY <1>6 DEF archiveVars
  <2>2. UploadFits' /\ OursAreAccepted'
    BY <2>1, UploadStaysAlone DEF ArchiveInv
  <2>3. AppFits' /\ BackupFits' /\ FilesFit'
    BY <2>1 DEF ArchiveInv, AppFits, BackupFits, FilesFit, Layouted, Running
  <2> QED BY <2>2, <2>3 DEF ArchiveInv
<1> QED BY <1>1, <1>2, <1>3, <1>4, <1>5, <1>6 DEF ArchiveNext

(* What runs has its own schema and keeps what users chose, an archive     *)
(* holds one state of the database, and only whole archives of this or an  *)
(* older release are staged: for every set of releases, keys, archives and *)
(* migrations.                                                             *)
THEOREM ArchivesAreKept == ArchiveSpec => []ArchivesKept
<1> QED BY ArchiveStarts, ArchiveStep, ArchiveInvIsEnough, PTL DEF ArchiveSpec

-----------------------------------------------------------------------------
(* The refresh of the locations of data centres                            *)

PopRuns == [status : {"running", "completed", "failed"}, age : 0 .. Horizon, snapshot : Nat]

Holding == {"download", "downloaded", "no answer"} \union Sections

CallerStates == [at : {"idle", "waiting", "due"} \union Holding, wait : Nat, snapshot : Nat, run : Nat]

PopTypes ==
    /\ runs \in Seq(PopRuns) /\ evidence \in Nat
    /\ popCallers \in [Callers -> CallerStates]
    /\ popBackup \in [runs : Seq(PopRuns), evidence : Nat, made : BOOLEAN]
    /\ popCounts \in [downloads : Nat, byHand : Nat, faults : Nat]
    /\ lastAuto \in [age : 0 .. Horizon, need : 0 .. Freshness, failures : Nat]

(* One caller downloads or imports, and shows the newest snapshot.         *)
CallerHolds(c) ==
    /\ popCallers[c].at \in Holding =>
          popLock = c /\ popCallers[c].snapshot = popCounts.downloads
    /\ popCallers[c].at \in Sections =>
          /\ popCallers[c].run = Len(runs) /\ runs # <<>> /\ Last(runs).status = "running"
          /\ popWindow # "replaced"
    /\ popCallers[c].at = "successful" => evidence = popCallers[c].snapshot

(* What was said of the table holds of the table and of the archive.       *)
TableFits(rs, shown) ==
    /\ \A i \in DOMAIN rs : rs[i].status = "completed" => rs[i].snapshot <= shown
    /\ rs # <<>> /\ Last(rs).status = "completed" => shown = Last(rs).snapshot

(* What the loop must wait for is in the runs: a plan made from them waits *)
(* as long.                                                                *)
WaitIsRecorded(rs, auto) ==
    auto.need > auto.age =>
       IF Failures(rs) > 0
       THEN Backoff(Failures(rs)) - Latest(rs, Terminal).age >= auto.need - auto.age
       ELSE /\ Those(rs, {"completed"}) # {}
            /\ Freshness - Latest(rs, {"completed"}).age >= auto.need - auto.age

RefreshInv ==
    /\ PopTypes
    /\ \A c \in Callers : CallerHolds(c)
    /\ TableFits(runs, evidence) /\ TableFits(popBackup.runs, popBackup.evidence)
    /\ evidence <= popCounts.downloads /\ popBackup.evidence <= popCounts.downloads
    /\ lastAuto.failures <= Failures(runs)
    /\ WaitIsRecorded(runs, lastAuto)
    /\ DownloadsAreSpaced

-----------------------------------------------------------------------------
(* Powers of two, counted as the subsets of an interval.                   *)
LEMMA PowersGrow ==
    ASSUME NEW m \in Nat, NEW n \in Nat, m <= n
    PROVE  2 ^ m \in Nat /\ 2 ^ n \in Nat /\ 1 <= 2 ^ m /\ 2 ^ m <= 2 ^ n
<1> DEFINE few == SUBSET (1 .. m)
           many == SUBSET (1 .. n)
<1>1. /\ IsFiniteSet(1 .. m) /\ Cardinality(1 .. m) = m
      /\ IsFiniteSet(1 .. n) /\ Cardinality(1 .. n) = n
  BY FS_Interval
<1>2. IsFiniteSet(few) /\ Cardinality(few) = 2 ^ m
  BY <1>1, FS_SUBSET
<1>3. IsFiniteSet(many) /\ Cardinality(many) = 2 ^ n
  BY <1>1, FS_SUBSET
<1>4. few \in SUBSET many /\ few # {}
  <2>1. \A x \in few : x \in many
    OBVIOUS
  <2>2. {} \in few
    OBVIOUS
  <2> HIDE DEF few, many
  <2> QED BY <2>1, <2>2
<1> HIDE DEF few, many
<1>5. Cardinality(few) \in Nat /\ Cardinality(many) \in Nat
  BY <1>2, <1>3, FS_CardinalityType
<1>6. Cardinality(few) <= Cardinality(many)
  BY <1>3, <1>4, FS_Subset
<1>7. Cardinality(few) # 0
  BY <1>2, <1>4, FS_EmptySet
<1> QED BY <1>2, <1>3, <1>5, <1>6, <1>7

LEMMA ProductsGrow ==
    ASSUME NEW b \in Nat, NEW p \in Nat, NEW q \in Nat, p <= q
    PROVE  b * p \in Nat /\ b * q \in Nat /\ b * p <= b * q
  OBVIOUS

LEMMA PopNumbers ==
    /\ Freshness \in Nat /\ BackoffBase \in Nat \ {0} /\ BackoffMost \in Nat /\ Startup \in Nat \ {0}
    /\ Pause \in Nat \ {0} /\ Horizon \in Nat
    /\ BackoffBase <= BackoffMost /\ BackoffMost <= Freshness /\ Freshness <= Horizon
  BY PopAssumption

(* A wait after more failures is not shorter.                              *)
LEMMA BackoffGrows ==
    ASSUME NEW m \in Nat, NEW n \in Nat, m <= n
    PROVE  /\ Backoff(m) \in 0 .. BackoffMost /\ Backoff(n) \in 0 .. BackoffMost
           /\ m # 0 => BackoffBase <= Backoff(m)
           /\ Backoff(m) <= Backoff(n)
<1> DEFINE e(k) == IF k > 17 THEN 16 ELSE k - 1
           w(k) == BackoffBase * 2 ^ e(k)
<1>1. ASSUME NEW k \in Nat, k # 0
      PROVE  /\ e(k) \in Nat /\ Backoff(k) = IF w(k) > BackoffMost THEN BackoffMost ELSE w(k)
             /\ w(k) \in Nat /\ BackoffBase <= w(k)
  <2>1. e(k) \in Nat /\ 0 <= e(k)
    BY <1>1
  <2>2. Backoff(k) = IF w(k) > BackoffMost THEN BackoffMost ELSE w(k)
    BY <1>1 DEF Backoff
  <2> HIDE DEF e
  <2>3. 2 ^ e(k) \in Nat /\ 1 <= 2 ^ e(k)
    BY <2>1, PowersGrow
  <2> DEFINE p == 2 ^ e(k)
  <2>4. p \in Nat /\ 1 <= p /\ BackoffBase \in Nat /\ w(k) = BackoffBase * p
    BY <2>3, PopNumbers
  <2> HIDE DEF p, w
  <2>5. BackoffBase * 1 <= BackoffBase * p /\ BackoffBase * p \in Nat
    BY <2>4, ProductsGrow
  <2>6. BackoffBase * 1 = BackoffBase
    BY <2>4
  <2> QED BY <2>1, <2>2, <2>4, <2>5, <2>6
<1>2. ASSUME m # 0 PROVE w(m) <= w(n)
  <2>1. e(m) \in Nat /\ e(n) \in Nat /\ e(m) <= e(n)
    BY <1>2
  <2> HIDE DEF e
  <2>2. 2 ^ e(m) \in Nat /\ 2 ^ e(n) \in Nat /\ 2 ^ e(m) <= 2 ^ e(n)
    BY <2>1, PowersGrow
  <2> QED BY <2>2, ProductsGrow, PopNumbers
<1>3. Backoff(0) = 0
  BY DEF Backoff
<1> HIDE DEF w, e
<1>4. CASE m = 0 /\ n = 0
  BY <1>3, <1>4, PopNumbers
<1>5. CASE m = 0 /\ n # 0
  BY <1>1, <1>3, <1>5, PopNumbers
<1>6. CASE m # 0
  <2>1. n # 0
    BY <1>6
  <2> QED BY <1>1, <1>2, <1>6, <2>1, PopNumbers
<1> QED BY <1>4, <1>5, <1>6

-----------------------------------------------------------------------------
(* The newest of the runs with a status.                                   *)
LEMMA LatestIs ==
    ASSUME NEW rs \in Seq(PopRuns), NEW statuses, NEW i \in Those(rs, statuses),
           \A j \in Those(rs, statuses) : j <= i
    PROVE  Latest(rs, statuses) = rs[i]
<1> DEFINE Newest(k) == k \in Those(rs, statuses) /\ \A j \in Those(rs, statuses) : j <= k
           k0 == CHOOSE k \in Those(rs, statuses) : \A j \in Those(rs, statuses) : j <= k
<1>1. k0 \in Those(rs, statuses) /\ \A j \in Those(rs, statuses) : j <= k0
  OBVIOUS
<1>2. i \in Nat /\ k0 \in Nat
  BY <1>1 DEF Those
<1>3. i <= k0 /\ k0 <= i
  BY <1>1
<1>4. k0 = i
  BY <1>2, <1>3
<1> QED BY <1>4 DEF Latest

LEMMA SomeIsLatest ==
    ASSUME NEW rs \in Seq(PopRuns), NEW statuses, Those(rs, statuses) # {}
    PROVE  \E i \in Those(rs, statuses) :
              (\A j \in Those(rs, statuses) : j <= i) /\ Latest(rs, statuses) = rs[i]
<1> DEFINE n == Len(rs)
           mirrored == {k \in Nat : k <= n /\ n - k \in Those(rs, statuses)}
<1>1. n \in Nat /\ Those(rs, statuses) \subseteq 1 .. n
  BY DEF Those
<1> HIDE DEF n
<1>2. PICK j \in Those(rs, statuses) : TRUE
  OBVIOUS
<1>3. n - j \in mirrored
  <2>1. j \in 1 .. n
    BY <1>1
  <2>2. n - j \in Nat /\ n - j <= n /\ n - (n - j) = j
    BY <1>1, <2>1
  <2> QED BY <2>2
<1>4. mirrored \subseteq Nat /\ mirrored # {}
  BY <1>3
<1> HIDE DEF mirrored
<1>5. PICK k \in mirrored : \A l \in mirrored : k <= l
  BY <1>4, LeastNumber
<1>6. k \in Nat /\ k <= n /\ n - k \in Those(rs, statuses)
  BY <1>5 DEF mirrored
<1>7. ASSUME NEW l \in Those(rs, statuses) PROVE l <= n - k
  <2>1. l \in 1 .. n
    BY <1>1
  <2>2. n - l \in Nat /\ n - l <= n /\ n - (n - l) = l
    BY <1>1, <2>1
  <2>3. n - l \in mirrored
    BY <2>2 DEF mirrored
  <2>4. k <= n - l
    BY <1>5, <2>3
  <2> QED BY <1>1, <1>6, <2>1, <2>4
<1>8. Latest(rs, statuses) = rs[n - k]
  BY <1>6, <1>7, LatestIs
<1> QED BY <1>6, <1>7, <1>8

LEMMA StreakIsFinite ==
    ASSUME NEW rs \in Seq(PopRuns)
    PROVE  /\ IsFiniteSet(Streak(rs)) /\ Failures(rs) \in Nat
           /\ Failures(rs) = 0 <=> Streak(rs) = {}
<1>1. Streak(rs) \subseteq 1 .. Len(rs) /\ Len(rs) \in Nat
  BY DEF Streak, Those
<1>2. IsFiniteSet(1 .. Len(rs))
  BY <1>1, FS_Interval
<1>3. IsFiniteSet(Streak(rs))
  BY <1>1, <1>2, FS_Subset
<1> QED BY <1>3, FS_CardinalityType, FS_EmptySet DEF Failures

LEMMA StreakGrows ==
    ASSUME NEW rs \in Seq(PopRuns), NEW ts \in Seq(PopRuns), Streak(rs) \subseteq Streak(ts)
    PROVE  /\ Failures(rs) <= Failures(ts)
           /\ (\E i : i \in Streak(ts) /\ i \notin Streak(rs)) => Failures(rs) + 1 <= Failures(ts)
<1>1. IsFiniteSet(Streak(ts)) /\ IsFiniteSet(Streak(rs))
  BY StreakIsFinite
<1>2. /\ Failures(rs) \in Nat /\ Failures(ts) \in Nat
  BY StreakIsFinite
<1>3. Cardinality(Streak(rs)) <= Cardinality(Streak(ts))
  BY <1>1, FS_Subset
<1>4. Cardinality(Streak(rs)) = Cardinality(Streak(ts)) => Streak(rs) = Streak(ts)
  BY <1>1, FS_Subset
<1> QED BY <1>2, <1>3, <1>4 DEF Failures

(* A function on an interval of numbers is a sequence.                     *)
LEMMA RunsFromFunction ==
    ASSUME NEW n \in Nat, NEW f \in [1 .. n -> PopRuns]
    PROVE  f \in Seq(PopRuns) /\ Len(f) = n /\ DOMAIN f = 1 .. n
<1>1. f \in Seq(PopRuns)
  BY SeqDef
<1> QED BY <1>1, LenProperties

(* A run begins.                                                           *)
LEMMA RunBegins ==
    ASSUME NEW rs \in Seq(PopRuns), NEW r \in PopRuns, r.status = "running"
    PROVE  /\ Append(rs, r) \in Seq(PopRuns) /\ Len(Append(rs, r)) = Len(rs) + 1
           /\ Last(Append(rs, r)) = r
           /\ Failures(Append(rs, r)) = Failures(rs)
           /\ \A statuses : "running" \notin statuses =>
                 /\ Those(Append(rs, r), statuses) = Those(rs, statuses)
                 /\ Those(rs, statuses) # {} =>
                       Latest(Append(rs, r), statuses) = Latest(rs, statuses)
<1> DEFINE ts == Append(rs, r)
           n == Len(rs)
<1>1. /\ ts \in Seq(PopRuns) /\ Len(ts) = n + 1 /\ n \in Nat
      /\ \A i \in 1 .. n : ts[i] = rs[i]
      /\ ts[n + 1] = r
  BY AppendProperties
<1>2. DOMAIN ts = 1 .. n + 1 /\ DOMAIN rs = 1 .. n
  BY <1>1
<1>3. Last(ts) = r
  BY <1>1 DEF Last
<1> HIDE DEF ts, n
<1>4. ASSUME NEW statuses, "running" \notin statuses
      PROVE  Those(ts, statuses) = Those(rs, statuses)
  BY <1>1, <1>2, <1>4 DEF Those
<1>5. Streak(ts) = Streak(rs)
  <2>1. Those(ts, {"failed"}) = Those(rs, {"failed"}) /\ Those(rs, {"failed"}) \subseteq 1 .. n
    BY <1>2, <1>4 DEF Those
  <2>2. ASSUME NEW i \in 1 .. n
        PROVE  (\A j \in i .. n + 1 : ts[j].status # "completed")
                  <=> (\A j \in i .. n : rs[j].status # "completed")
    <3>1. ASSUME \A j \in i .. n + 1 : ts[j].status # "completed", NEW j \in i .. n
          PROVE  rs[j].status # "completed"
      <4>1. j \in i .. n + 1 /\ j \in 1 .. n
        BY <1>1
      <4> QED BY <1>1, <3>1, <4>1
    <3>2. ASSUME \A j \in i .. n : rs[j].status # "completed", NEW j \in i .. n + 1
          PROVE  ts[j].status # "completed"
      <4>1. CASE j = n + 1
        BY <1>1, <4>1
      <4>2. CASE j # n + 1
        <5>1. j \in i .. n /\ j \in 1 .. n
          BY <1>1, <4>2
        <5> QED BY <1>1, <3>2, <5>1
      <4> QED BY <4>1, <4>2
    <3> QED BY <3>1, <3>2
  <2>3. Streak(ts) = {i \in Those(ts, {"failed"}) : \A j \in i .. n + 1 : ts[j].status # "completed"}
    BY <1>1 DEF Streak
  <2>4. Streak(rs) = {i \in Those(rs, {"failed"}) : \A j \in i .. n : rs[j].status # "completed"}
    BY DEF Streak, n
  <2> QED BY <2>1, <2>2, <2>3, <2>4
<1>6. ASSUME NEW statuses, "running" \notin statuses, Those(rs, statuses) # {}
      PROVE  Latest(ts, statuses) = Latest(rs, statuses)
  <2>1. PICK i \in Those(rs, statuses) :
           (\A j \in Those(rs, statuses) : j <= i) /\ Latest(rs, statuses) = rs[i]
    BY <1>6, SomeIsLatest
  <2>2. i \in Those(ts, statuses) /\ \A j \in Those(ts, statuses) : j <= i
    BY <1>4, <1>6, <2>1
  <2>3. Latest(ts, statuses) = ts[i]
    BY <1>1, <2>2, LatestIs
  <2>4. i \in 1 .. n
    BY <1>2, <2>1 DEF Those
  <2> QED BY <1>1, <2>1, <2>3, <2>4
<1> QED BY <1>1, <1>3, <1>4, <1>5, <1>6 DEF Failures, ts, n

(* The last run, still running, ends.                                      *)
LEMMA RunEnds ==
    ASSUME NEW rs \in Seq(PopRuns), NEW r \in PopRuns, rs # <<>>, Last(rs).status = "running"
    PROVE  LET ts == [rs EXCEPT ![Len(rs)] = r] IN
           /\ ts \in Seq(PopRuns) /\ Len(ts) = Len(rs) /\ ts # <<>> /\ Last(ts) = r
           /\ \A i \in DOMAIN rs : i # Len(rs) => ts[i] = rs[i]
           /\ DOMAIN ts = DOMAIN rs /\ ts[Len(rs)] = r
           /\ r.status = "completed" => /\ Failures(ts) = 0
                                        /\ Those(ts, {"completed"}) # {}
                                        /\ Latest(ts, {"completed"}) = r
           /\ r.status = "failed" => /\ Failures(rs) + 1 <= Failures(ts)
                                     /\ Latest(ts, Terminal) = r
<1> DEFINE n == Len(rs)
           ts == [rs EXCEPT ![n] = r]
<1>1. n \in Nat \ {0} /\ n \in 1 .. n /\ DOMAIN rs = 1 .. n /\ rs[n].status = "running"
  <2>1. n \in Nat \ {0} /\ DOMAIN rs = 1 .. n
    BY EmptySeq, LenProperties
  <2> QED BY <2>1 DEF Last
<1>2. /\ ts \in Seq(PopRuns) /\ Len(ts) = n
      /\ \A j \in 1 .. n : ts[j] = IF j = n THEN r ELSE rs[j]
  BY <1>1, ExceptSeq
<1>3. DOMAIN ts = 1 .. n /\ ts # <<>> /\ Last(ts) = r
  <2>1. DOMAIN ts = 1 .. n /\ ts[n] = r
    BY <1>1, <1>2
  <2>2. ts # <<>>
    BY <1>1, <1>2, EmptySeq
  <2> QED BY <1>2, <2>1, <2>2 DEF Last
<1> HIDE DEF ts, n
<1>4. ASSUME NEW statuses, r.status \in statuses
      PROVE  n \in Those(ts, statuses) /\ Latest(ts, statuses) = r
  <2>1. n \in Those(ts, statuses) /\ Those(ts, statuses) \subseteq 1 .. n
    BY <1>1, <1>2, <1>3, <1>4 DEF Those
  <2>2. \A j \in Those(ts, statuses) : j <= n
    BY <1>1, <2>1
  <2>3. Latest(ts, statuses) = ts[n]
    BY <1>2, <2>1, <2>2, LatestIs
  <2> QED BY <1>1, <1>2, <2>1, <2>3
<1>5. ASSUME r.status = "completed" PROVE Failures(ts) = 0
  <2>1. ASSUME NEW i \in Streak(ts) PROVE FALSE
    <3>1. i \in 1 .. n /\ \A j \in i .. n : ts[j].status # "completed"
      BY <1>2, <1>3, <2>1 DEF Streak, Those
    <3>2. n \in i .. n
      BY <1>1, <3>1
    <3> QED BY <1>1, <1>2, <1>5, <3>1, <3>2
  <2> QED BY <1>2, <2>1, StreakIsFinite
<1>6. ASSUME r.status = "failed" PROVE Failures(rs) + 1 <= Failures(ts)
  <2>1. n \in Streak(ts)
    <3>1. n \in Those(ts, {"failed"})
      BY <1>4, <1>6
    <3>2. ASSUME NEW j \in n .. n PROVE ts[j].status # "completed"
      BY <1>1, <1>2, <1>6
    <3> QED BY <1>2, <3>1, <3>2 DEF Streak
  <2>2. n \notin Streak(rs)
    BY <1>1 DEF Streak, Those
  <2>3. ASSUME NEW i \in Streak(rs) PROVE i \in Streak(ts)
    <3>1. i \in 1 .. n /\ rs[i].status = "failed" /\ i # n
      BY <1>1, <2>2, <2>3 DEF Streak, Those
    <3>2. \A j \in i .. n : rs[j].status # "completed"
      BY <2>3 DEF Streak, n
    <3>3. i \in Those(ts, {"failed"})
      BY <1>2, <1>3, <3>1 DEF Those
    <3>4. ASSUME NEW j \in i .. n PROVE ts[j].status # "completed"
      <4>1. j \in 1 .. n
        BY <1>1, <3>1
      <4> QED BY <1>2, <1>6, <3>2, <4>1
    <3> QED BY <1>2, <3>3, <3>4 DEF Streak
  <2>4. Streak(rs) \subseteq Streak(ts)
    BY <2>3
  <2> QED BY <1>2, <2>1, <2>2, <2>4, StreakGrows
<1>7. r.status = "failed" => Latest(ts, Terminal) = r
  BY <1>4 DEF Terminal
<1>8. /\ \A i \in DOMAIN rs : i # n => ts[i] = rs[i]
      /\ DOMAIN ts = DOMAIN rs /\ ts[n] = r
  BY <1>1, <1>2, <1>3
<1>9. r.status = "completed" => Those(ts, {"completed"}) # {} /\ Latest(ts, {"completed"}) = r
  BY <1>4
<1> QED BY <1>2, <1>3, <1>5, <1>6, <1>7, <1>8, <1>9 DEF ts, n

LEMMA RunFacts ==
    ASSUME NEW r \in PopRuns
    PROVE  /\ r.status \in {"running", "completed", "failed"}
           /\ r.age \in Nat /\ r.age <= Horizon /\ r.snapshot \in Nat
<1>1. r.status \in {"running", "completed", "failed"} /\ r.age \in 0 .. Horizon /\ r.snapshot \in Nat
  BY DEF PopRuns
<1> QED BY <1>1, PopNumbers

LEMMA NewRun ==
    ASSUME NEW st \in {"running", "completed", "failed"}, NEW s \in Nat
    PROVE  [status |-> st, age |-> 0, snapshot |-> s] \in PopRuns
<1> DEFINE z == 0
<1>1. z \in 0 .. Horizon
  BY PopNumbers
<1> HIDE DEF z
<1>2. [status |-> st, age |-> z, snapshot |-> s] \in PopRuns
  BY <1>1 DEF PopRuns
<1> QED BY <1>2 DEF z

(* The start of the process: no run is running any more.                   *)
LEMMA RunsAreRecovered ==
    ASSUME NEW rs \in Seq(PopRuns)
    PROVE  LET ts == RunsRecovered(rs) IN
           /\ ts \in Seq(PopRuns) /\ Len(ts) = Len(rs) /\ DOMAIN ts = DOMAIN rs
           /\ \A i \in DOMAIN rs : rs[i].status # "running" => ts[i] = rs[i]
           /\ \A i \in DOMAIN rs : rs[i].status = "running" =>
                 ts[i].status = "failed" /\ ts[i].age = 0
           /\ Streak(rs) \subseteq Streak(ts)
<1> DEFINE ts == RunsRecovered(rs)
           n == Len(rs)
           gone == [status |-> "failed", age |-> 0, snapshot |-> 0]
<1>1. n \in Nat /\ DOMAIN rs = 1 .. n /\ \A i \in 1 .. n : rs[i] \in PopRuns
  BY LenProperties, ElementOfSeq
<1>2. gone \in PopRuns
  <2> DEFINE zero == 0
             st == "failed"
  <2>1. zero \in Nat /\ st \in {"running", "completed", "failed"}
    OBVIOUS
  <2> HIDE DEF zero, st
  <2>2. [status |-> st, age |-> 0, snapshot |-> zero] \in PopRuns
    BY <2>1, NewRun
  <2> QED BY <2>2 DEF zero, st
<1>3. gone.status = "failed" /\ gone.age = 0
  OBVIOUS
<1> HIDE DEF gone, n
<1>4. ts = [i \in 1 .. n |-> IF rs[i].status = "running" THEN gone ELSE rs[i]]
  BY <1>1 DEF RunsRecovered, gone
<1>5. ts \in [1 .. n -> PopRuns]
  BY <1>1, <1>2, <1>4
<1>6. ts \in Seq(PopRuns) /\ Len(ts) = n /\ DOMAIN ts = 1 .. n
  BY <1>1, <1>5, RunsFromFunction
<1>7. \A i \in 1 .. n : ts[i] = IF rs[i].status = "running" THEN gone ELSE rs[i]
  BY <1>4
<1> HIDE DEF ts
<1>8. ASSUME NEW i \in Streak(rs) PROVE i \in Streak(ts)
  <2>1. i \in 1 .. n /\ rs[i].status = "failed"
    BY <1>1, <1>8 DEF Streak, Those
  <2>2. \A j \in i .. n : rs[j].status # "completed"
    BY <1>8 DEF Streak, n
  <2>3. i \in Those(ts, {"failed"})
    BY <1>6, <1>7, <2>1 DEF Those
  <2>4. ASSUME NEW j \in i .. n PROVE ts[j].status # "completed"
    <3>1. j \in 1 .. n
      BY <1>1, <2>1
    <3> QED BY <1>3, <1>7, <2>2, <3>1
  <2> QED BY <1>6, <2>3, <2>4 DEF Streak
<1> QED BY <1>1, <1>3, <1>6, <1>7, <1>8 DEF ts, n

(* Of runs that have ended the last is the newest.                         *)
LEMMA LastIsLatest ==
    ASSUME NEW ts \in Seq(PopRuns), ts # <<>>, ts[Len(ts)].status \in Terminal
    PROVE  Those(ts, Terminal) # {} /\ Latest(ts, Terminal) = ts[Len(ts)]
<1> DEFINE n == Len(ts)
<1>1. n \in Nat \ {0} /\ n \in 1 .. n /\ DOMAIN ts = 1 .. n
  <2>1. n \in Nat \ {0} /\ DOMAIN ts = 1 .. n
    BY EmptySeq, LenProperties
  <2> QED BY <2>1
<1> HIDE DEF n
<1>2. n \in Those(ts, Terminal) /\ Those(ts, Terminal) \subseteq 1 .. n
  BY <1>1 DEF Those, n
<1>3. \A j \in Those(ts, Terminal) : j <= n
  BY <1>1, <1>2
<1> QED BY <1>2, <1>3, LatestIs DEF n

(* Time passes for all runs.                                               *)
LEMMA RunsGrowOld ==
    ASSUME NEW rs \in Seq(PopRuns)
    PROVE  LET ts == AllOlder(rs) IN
           /\ ts \in Seq(PopRuns) /\ Len(ts) = Len(rs) /\ DOMAIN ts = DOMAIN rs
           /\ \A i \in DOMAIN rs : /\ ts[i].status = rs[i].status /\ ts[i].snapshot = rs[i].snapshot
                                   /\ ts[i].age <= rs[i].age + 1
           /\ Failures(ts) = Failures(rs)
           /\ \A statuses : /\ Those(ts, statuses) = Those(rs, statuses)
                            /\ Those(rs, statuses) # {} =>
                                  Latest(ts, statuses).age <= Latest(rs, statuses).age + 1
<1> DEFINE ts == AllOlder(rs)
           n == Len(rs)
<1>1. n \in Nat /\ DOMAIN rs = 1 .. n /\ \A i \in 1 .. n : rs[i] \in PopRuns
  BY LenProperties, ElementOfSeq
<1> HIDE DEF n
<1>2. ASSUME NEW r \in PopRuns
      PROVE  LET t == [r EXCEPT !.age = Older(@)] IN
             /\ t \in PopRuns /\ t.status = r.status /\ t.snapshot = r.snapshot
             /\ t.age <= r.age + 1
  <2> DEFINE a == Older(r.age)
  <2>1. a \in 0 .. Horizon /\ a <= r.age + 1
    BY RunFacts, PopNumbers DEF Older
  <2> HIDE DEF a
  <2>2. LET t == [r EXCEPT !.age = a] IN
        t \in PopRuns /\ t.status = r.status /\ t.snapshot = r.snapshot /\ t.age = a
    BY <2>1 DEF PopRuns
  <2> QED BY <2>1, <2>2 DEF a
<1>3. ts = [i \in 1 .. n |-> [rs[i] EXCEPT !.age = Older(@)]]
  BY <1>1 DEF AllOlder
<1>4. \A i \in 1 .. n : /\ ts[i] \in PopRuns
                        /\ ts[i].status = rs[i].status /\ ts[i].snapshot = rs[i].snapshot
                        /\ ts[i].age <= rs[i].age + 1
  BY <1>1, <1>2, <1>3
<1>5. ts \in [1 .. n -> PopRuns]
  BY <1>3, <1>4
<1>6. ts \in Seq(PopRuns) /\ Len(ts) = n /\ DOMAIN ts = 1 .. n
  BY <1>1, <1>5, RunsFromFunction
<1> HIDE DEF ts
<1>7. ASSUME NEW statuses
      PROVE  Those(ts, statuses) = Those(rs, statuses)
  BY <1>1, <1>4, <1>6 DEF Those
<1>8. ASSUME NEW statuses, Those(rs, statuses) # {}
      PROVE  Latest(ts, statuses).age <= Latest(rs, statuses).age + 1
  <2>1. PICK i \in Those(rs, statuses) :
           (\A j \in Those(rs, statuses) : j <= i) /\ Latest(rs, statuses) = rs[i]
    BY <1>8, SomeIsLatest
  <2>2. i \in Those(ts, statuses) /\ \A j \in Those(ts, statuses) : j <= i
    BY <1>7, <2>1
  <2>3. Latest(ts, statuses) = ts[i]
    BY <1>6, <2>2, LatestIs
  <2>4. i \in 1 .. n
    BY <1>1, <2>1 DEF Those
  <2> QED BY <1>4, <2>1, <2>3, <2>4
<1>9. Streak(ts) = Streak(rs)
  <2>1. Those(rs, {"failed"}) \subseteq 1 .. n
    BY <1>1 DEF Those
  <2>2. ASSUME NEW i \in 1 .. n
        PROVE  (\A j \in i .. n : ts[j].status # "completed")
                  <=> (\A j \in i .. n : rs[j].status # "completed")
    <3>1. \A j \in i .. n : j \in 1 .. n
      BY <1>1
    <3> QED BY <1>4, <3>1
  <2>3. Streak(ts) = {i \in Those(ts, {"failed"}) : \A j \in i .. n : ts[j].status # "completed"}
    BY <1>6 DEF Streak
  <2>4. Streak(rs) = {i \in Those(rs, {"failed"}) : \A j \in i .. n : rs[j].status # "completed"}
    BY DEF Streak, n
  <2> QED BY <1>7, <2>1, <2>2, <2>3, <2>4
<1> QED BY <1>1, <1>4, <1>6, <1>7, <1>8, <1>9 DEF Failures, ts, n

LoopHistories == [age : 0 .. Horizon, need : 0 .. Freshness, failures : Nat]

LEMMA AutoFacts ==
    ASSUME NEW a \in LoopHistories
    PROVE  /\ a.age \in Nat /\ a.age <= Horizon /\ a.need \in Nat /\ a.need <= Freshness
           /\ a.need <= Horizon /\ a.failures \in Nat
<1>1. a.age \in 0 .. Horizon /\ a.need \in 0 .. Freshness /\ a.failures \in Nat
  BY DEF LoopHistories
<1> QED BY <1>1, PopNumbers

LEMMA LatestIsARun ==
    ASSUME NEW rs \in Seq(PopRuns), NEW statuses, Those(rs, statuses) # {}
    PROVE  Latest(rs, statuses) \in PopRuns
<1>1. PICK i \in Those(rs, statuses) : Latest(rs, statuses) = rs[i]
  BY SomeIsLatest
<1>2. i \in 1 .. Len(rs)
  BY <1>1 DEF Those
<1> QED BY <1>1, <1>2, ElementOfSeq

LEMMA FailuresHaveEnded ==
    ASSUME NEW rs \in Seq(PopRuns), Failures(rs) > 0
    PROVE  Those(rs, Terminal) # {}
<1>1. Streak(rs) # {}
  BY StreakIsFinite
<1> QED BY <1>1 DEF Streak, Those, Terminal

(* The wait that the loop plans is not over before it is due.              *)
LEMMA PlanWaits ==
    ASSUME NEW rs \in Seq(PopRuns), NEW a \in LoopHistories, WaitIsRecorded(rs, a)
    PROVE  Plan(rs) \subseteq Nat /\ (0 \in Plan(rs) => a.need <= a.age)
<1>1. a.age \in Nat /\ a.need \in Nat /\ Failures(rs) \in Nat
  BY AutoFacts, StreakIsFinite
<1>2. CASE Failures(rs) > 0
  <2> DEFINE rest == Backoff(Failures(rs)) - Latest(rs, Terminal).age
  <2>1. Plan(rs) = {IF rest > 0 THEN rest ELSE 0}
    BY <1>2 DEF Plan
  <2>2. rest \in Int
    <3>1. Backoff(Failures(rs)) \in Nat
      BY <1>1, BackoffGrows, PopNumbers
    <3>2. Latest(rs, Terminal).age \in Nat
      BY <1>2, FailuresHaveEnded, LatestIsARun, RunFacts
    <3> QED BY <3>1, <3>2
  <2>3. a.need > a.age => rest >= a.need - a.age
    BY <1>2 DEF WaitIsRecorded
  <2> HIDE DEF rest
  <2> QED BY <1>1, <2>1, <2>2, <2>3
<1>3. CASE ~(Failures(rs) > 0) /\ Those(rs, {"completed"}) = {}
  <2>1. Plan(rs) = {Startup}
    BY <1>3 DEF Plan
  <2> QED BY <2>1, PopNumbers
<1>4. CASE ~(Failures(rs) > 0) /\ Those(rs, {"completed"}) # {}
  <2> DEFINE rest == Freshness - Latest(rs, {"completed"}).age
  <2>1. Plan(rs) = IF rest > 0 THEN {rest + jitter : jitter \in Jitters} ELSE {0}
    BY <1>4 DEF Plan
  <2>2. rest \in Int
    <3>1. Latest(rs, {"completed"}).age \in Nat
      BY <1>4, LatestIsARun, RunFacts
    <3> QED BY <3>1, PopNumbers
  <2>3. a.need > a.age => rest >= a.need - a.age
    BY <1>4 DEF WaitIsRecorded
  <2> HIDE DEF rest
  <2>4. Jitters \subseteq Nat
    BY PopAssumption
  <2> QED BY <1>1, <2>1, <2>2, <2>3, <2>4
<1> QED BY <1>2, <1>3, <1>4

-----------------------------------------------------------------------------
LEMMA WaitAtBegin ==
    ASSUME NEW rs \in Seq(PopRuns), NEW a \in LoopHistories, WaitIsRecorded(rs, a),
           NEW r \in PopRuns, r.status = "running"
    PROVE  WaitIsRecorded(Append(rs, r), a)
<1> DEFINE ts == Append(rs, r)
<1>1. "running" \notin Terminal /\ "running" \notin {"completed"}
  BY DEF Terminal
<1>2. /\ Failures(ts) = Failures(rs)
      /\ Those(ts, {"completed"}) = Those(rs, {"completed"})
      /\ Those(rs, Terminal) # {} => Latest(ts, Terminal) = Latest(rs, Terminal)
      /\ Those(rs, {"completed"}) # {} => Latest(ts, {"completed"}) = Latest(rs, {"completed"})
  BY <1>1, RunBegins
<1>3. Failures(rs) > 0 => Those(rs, Terminal) # {}
  BY FailuresHaveEnded
<1> HIDE DEF ts
<1>4. WaitIsRecorded(ts, a)
  BY <1>2, <1>3 DEF WaitIsRecorded
<1> QED BY <1>4 DEF ts

LEMMA WaitAfterSuccess ==
    ASSUME NEW ts \in Seq(PopRuns), NEW b \in LoopHistories,
           Failures(ts) = 0, Those(ts, {"completed"}) # {}, Latest(ts, {"completed"}).age = 0
    PROVE  WaitIsRecorded(ts, b)
<1>1. b.age \in Nat /\ b.need \in Nat /\ b.need <= Freshness /\ Freshness \in Nat
  BY AutoFacts, PopNumbers
<1>2. Freshness - 0 >= b.need - b.age
  BY <1>1
<1> QED BY <1>2 DEF WaitIsRecorded

LEMMA WaitAfterFailure ==
    ASSUME NEW ts \in Seq(PopRuns), NEW b \in LoopHistories, Failures(ts) > 0,
           Latest(ts, Terminal).age = 0, b.need <= Backoff(Failures(ts))
    PROVE  WaitIsRecorded(ts, b)
<1>1. b.age \in Nat /\ b.need \in Nat
  BY AutoFacts
<1>2. Backoff(Failures(ts)) \in Nat
  BY StreakIsFinite, BackoffGrows, PopNumbers
<1>3. Backoff(Failures(ts)) - 0 >= b.need - b.age
  BY <1>1, <1>2
<1> QED BY <1>3 DEF WaitIsRecorded

(* A process that starts waits as long as the one that died had to.        *)
LEMMA WaitAfterRecovery ==
    ASSUME NEW rs \in Seq(PopRuns), NEW a \in LoopHistories, WaitIsRecorded(rs, a),
           NEW b \in LoopHistories,
           \/ b.need <= a.need /\ b.age = a.age
           \/ rs # <<>> /\ rs[Len(rs)].status = "running",
           rs # <<>> /\ rs[Len(rs)].status = "running" => b.need <= Backoff(Failures(RunsRecovered(rs)))
    PROVE  WaitIsRecorded(RunsRecovered(rs), b)
<1> DEFINE ts == RunsRecovered(rs)
           n == Len(rs)
<1>1. /\ ts \in Seq(PopRuns) /\ Len(ts) = n /\ DOMAIN ts = DOMAIN rs
      /\ \A i \in DOMAIN rs : rs[i].status # "running" => ts[i] = rs[i]
      /\ \A i \in DOMAIN rs : rs[i].status = "running" => ts[i].status = "failed" /\ ts[i].age = 0
      /\ Streak(rs) \subseteq Streak(ts)
  BY RunsAreRecovered
<1>2. n \in Nat /\ DOMAIN rs = 1 .. n /\ (n = 0 <=> rs = <<>>) /\ (n = 0 <=> ts = <<>>)
  BY <1>1, LenProperties, EmptySeq
<1>3. Failures(rs) \in Nat /\ Failures(ts) \in Nat /\ Failures(rs) <= Failures(ts)
  BY <1>1, StreakIsFinite, StreakGrows
<1> HIDE DEF ts
<1>4. CASE rs = <<>>
  <2>1. Those(rs, {"completed"}) = {} /\ Streak(rs) = {}
    BY <1>2, <1>4 DEF Streak, Those
  <2>2. ~(a.need > a.age)
    BY <2>1, StreakIsFinite DEF WaitIsRecorded
  <2>3. b.need <= a.need /\ b.age = a.age
    BY <1>4
  <2>4. ~(b.need > b.age)
    BY <2>2, <2>3, AutoFacts
  <2> QED BY <2>4 DEF WaitIsRecorded, ts
<1>5. CASE rs # <<>> /\ rs[n].status = "running"
  <2>1. n \in 1 .. n /\ ts[n].status = "failed" /\ ts[n].age = 0
    BY <1>1, <1>2, <1>5
  <2>2. n \in Streak(ts)
    <3>1. n \in Those(ts, {"failed"})
      BY <1>1, <1>2, <2>1 DEF Those
    <3>2. ASSUME NEW j \in n .. n PROVE ts[j].status # "completed"
      <4>1. j = n
        BY <2>1
      <4> QED BY <2>1, <4>1
    <3> QED BY <1>1, <3>1, <3>2 DEF Streak
  <2>3. Failures(ts) > 0
    BY <1>1, <1>3, <2>2, StreakIsFinite
  <2>4. Latest(ts, Terminal) = ts[n]
    <3>1. ts # <<>> /\ ts[Len(ts)].status \in Terminal
      BY <1>1, <1>2, <1>5, <2>1 DEF Terminal
    <3> QED BY <1>1, <3>1, LastIsLatest
  <2>5. b.need <= Backoff(Failures(ts))
    BY <1>5 DEF ts
  <2>6. WaitIsRecorded(ts, b)
    BY <1>1, <2>1, <2>3, <2>4, <2>5, WaitAfterFailure
  <2> QED BY <2>6 DEF ts
<1>6. CASE rs # <<>> /\ rs[n].status # "running"
  <2>1. n \in 1 .. n /\ ts[n] = rs[n] /\ ts # <<>>
    BY <1>1, <1>2, <1>6
  <2>2. rs[n] \in PopRuns /\ rs[n].status \in Terminal
    BY <1>6, <2>1, ElementOfSeq, RunFacts DEF Terminal
  <2>3. Latest(rs, Terminal) = rs[n] /\ Latest(ts, Terminal) = rs[n]
    BY <1>1, <1>6, <2>1, <2>2, LastIsLatest
  <2>4. b.need <= a.need /\ b.age = a.age
    BY <1>6
  <2>5. ASSUME b.need > b.age
        PROVE  IF Failures(ts) > 0
               THEN Backoff(Failures(ts)) - Latest(ts, Terminal).age >= b.need - b.age
               ELSE /\ Those(ts, {"completed"}) # {}
                    /\ Freshness - Latest(ts, {"completed"}).age >= b.need - b.age
    <3>1. a.need > a.age /\ a.need - a.age >= b.need - b.age
      BY <2>4, <2>5, AutoFacts
    <3>2. CASE Failures(rs) > 0
      <4>1. Backoff(Failures(rs)) - rs[n].age >= a.need - a.age
        BY <2>3, <3>1, <3>2 DEF WaitIsRecorded
      <4>2. /\ Backoff(Failures(rs)) <= Backoff(Failures(ts))
            /\ Backoff(Failures(rs)) \in Nat /\ Backoff(Failures(ts)) \in Nat
        BY <1>3, BackoffGrows, PopNumbers
      <4>3. rs[n].age \in Nat
        BY <2>2, RunFacts
      <4>4. Failures(ts) > 0
        BY <1>3, <3>2
      <4>5. a.need - a.age \in Int /\ b.need - b.age \in Int
        BY AutoFacts
      <4>6. Backoff(Failures(ts)) - rs[n].age >= b.need - b.age
        BY <3>1, <4>1, <4>2, <4>3, <4>5
      <4> QED BY <2>3, <4>4, <4>6
    <3>3. CASE Failures(rs) = 0
      <4>1. rs[n].status = "completed"
        <5>1. SUFFICES ASSUME rs[n].status = "failed" PROVE FALSE
          BY <2>2 DEF Terminal
        <5>2. n \in Those(rs, {"failed"})
          BY <1>2, <2>1, <5>1 DEF Those
        <5>3. ASSUME NEW j \in n .. Len(rs) PROVE rs[j].status # "completed"
          <6>1. j = n
            BY <1>2
          <6> QED BY <5>1, <6>1
        <5>4. n \in Streak(rs)
          BY <5>2, <5>3 DEF Streak
        <5> QED BY <3>3, <5>4, StreakIsFinite
      <4>2. Failures(ts) = 0
        <5>1. ASSUME NEW i \in Streak(ts) PROVE FALSE
          <6>1. i \in 1 .. n /\ \A j \in i .. n : ts[j].status # "completed"
            BY <1>1, <1>2, <5>1 DEF Streak, Those
          <6>2. n \in i .. n
            BY <1>2, <6>1
          <6> QED BY <2>1, <4>1, <6>1, <6>2
        <5> QED BY <1>1, <5>1, StreakIsFinite
      <4>3. ASSUME NEW us \in Seq(PopRuns), Len(us) = n, us[n] = rs[n]
            PROVE  Those(us, {"completed"}) # {} /\ Latest(us, {"completed"}) = rs[n]
        <5>1. DOMAIN us = 1 .. n
          BY <4>3
        <5>2. n \in Those(us, {"completed"}) /\ Those(us, {"completed"}) \subseteq 1 .. n
          BY <2>1, <4>1, <4>3, <5>1 DEF Those
        <5>3. \A j \in Those(us, {"completed"}) : j <= n
          BY <1>2, <5>2
        <5>4. Latest(us, {"completed"}) = us[n]
          BY <5>2, <5>3, LatestIs
        <5> QED BY <4>3, <5>2, <5>4
      <4>4. /\ Latest(rs, {"completed"}) = rs[n]
            /\ Those(ts, {"completed"}) # {} /\ Latest(ts, {"completed"}) = rs[n]
        BY <1>1, <2>1, <4>3
      <4>5. Freshness - rs[n].age >= a.need - a.age
        BY <3>1, <3>3, <4>4 DEF WaitIsRecorded
      <4>6. rs[n].age \in Nat /\ Freshness \in Nat /\ a.need - a.age \in Int /\ b.need - b.age \in Int
        BY <2>2, RunFacts, PopNumbers, AutoFacts
      <4>7. Freshness - rs[n].age >= b.need - b.age
        BY <3>1, <4>5, <4>6
      <4> QED BY <4>2, <4>4, <4>7
    <3> QED BY <1>3, <3>2, <3>3
  <2>6. WaitIsRecorded(ts, b)
    BY <2>5 DEF WaitIsRecorded
  <2> QED BY <2>6 DEF ts
<1> QED BY <1>4, <1>5, <1>6

LEMMA WaitAsTimePasses ==
    ASSUME NEW rs \in Seq(PopRuns), NEW a \in LoopHistories, WaitIsRecorded(rs, a)
    PROVE  WaitIsRecorded(AllOlder(rs), [a EXCEPT !.age = Older(@)])
<1> DEFINE ts == AllOlder(rs)
           older == Older(a.age)
           b == [a EXCEPT !.age = older]
<1>1. /\ a.age \in Nat /\ a.age <= Horizon /\ a.need \in Nat /\ a.need <= Horizon /\ Horizon \in Nat
      /\ Freshness \in Nat
  BY AutoFacts, PopNumbers
<1>2. b.need = a.need /\ b.age = older
  BY DEF LoopHistories
<1> HIDE DEF b
<1>3. older = IF a.age < Horizon THEN a.age + 1 ELSE a.age
  BY DEF Older
<1> HIDE DEF older
<1>4. /\ ts \in Seq(PopRuns) /\ Failures(ts) = Failures(rs)
      /\ \A statuses : /\ Those(ts, statuses) = Those(rs, statuses)
                       /\ Those(rs, statuses) # {} =>
                             Latest(ts, statuses).age <= Latest(rs, statuses).age + 1
  BY RunsGrowOld
<1> HIDE DEF ts
<1>5. ASSUME b.need > b.age
      PROVE  IF Failures(ts) > 0
             THEN Backoff(Failures(ts)) - Latest(ts, Terminal).age >= b.need - b.age
             ELSE /\ Those(ts, {"completed"}) # {}
                  /\ Freshness - Latest(ts, {"completed"}).age >= b.need - b.age
  <2>1. a.need > a.age /\ b.need - b.age = a.need - a.age - 1 /\ a.need - a.age \in Int
    BY <1>1, <1>2, <1>3, <1>5, SMTT(60)
  <2>2. CASE Failures(rs) > 0
    <3> DEFINE old == Latest(rs, Terminal).age
               new == Latest(ts, Terminal).age
    <3>1. Those(rs, Terminal) # {} /\ Those(ts, Terminal) # {}
      BY <1>4, <2>2, FailuresHaveEnded
    <3>2. old \in Nat /\ new \in Nat /\ new <= old + 1
      BY <1>4, <3>1, LatestIsARun, RunFacts
    <3>3. Backoff(Failures(rs)) - old >= a.need - a.age
      BY <2>1, <2>2 DEF WaitIsRecorded
    <3>4. Backoff(Failures(rs)) \in Nat
      BY StreakIsFinite, BackoffGrows, PopNumbers
    <3> HIDE DEF old, new
    <3>5. Backoff(Failures(rs)) - new >= b.need - b.age
      BY <2>1, <3>2, <3>3, <3>4
    <3> QED BY <1>4, <2>2, <3>5 DEF new
  <2>3. CASE ~(Failures(rs) > 0)
    <3> DEFINE old == Latest(rs, {"completed"}).age
               new == Latest(ts, {"completed"}).age
    <3>1. Those(rs, {"completed"}) # {} /\ Freshness - old >= a.need - a.age
      BY <2>1, <2>3 DEF WaitIsRecorded
    <3>2. old \in Nat /\ new \in Nat /\ new <= old + 1
      BY <1>4, <3>1, LatestIsARun, RunFacts
    <3> HIDE DEF old, new
    <3>3. Freshness - new >= b.need - b.age
      BY <1>1, <2>1, <3>1, <3>2
    <3> QED BY <1>4, <2>3, <3>1, <3>3 DEF new
  <2> QED BY <2>2, <2>3
<1>6. WaitIsRecorded(ts, b)
  BY <1>5 DEF WaitIsRecorded
<1> QED BY <1>6 DEF ts, b, older

Whereabouts == {"idle", "waiting", "due"} \union Holding

LEMMA CallersDiffer == "loop" \in Callers /\ "hand" \in Callers /\ "loop" # "hand"
  BY DEF Callers

(* A caller goes on, or ends.                                              *)
LEMMA CallerMoves ==
    ASSUME popCallers \in [Callers -> CallerStates], NEW c \in Callers, NEW at \in Whereabouts, MovesTo(c, at)
    PROVE  /\ popCallers' \in [Callers -> CallerStates]
           /\ popCallers'[c].at = at /\ popCallers'[c].snapshot = popCallers[c].snapshot
           /\ popCallers'[c].run = popCallers[c].run
           /\ \A d \in Callers : d # c => popCallers'[d] = popCallers[d]
<1> DEFINE r == [popCallers[c] EXCEPT !.at = at]
<1>1. r \in CallerStates /\ r.at = at /\ r.snapshot = popCallers[c].snapshot /\ r.run = popCallers[c].run
  BY DEF CallerStates, Whereabouts
<1>2. popCallers' = [popCallers EXCEPT ![c] = r]
  BY DEF MovesTo
<1> HIDE DEF r
<1> QED BY <1>1, <1>2

LEMMA RestingFacts ==
    Resting \in CallerStates /\ Resting.at = "idle" /\ Resting.at \notin Holding
<1> DEFINE z == 0
           idle == "idle"
<1>1. z \in Nat /\ idle \in {"idle", "waiting", "due"} \union Holding
  OBVIOUS
<1> HIDE DEF z, idle
<1>2. [at |-> idle, wait |-> z, snapshot |-> z, run |-> z] \in CallerStates
  BY <1>1 DEF CallerStates
<1>3. Resting = [at |-> idle, wait |-> z, snapshot |-> z, run |-> z]
  BY DEF Resting, idle, z
<1>4. Resting.at = "idle" /\ "idle" \notin Holding
  BY DEF Resting, Holding, Sections
<1> QED BY <1>2, <1>3, <1>4

LEMMA CallerEnds ==
    ASSUME popCallers \in [Callers -> CallerStates], NEW c \in Callers, NEW wait \in Nat, Ended(c, wait)
    PROVE  /\ popCallers' \in [Callers -> CallerStates] /\ popLock' = "free"
           /\ popCallers'[c].at \in {"idle", "waiting"}
           /\ \A d \in Callers : d # c => popCallers'[d] = popCallers[d]
<1> DEFINE r == [Resting EXCEPT !.at = "waiting", !.wait = wait]
<1>1. r \in CallerStates /\ r.at = "waiting"
  BY RestingFacts DEF CallerStates
<1>2. /\ popLock' = "free"
      /\ \/ popCallers' = [popCallers EXCEPT ![c] = r]
         \/ popCallers' = [popCallers EXCEPT ![c] = Resting]
  BY DEF Ended
<1> HIDE DEF r
<1> QED BY <1>1, <1>2, RestingFacts

(* A caller that holds the lock holds it alone.                            *)
LEMMA OneHolds ==
    ASSUME RefreshInv, NEW c \in Callers, popCallers[c].at \in Holding,
           NEW d \in Callers, d # c
    PROVE  popCallers[d].at \notin Holding
  BY DEF RefreshInv, CallerHolds

LEMMA NotHolding ==
    ASSUME NEW d \in Callers, popCallers[d].at \notin Holding
    PROVE  CallerHolds(d)
  BY Zenon DEF CallerHolds, Holding, Sections

(* Steps that touch neither the table nor the history.                     *)
LEMMA QuietRefresh ==
    ASSUME RefreshInv, UNCHANGED <<runs, evidence, popBackup, lastAuto>>,
           popCounts' \in [downloads : Nat, byHand : Nat, faults : Nat],
           popCounts'.downloads = popCounts.downloads,
           popCallers' \in [Callers -> CallerStates],
           \A c \in Callers : CallerHolds(c)',
           popCallers'["loop"].at = "due" => popCallers["loop"].at = "due" \/ lastAuto.age >= lastAuto.need
    PROVE  RefreshInv'
<1>1. PopTypes'
  BY DEF RefreshInv, PopTypes
<1>2. DownloadsAreSpaced'
  BY DEF RefreshInv, DownloadsAreSpaced
<1>3. /\ TableFits(runs, evidence)' /\ TableFits(popBackup.runs, popBackup.evidence)'
      /\ (lastAuto.failures <= Failures(runs))' /\ WaitIsRecorded(runs, lastAuto)'
  BY DEF RefreshInv
<1>4. (evidence <= popCounts.downloads)' /\ (popBackup.evidence <= popCounts.downloads)'
  BY DEF RefreshInv
<1> QED BY <1>1, <1>2, <1>3, <1>4 DEF RefreshInv

LEMMA CountsUp ==
    ASSUME popCounts \in [downloads : Nat, byHand : Nat, faults : Nat],
           \/ UNCHANGED popCounts \/ Failed
           \/ popCounts' = [popCounts EXCEPT !.byHand = @ + 1]
    PROVE  /\ popCounts' \in [downloads : Nat, byHand : Nat, faults : Nat]
           /\ popCounts'.downloads = popCounts.downloads
<1>1. popCounts.faults + 1 \in Nat /\ popCounts.byHand + 1 \in Nat
  OBVIOUS
<1> DEFINE f == popCounts.faults + 1
           h == popCounts.byHand + 1
<1>2. \/ popCounts' = popCounts \/ popCounts' = [popCounts EXCEPT !.faults = f]
      \/ popCounts' = [popCounts EXCEPT !.byHand = h]
  BY DEF Failed
<1> HIDE DEF f, h
<1>3. f \in Nat /\ h \in Nat
  BY <1>1 DEF f, h
<1> QED BY <1>2, <1>3

LEMMA RefreshTyped ==
    ASSUME RefreshInv
    PROVE  /\ runs \in Seq(PopRuns) /\ evidence \in Nat /\ popCallers \in [Callers -> CallerStates]
           /\ popBackup.runs \in Seq(PopRuns) /\ popBackup.evidence \in Nat
           /\ popCounts \in [downloads : Nat, byHand : Nat, faults : Nat]
           /\ popCounts.downloads \in Nat
           /\ lastAuto \in LoopHistories
           /\ \A c \in Callers : popCallers[c].snapshot \in Nat
  BY DEF RefreshInv, PopTypes, LoopHistories, CallerStates

(* Where the other caller is.                                              *)
LEMMA TheOtherHolds ==
    ASSUME RefreshInv, NEW d \in Callers, popCallers'[d] = popCallers[d],
           \/ popCallers[d].at \notin Holding
           \/ /\ UNCHANGED <<runs, evidence, popLock>> /\ popCounts'.downloads = popCounts.downloads
              /\ popWindow' = popWindow \/ popWindow' # "replaced"
    PROVE  CallerHolds(d)'
<1>1. CASE popCallers[d].at \notin Holding
  BY <1>1, Zenon DEF CallerHolds, Holding, Sections
<1>2. CASE /\ UNCHANGED <<runs, evidence, popLock>> /\ popCounts'.downloads = popCounts.downloads
           /\ popWindow' = popWindow \/ popWindow' # "replaced"
  <2>1. CallerHolds(d)
    BY DEF RefreshInv
  <2> QED BY <1>2, <2>1 DEF CallerHolds
<1> QED BY <1>1, <1>2

LEMMA PlanNextKeepsRefresh ==
    ASSUME RefreshInv, PlanNext PROVE RefreshInv'
<1>1. PICK wait \in Plan(runs) :
         popCallers' = [popCallers EXCEPT !["loop"] =
             [Resting EXCEPT !.at = IF wait = 0 THEN "due" ELSE "waiting", !.wait = wait]]
  BY Zenon DEF PlanNext
<1>2. UNCHANGED <<runs, evidence, popLock, popWindow, popBackup, popCounts, lastAuto>>
  BY DEF PlanNext
<1>3. WaitIsRecorded(runs, lastAuto)
  BY DEF RefreshInv
<1>4. wait \in Nat /\ (wait = 0 => lastAuto.need <= lastAuto.age)
  BY <1>1, <1>3, RefreshTyped, PlanWaits
<1> DEFINE at == IF wait = 0 THEN "due" ELSE "waiting"
           r == [Resting EXCEPT !.at = at, !.wait = wait]
<1>5. at \in {"due", "waiting"} /\ at \notin Holding
  BY DEF Holding, Sections
<1> HIDE DEF at
<1>6. r \in CallerStates /\ r.at = at
  BY <1>4, <1>5, RestingFacts DEF CallerStates
<1>7. popCallers' = [popCallers EXCEPT !["loop"] = r]
  BY <1>1 DEF at
<1> HIDE DEF r
<1>8. popCallers' \in [Callers -> CallerStates] /\ popCallers'["loop"] = r
      /\ \A d \in Callers : d # "loop" => popCallers'[d] = popCallers[d]
  BY <1>6, <1>7, RefreshTyped, CallersDiffer
<1>9. ASSUME NEW d \in Callers PROVE CallerHolds(d)'
  <2>1. CASE d = "loop"
    <3>1. popCallers'[d].at \notin Holding
      BY <1>5, <1>6, <1>8, <2>1
    <3> QED BY <3>1, Zenon DEF CallerHolds, Holding, Sections
  <2>2. CASE d # "loop"
    BY <1>2, <1>8, <2>2, TheOtherHolds
  <2> QED BY <2>1, <2>2
<1>10. popCallers'["loop"].at = "due" => lastAuto.age >= lastAuto.need
  <2>1. at = "due" => wait = 0
    BY DEF at
  <2>2. lastAuto.age \in Nat /\ lastAuto.need \in Nat
    BY RefreshTyped, AutoFacts
  <2> QED BY <1>4, <1>6, <1>8, <2>1, <2>2
<1> QED BY <1>2, <1>8, <1>9, <1>10, RefreshTyped, QuietRefresh

(* Steps of one caller that touch neither the table nor the lock of the    *)
(* other.                                                                  *)
LEMMA ACallerMoves ==
    ASSUME RefreshInv, NEW c \in Callers, NEW at \in Whereabouts, MovesTo(c, at),
           UNCHANGED <<runs, evidence, popLock, popWindow, popBackup, lastAuto>>,
           \/ UNCHANGED popCounts \/ Failed
           \/ popCounts' = [popCounts EXCEPT !.byHand = @ + 1],
           at \in Holding => popCallers[c].at \in Holding,
           at \notin Sections,
           c = "loop" => at # "due"
    PROVE  RefreshInv'
<1>1. /\ popCallers' \in [Callers -> CallerStates]
      /\ popCallers'[c].at = at /\ popCallers'[c].snapshot = popCallers[c].snapshot
      /\ \A d \in Callers : d # c => popCallers'[d] = popCallers[d]
  BY RefreshTyped, CallerMoves
<1>2. /\ popCounts' \in [downloads : Nat, byHand : Nat, faults : Nat]
      /\ popCounts'.downloads = popCounts.downloads
  BY RefreshTyped, CountsUp
<1>3. ASSUME NEW d \in Callers PROVE CallerHolds(d)'
  <2>1. CASE d = c
    <3>1. at \in Holding => popLock = c /\ popCallers[c].snapshot = popCounts.downloads
      BY DEF RefreshInv, CallerHolds
    <3>2. at # "successful"
      BY DEF Sections
    <3> QED BY <1>1, <1>2, <2>1, <3>1, <3>2 DEF CallerHolds
  <2>2. CASE d # c
    BY <1>1, <1>2, <2>2, TheOtherHolds
  <2> QED BY <2>1, <2>2
<1>4. popCallers'["loop"].at = "due" => popCallers["loop"].at = "due"
  BY <1>1, CallersDiffer
<1> QED BY <1>1, <1>2, <1>3, <1>4, QuietRefresh

LEMMA MovesKeepRefresh ==
    ASSUME RefreshInv,
           \/ WakeUp \/ RefreshByHand
           \/ \E c \in Callers : AlreadyRunning(c) \/ EndDownload(c)
    PROVE  RefreshInv'
<1>1. CASE WakeUp
  <2>1. "idle" \in Whereabouts /\ "idle" \notin Holding /\ "idle" \notin Sections /\ "idle" # "due"
    BY DEF Whereabouts, Holding, Sections
  <2> QED BY <1>1, <2>1, ACallerMoves, CallersDiffer DEF WakeUp
<1>2. CASE RefreshByHand
  <2>1. "due" \in Whereabouts /\ "due" \notin Holding /\ "due" \notin Sections
    BY DEF Whereabouts, Holding, Sections
  <2> QED BY <1>2, <2>1, ACallerMoves, CallersDiffer DEF RefreshByHand
<1>3. ASSUME NEW c \in Callers, AlreadyRunning(c) PROVE RefreshInv'
  <2>1. "idle" \in Whereabouts /\ "idle" \notin Holding /\ "idle" \notin Sections /\ "idle" # "due"
    BY DEF Whereabouts, Holding, Sections
  <2> QED BY <1>3, <2>1, ACallerMoves DEF AlreadyRunning
<1>4. ASSUME NEW c \in Callers, EndDownload(c) PROVE RefreshInv'
  <2>1. "downloaded" \in Whereabouts /\ "downloaded" \notin Sections /\ "downloaded" # "due"
    BY DEF Whereabouts, Holding, Sections
  <2>2. "no answer" \in Whereabouts /\ "no answer" \notin Sections /\ "no answer" # "due"
    BY DEF Whereabouts, Holding, Sections
  <2>3. popCallers[c].at \in Holding
    BY <1>4, Zenon DEF EndDownload, Holding
  <2>4. /\ UNCHANGED <<runs, evidence, popLock, popWindow, popBackup, lastAuto>>
        /\ \/ MovesTo(c, "downloaded") /\ UNCHANGED popCounts
           \/ MovesTo(c, "no answer") /\ Failed
    BY <1>4, Zenon DEF EndDownload
  <2>5. CASE MovesTo(c, "downloaded") /\ UNCHANGED popCounts
    BY <2>1, <2>3, <2>4, <2>5, ACallerMoves, Zenon
  <2>6. CASE MovesTo(c, "no answer") /\ Failed
    BY <2>2, <2>3, <2>4, <2>6, ACallerMoves, Zenon
  <2> QED BY <2>4, <2>5, <2>6, Zenon
<1> QED BY <1>1, <1>2, <1>3, <1>4

LEMMA EndsKeepRefresh ==
    ASSUME RefreshInv, NEW c \in Callers, TurnedAway(c) \/ TransactionFails(c)
    PROVE  RefreshInv'
<1>1. /\ popCallers[c].at \in Holding /\ Ended(c, Pause)
      /\ UNCHANGED <<runs, evidence, popWindow, popBackup, lastAuto>>
      /\ UNCHANGED popCounts \/ Failed
  BY Zenon DEF TurnedAway, TransactionFails, Holding, Sections
<1>2. /\ popCallers' \in [Callers -> CallerStates] /\ popLock' = "free"
      /\ popCallers'[c].at \in {"idle", "waiting"}
      /\ \A d \in Callers : d # c => popCallers'[d] = popCallers[d]
  <2>1. Pause \in Nat
    BY PopNumbers
  <2> QED BY <1>1, <2>1, RefreshTyped, CallerEnds
<1>3. /\ popCounts' \in [downloads : Nat, byHand : Nat, faults : Nat]
      /\ popCounts'.downloads = popCounts.downloads
  BY <1>1, RefreshTyped, CountsUp
<1>4. ASSUME NEW d \in Callers PROVE CallerHolds(d)'
  <2>1. popCallers'[d].at \notin Holding
    <3>1. CASE d = c
      BY <1>2, <3>1, Zenon DEF Holding, Sections
    <3>2. CASE d # c
      BY <1>1, <1>2, <3>2, OneHolds
    <3> QED BY <3>1, <3>2
  <2> QED BY <2>1, Zenon DEF CallerHolds, Holding, Sections
<1>5. popCallers'["loop"].at = "due" => popCallers["loop"].at = "due"
  BY <1>2, CallersDiffer
<1> QED BY <1>1, <1>2, <1>3, <1>4, <1>5, QuietRefresh

(* One caller works, and the other does not hold the lock.                 *)
LEMMA OneWorks ==
    ASSUME NEW c \in Callers, CallerHolds(c)',
           \A d \in Callers : d # c => popCallers'[d] = popCallers[d] /\ popCallers[d].at \notin Holding
    PROVE  \A d \in Callers : CallerHolds(d)'
<1>1. ASSUME NEW d \in Callers, d # c PROVE CallerHolds(d)'
  <2>1. popCallers'[d].at \notin Holding
    BY <1>1
  <2> QED BY <2>1, Zenon DEF CallerHolds, Holding, Sections
<1> QED BY <1>1

LEMMA DownloadIsCounted ==
    ASSUME popCounts \in [downloads : Nat, byHand : Nat, faults : Nat],
           popCounts' = [popCounts EXCEPT !.downloads = @ + 1]
    PROVE  /\ popCounts' \in [downloads : Nat, byHand : Nat, faults : Nat]
           /\ popCounts'.downloads = popCounts.downloads + 1
<1>1. popCounts.downloads + 1 \in Nat
  OBVIOUS
<1> DEFINE n == popCounts.downloads + 1
<1>2. popCounts' = [popCounts EXCEPT !.downloads = n] /\ n \in Nat
  BY <1>1
<1> HIDE DEF n
<1>3. popCounts' \in [downloads : Nat, byHand : Nat, faults : Nat] /\ popCounts'.downloads = n
  BY <1>2
<1> QED BY <1>3 DEF n

LEMMA BeginDownloadKeepsRefresh ==
    ASSUME RefreshInv, NEW c \in Callers, BeginDownload(c) PROVE RefreshInv'
<1>1. /\ popCallers[c].at = "due" /\ popLock = "free" /\ popLock' = c
      /\ popCounts' = [popCounts EXCEPT !.downloads = @ + 1]
      /\ popCallers' = [popCallers EXCEPT ![c].at = "download", ![c].snapshot = popCounts.downloads + 1]
      /\ lastAuto' = IF c = "loop" THEN [lastAuto EXCEPT !.age = 0, !.need = 0] ELSE lastAuto
      /\ UNCHANGED <<runs, evidence, popWindow, popBackup>>
  BY DEF BeginDownload, LockFree
<1>2. /\ popCounts' \in [downloads : Nat, byHand : Nat, faults : Nat]
      /\ popCounts'.downloads = popCounts.downloads + 1
  BY <1>1, RefreshTyped, DownloadIsCounted
<1> DEFINE r == [popCallers[c] EXCEPT !.at = "download", !.snapshot = popCounts'.downloads]
<1>3. r \in CallerStates /\ r.at = "download" /\ r.snapshot = popCounts'.downloads
  BY <1>2, RefreshTyped, Zenon DEF CallerStates, Holding
<1>4. popCallers' = [popCallers EXCEPT ![c] = r]
  BY <1>1, <1>2
<1> HIDE DEF r
<1>5. popCallers' \in [Callers -> CallerStates] /\ popCallers'[c] = r
      /\ \A d \in Callers : d # c => popCallers'[d] = popCallers[d]
  BY <1>3, <1>4, RefreshTyped
<1>6. \A d \in Callers : popCallers[d].at \notin Holding
  BY <1>1 DEF RefreshInv, CallerHolds, Callers
<1>7. CallerHolds(c)'
  BY <1>1, <1>3, <1>5 DEF CallerHolds, Sections
<1>8. \A d \in Callers : CallerHolds(d)'
  BY <1>5, <1>6, <1>7, OneWorks
<1>9. lastAuto' \in LoopHistories /\ lastAuto'.failures = lastAuto.failures
      /\ (c = "loop" => lastAuto'.age = 0 /\ lastAuto'.need = 0) /\ (c # "loop" => lastAuto' = lastAuto)
  <2> DEFINE z == 0
  <2>1. z \in 0 .. Horizon /\ z \in 0 .. Freshness
    BY PopNumbers
  <2>2. lastAuto' = IF c = "loop" THEN [lastAuto EXCEPT !.age = z, !.need = z] ELSE lastAuto
    BY <1>1
  <2> HIDE DEF z
  <2>3. /\ lastAuto' \in LoopHistories /\ lastAuto'.failures = lastAuto.failures
        /\ (c = "loop" => lastAuto'.age = z /\ lastAuto'.need = z) /\ (c # "loop" => lastAuto' = lastAuto)
    BY <2>1, <2>2, RefreshTyped DEF LoopHistories
  <2> QED BY <2>3 DEF z
<1>10. WaitIsRecorded(runs, lastAuto)'
  <2>1. CASE c = "loop"
    BY <1>9, <2>1 DEF WaitIsRecorded
  <2>2. CASE c # "loop"
    BY <1>1, <1>9, <2>2 DEF RefreshInv
  <2> QED BY <2>1, <2>2
<1>11. DownloadsAreSpaced'
  <2>1. CASE c = "loop"
    BY <1>3, <1>5, <2>1 DEF DownloadsAreSpaced
  <2>2. CASE c # "loop"
    BY <1>5, <1>9, <2>2, CallersDiffer DEF RefreshInv, DownloadsAreSpaced
  <2> QED BY <2>1, <2>2
<1>12. PopTypes'
  BY <1>1, <1>2, <1>5, <1>9 DEF RefreshInv, PopTypes, LoopHistories
<1>13. (evidence <= popCounts.downloads)' /\ (popBackup.evidence <= popCounts.downloads)'
  BY <1>1, <1>2, RefreshTyped, SMTT(60) DEF RefreshInv
<1>14. /\ TableFits(runs, evidence)' /\ TableFits(popBackup.runs, popBackup.evidence)'
       /\ (lastAuto.failures <= Failures(runs))'
  BY <1>1, <1>9 DEF RefreshInv
<1> QED BY <1>8, <1>10, <1>11, <1>12, <1>13, <1>14 DEF RefreshInv

LEMMA StartImportKeepsRefresh ==
    ASSUME RefreshInv, NEW c \in Callers, StartImport(c) PROVE RefreshInv'
<1> DEFINE new == [status |-> "running", age |-> 0, snapshot |-> 0]
           n == Len(runs) + 1
           at == IF popCallers[c].at = "downloaded" THEN "importing" ELSE "unsuccessful"
           r == [popCallers[c] EXCEPT !.run = n, !.at = at]
<1>1. /\ popCallers[c].at \in {"downloaded", "no answer"} /\ popWindow = "open"
      /\ runs' = Append(runs, new)
      /\ popCallers' = [popCallers EXCEPT ![c] = r]
      /\ UNCHANGED <<evidence, popLock, popWindow, popBackup, popCounts, lastAuto>>
  BY Zenon DEF StartImport
<1>2. new \in PopRuns /\ new.status = "running"
  BY NewRun
<1> HIDE DEF new
<1>3. /\ runs' \in Seq(PopRuns) /\ Len(runs') = n /\ Last(runs') = new
      /\ Failures(runs') = Failures(runs)
  BY <1>1, <1>2, RefreshTyped, RunBegins, Zenon
<1>4. n \in Nat /\ n # 0 /\ runs' # <<>>
  BY <1>3, RefreshTyped, LenProperties, EmptySeq
<1> HIDE DEF n
<1>5. at \in {"importing", "unsuccessful"} /\ at \in Holding /\ at # "successful"
  BY DEF Holding, Sections
<1> HIDE DEF at
<1>6. r \in CallerStates /\ r.at = at /\ r.run = n /\ r.snapshot = popCallers[c].snapshot
  BY <1>4, <1>5, RefreshTyped DEF CallerStates
<1> HIDE DEF r
<1>7. popCallers' \in [Callers -> CallerStates] /\ popCallers'[c] = r
      /\ \A d \in Callers : d # c => popCallers'[d] = popCallers[d]
  BY <1>1, <1>6, RefreshTyped, Zenon
<1>8. popCallers[c].at \in Holding
  BY <1>1, Zenon DEF Holding
<1>9. \A d \in Callers : d # c => popCallers[d].at \notin Holding
  BY <1>8, OneHolds
<1>10. popLock = c /\ popCallers[c].snapshot = popCounts.downloads
  BY <1>8 DEF RefreshInv, CallerHolds
<1>11. CallerHolds(c)'
  BY <1>1, <1>2, <1>3, <1>4, <1>5, <1>6, <1>7, <1>10, Zenon DEF CallerHolds
<1>12. \A d \in Callers : CallerHolds(d)'
  BY <1>7, <1>9, <1>11, OneWorks
<1>13. TableFits(runs, evidence)'
  <2>1. \A i \in DOMAIN runs' : runs'[i].status = "completed" => runs'[i].snapshot <= evidence
    <3>1. /\ DOMAIN runs = 1 .. Len(runs) /\ DOMAIN runs' = 1 .. Len(runs) + 1 /\ Len(runs) \in Nat
          /\ \A i \in 1 .. Len(runs) : runs'[i] = runs[i]
          /\ runs'[Len(runs) + 1] = new
      <4>1. /\ \A i \in 1 .. Len(runs) : Append(runs, new)[i] = runs[i]
            /\ Append(runs, new)[Len(runs) + 1] = new
        BY <1>2, RefreshTyped, AppendProperties
      <4>2. DOMAIN runs = 1 .. Len(runs) /\ Len(runs) \in Nat
        BY RefreshTyped, LenProperties
      <4>3. DOMAIN runs' = 1 .. Len(runs) + 1
        BY <1>3, LenProperties DEF n
      <4> QED BY <1>1, <4>1, <4>2, <4>3, Zenon
    <3>2. \A i \in DOMAIN runs : runs[i].status = "completed" => runs[i].snapshot <= evidence
      BY DEF RefreshInv, TableFits
    <3> DEFINE m == Len(runs)
    <3> HIDE DEF m
    <3>3. \A i \in 1 .. m + 1 : m \in Nat => i \in 1 .. m \/ i = m + 1
      OBVIOUS
    <3>4. ASSUME NEW i \in DOMAIN runs', runs'[i].status = "completed"
          PROVE  runs'[i].snapshot <= evidence
      <4>1. i \in 1 .. Len(runs) \/ i = Len(runs) + 1
        BY <3>1, <3>3 DEF m
      <4>2. i # Len(runs) + 1
        BY <1>2, <3>1, <3>4
      <4>3. i \in DOMAIN runs /\ runs'[i] = runs[i]
        BY <3>1, <4>1, <4>2
      <4> QED BY <3>2, <3>4, <4>3
    <3> QED BY <3>4
  <2>2. Last(runs').status # "completed"
    BY <1>2, <1>3
  <2> QED BY <1>1, <2>1, <2>2, Zenon DEF TableFits
<1>14. WaitIsRecorded(runs, lastAuto)'
  <2>1. WaitIsRecorded(runs, lastAuto)
    BY DEF RefreshInv
  <2>2. WaitIsRecorded(runs', lastAuto)
    BY <1>1, <1>2, <2>1, RefreshTyped, WaitAtBegin, Zenon
  <2> QED BY <1>1, <2>2, Zenon
<1>15. DownloadsAreSpaced'
  <2>1. popCallers'["loop"].at = "due" => popCallers["loop"].at = "due"
    BY <1>5, <1>6, <1>7, CallersDiffer
  <2> QED BY <1>1, <2>1, Zenon DEF RefreshInv, DownloadsAreSpaced
<1>16. PopTypes'
  BY <1>1, <1>3, <1>7, Zenon DEF RefreshInv, PopTypes
<1>17. /\ (evidence <= popCounts.downloads)' /\ (popBackup.evidence <= popCounts.downloads)'
       /\ TableFits(popBackup.runs, popBackup.evidence)' /\ (lastAuto.failures <= Failures(runs))'
  BY <1>1, <1>3, Zenon DEF RefreshInv
<1> QED BY <1>12, <1>13, <1>14, <1>15, <1>16, <1>17 DEF RefreshInv

LEMMA ImportKeepsRefresh ==
    ASSUME RefreshInv, NEW c \in Callers, Import(c) PROVE RefreshInv'
<1>1. /\ popCallers[c].at = "importing"
      /\ UNCHANGED <<runs, popLock, popWindow, popBackup, lastAuto>>
      /\ \/ evidence' = popCallers[c].snapshot /\ MovesTo(c, "successful") /\ UNCHANGED popCounts
         \/ evidence' = evidence /\ MovesTo(c, "unsuccessful") /\ Failed
  BY DEF Import
<1>2. popCallers[c].at \in Sections /\ popCallers[c].at \in Holding
  BY <1>1 DEF Holding, Sections
<1>3. /\ popLock = c /\ popCallers[c].snapshot = popCounts.downloads
      /\ popCallers[c].run = Len(runs) /\ runs # <<>> /\ Last(runs).status = "running"
      /\ popWindow # "replaced"
  BY <1>2 DEF RefreshInv, CallerHolds
<1>4. PICK at \in {"successful", "unsuccessful"} :
         /\ MovesTo(c, at) /\ (at = "successful" => evidence' = popCallers[c].snapshot)
         /\ evidence' \in {evidence, popCallers[c].snapshot}
         /\ UNCHANGED popCounts \/ Failed
  BY <1>1
<1>5. at \in Whereabouts
  BY Zenon DEF Whereabouts, Holding, Sections
<1>6. /\ popCallers' \in [Callers -> CallerStates]
      /\ popCallers'[c].at = at /\ popCallers'[c].snapshot = popCallers[c].snapshot
      /\ popCallers'[c].run = popCallers[c].run
      /\ \A d \in Callers : d # c => popCallers'[d] = popCallers[d]
  BY <1>4, <1>5, RefreshTyped, CallerMoves
<1>7. /\ popCounts' \in [downloads : Nat, byHand : Nat, faults : Nat]
      /\ popCounts'.downloads = popCounts.downloads
  BY <1>4, RefreshTyped, CountsUp
<1>8. \A d \in Callers : d # c => popCallers[d].at \notin Holding
  BY <1>2, OneHolds
<1>9. CallerHolds(c)'
  BY <1>1, <1>3, <1>4, <1>6, <1>7 DEF CallerHolds
<1>10. \A d \in Callers : CallerHolds(d)'
  BY <1>6, <1>8, <1>9, OneWorks
<1>11. evidence' \in Nat /\ evidence <= evidence' /\ evidence' <= popCounts.downloads
  BY <1>3, <1>4, RefreshTyped DEF RefreshInv
<1>12. TableFits(runs, evidence)'
  <2>1. \A i \in DOMAIN runs : runs[i].snapshot \in Nat
    <3>1. \A i \in 1 .. Len(runs) : runs[i] \in PopRuns
      BY RefreshTyped, ElementOfSeq
    <3> QED BY <3>1, RefreshTyped, RunFacts, LenProperties
  <2>2. \A i \in DOMAIN runs : runs[i].status = "completed" => runs[i].snapshot <= evidence
    BY DEF RefreshInv, TableFits
  <2>3. \A i \in DOMAIN runs : runs[i].status = "completed" => runs[i].snapshot <= evidence'
    BY <1>11, <2>1, <2>2, RefreshTyped
  <2> QED BY <1>1, <1>3, <2>3 DEF TableFits
<1>13. DownloadsAreSpaced'
  <2>1. popCallers'["loop"].at = "due" => popCallers["loop"].at = "due"
    BY <1>4, <1>6, CallersDiffer
  <2> QED BY <1>1, <2>1 DEF RefreshInv, DownloadsAreSpaced
<1>14. PopTypes'
  BY <1>1, <1>6, <1>7, <1>11 DEF RefreshInv, PopTypes
<1>15. (evidence <= popCounts.downloads)' /\ (popBackup.evidence <= popCounts.downloads)'
  BY <1>1, <1>7, <1>11 DEF RefreshInv
<1>16. /\ TableFits(popBackup.runs, popBackup.evidence)' /\ (lastAuto.failures <= Failures(runs))'
       /\ WaitIsRecorded(runs, lastAuto)'
  BY <1>1 DEF RefreshInv
<1> QED BY <1>10, <1>12, <1>13, <1>14, <1>15, <1>16 DEF RefreshInv

(* The history of the loop after the end of an import.                     *)
LEMMA OutcomeIsRecorded ==
    ASSUME NEW a \in LoopHistories, NEW rs \in Seq(PopRuns), NEW ts \in Seq(PopRuns), NEW b,
           a.failures <= Failures(rs), NEW own \in BOOLEAN, NEW good \in BOOLEAN,
           good => /\ Failures(ts) = 0 /\ Those(ts, {"completed"}) # {}
                   /\ Latest(ts, {"completed"}).age = 0
                   /\ b = IF own THEN AfterLoop(0) ELSE [a EXCEPT !.failures = 0],
           ~good => /\ Failures(rs) + 1 <= Failures(ts) /\ Latest(ts, Terminal).age = 0
                    /\ b = IF own THEN AfterLoop(a.failures + 1)
                           ELSE [a EXCEPT !.need = IF @ > BackoffBase THEN BackoffBase ELSE @]
    PROVE  /\ b \in LoopHistories /\ b.failures <= Failures(ts) /\ WaitIsRecorded(ts, b)
           /\ ~own => b.age = a.age /\ b.need <= a.need
<1> DEFINE z == 0
<1>1. z \in 0 .. Horizon /\ z \in Nat /\ Freshness \in 0 .. Freshness
  BY PopNumbers
<1>2. /\ a.age \in 0 .. Horizon /\ a.need \in 0 .. Freshness /\ a.failures \in Nat
      /\ a.need \in Nat /\ Failures(rs) \in Nat /\ Failures(ts) \in Nat
  BY StreakIsFinite, AutoFacts DEF LoopHistories
<1>3. CASE good /\ own
  <2>1. b = [age |-> z, failures |-> z, need |-> Freshness]
    BY <1>3 DEF AfterLoop
  <2> HIDE DEF z
  <2>2. b \in LoopHistories /\ b.failures = z
    BY <1>1, <2>1 DEF LoopHistories
  <2>3. b.failures <= Failures(ts)
    BY <1>2, <2>2 DEF z
  <2> QED BY <1>3, <2>2, <2>3, WaitAfterSuccess
<1>4. CASE good /\ ~own
  <2>1. b = [a EXCEPT !.failures = z]
    BY <1>4
  <2> HIDE DEF z
  <2>2. b \in LoopHistories /\ b.failures = z /\ b.age = a.age /\ b.need = a.need
    BY <1>1, <1>2, <2>1 DEF LoopHistories
  <2>3. b.failures <= Failures(ts) /\ b.need <= a.need
    BY <1>2, <2>2 DEF z
  <2> QED BY <1>4, <2>2, <2>3, WaitAfterSuccess
<1>5. CASE ~good /\ own
  <2> DEFINE f == a.failures + 1
             w == Backoff(f)
  <2>1. f \in Nat /\ f # 0 /\ f <= Failures(ts)
    BY <1>2, <1>5
  <2>2. b = [age |-> z, failures |-> f, need |-> w]
    BY <1>5, <2>1 DEF AfterLoop
  <2> HIDE DEF f
  <2>3. w \in 0 .. BackoffMost /\ w <= Backoff(Failures(ts))
    BY <1>2, <2>1, BackoffGrows
  <2>4. w \in 0 .. Freshness
    BY <2>3, PopNumbers
  <2> HIDE DEF w, z
  <2>5. b \in LoopHistories /\ b.failures = f /\ b.need = w
    BY <1>1, <2>1, <2>2, <2>4 DEF LoopHistories
  <2>6. Failures(ts) > 0
    BY <1>2, <2>1
  <2> QED BY <1>5, <2>1, <2>3, <2>5, <2>6, WaitAfterFailure
<1>6. CASE ~good /\ ~own
  <2> DEFINE w == IF a.need > BackoffBase THEN BackoffBase ELSE a.need
  <2>1. w \in 0 .. Freshness /\ w <= BackoffBase /\ w <= a.need /\ w \in Nat
    BY <1>2, PopNumbers
  <2>2. b = [a EXCEPT !.need = w]
    BY <1>6
  <2> HIDE DEF w
  <2>3. b \in LoopHistories /\ b.failures = a.failures /\ b.age = a.age /\ b.need = w
    BY <1>2, <2>1, <2>2 DEF LoopHistories
  <2>4. Failures(ts) > 0 /\ Failures(ts) # 0 /\ a.failures <= Failures(ts)
    BY <1>2, <1>6
  <2>5. BackoffBase <= Backoff(Failures(ts)) /\ Backoff(Failures(ts)) \in 0 .. BackoffMost
    BY <1>2, <2>4, BackoffGrows
  <2>6. w <= Backoff(Failures(ts))
    BY <2>1, <2>5, PopNumbers
  <2> QED BY <1>6, <2>1, <2>3, <2>4, <2>6, WaitAfterFailure
<1> QED BY <1>3, <1>4, <1>5, <1>6

LEMMA FinishImportKeepsRefresh ==
    ASSUME RefreshInv, NEW c \in Callers, FinishImport(c) PROVE RefreshInv'
<1> DEFINE good == popCallers[c].at = "successful"
           own == c = "loop"
           zero == 0
           r == IF good
                THEN [status |-> "completed", age |-> 0, snapshot |-> popCallers[c].snapshot]
                ELSE [status |-> "failed", age |-> 0, snapshot |-> zero]
<1>1. /\ popCallers[c].at \in {"successful", "unsuccessful"}
      /\ runs' = [runs EXCEPT ![popCallers[c].run] = r]
      /\ Ended(c, 0) /\ lastAuto' = Outcome(c)
      /\ UNCHANGED <<evidence, popWindow, popBackup, popCounts>>
  BY DEF FinishImport, Finish
<1>2. popCallers[c].at \in Sections /\ popCallers[c].at \in Holding
  BY <1>1, Zenon DEF Holding, Sections
<1>3. /\ popCallers[c].snapshot = popCounts.downloads
      /\ popCallers[c].run = Len(runs) /\ runs # <<>> /\ Last(runs).status = "running"
      /\ good => evidence = popCallers[c].snapshot
  BY <1>2 DEF RefreshInv, CallerHolds
<1>4. /\ r \in PopRuns /\ r.age = 0
      /\ good => r.status = "completed" /\ r.snapshot = evidence
      /\ ~good => r.status = "failed"
  <2>1. popCallers[c].snapshot \in Nat /\ zero \in Nat
    BY RefreshTyped
  <2>2. [status |-> "completed", age |-> 0, snapshot |-> popCallers[c].snapshot] \in PopRuns
    BY <2>1, NewRun
  <2> HIDE DEF zero
  <2>3. [status |-> "failed", age |-> 0, snapshot |-> zero] \in PopRuns
    BY <2>1, NewRun
  <2> QED BY <1>3, <2>2, <2>3
<1> HIDE DEF r
<1> DEFINE n == Len(runs)
           ts == [runs EXCEPT ![Len(runs)] = r]
<1>5. /\ ts \in Seq(PopRuns) /\ Len(ts) = n /\ ts # <<>> /\ Last(ts) = r
      /\ \A i \in DOMAIN runs : i # n => ts[i] = runs[i]
      /\ DOMAIN ts = DOMAIN runs /\ ts[n] = r
      /\ r.status = "completed" => /\ Failures(ts) = 0 /\ Those(ts, {"completed"}) # {}
                                   /\ Latest(ts, {"completed"}) = r
      /\ r.status = "failed" => Failures(runs) + 1 <= Failures(ts) /\ Latest(ts, Terminal) = r
  BY <1>3, <1>4, RefreshTyped, RunEnds, ZenonT(60)
<1>6. runs' = ts
  BY <1>1, <1>3
<1> HIDE DEF ts, n
<1>7. \A d \in Callers : d # c => popCallers[d].at \notin Holding
  BY <1>2, OneHolds
<1>8. /\ popCallers' \in [Callers -> CallerStates]
      /\ popCallers'[c].at \in {"idle", "waiting"}
      /\ \A d \in Callers : d # c => popCallers'[d] = popCallers[d]
  <2>1. 0 \in Nat
    OBVIOUS
  <2> QED BY <1>1, <2>1, RefreshTyped, CallerEnds
<1>9. \A d \in Callers : CallerHolds(d)'
  <2>1. popCallers'[c].at \notin Holding
    BY <1>8, Zenon DEF Holding, Sections
  <2>2. CallerHolds(c)'
    BY <2>1, Zenon DEF CallerHolds, Holding, Sections
  <2> QED BY <1>7, <1>8, <2>2, OneWorks
<1>10. /\ lastAuto' \in LoopHistories /\ lastAuto'.failures <= Failures(ts) /\ WaitIsRecorded(ts, lastAuto')
       /\ ~own => lastAuto'.age = lastAuto.age /\ lastAuto'.need <= lastAuto.need
  <2>1. own \in BOOLEAN /\ good \in BOOLEAN
    OBVIOUS
  <2>2. good => lastAuto' = IF own THEN AfterLoop(0) ELSE [lastAuto EXCEPT !.failures = 0]
    BY <1>1 DEF Outcome, Callers
  <2>3. ~good => lastAuto' = IF own THEN AfterLoop(lastAuto.failures + 1)
                             ELSE [lastAuto EXCEPT !.need = IF @ > BackoffBase THEN BackoffBase ELSE @]
    BY <1>1 DEF Outcome, AfterFailureByHand, Callers
  <2>4. lastAuto.failures <= Failures(runs)
    BY DEF RefreshInv
  <2>5. good => /\ Failures(ts) = 0 /\ Those(ts, {"completed"}) # {}
                /\ Latest(ts, {"completed"}).age = 0
    BY <1>4, <1>5
  <2>6. ~good => Failures(runs) + 1 <= Failures(ts) /\ Latest(ts, Terminal).age = 0
    BY <1>4, <1>5
  <2> HIDE DEF own, good
  <2> QED BY <1>5, <2>1, <2>2, <2>3, <2>4, <2>5, <2>6, RefreshTyped, OutcomeIsRecorded
<1>11. TableFits(runs, evidence)'
  <2>1. \A i \in DOMAIN runs : runs[i].status = "completed" => runs[i].snapshot <= evidence
    BY DEF RefreshInv, TableFits
  <2>2. r.status = "completed" => r.snapshot = evidence
    BY <1>4
  <2>3. ASSUME NEW i \in DOMAIN ts, ts[i].status = "completed" PROVE ts[i].snapshot <= evidence
    <3>1. CASE i = n
      BY <1>5, <2>2, <2>3, <3>1, RefreshTyped
    <3>2. CASE i # n
      BY <1>5, <2>1, <2>3, <3>2
    <3> QED BY <3>1, <3>2
  <2> QED BY <1>1, <1>5, <1>6, <2>2, <2>3 DEF TableFits
<1>12. DownloadsAreSpaced'
  <2>1. CASE own
    BY <1>8, <2>1 DEF DownloadsAreSpaced
  <2>2. CASE ~own
    <3>1. popCallers'["loop"] = popCallers["loop"]
      BY <1>8, <2>2, CallersDiffer
    <3>2. lastAuto'.age = lastAuto.age /\ lastAuto'.need <= lastAuto.need
      BY <1>10, <2>2
    <3>3. popCallers["loop"].at = "due" => lastAuto.age >= lastAuto.need
      BY DEF RefreshInv, DownloadsAreSpaced
    <3>4. lastAuto'.need \in Nat /\ lastAuto.need \in Nat /\ lastAuto.age \in Nat
      BY <1>10, RefreshTyped, AutoFacts
    <3> QED BY <3>1, <3>2, <3>3, <3>4 DEF DownloadsAreSpaced
  <2> QED BY <2>1, <2>2
<1>13. PopTypes'
  BY <1>1, <1>5, <1>6, <1>8, <1>10 DEF RefreshInv, PopTypes, LoopHistories
<1>14. /\ (evidence <= popCounts.downloads)' /\ (popBackup.evidence <= popCounts.downloads)'
       /\ TableFits(popBackup.runs, popBackup.evidence)'
  BY <1>1 DEF RefreshInv
<1> QED BY <1>6, <1>9, <1>10, <1>11, <1>12, <1>13, <1>14 DEF RefreshInv

LEMMA BackupKeepsRefresh ==
    ASSUME RefreshInv, MakeBackup \/ CloseForRestore PROVE RefreshInv'
<1>1. /\ UNCHANGED <<runs, evidence, popLock, popCallers, popCounts, lastAuto>>
      /\ popWindow' = popWindow \/ popWindow' # "replaced"
      /\ popBackup' = popBackup \/ popBackup' = [runs |-> runs, evidence |-> evidence, made |-> TRUE]
  BY DEF MakeBackup, CloseForRestore
<1>2. \A d \in Callers : CallerHolds(d)'
  BY <1>1, TheOtherHolds
<1>3. /\ popBackup' \in [runs : Seq(PopRuns), evidence : Nat, made : BOOLEAN]
      /\ popBackup'.evidence <= popCounts.downloads
      /\ TableFits(popBackup'.runs, popBackup'.evidence)
  <2> DEFINE yes == TRUE
  <2>1. yes \in BOOLEAN
    OBVIOUS
  <2>2. popBackup' = popBackup \/ popBackup' = [runs |-> runs, evidence |-> evidence, made |-> yes]
    BY <1>1
  <2> HIDE DEF yes
  <2> QED BY <2>1, <2>2 DEF RefreshInv, PopTypes
<1>4. PopTypes' /\ DownloadsAreSpaced'
  BY <1>1, <1>3 DEF RefreshInv, PopTypes, DownloadsAreSpaced
<1>5. /\ (evidence <= popCounts.downloads)' /\ TableFits(runs, evidence)'
      /\ (lastAuto.failures <= Failures(runs))' /\ WaitIsRecorded(runs, lastAuto)'
  BY <1>1 DEF RefreshInv
<1> QED BY <1>1, <1>2, <1>3, <1>4, <1>5 DEF RefreshInv

(* A step that no caller is in the section of.                             *)
LEMMA NoSection ==
    ASSUME RefreshInv, NEW c \in Callers, ~InSection, UNCHANGED <<popLock, popCallers, popCounts>>
    PROVE  CallerHolds(c)'
<1>1. popCallers[c].at \notin Sections /\ popCallers[c].at # "successful"
  BY DEF InSection, Sections
<1>2. popCallers[c].at \in Holding => popLock = c /\ popCallers[c].snapshot = popCounts.downloads
  BY DEF RefreshInv, CallerHolds
<1> QED BY <1>1, <1>2 DEF CallerHolds

LEMMA EndRestoreKeepsRefresh ==
    ASSUME RefreshInv, EndRestore PROVE RefreshInv'
<1>1. UNCHANGED <<popLock, popCallers, popBackup, popCounts>>
  BY DEF EndRestore
<1>2. CASE /\ ~InSection
           /\ runs' = popBackup.runs /\ evidence' = popBackup.evidence
           /\ popWindow' = "replaced"
           /\ lastAuto' = [lastAuto EXCEPT !.need = 0, !.failures = 0]
  <2> DEFINE z == 0
  <2>1. z \in Nat /\ z \in 0 .. Freshness
    BY PopNumbers
  <2>2. lastAuto' = [lastAuto EXCEPT !.need = z, !.failures = z]
    BY <1>2
  <2> HIDE DEF z
  <2>3. /\ lastAuto' \in LoopHistories /\ lastAuto'.age = lastAuto.age /\ lastAuto'.need = z
        /\ lastAuto'.failures = z
    BY <2>1, <2>2, RefreshTyped DEF LoopHistories
  <2>4. PopTypes'
    BY <1>1, <1>2, <2>3 DEF RefreshInv, PopTypes, LoopHistories
  <2>5. lastAuto'.age \in Nat /\ ~(lastAuto'.need > lastAuto'.age) /\ lastAuto'.age >= lastAuto'.need
    BY <2>3, RefreshTyped, AutoFacts DEF z
  <2>6. Failures(runs') \in Nat /\ lastAuto'.failures <= Failures(runs')
    BY <1>2, <2>3, RefreshTyped, StreakIsFinite DEF z
  <2>7. WaitIsRecorded(runs, lastAuto)' /\ DownloadsAreSpaced'
    BY <2>5 DEF WaitIsRecorded, DownloadsAreSpaced
  <2>8. \A c \in Callers : CallerHolds(c)'
    BY <1>1, <1>2, NoSection
  <2>9. /\ TableFits(runs, evidence)' /\ TableFits(popBackup.runs, popBackup.evidence)'
        /\ (evidence <= popCounts.downloads)' /\ (popBackup.evidence <= popCounts.downloads)'
    BY <1>1, <1>2 DEF RefreshInv
  <2> QED BY <2>4, <2>6, <2>7, <2>8, <2>9 DEF RefreshInv
<1>3. CASE popWindow' = "open" /\ UNCHANGED <<runs, evidence, lastAuto>>
  <2>1. \A c \in Callers : CallerHolds(c)'
    BY <1>1, <1>3, TheOtherHolds
  <2>2. popCallers'["loop"].at = "due" => popCallers["loop"].at = "due"
    BY <1>1
  <2> QED BY <1>1, <1>3, <2>1, <2>2, RefreshTyped, QuietRefresh
<1> QED BY <1>2, <1>3 DEF EndRestore

(* A run that was running has failed.                                      *)
LEMMA RecoveryCounts ==
    ASSUME NEW rs \in Seq(PopRuns), rs # <<>>, Last(rs).status = "running"
    PROVE  Failures(rs) + 1 <= Failures(RunsRecovered(rs)) /\ RunsRecovered(rs) # rs
<1> DEFINE ts == RunsRecovered(rs)
           n == Len(rs)
<1>1. /\ ts \in Seq(PopRuns) /\ Len(ts) = n /\ DOMAIN ts = DOMAIN rs
      /\ \A i \in DOMAIN rs : rs[i].status = "running" => ts[i].status = "failed"
      /\ Streak(rs) \subseteq Streak(ts)
  BY RunsAreRecovered
<1>2. n \in Nat \ {0} /\ DOMAIN rs = 1 .. n /\ n \in 1 .. n /\ rs[n].status = "running"
  <2>1. n \in Nat \ {0} /\ DOMAIN rs = 1 .. n
    BY EmptySeq, LenProperties
  <2> QED BY <2>1 DEF Last
<1> HIDE DEF ts, n
<1>3. ts[n].status = "failed"
  BY <1>1, <1>2
<1>4. n \in Streak(ts)
  <2>1. n \in Those(ts, {"failed"})
    BY <1>1, <1>2, <1>3 DEF Those
  <2>2. \A j \in n .. n : j = n
    BY <1>2
  <2> QED BY <1>1, <1>3, <2>1, <2>2 DEF Streak
<1>5. n \notin Streak(rs)
  BY <1>2 DEF Streak, Those
<1>6. Failures(rs) + 1 <= Failures(ts)
  BY <1>1, <1>4, <1>5, StreakGrows
<1> QED BY <1>2, <1>3, <1>6 DEF ts

(* The history of the loop that a new process goes on with.                *)
LEMMA HistoryAtRestart ==
    ASSUME NEW a \in LoopHistories, NEW rs \in Seq(PopRuns), NEW b, WaitIsRecorded(rs, a),
           a.failures <= Failures(rs), NEW own \in BOOLEAN,
           own => rs # <<>> /\ Last(rs).status = "running",
           b = IF own THEN AfterLoop(a.failures + 1)
               ELSE IF RunsRecovered(rs) # rs
                    THEN [a EXCEPT !.need = IF @ > BackoffBase THEN BackoffBase ELSE @]
                    ELSE a
    PROVE  b \in LoopHistories /\ b.failures <= Failures(RunsRecovered(rs)) /\ WaitIsRecorded(RunsRecovered(rs), b)
<1> DEFINE ts == RunsRecovered(rs)
           running == rs # <<>> /\ Last(rs).status = "running"
<1>1. /\ ts \in Seq(PopRuns) /\ Streak(rs) \subseteq Streak(ts)
  BY RunsAreRecovered
<1>2. /\ a.age \in 0 .. Horizon /\ a.need \in 0 .. Freshness /\ a.failures \in Nat
      /\ a.need \in Nat /\ Failures(rs) \in Nat /\ Failures(ts) \in Nat
      /\ Failures(rs) <= Failures(ts)
  BY <1>1, StreakIsFinite, StreakGrows, AutoFacts DEF LoopHistories
<1>3. running => Failures(rs) + 1 <= Failures(ts) /\ ts # rs
  BY RecoveryCounts
<1> HIDE DEF ts
<1>4. running => rs # <<>> /\ rs[Len(rs)].status = "running"
  BY DEF Last
<1>5. rs # <<>> /\ rs[Len(rs)].status = "running" => running
  BY DEF Last
<1>6. CASE own
  <2> DEFINE f == a.failures + 1
             w == Backoff(f)
             z == 0
  <2>1. f \in Nat /\ f # 0 /\ f <= Failures(ts) /\ z \in 0 .. Horizon
    BY <1>2, <1>3, <1>6, PopNumbers, SMTT(60)
  <2>2. b = [age |-> z, failures |-> f, need |-> w]
    BY <1>6, <2>1 DEF AfterLoop
  <2> HIDE DEF f
  <2>3. w \in 0 .. BackoffMost /\ w <= Backoff(Failures(ts))
    BY <1>2, <2>1, BackoffGrows
  <2>4. w \in 0 .. Freshness
    BY <2>3, PopNumbers
  <2> HIDE DEF w, z
  <2>5. b \in LoopHistories /\ b.failures = f /\ b.need = w
    BY <2>1, <2>2, <2>4 DEF LoopHistories
  <2>6. rs # <<>> /\ rs[Len(rs)].status = "running"
    BY <1>4, <1>6
  <2>7. WaitIsRecorded(RunsRecovered(rs), b)
    BY <2>3, <2>5, <2>6, WaitAfterRecovery DEF ts
  <2> QED BY <2>1, <2>5, <2>7 DEF ts
<1>7. CASE ~own /\ ts # rs
  <2> DEFINE w == IF a.need > BackoffBase THEN BackoffBase ELSE a.need
  <2>1. w \in 0 .. Freshness /\ w <= BackoffBase /\ w <= a.need /\ w \in Nat
    BY <1>2, PopNumbers, SMTT(60)
  <2>2. b = [a EXCEPT !.need = w]
    BY <1>7 DEF ts
  <2> HIDE DEF w
  <2>3. b \in LoopHistories /\ b.failures = a.failures /\ b.age = a.age /\ b.need = w
    BY <1>2, <2>1, <2>2 DEF LoopHistories
  <2>4. running => w <= Backoff(Failures(ts))
    <3>1. ASSUME running PROVE BackoffBase <= Backoff(Failures(ts)) /\ Backoff(Failures(ts)) \in 0 .. BackoffMost
      <4>1. Failures(ts) # 0
        BY <1>2, <1>3, <3>1
      <4> QED BY <1>2, <4>1, BackoffGrows
    <3> QED BY <2>1, <3>1, PopNumbers
  <2>5. WaitIsRecorded(RunsRecovered(rs), b)
    BY <1>5, <2>1, <2>3, <2>4, WaitAfterRecovery DEF ts
  <2>6. b.failures <= Failures(ts)
    BY <1>2, <2>3
  <2> QED BY <2>3, <2>5, <2>6 DEF ts
<1>8. CASE ~own /\ ts = rs
  <2>1. b = a
    BY <1>8 DEF ts
  <2> QED BY <1>2, <1>8, <2>1 DEF ts
<1> QED BY <1>6, <1>7, <1>8

LEMMA RestartPopKeepsRefresh ==
    ASSUME RefreshInv, RestartPop PROVE RefreshInv'
<1> DEFINE own == popCallers["loop"].at \in Sections
<1>1. /\ UNCHANGED popCounts \/ Failed
      /\ runs' = RunsRecovered(runs) /\ popLock' = "free"
      /\ popCallers' = [c \in Callers |-> Resting]
      /\ lastAuto' = IF own THEN AfterLoop(lastAuto.failures + 1)
                     ELSE IF runs' # runs THEN AfterFailureByHand ELSE lastAuto
      /\ UNCHANGED <<evidence, popBackup>>
  BY DEF RestartPop
<1>2. own => runs # <<>> /\ Last(runs).status = "running"
  BY CallersDiffer DEF RefreshInv, CallerHolds
<1> HIDE DEF own
<1>3. /\ runs' \in Seq(PopRuns) /\ Len(runs') = Len(runs) /\ DOMAIN runs' = DOMAIN runs
      /\ \A i \in DOMAIN runs : runs[i].status # "running" => runs'[i] = runs[i]
      /\ \A i \in DOMAIN runs : runs[i].status = "running" => runs'[i].status = "failed"
  BY <1>1, RefreshTyped, RunsAreRecovered
<1>4. lastAuto' \in LoopHistories /\ lastAuto'.failures <= Failures(runs') /\ WaitIsRecorded(runs', lastAuto')
  <2>1. WaitIsRecorded(runs, lastAuto) /\ lastAuto.failures <= Failures(runs)
    BY DEF RefreshInv
  <2>2. lastAuto' = IF own THEN AfterLoop(lastAuto.failures + 1)
                    ELSE IF RunsRecovered(runs) # runs
                         THEN [lastAuto EXCEPT !.need = IF @ > BackoffBase THEN BackoffBase ELSE @]
                         ELSE lastAuto
    BY <1>1 DEF AfterFailureByHand
  <2>3. own \in BOOLEAN
    BY DEF own
  <2> QED BY <1>1, <1>2, <2>1, <2>2, <2>3, RefreshTyped, HistoryAtRestart
<1>5. popCallers' \in [Callers -> CallerStates] /\ \A c \in Callers : popCallers'[c] = Resting
  BY <1>1, RestingFacts
<1>6. \A c \in Callers : CallerHolds(c)'
  BY <1>5, RestingFacts, Zenon DEF CallerHolds, Holding, Sections
<1>7. DownloadsAreSpaced'
  BY <1>5, RestingFacts, CallersDiffer DEF DownloadsAreSpaced
<1>8. TableFits(runs, evidence)'
  <2>1. /\ \A i \in DOMAIN runs : runs[i].status = "completed" => runs[i].snapshot <= evidence
        /\ runs # <<>> /\ Last(runs).status = "completed" => evidence = Last(runs).snapshot
    BY DEF RefreshInv, TableFits
  <2>2. ASSUME NEW i \in DOMAIN runs', runs'[i].status = "completed"
        PROVE  runs[i].status = "completed" /\ runs'[i] = runs[i]
    BY <1>3, <2>2
  <2>3. runs' # <<>> => runs # <<>> /\ Len(runs) \in DOMAIN runs' /\ Last(runs') = runs'[Len(runs)]
                        /\ Last(runs) = runs[Len(runs)]
    <3>1. Len(runs) \in Nat /\ DOMAIN runs = 1 .. Len(runs)
      BY RefreshTyped, LenProperties
    <3>2. runs' # <<>> => runs # <<>> /\ Len(runs) # 0
      BY <1>3, RefreshTyped, EmptySeq
    <3>3. runs' # <<>> => Len(runs) \in 1 .. Len(runs)
      BY <3>1, <3>2
    <3> QED BY <1>3, <3>1, <3>2, <3>3 DEF Last
  <2>4. \A i \in DOMAIN runs' : runs'[i].status = "completed" => runs'[i].snapshot <= evidence
    BY <1>3, <2>1, <2>2
  <2>5. runs' # <<>> /\ Last(runs').status = "completed" => evidence = Last(runs').snapshot
    BY <2>1, <2>2, <2>3
  <2> QED BY <1>1, <2>4, <2>5 DEF TableFits
<1>9. /\ popCounts' \in [downloads : Nat, byHand : Nat, faults : Nat]
      /\ popCounts'.downloads = popCounts.downloads
  BY <1>1, RefreshTyped, CountsUp
<1>10. PopTypes'
  BY <1>1, <1>3, <1>4, <1>5, <1>9 DEF RefreshInv, PopTypes, LoopHistories
<1>11. /\ (evidence <= popCounts.downloads)' /\ (popBackup.evidence <= popCounts.downloads)'
       /\ TableFits(popBackup.runs, popBackup.evidence)'
  BY <1>1, <1>9 DEF RefreshInv
<1> QED BY <1>4, <1>6, <1>7, <1>8, <1>10, <1>11 DEF RefreshInv

LEMMA PopTickKeepsRefresh ==
    ASSUME RefreshInv, PopTick PROVE RefreshInv'
<1> DEFINE older == Older(lastAuto.age)
           w == IF popCallers["loop"].wait > 0 THEN popCallers["loop"].wait - 1 ELSE 0
           r == [popCallers["loop"] EXCEPT !.wait = w]
           stored == AllOlder(popBackup.runs)
<1>1. /\ runs' = AllOlder(runs)
      /\ popBackup' = [popBackup EXCEPT !.runs = stored]
      /\ lastAuto' = [lastAuto EXCEPT !.age = older]
      /\ popCallers' = [popCallers EXCEPT !["loop"] = r]
      /\ UNCHANGED <<evidence, popLock, popWindow, popCounts>>
  BY DEF PopTick
<1>2. popCallers["loop"] \in CallerStates /\ w \in Nat
  <2>1. popCallers["loop"] \in CallerStates
    BY RefreshTyped, CallersDiffer
  <2> QED BY <2>1 DEF CallerStates
<1> HIDE DEF w
<1>3. r \in CallerStates /\ r.at = popCallers["loop"].at /\ r.snapshot = popCallers["loop"].snapshot
      /\ r.run = popCallers["loop"].run
  BY <1>2 DEF CallerStates
<1> HIDE DEF r
<1>4. /\ popCallers' \in [Callers -> CallerStates]
      /\ \A c \in Callers : /\ popCallers'[c].at = popCallers[c].at
                            /\ popCallers'[c].snapshot = popCallers[c].snapshot
                            /\ popCallers'[c].run = popCallers[c].run
  BY <1>1, <1>3, RefreshTyped
<1>5. \A rs \in Seq(PopRuns) :
         LET ts == AllOlder(rs) IN
         /\ ts \in Seq(PopRuns) /\ Len(ts) = Len(rs) /\ DOMAIN ts = DOMAIN rs
         /\ \A i \in DOMAIN rs : ts[i].status = rs[i].status /\ ts[i].snapshot = rs[i].snapshot
         /\ Failures(ts) = Failures(rs)
         /\ (ts = <<>>) <=> (rs = <<>>)
         /\ rs # <<>> => /\ Last(ts).status = Last(rs).status
                         /\ Last(ts).snapshot = Last(rs).snapshot
  <2>1. TAKE rs \in Seq(PopRuns)
  <2> DEFINE ts == AllOlder(rs)
  <2>2. /\ ts \in Seq(PopRuns) /\ Len(ts) = Len(rs) /\ DOMAIN ts = DOMAIN rs
        /\ \A i \in DOMAIN rs : ts[i].status = rs[i].status /\ ts[i].snapshot = rs[i].snapshot
        /\ Failures(ts) = Failures(rs)
    BY RunsGrowOld
  <2> HIDE DEF ts
  <2>3. (ts = <<>>) <=> (rs = <<>>)
    BY <2>2, EmptySeq
  <2>4. rs # <<>> => Len(rs) \in DOMAIN rs
    <3>1. rs # <<>> => Len(rs) # 0
      BY EmptySeq
    <3>2. Len(rs) \in Nat /\ DOMAIN rs = 1 .. Len(rs)
      BY LenProperties
    <3> QED BY <3>1, <3>2
  <2>5. rs # <<>> => Last(ts).status = Last(rs).status /\ Last(ts).snapshot = Last(rs).snapshot
    BY <2>2, <2>4 DEF Last
  <2> QED BY <2>2, <2>3, <2>5 DEF ts
<1>6. ASSUME NEW rs \in Seq(PopRuns), NEW shown, TableFits(rs, shown)
      PROVE  TableFits(AllOlder(rs), shown)
  BY <1>5, <1>6 DEF TableFits
<1>7. /\ popBackup' \in [runs : Seq(PopRuns), evidence : Nat, made : BOOLEAN]
      /\ popBackup'.runs = stored /\ popBackup'.evidence = popBackup.evidence
  <2>1. stored \in Seq(PopRuns)
    BY <1>5, RefreshTyped
  <2> HIDE DEF stored
  <2> QED BY <1>1, <2>1 DEF RefreshInv, PopTypes
<1>8. lastAuto' \in LoopHistories /\ lastAuto'.failures = lastAuto.failures /\ lastAuto'.need = lastAuto.need
      /\ lastAuto.age <= lastAuto'.age
  <2>1. lastAuto.age \in Nat /\ lastAuto.age <= Horizon /\ Horizon \in Nat
    BY RefreshTyped, AutoFacts, PopNumbers
  <2>2. older \in 0 .. Horizon /\ lastAuto.age <= older
    BY <2>1 DEF Older
  <2> HIDE DEF older
  <2>3. lastAuto' \in LoopHistories /\ lastAuto'.failures = lastAuto.failures /\ lastAuto'.need = lastAuto.need
        /\ lastAuto'.age = older
    BY <1>1, <2>2, RefreshTyped DEF LoopHistories
  <2> QED BY <2>2, <2>3
<1>9. WaitIsRecorded(runs, lastAuto)'
  <2>1. WaitIsRecorded(runs, lastAuto)
    BY DEF RefreshInv
  <2>2. WaitIsRecorded(AllOlder(runs), [lastAuto EXCEPT !.age = Older(@)])
    BY <2>1, RefreshTyped, WaitAsTimePasses
  <2> QED BY <1>1, <2>2
<1>10. ASSUME NEW c \in Callers PROVE CallerHolds(c)'
  <2>1. CallerHolds(c)
    BY DEF RefreshInv
  <2>2. /\ Len(runs') = Len(runs) /\ (runs' = <<>> <=> runs = <<>>)
        /\ runs # <<>> => Last(runs').status = Last(runs).status
    BY <1>1, <1>5, RefreshTyped
  <2> QED BY <1>1, <1>4, <2>1, <2>2 DEF CallerHolds
<1>11. DownloadsAreSpaced'
  <2>1. lastAuto.age \in Nat /\ lastAuto'.age \in Nat /\ lastAuto.need \in Nat
    BY <1>8, RefreshTyped, AutoFacts
  <2>2. popCallers["loop"].at = "due" => lastAuto.age >= lastAuto.need
    BY DEF RefreshInv, DownloadsAreSpaced
  <2> QED BY <1>4, <1>8, <2>1, <2>2, CallersDiffer DEF DownloadsAreSpaced
<1>12. PopTypes'
  BY <1>1, <1>4, <1>5, <1>7, <1>8, RefreshTyped DEF RefreshInv, PopTypes, LoopHistories
<1>13. (lastAuto.failures <= Failures(runs))'
  BY <1>1, <1>5, <1>8, RefreshTyped DEF RefreshInv
<1>14. TableFits(runs, evidence)' /\ TableFits(popBackup.runs, popBackup.evidence)'
  BY <1>1, <1>6, <1>7, RefreshTyped DEF RefreshInv
<1>15. (evidence <= popCounts.downloads)' /\ (popBackup.evidence <= popCounts.downloads)'
  BY <1>1, <1>7 DEF RefreshInv
<1> QED BY <1>9, <1>10, <1>11, <1>12, <1>13, <1>14, <1>15 DEF RefreshInv

LEMMA PopInitEstablishesRefresh == PopInit => RefreshInv
<1> SUFFICES ASSUME PopInit PROVE RefreshInv
  OBVIOUS
<1> DEFINE z == 0
           none == <<>>
           no == FALSE
<1>1. z \in Nat /\ z \in 0 .. Freshness /\ Horizon \in 0 .. Horizon /\ none \in Seq(PopRuns)
      /\ no \in BOOLEAN
  BY PopNumbers, EmptySeq
<1>2. /\ runs = none /\ evidence = z
      /\ popCallers = [c \in Callers |-> Resting]
      /\ popBackup = [runs |-> none, evidence |-> z, made |-> no]
      /\ popCounts = [downloads |-> z, byHand |-> z, faults |-> z]
      /\ lastAuto = [age |-> Horizon, need |-> z, failures |-> z]
  BY DEF PopInit
<1>3. DOMAIN none = {}
  OBVIOUS
<1> HIDE DEF z, none, no
<1>4. popCallers \in [Callers -> CallerStates] /\ \A c \in Callers : popCallers[c] = Resting
  BY <1>2, RestingFacts
<1>5. \A c \in Callers : CallerHolds(c)
  BY <1>4, RestingFacts, Zenon DEF CallerHolds, Holding, Sections
<1>6. PopTypes
  BY <1>1, <1>2, <1>4 DEF PopTypes
<1>7. TableFits(none, z)
  BY <1>3 DEF TableFits, none
<1>8. Failures(none) \in Nat
  BY <1>1, StreakIsFinite
<1>9. z <= Failures(none) /\ z <= z /\ ~(z > Horizon)
  BY <1>8, PopNumbers DEF z
<1>10. WaitIsRecorded(runs, lastAuto) /\ DownloadsAreSpaced
  <2>1. popCallers["loop"].at # "due"
    BY <1>4, RestingFacts, CallersDiffer
  <2> QED BY <1>2, <1>9, <2>1 DEF WaitIsRecorded, DownloadsAreSpaced
<1> QED BY <1>2, <1>5, <1>6, <1>7, <1>9, <1>10 DEF RefreshInv

LEMMA PopNextKeepsRefresh ==
    ASSUME RefreshInv, PopNext PROVE RefreshInv'
<1>1. ASSUME NEW c \in Callers, CallerStep(c) PROVE RefreshInv'
  <2>1. CASE BeginDownload(c)
    BY <2>1, BeginDownloadKeepsRefresh
  <2>2. CASE AlreadyRunning(c) \/ EndDownload(c)
    BY <2>2, MovesKeepRefresh
  <2>3. CASE TurnedAway(c) \/ TransactionFails(c)
    BY <2>3, EndsKeepRefresh
  <2>4. CASE StartImport(c)
    BY <2>4, StartImportKeepsRefresh
  <2>5. CASE Import(c)
    BY <2>5, ImportKeepsRefresh
  <2>6. CASE FinishImport(c)
    BY <2>6, FinishImportKeepsRefresh
  <2> QED BY <1>1, <2>1, <2>2, <2>3, <2>4, <2>5, <2>6 DEF CallerStep
<1>2. CASE LoopStep
  <2>1. CASE PlanNext
    BY <2>1, PlanNextKeepsRefresh
  <2>2. CASE WakeUp
    BY <2>2, MovesKeepRefresh
  <2> QED BY <1>1, <1>2, <2>1, <2>2, CallersDiffer DEF LoopStep
<1>3. CASE RefreshByHand
  BY <1>3, MovesKeepRefresh
<1>4. CASE MakeBackup \/ CloseForRestore
  BY <1>4, BackupKeepsRefresh
<1>5. CASE EndRestore
  BY <1>5, EndRestoreKeepsRefresh
<1>6. CASE RestartPop
  BY <1>6, RestartPopKeepsRefresh
<1>7. CASE PopTick
  BY <1>7, PopTickKeepsRefresh
<1> QED BY <1>1, <1>2, <1>3, <1>4, <1>5, <1>6, <1>7, CallersDiffer DEF PopNext

LEMMA StillRefreshKeeps ==
    ASSUME RefreshInv, UNCHANGED popVars PROVE RefreshInv'
<1>1. \A c \in Callers : CallerHolds(c)'
  <2>1. TAKE c \in Callers
  <2>2. CallerHolds(c)
    BY DEF RefreshInv
  <2> QED BY <2>2 DEF CallerHolds, popVars
<1>2. PopTypes' /\ DownloadsAreSpaced'
  BY DEF RefreshInv, PopTypes, DownloadsAreSpaced, popVars
<1>3. /\ TableFits(runs, evidence)' /\ TableFits(popBackup.runs, popBackup.evidence)'
      /\ (evidence <= popCounts.downloads)' /\ (popBackup.evidence <= popCounts.downloads)'
      /\ (lastAuto.failures <= Failures(runs))' /\ WaitIsRecorded(runs, lastAuto)'
  BY DEF RefreshInv, popVars
<1> QED BY <1>1, <1>2, <1>3 DEF RefreshInv

(* The invariant of the refresh says what the module promises.             *)
LEMMA RefreshInvIsKept == RefreshInv => RefreshKept
  BY DEF RefreshInv, RefreshKept, TableMatchesRuns, TableFits

(* Whatever crashes, refreshes by hand, restores and failures come between,  *)
(* the table shows what the last completed run imported, and the loop does *)
(* not download before its freshness or its backoff is over.               *)
THEOREM RefreshIsKept == PopSpec => []RefreshKept
<1>1. PopInit => RefreshInv
  BY PopInitEstablishesRefresh
<1>2. RefreshInv /\ [PopNext]_popVars => RefreshInv'
  BY PopNextKeepsRefresh, StillRefreshKeeps
<1> QED BY <1>1, <1>2, RefreshInvIsKept, PTL DEF PopSpec

-----------------------------------------------------------------------------
(* Codes of places, and what is learned of them                            *)

LocationRows == [alias : Codes, canonical : Codes, place : Coordinates, source : {"seed", "learned"},
         confidence : Nat, priority : Nat, active : BOOLEAN]

Measuring == [busy : {TRUE}, route : Routes, network : Networks, proposal : Proposals]

ReviewStages == {"none", "pending", "conflict", "approved", "rejected", "revoked"}

Reviewed == [status : ReviewStages, country : {"", "A", "B"}, place : Coordinates \union {Nowhere},
             sourced : BOOLEAN, conflicts : Nat, quality : Nat, location : Nat]

CandidateTypes ==
    /\ locations \in Seq(LocationRows)
    /\ candidate \in Reviewed
    /\ observers \in [Observers -> Measuring \union {[busy |-> FALSE]}]
    /\ observations \subseteq Measuring

(* Rows that admins did not learn name different codes; a learned one has  *)
(* the code New and is known less well.                                    *)
RowsAreKnown ==
    /\ \A i \in DOMAIN locations :
         /\ locations[i].priority = 10
         /\ locations[i].source = "seed" => locations[i].alias = Known /\ locations[i].confidence = 100
         /\ locations[i].source = "learned" => locations[i].alias = New /\ locations[i].confidence = 70
    /\ \A i, j \in DOMAIN locations :
         /\ locations[i].source = "seed" /\ locations[j].source = "seed"
         /\ locations[i].canonical = locations[j].canonical
         => i = j

(* One learned row is in use: that of the approved candidate.              *)
LearnedIsApproved ==
    /\ \A i \in DOMAIN locations :
         locations[i].source = "learned" /\ locations[i].active =>
            candidate.status = "approved" /\ i = candidate.location
    /\ candidate.status = "approved" =>
         /\ candidate.location \in DOMAIN locations
         /\ locations[candidate.location].source = "learned"
         /\ locations[candidate.location].active

Agrees(seen, country, place) ==
    seen.proposal.country \in {"", country} /\ ~Differ(seen.proposal.place, place)

Supported(seen, country, place) ==
    /\ country # "" /\ Cardinality({o.network : o \in seen}) >= 2
    /\ \E o \in seen : Sourced(o.proposal)
    /\ \A o \in seen : o.proposal.country \in {"", country}
    /\ \E first \in seen :
         /\ first.proposal.place # Nowhere /\ ~Differ(place, first.proposal.place)
         /\ \A o \in seen : ~Differ(o.proposal.place, first.proposal.place)

(* What a candidate says of its observations: its position is that of one, *)
(* and with no conflict all agree with it.                                 *)
ObservationsAreRecorded ==
    /\ candidate.place # Nowhere => \E o \in observations : o.proposal.place = candidate.place
    /\ candidate.place = Nowhere => \A o \in observations : o.proposal.place = Nowhere
    /\ candidate.sourced => \E o \in observations : Sourced(o.proposal)
    /\ candidate.quality # 0 => candidate.sourced
    /\ candidate.conflicts = 0 =>
         \A o \in observations : Agrees(o, candidate.country, candidate.place)

SupportIsRecorded ==
    /\ ObservationsAreRecorded
    /\ candidate.status = "approved" =>
         Supported(basis, candidate.country, locations[candidate.location].place)

CandidatesInv == CandidateTypes /\ RowsAreKnown /\ LearnedIsApproved /\ SupportIsRecorded

LEMMA CodesDiffer == New # Known
  BY CandidateAssumption, Zenon

LEMMA RowFacts ==
    ASSUME NEW i \in DOMAIN locations, locations \in Seq(LocationRows)
    PROVE  /\ locations[i] \in LocationRows
           /\ locations[i].alias \in Codes /\ locations[i].canonical \in Codes
           /\ locations[i].place \in Coordinates /\ locations[i].source \in {"seed", "learned"}
           /\ locations[i].active \in BOOLEAN
<1>1. i \in 1 .. Len(locations)
  BY LenProperties
<1>2. locations[i] \in LocationRows
  BY <1>1, ElementOfSeq
<1> QED BY <1>2 DEF LocationRows

(* A row in use is told from the others by its codes.                      *)
LEMMA ActiveRows ==
    ASSUME CandidatesInv, NEW a \in Active
    PROVE  /\ a \in LocationRows /\ a.source \in {"seed", "learned"} /\ a.priority = 10
           /\ a.canonical \in {New, Known} /\ a.alias \in {New, Known}
           /\ a.source = "seed" => a.alias = Known /\ a.confidence = 100
           /\ a.source = "learned" => /\ a.alias = New /\ a.confidence = 70
                                      /\ candidate.status = "approved" /\ a = locations[candidate.location]
<1>1. PICK i \in DOMAIN locations : locations[i].active /\ a = locations[i]
  BY DEF Active
<1>2. locations[i] \in LocationRows /\ locations[i].alias \in Codes /\ locations[i].canonical \in Codes
      /\ locations[i].source \in {"seed", "learned"}
  BY RowFacts, Zenon DEF CandidatesInv, CandidateTypes
<1> QED BY <1>1, <1>2 DEF CandidatesInv, RowsAreKnown, LearnedIsApproved, Codes

LEMMA ActiveRowsDiffer ==
    ASSUME CandidatesInv, NEW a \in Active, NEW b \in Active,
           a.canonical = b.canonical, a.alias = b.alias
    PROVE  a = b
<1>1. CASE a.source = "learned"
  <2>1. b.source = "learned"
    BY <1>1, ActiveRows, CodesDiffer
  <2> QED BY <1>1, <2>1, ActiveRows
<1>2. CASE a.source = "seed"
  <2>1. b.source = "seed"
    BY <1>2, ActiveRows, CodesDiffer
  <2>2. PICK i \in DOMAIN locations : locations[i].active /\ a = locations[i]
    BY DEF Active
  <2>3. PICK j \in DOMAIN locations : locations[j].active /\ b = locations[j]
    BY DEF Active
  <2>4. i = j
    BY <1>2, <2>1, <2>2, <2>3 DEF CandidatesInv, RowsAreKnown
  <2> QED BY <2>2, <2>3, <2>4
<1> QED BY <1>1, <1>2, ActiveRows

(* The least of some rows is one row.                                      *)
LEMMA LeastIsOne ==
    ASSUME CandidatesInv, NEW tied \in SUBSET Active
    PROVE  Cardinality(Least(tied)) <= 1
<1>1. ASSUME NEW a \in Least(tied), NEW b \in Least(tied) PROVE a = b
  <2>1. a \in Active /\ b \in Active /\ Rank(a) <= Rank(b) /\ Rank(b) <= Rank(a)
    BY DEF Least
  <2>2. /\ a.canonical \in {New, Known} /\ a.alias \in {New, Known}
        /\ b.canonical \in {New, Known} /\ b.alias \in {New, Known}
    BY <2>1, ActiveRows
  <2>3. Rank(a) \in {0, 1, 2, 3} /\ Rank(b) \in {0, 1, 2, 3}
    BY DEF Rank
  <2>4. Rank(a) = Rank(b)
    BY <2>1, <2>3
  <2>5. a.canonical = b.canonical /\ a.alias = b.alias
    BY <2>2, <2>4 DEF Rank
  <2> QED BY <2>1, <2>5, ActiveRowsDiffer
<1>2. CASE Least(tied) = {}
  BY <1>2, FS_EmptySet
<1>3. CASE Least(tied) # {}
  <2>1. PICK a : a \in Least(tied)
    BY <1>3
  <2>2. Least(tied) = {a}
    BY <1>1, <2>1
  <2> QED BY <2>2, FS_Singleton
<1> QED BY <1>2, <1>3

(* What the strategies find.                                               *)
LEMMA TokensFindLeast ==
    ASSUME NEW codes
    PROVE  \E tied \in SUBSET Active : ByTokens(codes) \in {{}, Least(tied)}
<1> DEFINE rs == {r \in Active : r.alias \in codes}
           tied == {r \in rs : \A q \in rs :
                       ~(\/ r.priority > q.priority
                         \/ r.priority = q.priority /\ r.confidence < q.confidence)}
<1>1. tied \in SUBSET Active
  OBVIOUS
<1>2. ByTokens(codes) = IF tied = {} \/ ~Mutual(tied) THEN {} ELSE Least(tied)
  BY DEF ByTokens, BestOf
<1> HIDE DEF tied
<1> QED BY <1>1, <1>2

LEMMA NameFindsLeast ==
    ASSUME NEW name
    PROVE  \E tied \in SUBSET Active : ByName(name) \in {{}, Least(tied)}
<1> DEFINE rs == {r \in Active : Position(name, r.alias) > 0}
           tied == {r \in rs : \A q \in rs : ~(
             LET p == Position(name, r.alias)  s == Position(name, q.alias)
             IN  \/ p > s
                 \/ p = s /\ r.priority > q.priority
                 \/ p = s /\ r.priority = q.priority /\ r.confidence < q.confidence)}
<1>1. tied \in SUBSET Active
  OBVIOUS
<1>2. ByName(name) = IF tied = {} \/ ~Mutual(tied) THEN {} ELSE Least(tied)
  BY DEF ByName, BestOf
<1> HIDE DEF tied
<1> QED BY <1>1, <1>2

LEMMA FindsAtMostOne ==
    ASSUME CandidatesInv, NEW name
    PROVE  Cardinality(Found(name)) <= 1
<1>1. \A codes : Cardinality(ByTokens(codes)) <= 1
  BY TokensFindLeast, LeastIsOne, FS_EmptySet
<1>2. Cardinality(ByName(name)) <= 1
  BY NameFindsLeast, LeastIsOne, FS_EmptySet
<1>3. Cardinality(ByPrefix(name)) <= 1
  BY <1>1, FS_EmptySet DEF ByPrefix
<1> QED BY <1>1, <1>2, <1>3 DEF Found

(* Two sites that are known equally well: the code is found nowhere.       *)
LEMMA TwoSitesAreCurated ==
    ASSUME CandidatesInv, NEW code, NEW a \in Active, NEW b \in Active,
           a.alias = code, b.alias = code, ~SameSite(a, b)
    PROVE  /\ code = Known /\ a.source = "seed" /\ b.source = "seed"
           /\ \A r \in Active : r.alias = code => r.priority = 10 /\ r.confidence = 100
<1>1. a # b
  BY DEF SameSite
<1>2. a.source = "seed"
  <2>1. ASSUME a.source = "learned" PROVE FALSE
    <3>1. b.source = "learned"
      BY <2>1, ActiveRows, CodesDiffer
    <3> QED BY <1>1, <2>1, <3>1, ActiveRows
  <2> QED BY <2>1, ActiveRows
<1>3. code = Known
  BY <1>2, ActiveRows
<1>4. b.source = "seed"
  BY <1>3, ActiveRows, CodesDiffer
<1>5. \A r \in Active : r.alias = code => r.priority = 10 /\ r.confidence = 100
  BY <1>3, ActiveRows, CodesDiffer
<1> QED BY <1>2, <1>3, <1>4, <1>5

LEMMA TwoSitesAreNotFound ==
    ASSUME CandidatesInv, NEW code, NEW a \in Active, NEW b \in Active,
           a.alias = code, b.alias = code, ~SameSite(a, b)
    PROVE  Found(<<[code |-> code, number |-> FALSE]>>) = {}
<1> DEFINE label == [code |-> code, number |-> FALSE]
           name == <<label>>
           high == 10
           sure == 100
<1>1. \A r \in Active : r.alias = code => r.priority = high /\ r.confidence = sure
  BY TwoSitesAreCurated
<1>2. high \in Nat /\ sure \in Nat
  OBVIOUS
<1>3. DOMAIN name = {1} /\ name[1] = label /\ label.code = code /\ label.number = FALSE
  OBVIOUS
<1> HIDE DEF high, sure, name, label
<1>4. ByTokens({code}) = {}
  <2> DEFINE rs == {r \in Active : r.alias \in {code}}
             tied == {r \in rs : \A q \in rs :
                         ~(\/ r.priority > q.priority
                           \/ r.priority = q.priority /\ r.confidence < q.confidence)}
  <2>1. ByTokens({code}) = IF tied = {} \/ ~Mutual(tied) THEN {} ELSE Least(tied)
    BY DEF ByTokens, BestOf
  <2>2. ~(high > high) /\ ~(sure < sure)
    BY <1>2
  <2>3. a \in tied /\ b \in tied
    BY <1>1, <2>2
  <2> HIDE DEF tied
  <2>4. ~Mutual(tied)
    BY <2>3 DEF Mutual
  <2> QED BY <2>1, <2>4
<1>5. Position(name, code) = 1 /\ \A alias : alias # code => Position(name, alias) = 0
  <2>1. ASSUME NEW alias
        PROVE  name[1] = [code |-> alias, number |-> FALSE] <=> alias = code
    <3>1. alias = code => label = [code |-> alias, number |-> FALSE]
      BY DEF label
    <3>2. label = [code |-> alias, number |-> FALSE] => label.code = alias
      OBVIOUS
    <3> QED BY <1>3, <3>1, <3>2
  <2>2. \A alias : {i \in DOMAIN name : name[i] = [code |-> alias, number |-> FALSE]}
                   = IF alias = code THEN {1} ELSE {}
    BY <1>3, <2>1
  <2>3. Min({1}) = 1
    BY DEF Min
  <2> QED BY <2>2, <2>3 DEF Position
<1>6. ByName(name) = {}
  <2> DEFINE rs == {r \in Active : Position(name, r.alias) > 0}
             tied == {r \in rs : \A q \in rs : ~(
               LET p == Position(name, r.alias)  s == Position(name, q.alias)
               IN  \/ p > s
                   \/ p = s /\ r.priority > q.priority
                   \/ p = s /\ r.priority = q.priority /\ r.confidence < q.confidence)}
  <2>1. ByName(name) = IF tied = {} \/ ~Mutual(tied) THEN {} ELSE Least(tied)
    BY DEF ByName, BestOf
  <2>2. ~(high > high) /\ ~(sure < sure)
    BY <1>2
  <2>3. \A r \in rs : r \in Active /\ r.alias = code /\ Position(name, r.alias) = 1
                      /\ r.priority = high /\ r.confidence = sure
    BY <1>1, <1>5
  <2>4. a \in rs /\ b \in rs
    BY <1>5
  <2> HIDE DEF rs
  <2>5. a \in tied /\ b \in tied
    BY <2>2, <2>3, <2>4
  <2> HIDE DEF tied
  <2>6. ~Mutual(tied)
    BY <2>5 DEF Mutual
  <2> QED BY <2>1, <2>6
<1>7. {name[i].code : i \in {j \in DOMAIN name : ~name[j].number}} = {code}
  BY <1>3
<1>8. ByPrefix(name) = {}
  <2>1. {i \in DOMAIN name : ByTokens({name[i].code}) # {}} = {}
    BY <1>3, <1>4
  <2> QED BY <2>1 DEF ByPrefix
<1>9. Found(name) = {}
  BY <1>4, <1>6, <1>7, <1>8 DEF Found
<1> QED BY <1>9 DEF name, label

LEMMA LookupsDecided == CandidatesInv => LookupsAreDecided
<1> SUFFICES ASSUME CandidatesInv PROVE LookupsAreDecided
  OBVIOUS
<1>1. \A name \in Names : Cardinality(Found(name)) <= 1
  BY FindsAtMostOne
<1>2. ASSUME NEW code \in Codes, NEW a \in Active, NEW b \in Active,
             a.alias = code, b.alias = code, ~SameSite(a, b),
             NEW r \in Found(<<[code |-> code, number |-> FALSE]>>)
      PROVE  FALSE
  BY <1>2, TwoSitesAreNotFound
<1> QED BY <1>1, <1>2 DEF LookupsAreDecided

LEMMA LearnedSupported == CandidatesInv => LearnedIsSupported
<1> SUFFICES ASSUME CandidatesInv PROVE LearnedIsSupported
  OBVIOUS
<1>1. ASSUME NEW r \in Active, r.source = "learned" PROVE candidate.status = "approved"
  BY <1>1, ActiveRows
<1>2. ASSUME candidate.status = "approved"
      PROVE  LET r == locations[candidate.location] IN
             /\ r \in Active /\ r.source = "learned" /\ r.alias = New /\ r.active
             /\ Supported(basis, candidate.country, r.place)
  <2>1. candidate.location \in DOMAIN locations
    BY <1>2 DEF CandidatesInv, LearnedIsApproved
  <2>2. locations[candidate.location].active /\ locations[candidate.location].source = "learned"
    BY <1>2 DEF CandidatesInv, LearnedIsApproved
  <2>3. locations[candidate.location] \in Active
    BY <2>1, <2>2 DEF Active
  <2> QED BY <1>2, <2>2, <2>3, ActiveRows, Zenon DEF CandidatesInv, SupportIsRecorded
<1> QED BY <1>1, <1>2, Zenon DEF LearnedIsSupported, Supported

LEMMA ProposalFacts ==
    ASSUME NEW p \in Proposals
    PROVE  p.country \in {"", "A", "B"} /\ p.place \in Coordinates \union {Nowhere}
<1>1. CASE p = NoProposal
  <2> DEFINE blank == ""
             no == FALSE
  <2>1. p = [country |-> blank, place |-> Nowhere, city |-> no]
    BY <1>1, Zenon DEF NoProposal
  <2> HIDE DEF blank, no
  <2>2. p.country = blank /\ p.place = Nowhere
    BY <2>1
  <2> QED BY <2>2, Zenon DEF blank
<1>2. CASE p \in [country : Countries \union {""}, place : Coordinates, city : BOOLEAN]
  BY <1>2, Zenon DEF Countries
<1> QED BY <1>1, <1>2, Zenon DEF Proposals

(* A position does not differ from itself.                                 *)
LEMMA SamePlace == ASSUME NEW p \in Coordinates PROVE ~Differ(p, p)
<1>1. Km[p, p] = 0
  BY CandidateAssumption, Zenon
<1>2. ASSUME NEW d, d = 0 PROVE ~(d > 250)
  BY <1>2
<1> QED BY <1>1, <1>2, Zenon DEF Differ

LEMMA LookUpKeepsCandidates ==
    ASSUME CandidatesInv, NEW o \in Observers, LookUp(o) PROVE CandidatesInv'
<1> DEFINE yes == TRUE
<1>1. PICK route \in Routes, network \in Networks, proposal \in Proposals :
         observers' = [observers EXCEPT ![o] =
             [busy |-> yes, route |-> route, network |-> network, proposal |-> proposal]]
  BY DEF LookUp
<1>2. UNCHANGED <<locations, candidate, observations, basis>>
  BY DEF LookUp
<1>3. yes \in {TRUE}
  OBVIOUS
<1> HIDE DEF yes
<1> DEFINE r == [busy |-> yes, route |-> route, network |-> network, proposal |-> proposal]
<1>4. r \in Measuring
  BY <1>3 DEF Measuring
<1> HIDE DEF r
<1>5. observers' \in [Observers -> Measuring \union {[busy |-> FALSE]}]
  BY <1>1, <1>4, Zenon DEF CandidatesInv, CandidateTypes, r
<1>6. CandidateTypes'
  BY <1>2, <1>5, Zenon DEF CandidatesInv, CandidateTypes
<1> QED BY <1>2, <1>6, ZenonT(60)
          DEF CandidatesInv, RowsAreKnown, LearnedIsApproved, SupportIsRecorded,
              ObservationsAreRecorded

(* What an observation adds to the candidate.                              *)
LEMMA ObservedFacts ==
    ASSUME CandidateTypes, NEW seen \in Measuring
    PROVE  LET new == Observed(seen) IN
           /\ new \in Reviewed
           /\ new.location = candidate.location
           /\ new.sourced <=> candidate.sourced \/ Sourced(seen.proposal)
           /\ new.quality # 0 => new.sourced
           /\ new.country = IF candidate.country = "" THEN seen.proposal.country ELSE candidate.country
           /\ new.place = IF candidate.place = Nowhere THEN seen.proposal.place ELSE candidate.place
           /\ new.conflicts = 0 => candidate.conflicts = 0 /\ ~Contradicts(seen.proposal)
           /\ new.status = "approved" <=> candidate.status = "approved"
<1> DEFINE p == seen.proposal
           more == IF Contradicts(p) THEN 1 ELSE 0
           conflicts == candidate.conflicts + more
           country == IF candidate.country = "" THEN p.country ELSE candidate.country
           place == IF candidate.place = Nowhere THEN p.place ELSE candidate.place
           sourced == candidate.sourced \/ Sourced(p)
           networks == {o.network : o \in observations \union {seen}}
           quality == IF ~sourced THEN 0
                      ELSE IF Cardinality(networks) >= 2 /\ conflicts = 0 THEN 70 ELSE 40
           status == IF candidate.status \in {"none", "pending"}
                     THEN IF conflicts > 0 THEN "conflict" ELSE "pending" ELSE candidate.status
           known == [candidate EXCEPT !.country = country, !.place = place, !.sourced = sourced]
           new == [known EXCEPT !.conflicts = conflicts, !.quality = quality, !.status = status]
<1>1. p.country \in {"", "A", "B"} /\ p.place \in Coordinates \union {Nowhere}
  BY ProposalFacts, Zenon DEF Measuring
<1>2. candidate \in Reviewed
  BY Zenon DEF CandidateTypes
<1>3. country \in {"", "A", "B"} /\ place \in Coordinates \union {Nowhere}
  BY <1>1, <1>2, Zenon DEF Reviewed
<1>4. conflicts \in Nat /\ (conflicts = 0 => candidate.conflicts = 0 /\ ~Contradicts(p))
  <2>1. candidate.conflicts \in Nat
    BY <1>2, Zenon DEF Reviewed
  <2>2. more \in {0, 1} /\ (more = 0 => ~Contradicts(p))
    <3>1. CASE Contradicts(p)
      BY <3>1
    <3>2. CASE ~Contradicts(p)
      BY <3>2
    <3> QED BY <3>1, <3>2
  <2> HIDE DEF more, p
  <2> QED BY <2>1, <2>2
<1>5. sourced \in BOOLEAN /\ quality \in Nat /\ (quality # 0 => sourced)
  <2>1. sourced \in BOOLEAN
    BY <1>2, Zenon DEF Sourced
  <2> HIDE DEF sourced, conflicts, networks
  <2>2. quality \in Nat /\ (quality # 0 => sourced)
    BY SMT
  <2> QED BY <2>1, <2>2
<1>6. status \in ReviewStages /\ (status = "approved" <=> candidate.status = "approved")
  <2>1. candidate.status \in ReviewStages
    BY <1>2, Zenon DEF Reviewed
  <2> QED BY <2>1 DEF ReviewStages
<1>7. Observed(seen) = new
  <2>1. known.sourced = sourced /\ known.status = candidate.status
    BY <1>2, Zenon DEF Reviewed
  <2>2. known = [candidate EXCEPT
            !.country = IF @ = "" THEN p.country ELSE @,
            !.place = IF @ = Nowhere THEN p.place ELSE @,
            !.sourced = @ \/ Sourced(p)]
    OBVIOUS
  <2> HIDE DEF known, country, place, sourced
  <2>3. Observed(seen) = [known EXCEPT
            !.conflicts = conflicts,
            !.quality = IF ~known.sourced THEN 0
                        ELSE IF Cardinality(networks) >= 2 /\ conflicts = 0 THEN 70 ELSE 40,
            !.status = IF @ \in {"none", "pending"}
                       THEN IF conflicts > 0 THEN "conflict" ELSE "pending" ELSE @]
    BY <2>2 DEF Observed
  <2> QED BY <2>1, <2>3
<1> HIDE DEF country, place, sourced, conflicts, quality, status
<1>8. /\ new \in Reviewed
      /\ new.location = candidate.location /\ new.country = country /\ new.place = place
      /\ new.sourced = sourced /\ new.quality = quality
      /\ new.conflicts = conflicts /\ new.status = status
  BY <1>2, <1>3, <1>4, <1>5, <1>6, Zenon DEF Reviewed
<1> HIDE DEF new
<1>9. /\ Observed(seen).location = candidate.location
      /\ Observed(seen).country = country /\ Observed(seen).place = place
      /\ Observed(seen).sourced = sourced /\ Observed(seen).quality = quality
      /\ Observed(seen).conflicts = conflicts /\ Observed(seen).status = status
  BY <1>7, <1>8, Zenon
<1>10. Observed(seen).conflicts = 0 => candidate.conflicts = 0 /\ ~Contradicts(seen.proposal)
  BY <1>4, <1>9
<1>11. Observed(seen).status = "approved" <=> candidate.status = "approved"
  BY <1>6, <1>9
<1>12. /\ country = IF candidate.country = "" THEN seen.proposal.country ELSE candidate.country
       /\ place = IF candidate.place = Nowhere THEN seen.proposal.place ELSE candidate.place
       /\ sourced <=> candidate.sourced \/ Sourced(seen.proposal)
  BY Zenon DEF country, place, sourced
<1>13. /\ Observed(seen).sourced <=> candidate.sourced \/ Sourced(seen.proposal)
       /\ Observed(seen).quality # 0 => Observed(seen).sourced
  BY <1>5, <1>9, <1>12, Zenon
<1> QED BY <1>7, <1>8, <1>9, <1>10, <1>11, <1>12, <1>13, Zenon

LEMMA ObserveKeepsCandidates ==
    ASSUME CandidatesInv, NEW o \in Observers, Observe(o) PROVE CandidatesInv'
<1> DEFINE seen == observers[o]
           no == FALSE
<1>1. /\ seen.busy
      /\ \/ candidate' = Observed(seen) /\ observations' = observations \union {seen}
         \/ UNCHANGED <<candidate, observations>>
      /\ observers' = [observers EXCEPT ![o] = [busy |-> no]]
      /\ UNCHANGED <<locations, basis>>
  BY DEF Observe
<1>2. seen \in Measuring
  <2>1. seen \in Measuring \union {[busy |-> FALSE]}
    BY Zenon DEF CandidatesInv, CandidateTypes
  <2> HIDE DEF seen
  <2> QED BY <1>1, <2>1
<1>3. observers' \in [Observers -> Measuring \union {[busy |-> FALSE]}]
  BY <1>1, Zenon DEF CandidatesInv, CandidateTypes
<1> HIDE DEF seen, no
<1>4. CASE UNCHANGED <<candidate, observations>>
  <2>1. CandidateTypes'
    BY <1>1, <1>3, <1>4, Zenon DEF CandidatesInv, CandidateTypes
  <2> QED BY <1>1, <1>4, <2>1, ZenonT(60)
            DEF CandidatesInv, RowsAreKnown, LearnedIsApproved, SupportIsRecorded,
                ObservationsAreRecorded
<1>5. CASE candidate' = Observed(seen) /\ observations' = observations \union {seen}
  <2>1. CandidateTypes
    BY DEF CandidatesInv
  <2>2. /\ candidate' \in Reviewed
        /\ candidate'.location = candidate.location
        /\ candidate'.sourced <=> candidate.sourced \/ Sourced(seen.proposal)
        /\ candidate'.quality # 0 => candidate'.sourced
        /\ candidate'.country = IF candidate.country = "" THEN seen.proposal.country ELSE candidate.country
        /\ candidate'.place = IF candidate.place = Nowhere THEN seen.proposal.place ELSE candidate.place
        /\ candidate'.conflicts = 0 => candidate.conflicts = 0 /\ ~Contradicts(seen.proposal)
        /\ candidate'.status = "approved" <=> candidate.status = "approved"
    BY <1>2, <1>5, <2>1, ObservedFacts, Zenon
  <2>3. CandidateTypes'
    BY <1>1, <1>2, <1>3, <1>5, <2>1, <2>2, Zenon DEF CandidateTypes
  <2>4. RowsAreKnown' /\ LearnedIsApproved'
    BY <1>1, <2>2, ZenonT(60) DEF CandidatesInv, RowsAreKnown, LearnedIsApproved
  <2>5. ObservationsAreRecorded'
    <3>1. ObservationsAreRecorded
      BY DEF CandidatesInv, SupportIsRecorded
    <3>2. /\ seen.proposal.country \in {"", "A", "B"}
          /\ seen.proposal.place \in Coordinates \union {Nowhere}
      BY <1>2, ProposalFacts, Zenon DEF Measuring
    <3>3. /\ candidate'.place # Nowhere => \E q \in observations' : q.proposal.place = candidate'.place
          /\ candidate'.place = Nowhere => \A q \in observations' : q.proposal.place = Nowhere
      BY <1>5, <2>2, <3>1, Zenon DEF ObservationsAreRecorded
    <3>4. /\ candidate'.sourced => \E q \in observations' : Sourced(q.proposal)
          /\ candidate'.quality # 0 => candidate'.sourced
      BY <1>5, <2>2, <3>1, Zenon DEF ObservationsAreRecorded
    <3>5. ASSUME candidate'.conflicts = 0, NEW q \in observations'
          PROVE  Agrees(q, candidate'.country, candidate'.place)
      <4>1. /\ \A old \in observations : Agrees(old, candidate.country, candidate.place)
            /\ ~Contradicts(seen.proposal)
        BY <2>2, <3>1, <3>5, Zenon DEF ObservationsAreRecorded
      <4>2. CASE q \in observations
        <5>1. q.proposal.country \in {"", candidate'.country}
          BY <2>2, <4>1, <4>2, Zenon DEF Agrees
        <5>2. CASE candidate.place = Nowhere
          <6>1. q.proposal.place = Nowhere
            BY <3>1, <4>2, <5>2, Zenon DEF ObservationsAreRecorded
          <6> QED BY <5>1, <6>1, Zenon DEF Agrees, Differ
        <5>3. CASE candidate.place # Nowhere
          BY <2>2, <4>1, <4>2, <5>1, <5>3, Zenon DEF Agrees
        <5> QED BY <5>2, <5>3
      <4>3. CASE q = seen
        <5>1. seen.proposal.country \in {"", candidate'.country}
          BY <2>2, <4>1, Zenon DEF Contradicts
        <5>2. ~Differ(seen.proposal.place, candidate'.place)
          <6>1. CASE candidate.place = Nowhere
            <7>1. candidate'.place = seen.proposal.place
              BY <2>2, <6>1, Zenon
            <7>2. seen.proposal.place = Nowhere => ~Differ(seen.proposal.place, seen.proposal.place)
              BY Zenon DEF Differ
            <7> QED BY <3>2, <7>1, <7>2, SamePlace, Zenon
          <6>2. CASE candidate.place # Nowhere
            BY <2>2, <4>1, <6>2, Zenon DEF Contradicts
          <6> QED BY <6>1, <6>2
        <5> QED BY <4>3, <5>1, <5>2, Zenon DEF Agrees
      <4> QED BY <1>5, <4>2, <4>3, Zenon
    <3> QED BY <3>3, <3>4, <3>5, Zenon DEF ObservationsAreRecorded
  <2>6. ASSUME candidate'.status = "approved"
        PROVE  Supported(basis', candidate'.country, locations'[candidate'.location].place)
    <3>1. Supported(basis, candidate.country, locations[candidate.location].place)
      BY <2>2, <2>6, Zenon DEF CandidatesInv, SupportIsRecorded
    <3>2. candidate'.country = candidate.country
      BY <2>2, <3>1, Zenon DEF Supported
    <3> QED BY <1>1, <2>2, <3>1, <3>2, Zenon
  <2>7. SupportIsRecorded'
    BY <2>5, <2>6, Zenon DEF SupportIsRecorded
  <2> QED BY <2>3, <2>4, <2>7 DEF CandidatesInv
<1> QED BY <1>1, <1>4, <1>5

(* A row that an approval adds.                                            *)
LEMMA LearnedRow ==
    ASSUME NEW canonical \in Codes, NEW place \in Coordinates
    PROVE  LET r == Row(New, canonical, place, "learned") IN
           /\ r \in LocationRows /\ r.alias = New /\ r.source = "learned" /\ r.place = place
           /\ r.confidence = 70 /\ r.priority = 10 /\ r.active
<1> DEFINE learned == "learned"
           sure == 70
           high == 10
           yes == TRUE
           r == [alias |-> New, canonical |-> canonical, place |-> place, source |-> learned,
                 confidence |-> sure, priority |-> high, active |-> yes]
<1>1. learned \in {"seed", "learned"} /\ sure \in Nat /\ high \in Nat /\ yes \in BOOLEAN
      /\ New \in Codes
  BY DEF Codes
<1>2. Row(New, canonical, place, "learned") = r
  BY DEF Row
<1> HIDE DEF learned, sure, high, yes
<1>3. r \in LocationRows /\ r.alias = New /\ r.source = learned /\ r.place = place
      /\ r.confidence = sure /\ r.priority = high /\ r.active = yes
  BY <1>1 DEF LocationRows
<1> QED BY <1>2, <1>3 DEF learned, sure, high, yes

LEMMA ApproveKeepsCandidates ==
    ASSUME CandidatesInv, NEW canonical \in Codes, NEW country \in Countries,
           NEW place \in Coordinates, Approve(canonical, country, place)
    PROVE  CandidatesInv'
<1> DEFINE r == Row(New, canonical, place, "learned")
           n == Len(locations)
           m == n + 1
           approved == "approved"
<1>1. /\ candidate.status = "pending" /\ candidate.conflicts = 0
      /\ country = candidate.country /\ ~Differ(place, candidate.place)
      /\ ~\E q \in Active : q.alias = New
      /\ Cardinality({o.network : o \in observations}) >= 2 /\ candidate.quality >= 70
      /\ locations' = Append(locations, r)
      /\ candidate' = [candidate EXCEPT !.status = approved, !.location = m]
      /\ basis' = observations
      /\ UNCHANGED <<observations, observers>>
  BY DEF Approve, Approvable
<1>2. /\ r \in LocationRows /\ r.alias = New /\ r.source = "learned" /\ r.place = place
      /\ r.confidence = 70 /\ r.priority = 10 /\ r.active
  BY LearnedRow
<1>3. locations \in Seq(LocationRows) /\ n \in Nat /\ DOMAIN locations = 1 .. n
  BY LenProperties, Zenon DEF CandidatesInv, CandidateTypes
<1> HIDE DEF r
<1>4. /\ Append(locations, r) \in Seq(LocationRows) /\ Len(Append(locations, r)) = m
      /\ \A i \in 1 .. n : Append(locations, r)[i] = locations[i]
      /\ Append(locations, r)[m] = r
  BY <1>2, <1>3, AppendProperties
<1>5. m \in Nat /\ m \in 1 .. m /\ m \notin 1 .. n /\ \A i \in 1 .. m : i \in 1 .. n \/ i = m
  BY <1>3
<1> HIDE DEF n, m
<1>6. /\ locations' \in Seq(LocationRows) /\ DOMAIN locations' = 1 .. m
      /\ \A i \in 1 .. n : locations'[i] = locations[i]
      /\ locations'[m] = r
  BY <1>1, <1>4, LenProperties
<1>7. /\ candidate' \in Reviewed
      /\ candidate'.status = approved /\ candidate'.location = m
      /\ candidate'.country = candidate.country /\ candidate'.place = candidate.place
      /\ candidate'.conflicts = candidate.conflicts /\ candidate'.sourced = candidate.sourced
      /\ candidate'.quality = candidate.quality
  <2>1. approved \in ReviewStages
    BY DEF ReviewStages
  <2> HIDE DEF approved
  <2> QED BY <1>1, <1>5, <2>1, Zenon DEF CandidatesInv, CandidateTypes, Reviewed
<1>8. CandidateTypes'
  BY <1>1, <1>6, <1>7, Zenon DEF CandidatesInv, CandidateTypes
<1>9. RowsAreKnown'
  <2>1. ASSUME NEW i \in DOMAIN locations'
        PROVE  /\ locations'[i].priority = 10
               /\ locations'[i].source = "seed" => locations'[i].alias = Known /\ locations'[i].confidence = 100
               /\ locations'[i].source = "learned" => locations'[i].alias = New /\ locations'[i].confidence = 70
    <3>1. CASE i \in 1 .. n
      BY <1>3, <1>6, <3>1 DEF CandidatesInv, RowsAreKnown
    <3>2. CASE i = m
      BY <1>2, <1>6, <3>2
    <3> QED BY <1>5, <1>6, <3>1, <3>2
  <2>2. ASSUME NEW i \in DOMAIN locations', NEW j \in DOMAIN locations',
               locations'[i].source = "seed", locations'[j].source = "seed",
               locations'[i].canonical = locations'[j].canonical
        PROVE  i = j
    <3>1. i \in 1 .. n /\ j \in 1 .. n
      BY <1>2, <1>5, <1>6, <2>2
    <3> QED BY <1>3, <1>6, <2>2, <3>1 DEF CandidatesInv, RowsAreKnown
  <2> QED BY <2>1, <2>2 DEF RowsAreKnown
<1>10. LearnedIsApproved'
  <2>1. ASSUME NEW i \in DOMAIN locations', locations'[i].source = "learned", locations'[i].active
        PROVE  i = m
    <3>1. ASSUME i \in 1 .. n PROVE FALSE
      BY <1>1, <1>3, <1>6, <2>1, <3>1 DEF CandidatesInv, LearnedIsApproved
    <3> QED BY <1>5, <1>6, <3>1
  <2>2. m \in DOMAIN locations' /\ locations'[m].source = "learned" /\ locations'[m].active
    BY <1>2, <1>5, <1>6
  <2> QED BY <1>7, <2>1, <2>2, Zenon DEF LearnedIsApproved
<1>11. SupportIsRecorded'
  <2>1. ObservationsAreRecorded
    BY DEF CandidatesInv, SupportIsRecorded
  <2>2. ObservationsAreRecorded'
    BY <1>1, <1>7, <2>1, Zenon DEF ObservationsAreRecorded
  <2>3. candidate.country # ""
    BY <1>1, Zenon DEF Countries
  <2>4. candidate.sourced
    <3>1. candidate.quality # 0
      BY <1>1
    <3> QED BY <2>1, <3>1 DEF ObservationsAreRecorded
  <2>5. PICK o \in observations : Sourced(o.proposal)
    BY <2>1, <2>4, Zenon DEF ObservationsAreRecorded
  <2>6. candidate.place # Nowhere
    BY <2>1, <2>5, Zenon DEF ObservationsAreRecorded, Sourced
  <2>7. PICK first \in observations : first.proposal.place = candidate.place
    BY <2>1, <2>6, Zenon DEF ObservationsAreRecorded
  <2>8. \A q \in observations : Agrees(q, candidate.country, candidate.place)
    BY <1>1, <2>1, Zenon DEF ObservationsAreRecorded
  <2>9. /\ \A q \in observations : q.proposal.country \in {"", candidate.country}
        /\ first.proposal.place # Nowhere /\ ~Differ(place, first.proposal.place)
        /\ \A q \in observations : ~Differ(q.proposal.place, first.proposal.place)
    BY <1>1, <2>6, <2>7, <2>8, Zenon DEF Agrees
  <2>10. Supported(observations, candidate.country, place)
    BY <1>1, <2>3, <2>5, <2>9, Zenon DEF Supported
  <2>11. Supported(basis', candidate'.country, locations'[candidate'.location].place)
    BY <1>1, <1>2, <1>6, <1>7, <2>10, Zenon
  <2> QED BY <2>2, <2>11, Zenon DEF SupportIsRecorded
<1> QED BY <1>8, <1>9, <1>10, <1>11 DEF CandidatesInv

LEMMA RevokeKeepsCandidates ==
    ASSUME CandidatesInv, Revoke PROVE CandidatesInv'
<1> DEFINE k == candidate.location
           no == FALSE
           r == [locations[k] EXCEPT !.active = no]
           revoked == "revoked"
<1>1. /\ candidate.status = "approved"
      /\ locations' = [locations EXCEPT ![k] = r]
      /\ candidate' = [candidate EXCEPT !.status = revoked]
      /\ UNCHANGED <<observations, observers, basis>>
  BY DEF Revoke
<1>2. k \in DOMAIN locations /\ locations \in Seq(LocationRows)
  BY <1>1, Zenon DEF CandidatesInv, LearnedIsApproved, CandidateTypes
<1>3. locations[k] \in LocationRows
  BY <1>2, RowFacts
<1>4. no \in BOOLEAN
  OBVIOUS
<1> HIDE DEF k
<1>5. /\ r \in LocationRows /\ r.active = no /\ r.alias = locations[k].alias
      /\ r.source = locations[k].source /\ r.canonical = locations[k].canonical
      /\ r.priority = locations[k].priority /\ r.confidence = locations[k].confidence
  <2> HIDE DEF no
  <2> QED BY <1>3, <1>4 DEF LocationRows
<1> HIDE DEF r
<1>6. k \in 1 .. Len(locations) /\ DOMAIN locations = 1 .. Len(locations)
  BY <1>2, LenProperties
<1>7. /\ locations' \in Seq(LocationRows) /\ DOMAIN locations' = DOMAIN locations
      /\ locations'[k] = r /\ \A i \in DOMAIN locations : i # k => locations'[i] = locations[i]
  <2>1. /\ [locations EXCEPT ![k] = r] \in Seq(LocationRows)
        /\ Len([locations EXCEPT ![k] = r]) = Len(locations)
        /\ \A j \in 1 .. Len(locations) :
              [locations EXCEPT ![k] = r][j] = IF j = k THEN r ELSE locations[j]
    BY <1>2, <1>5, <1>6, ExceptSeq
  <2> QED BY <1>1, <1>6, <2>1, LenProperties
<1>8. /\ candidate' \in Reviewed
      /\ candidate'.status = revoked /\ candidate'.location = candidate.location
      /\ candidate'.country = candidate.country /\ candidate'.place = candidate.place
      /\ candidate'.conflicts = candidate.conflicts /\ candidate'.sourced = candidate.sourced
      /\ candidate'.quality = candidate.quality
  <2>1. revoked \in ReviewStages
    BY DEF ReviewStages
  <2> HIDE DEF revoked
  <2> QED BY <1>1, <2>1, Zenon DEF CandidatesInv, CandidateTypes, Reviewed
<1>9. CandidateTypes'
  BY <1>1, <1>7, <1>8, Zenon DEF CandidatesInv, CandidateTypes
<1>10. \A i \in DOMAIN locations' :
         /\ locations'[i].alias = locations[i].alias /\ locations'[i].source = locations[i].source
         /\ locations'[i].canonical = locations[i].canonical
         /\ locations'[i].priority = locations[i].priority
         /\ locations'[i].confidence = locations[i].confidence
         /\ i = k => ~locations'[i].active
         /\ i # k => locations'[i].active = locations[i].active
  BY <1>5, <1>7 DEF no
<1>11. RowsAreKnown'
  BY <1>7, <1>10 DEF CandidatesInv, RowsAreKnown
<1>12. LearnedIsApproved'
  <2>1. ASSUME NEW i \in DOMAIN locations', locations'[i].source = "learned", locations'[i].active
        PROVE  FALSE
    BY <1>7, <1>10, <2>1 DEF CandidatesInv, LearnedIsApproved, k
  <2> QED BY <1>8, <2>1, Zenon DEF LearnedIsApproved
<1>13. SupportIsRecorded'
  BY <1>1, <1>8, Zenon DEF CandidatesInv, SupportIsRecorded, ObservationsAreRecorded
<1> QED BY <1>9, <1>11, <1>12, <1>13 DEF CandidatesInv

LEMMA RejectKeepsCandidates ==
    ASSUME CandidatesInv, Reject PROVE CandidatesInv'
<1> DEFINE rejected == "rejected"
<1>1. /\ candidate.status \in {"pending", "conflict"}
      /\ candidate' = [candidate EXCEPT !.status = rejected]
      /\ UNCHANGED <<locations, observations, observers, basis>>
  BY DEF Reject
<1>2. /\ candidate' \in Reviewed
      /\ candidate'.status = rejected /\ candidate'.location = candidate.location
      /\ candidate'.country = candidate.country /\ candidate'.place = candidate.place
      /\ candidate'.conflicts = candidate.conflicts /\ candidate'.sourced = candidate.sourced
      /\ candidate'.quality = candidate.quality
  <2>1. rejected \in ReviewStages
    BY DEF ReviewStages
  <2> HIDE DEF rejected
  <2> QED BY <1>1, <2>1, Zenon DEF CandidatesInv, CandidateTypes, Reviewed
<1>3. CandidateTypes' /\ RowsAreKnown'
  BY <1>1, <1>2, ZenonT(60) DEF CandidatesInv, CandidateTypes, RowsAreKnown
<1>4. LearnedIsApproved'
  <2>1. ASSUME NEW i \in DOMAIN locations, locations[i].source = "learned", locations[i].active
        PROVE  FALSE
    BY <1>1, <2>1 DEF CandidatesInv, LearnedIsApproved
  <2> QED BY <1>1, <1>2, <2>1, Zenon DEF LearnedIsApproved
<1>5. SupportIsRecorded'
  BY <1>1, <1>2, Zenon DEF CandidatesInv, SupportIsRecorded, ObservationsAreRecorded
<1> QED BY <1>3, <1>4, <1>5 DEF CandidatesInv

(* The curated rows that a component may begin with.                       *)
LEMMA CuratedRow ==
    ASSUME NEW canonical \in Codes, NEW place \in Coordinates
    PROVE  LET r == Row(Known, canonical, place, "seed") IN
           /\ r \in LocationRows /\ r.alias = Known /\ r.source = "seed" /\ r.canonical = canonical
           /\ r.confidence = 100 /\ r.priority = 10
<1> DEFINE seed == "seed"
           sure == 100
           high == 10
           yes == TRUE
           r == [alias |-> Known, canonical |-> canonical, place |-> place, source |-> seed,
                 confidence |-> sure, priority |-> high, active |-> yes]
<1>1. seed \in {"seed", "learned"} /\ sure \in Nat /\ high \in Nat /\ yes \in BOOLEAN
      /\ Known \in Codes
  BY DEF Codes
<1>2. Row(Known, canonical, place, "seed") = r
  BY DEF Row
<1> HIDE DEF seed, sure, high, yes
<1>3. r \in LocationRows /\ r.alias = Known /\ r.source = seed /\ r.canonical = canonical
      /\ r.confidence = sure /\ r.priority = high
  BY <1>1 DEF LocationRows
<1> QED BY <1>2, <1>3 DEF seed, sure, high

LEMMA NoCandidateFacts ==
    /\ NoCandidate \in Reviewed
    /\ NoCandidate.status = "none" /\ NoCandidate.place = Nowhere
    /\ ~NoCandidate.sourced /\ NoCandidate.quality = 0
<1> DEFINE none == "none"
           blank == ""
           z == 0
           no == FALSE
<1>1. none \in ReviewStages /\ blank \in {"", "A", "B"} /\ z \in Nat /\ no \in BOOLEAN
  BY DEF ReviewStages
<1>2. NoCandidate = [status |-> none, country |-> blank, place |-> Nowhere, sourced |-> no,
                     conflicts |-> z, quality |-> z, location |-> z]
  BY DEF NoCandidate
<1> HIDE DEF none, blank, z, no
<1>3. /\ NoCandidate \in Reviewed
      /\ NoCandidate.status = none /\ NoCandidate.place = Nowhere
      /\ NoCandidate.sourced = no /\ NoCandidate.quality = z
  BY <1>1, <1>2, Zenon DEF Reviewed
<1> QED BY <1>3, Zenon DEF none, no, z

(* With curated rows of different codes nothing is learned yet.            *)
LEMMA CuratedInit ==
    ASSUME CandidateInit, locations \in Seq(LocationRows),
           \A i \in DOMAIN locations : /\ locations[i].source = "seed" /\ locations[i].alias = Known
                                       /\ locations[i].confidence = 100 /\ locations[i].priority = 10,
           \A i, j \in DOMAIN locations : locations[i].canonical = locations[j].canonical => i = j
    PROVE  CandidatesInv
<1>1. /\ candidate = NoCandidate /\ observations = {} /\ basis = {}
      /\ observers = [o \in Observers |-> [busy |-> FALSE]]
  BY DEF CandidateInit
<1>2. CandidateTypes
  BY <1>1, NoCandidateFacts, Zenon DEF CandidateTypes
<1>3. RowsAreKnown
  <2>1. \A i \in DOMAIN locations : locations[i].source # "learned"
    OBVIOUS
  <2> QED BY <2>1, Zenon DEF RowsAreKnown
<1>4. LearnedIsApproved
  BY <1>1, NoCandidateFacts, Zenon DEF LearnedIsApproved
<1>5. SupportIsRecorded
  BY <1>1, NoCandidateFacts, Zenon DEF SupportIsRecorded, ObservationsAreRecorded
<1> QED BY <1>2, <1>3, <1>4, <1>5 DEF CandidatesInv

LEMMA CandidateInitEstablishes == CandidateInit => CandidatesInv
<1> SUFFICES ASSUME CandidateInit PROVE CandidatesInv
  OBVIOUS
<1>1. CASE locations = <<>>
  <2>1. locations \in Seq(LocationRows) /\ DOMAIN locations = {}
    BY <1>1
  <2> QED BY <2>1, CuratedInit, Zenon
<1>2. ASSUME NEW p \in Coordinates, locations = <<Row(Known, Known, p, "seed")>>
      PROVE  CandidatesInv
  <2> DEFINE one == Row(Known, Known, p, "seed")
  <2>1. one \in LocationRows /\ one.alias = Known /\ one.source = "seed" /\ one.canonical = Known
        /\ one.confidence = 100 /\ one.priority = 10
    BY CuratedRow DEF Codes
  <2> HIDE DEF one
  <2>2. locations = <<one>>
    BY <1>2 DEF one
  <2>3. locations \in Seq(LocationRows) /\ DOMAIN locations = {1} /\ locations[1] = one
    BY <2>1, <2>2
  <2> QED BY <2>1, <2>3, CuratedInit, Zenon
<1>3. ASSUME NEW p \in Coordinates, NEW q \in Coordinates,
             locations = <<Row(Known, Known, p, "seed"), Row(Known, New, q, "seed")>>
      PROVE  CandidatesInv
  <2> DEFINE one == Row(Known, Known, p, "seed")
             two == Row(Known, New, q, "seed")
  <2>1. /\ one \in LocationRows /\ one.alias = Known /\ one.source = "seed" /\ one.canonical = Known
        /\ one.confidence = 100 /\ one.priority = 10
        /\ two \in LocationRows /\ two.alias = Known /\ two.source = "seed" /\ two.canonical = New
        /\ two.confidence = 100 /\ two.priority = 10
    BY CuratedRow DEF Codes
  <2> HIDE DEF one, two
  <2>2. locations = <<one, two>>
    BY <1>3 DEF one, two
  <2>3. /\ locations \in Seq(LocationRows) /\ DOMAIN locations = {1, 2}
        /\ locations[1] = one /\ locations[2] = two
    BY <2>1, <2>2
  <2>4. \A i, j \in DOMAIN locations : locations[i].canonical = locations[j].canonical => i = j
    BY <2>1, <2>3, CodesDiffer
  <2>5. \A i \in DOMAIN locations : locations[i].source = "seed" /\ locations[i].alias = Known
           /\ locations[i].confidence = 100 /\ locations[i].priority = 10
    BY <2>1, <2>3
  <2> QED BY <2>3, <2>4, <2>5, CuratedInit, Zenon
<1> QED BY <1>1, <1>2, <1>3 DEF CandidateInit

LEMMA CandidateNextKeeps ==
    ASSUME CandidatesInv, CandidateNext PROVE CandidatesInv'
BY LookUpKeepsCandidates, ObserveKeepsCandidates, ApproveKeepsCandidates, RevokeKeepsCandidates,
   RejectKeepsCandidates DEF CandidateNext

LEMMA StillCandidates ==
    ASSUME CandidatesInv, UNCHANGED popCandidateVars PROVE CandidatesInv'
<1>1. CandidateTypes' /\ RowsAreKnown'
  BY ZenonT(60) DEF CandidatesInv, CandidateTypes, RowsAreKnown, popCandidateVars
<1>2. LearnedIsApproved' /\ SupportIsRecorded'
  BY Zenon DEF CandidatesInv, LearnedIsApproved, SupportIsRecorded,
                 ObservationsAreRecorded, popCandidateVars
<1> QED BY <1>1, <1>2 DEF CandidatesInv

LEMMA CandidatesInvIsKept == CandidatesInv => CandidatesKept
  BY LookupsDecided, LearnedSupported DEF CandidatesKept

(* However observations and reviews overlap, a learned location rests on   *)
(* two networks that name no other country and positions within 250 km of  *)
(* the first of them, as its own is; it is in use exactly while it is      *)
(* approved, and a lookup never chooses between two sites.                 *)
THEOREM CandidatesAreKept == CandidateSpec => []CandidatesKept
<1>1. CandidateInit => CandidatesInv
  BY CandidateInitEstablishes
<1>2. CandidatesInv /\ [CandidateNext]_popCandidateVars => CandidatesInv'
  BY CandidateNextKeeps, StillCandidates
<1> QED BY <1>1, <1>2, CandidatesInvIsKept, PTL DEF CandidateSpec

-----------------------------------------------------------------------------
(* The question for a newer release                                        *)

(* A finite set of numbers has a greatest: a smallest counterexample would *)
(* have one without one of its elements.                                   *)
Unbounded(s) == s \subseteq Nat /\ IsFiniteSet(s) /\ \A top \in Nat : \E x \in s : ~(x <= top)

LEMMA FiniteIsBounded ==
    ASSUME NEW s, s \subseteq Nat, IsFiniteSet(s)
    PROVE  \E top \in Nat : \A x \in s : x <= top
<1> DEFINE sizes == {n \in Nat : \E t \in SUBSET s : Unbounded(t) /\ Cardinality(t) = n}
<1> SUFFICES ASSUME Unbounded(s) PROVE FALSE
  BY DEF Unbounded
<1>1. Cardinality(s) \in sizes /\ sizes \subseteq Nat
  <2>1. Cardinality(s) \in Nat /\ s \in SUBSET s
    BY FS_CardinalityType
  <2> QED BY <2>1
<1>2. PICK n \in sizes : \A m \in sizes : n <= m
  BY <1>1, LeastNumber
<1>3. PICK t \in SUBSET s : Unbounded(t) /\ Cardinality(t) = n
  BY <1>2
<1>4. PICK x : x \in t
  BY <1>3 DEF Unbounded
<1> DEFINE u == t \ {x}
<1>5. /\ IsFiniteSet(u) /\ Cardinality(u) = n - 1 /\ n \in Nat /\ u \in SUBSET s /\ u \subseteq Nat
      /\ x \in Nat
  BY <1>2, <1>3, <1>4, FS_RemoveElement DEF Unbounded
<1>6. ~Unbounded(u)
  <2> SUFFICES ASSUME Unbounded(u) PROVE FALSE
    OBVIOUS
  <2>1. Cardinality(u) \in Nat
    BY <1>5, FS_CardinalityType
  <2>2. n - 1 \in sizes
    BY <1>5, <2>1
  <2>3. n <= n - 1
    BY <1>2, <2>2
  <2> QED BY <1>5, <2>3
<1>7. PICK top \in Nat : \A y \in u : y <= top
  BY <1>5, <1>6 DEF Unbounded
<1> DEFINE most == IF x <= top THEN top ELSE x
<1>8. most \in Nat /\ \A y \in t : y <= most
  <2>1. most \in Nat /\ x <= most /\ top <= most
    BY <1>5, <1>7
  <2> HIDE DEF most
  <2>2. ASSUME NEW y \in t PROVE y <= most
    <3>1. CASE y = x
      BY <2>1, <3>1
    <3>2. CASE y # x
      <4>1. y \in u /\ y \in Nat /\ y <= top
        BY <1>5, <1>7, <3>2
      <4> QED BY <2>1, <4>1
    <3> QED BY <3>1, <3>2
  <2> QED BY <2>1, <2>2
<1> HIDE DEF most
<1> QED BY <1>3, <1>8 DEF Unbounded

LEMMA GreatestNumber ==
    ASSUME NEW s, s \subseteq Nat, IsFiniteSet(s), s # {}
    PROVE  \E x \in s : \A y \in s : x >= y
<1>1. PICK top \in Nat : \A x \in s : x <= top
  BY FiniteIsBounded
<1> DEFINE mirrored == {k \in Nat : k <= top /\ top - k \in s}
<1>2. PICK x \in s : TRUE
  OBVIOUS
<1>3. top - x \in mirrored
  <2>1. x \in Nat /\ x <= top
    BY <1>1
  <2>2. top - x \in Nat /\ top - x <= top /\ top - (top - x) = x
    BY <2>1
  <2> QED BY <2>2
<1>4. mirrored \subseteq Nat /\ mirrored # {}
  BY <1>3
<1>5. PICK k \in mirrored : \A l \in mirrored : k <= l
  <2> HIDE DEF mirrored
  <2> QED BY <1>4, LeastNumber
<1>6. k \in Nat /\ k <= top /\ top - k \in s
  BY <1>5
<1>7. ASSUME NEW y \in s PROVE top - k >= y
  <2>1. y \in Nat /\ y <= top
    BY <1>1
  <2>2. top - y \in Nat /\ top - y <= top /\ top - (top - y) = y
    BY <2>1
  <2>3. top - y \in mirrored
    BY <2>2
  <2>4. k <= top - y
    BY <1>5, <2>3
  <2> QED BY <1>6, <2>1, <2>4
<1> QED BY <1>6, <1>7

Tags == Versions \union {0}
Etags == (SUBSET Versions) \union {NoEtag}
Notes == [Versions -> {"none", "open", "superseded"}]
Plans == [tag : Tags, etag : Etags, failures : Nat, due : Nat]
Checks == [pc : {"start", "wait", "fetch", "write"}, gen : Nat, etag : Etags,
           answer : {"none", "not_modified", "release", "error", "rate_limited"},
           tag : Tags, seen : Etags, wait : Nat, now : Nat, about : Tags]

ReleaseTypes ==
    /\ installed \in Versions /\ published \subseteq Versions
    /\ plan \in Plans /\ notes \in Notes
    /\ saved.plan \in Plans /\ saved.notes \in Notes
    /\ check \in Checks /\ restores \in Nat /\ today \in Nat

(* What a plan, and what the archive of one, says.                         *)
PlanFits(p, ns, gone, about) ==
    /\ p.tag = about
    /\ p.etag # NoEtag => p.tag = LatestStable(p.etag)
    /\ p.tag > installed /\ p.tag \notin gone => ns[p.tag] = "open"
    /\ \A v \in Versions : ns[v] = "superseded" => v <= installed

(* An answer is about the state that the request was made from, unless a   *)
(* restore came between.                                                   *)
AnswerFits ==
    /\ check.gen <= restores
    /\ check.pc \in {"fetch", "write"} /\ check.gen = restores =>
          check.etag = plan.etag /\ plan.due <= check.now
    /\ check.pc = "write" /\ check.answer = "not_modified" =>
          check.etag # NoEtag /\ check.about = LatestStable(check.etag)
    /\ check.pc = "write" /\ check.answer \in {"release", "none"} =>
          /\ check.seen \in SUBSET Versions
          /\ check.tag = LatestStable(check.seen) /\ check.about = check.tag

ReleaseInv ==
    /\ ReleaseTypes
    /\ PlanFits(plan, notes, pruned, heard)
    /\ PlanFits(saved.plan, saved.notes, saved.pruned, saved.heard)
    /\ AnswerFits
    /\ saved.plan.due <= plan.due
    /\ check.pc = "fetch" => plan.due <= today
    /\ reconciled => \A v \in Versions : notes[v] = "open" => v > installed

LEMMA LatestIsListed ==
    ASSUME NEW releases \in SUBSET Versions
    PROVE  LatestStable(releases) \in Tags
<1>1. CASE releases = {}
  BY <1>1 DEF LatestStable, Tags
<1>2. CASE releases # {}
  <2>1. releases \subseteq Nat /\ IsFiniteSet(releases)
    BY ReleaseAssumption, FS_Subset
  <2>2. \E x \in releases : \A y \in releases : x >= y
    BY <1>2, <2>1, GreatestNumber
  <2>3. Max(releases) \in releases
    BY <2>2 DEF Max
  <2> QED BY <1>2, <2>3 DEF LatestStable, Tags
<1> QED BY <1>1, <1>2

LEMMA ReleaseFacts ==
    /\ Versions \subseteq Nat /\ 0 \notin Versions /\ Tags \subseteq Nat
    /\ Daily \in Nat /\ RetryBase \in Nat /\ RetryMost \in Nat /\ RetryAfters \subseteq Nat
  BY ReleaseAssumption DEF Tags

LEMMA PlanFacts ==
    ASSUME NEW p \in Plans
    PROVE  p.tag \in Tags /\ p.tag \in Nat /\ p.etag \in Etags /\ p.failures \in Nat /\ p.due \in Nat
<1>1. p.tag \in Tags /\ p.etag \in Etags /\ p.failures \in Nat /\ p.due \in Nat
  BY DEF Plans
<1> QED BY <1>1, ReleaseFacts

LEMMA CheckFacts ==
    ASSUME NEW k \in Checks
    PROVE  /\ k.pc \in {"start", "wait", "fetch", "write"} /\ k.gen \in Nat /\ k.etag \in Etags
           /\ k.answer \in {"none", "not_modified", "release", "error", "rate_limited"}
           /\ k.tag \in Tags /\ k.seen \in Etags /\ k.wait \in Nat /\ k.now \in Nat /\ k.about \in Tags
  BY DEF Checks

LEMMA StartedFits ==
    /\ Started \in Checks /\ Started.pc = "start"
    /\ [Started EXCEPT !.pc = "wait"] \in Checks /\ [Started EXCEPT !.pc = "wait"].pc = "wait"
    /\ [Started EXCEPT !.pc = "wait"].gen = 0 /\ Started.gen = 0
<1> DEFINE z == 0
           none == "none"
           start == "start"
           waits == "wait"
<1>1. /\ z \in Nat /\ z \in Tags /\ NoEtag \in Etags
      /\ none \in {"none", "not_modified", "release", "error", "rate_limited"}
      /\ start \in {"start", "wait", "fetch", "write"} /\ waits \in {"start", "wait", "fetch", "write"}
  BY DEF Tags, Etags
<1>2. Started = [pc |-> start, gen |-> z, etag |-> NoEtag, answer |-> none, tag |-> z, seen |-> NoEtag,
                 wait |-> z, now |-> z, about |-> z]
  BY DEF Started
<1> HIDE DEF z, none, start, waits
<1>3. /\ Started \in Checks /\ Started.pc = start /\ Started.gen = z
      /\ [Started EXCEPT !.pc = waits] \in Checks
      /\ [Started EXCEPT !.pc = waits].pc = waits /\ [Started EXCEPT !.pc = waits].gen = z
  BY <1>1, <1>2 DEF Checks
<1> QED BY <1>3 DEF start, waits, z

(* The step that looks through the notices.                                *)
LEMMA ReconciledFacts ==
    ASSUME installed \in Versions, NEW ns \in Notes
    PROVE  /\ Reconciled(ns) \in Notes
           /\ \A v \in Versions : Reconciled(ns)[v] = "open" => v > installed
           /\ \A v \in Versions : ns[v] = "open" /\ v > installed => Reconciled(ns)[v] = "open"
           /\ \A v \in Versions : Reconciled(ns)[v] = "superseded" => ns[v] = "superseded" \/ v <= installed
<1> DEFINE gone == "superseded"
<1>1. gone \in {"none", "open", "superseded"} /\ gone # "open"
  OBVIOUS
<1>2. Reconciled(ns) = [v \in Versions |-> IF ns[v] = "open" /\ v <= installed THEN gone ELSE ns[v]]
  BY DEF Reconciled
<1>3. \A v \in Versions : v \in Nat /\ installed \in Nat /\ (v <= installed \/ v > installed)
  BY ReleaseFacts
<1>4. \A v \in Versions :
        /\ Reconciled(ns)[v] = IF ns[v] = "open" /\ v <= installed THEN gone ELSE ns[v]
        /\ ns[v] \in {"none", "open", "superseded"}
  BY <1>2 DEF Notes
<1>5. Reconciled(ns) \in Notes
  <2> HIDE DEF gone
  <2> QED BY <1>1, <1>2, <1>4 DEF Notes
<1>6. \A v \in Versions : ~(v <= installed /\ v > installed)
  BY <1>3
<1> QED BY <1>1, <1>3, <1>4, <1>5, <1>6

LEMMA NotifiedFacts ==
    ASSUME installed \in Versions, NEW ns \in Notes, NEW tag \in Tags
    PROVE  /\ Notified(ns, tag) \in Notes
           /\ \A v \in Versions : Notified(ns, tag)[v] = "superseded" => ns[v] = "superseded"
           /\ tag > installed => tag \in Versions /\ (ns[tag] # "superseded" => Notified(ns, tag)[tag] = "open")
<1> DEFINE open == "open"
<1>1. open \in {"none", "open", "superseded"} /\ open # "superseded"
  OBVIOUS
<1>2. tag > installed => tag \in Versions
  <2>1. installed \in Nat
    BY ReleaseFacts
  <2> QED BY <2>1 DEF Tags
<1>3. Notified(ns, tag) = IF tag > installed /\ ns[tag] = "none" THEN [ns EXCEPT ![tag] = open] ELSE ns
  BY DEF Notified
<1> HIDE DEF open
<1>4. \A v \in Versions : ns[v] \in {"none", "open", "superseded"}
  BY DEF Notes
<1>5. CASE tag > installed /\ ns[tag] = "none"
  <2>1. Notified(ns, tag) = [ns EXCEPT ![tag] = open] /\ tag \in Versions
    BY <1>2, <1>3, <1>5
  <2>2. Notified(ns, tag) \in Notes
    BY <1>1, <2>1 DEF Notes
  <2>3. Notified(ns, tag)[tag] = open /\ \A v \in Versions : v # tag => Notified(ns, tag)[v] = ns[v]
    BY <2>1 DEF Notes
  <2> QED BY <1>1, <1>2, <2>1, <2>2, <2>3 DEF open
<1>6. CASE ~(tag > installed /\ ns[tag] = "none")
  BY <1>2, <1>3, <1>4, <1>6
<1> QED BY <1>5, <1>6

LEMMA RetryDelayIsNat == ASSUME NEW failures \in Nat \ {0} PROVE RetryDelay(failures) \in Nat
<1>1. failures - 1 \in Nat
  OBVIOUS
<1> DEFINE p == 2 ^ (failures - 1)
<1>2. p \in Nat
  BY <1>1, PowersGrow
<1>3. RetryDelay(failures) = IF RetryBase * p < RetryMost THEN RetryBase * p ELSE RetryMost
  BY DEF RetryDelay
<1> HIDE DEF p
<1>4. RetryBase * p \in Nat /\ RetryMost \in Nat
  BY <1>2, ProductsGrow, ReleaseFacts
<1> QED BY <1>3, <1>4

(* Steps that leave the stored state alone.                                *)
LEMMA PlanStillFits ==
    ASSUME NEW p \in Plans, NEW ns, NEW gone, NEW about, PlanFits(p, ns, gone, about),
           installed \in Versions, installed' \in Versions, installed <= installed'
    PROVE  PlanFits(p, ns, gone, about)'
<1>1. p.tag \in Nat /\ installed \in Nat /\ installed' \in Nat
  BY PlanFacts, ReleaseFacts
<1>2. p.tag > installed' => p.tag > installed
  BY <1>1
<1>3. \A v \in Versions : v <= installed => v <= installed'
  BY <1>1, ReleaseFacts
<1> QED BY <1>2, <1>3 DEF PlanFits, LatestStable

LEMMA ReleaseTyped ==
    ASSUME ReleaseInv
    PROVE  /\ installed \in Versions /\ published \subseteq Versions /\ plan \in Plans /\ notes \in Notes
           /\ saved.plan \in Plans /\ saved.notes \in Notes /\ check \in Checks
           /\ restores \in Nat /\ today \in Nat /\ installed \in Nat
  BY ReleaseFacts DEF ReleaseInv, ReleaseTypes

LEMMA BeginCheckKeepsRelease ==
    ASSUME ReleaseInv, BeginCheck PROVE ReleaseInv'
<1> DEFINE fetch == "fetch"
           k == [check EXCEPT !.pc = fetch, !.gen = restores, !.etag = plan.etag, !.now = today]
<1>1. /\ PlanDelay = 0 /\ check' = k
      /\ UNCHANGED <<installed, published, plan, notes, saved, restores, today, reconciled, pruned, heard, events>>
  BY DEF BeginCheck
<1>2. plan.due <= today
  <2>1. plan.due \in Nat /\ today \in Nat
    BY ReleaseTyped, PlanFacts
  <2> QED BY <1>1, <2>1 DEF PlanDelay
<1>3. fetch \in {"start", "wait", "fetch", "write"} /\ plan.etag \in Etags /\ restores \in Nat /\ today \in Nat
  BY ReleaseTyped, PlanFacts
<1> HIDE DEF fetch
<1>4. /\ k \in Checks /\ k.pc = fetch /\ k.gen = restores /\ k.etag = plan.etag /\ k.now = today
  BY <1>3, ReleaseTyped DEF Checks
<1> HIDE DEF k
<1>5. AnswerFits'
  BY <1>1, <1>2, <1>3, <1>4 DEF AnswerFits, LatestStable, fetch
<1>6. ReleaseTypes'
  BY <1>1, <1>4 DEF ReleaseInv, ReleaseTypes
<1>7. PlanFits(plan, notes, pruned, heard)' /\ PlanFits(saved.plan, saved.notes, saved.pruned, saved.heard)'
  BY <1>1 DEF ReleaseInv, PlanFits, LatestStable
<1> QED BY <1>1, <1>2, <1>5, <1>6, <1>7 DEF ReleaseInv

LEMMA FetchLatestKeepsRelease ==
    ASSUME ReleaseInv, FetchLatest PROVE ReleaseInv'
<1> DEFINE write == "write"
           latest == LatestStable(published)
<1>1. /\ check.pc = "fetch"
      /\ UNCHANGED <<installed, published, plan, notes, saved, restores, today, reconciled, pruned, heard, events>>
  BY Zenon DEF FetchLatest
<1>2. /\ published \in SUBSET Versions /\ published \in Etags /\ published # NoEtag
      /\ latest \in Tags
  BY ReleaseTyped, LatestIsListed, ReleaseAssumption DEF Etags
<1>3. write \in {"start", "wait", "fetch", "write"}
  OBVIOUS
<1> HIDE DEF write, latest
<1>4. /\ check' \in Checks /\ check'.pc = write
      /\ check'.gen = check.gen /\ check'.etag = check.etag /\ check'.now = check.now
      /\ check'.answer = "not_modified" => check.etag = published /\ check'.about = latest
      /\ check'.answer \in {"release", "none"} =>
            check'.seen = published /\ check'.tag = latest /\ check'.about = latest
  <2>1. CASE /\ check' = [check EXCEPT !.pc = "write", !.answer = "not_modified", !.about = LatestStable(published)]
             /\ check.etag = published
    <3> DEFINE said == "not_modified"
    <3>1. said \in {"none", "not_modified", "release", "error", "rate_limited"} /\ said \notin {"release", "none"}
      OBVIOUS
    <3>2. check' = [check EXCEPT !.pc = write, !.answer = said, !.about = latest]
      BY <2>1 DEF write, latest
    <3> HIDE DEF said
    <3> QED BY <1>2, <1>3, <2>1, <3>1, <3>2, ReleaseTyped, ZenonT(60) DEF Checks
  <2>2. CASE check' = [check EXCEPT !.pc = "write", !.seen = published, !.tag = LatestStable(published),
                        !.about = LatestStable(published),
                        !.answer = IF published = {} THEN "none" ELSE "release"]
    <3> DEFINE said == IF published = {} THEN "none" ELSE "release"
    <3>1. said \in {"none", "not_modified", "release", "error", "rate_limited"} /\ said # "not_modified"
      OBVIOUS
    <3>2. check' = [check EXCEPT !.pc = write, !.seen = published, !.tag = latest, !.about = latest,
                                 !.answer = said]
      BY <2>2 DEF write, latest
    <3> HIDE DEF said
    <3> QED BY <1>2, <1>3, <3>1, <3>2, ReleaseTyped DEF Checks
  <2>3. CASE check' = [check EXCEPT !.pc = "write", !.answer = "error"]
    <3> DEFINE said == "error"
    <3>1. said \in {"none", "not_modified", "release", "error", "rate_limited"}
          /\ said \notin {"not_modified", "release", "none"}
      OBVIOUS
    <3>2. check' = [check EXCEPT !.pc = write, !.answer = said]
      BY <2>3 DEF write
    <3> HIDE DEF said
    <3> QED BY <1>3, <3>1, <3>2, ReleaseTyped DEF Checks
  <2>4. CASE \E wait \in RetryAfters :
                check' = [check EXCEPT !.pc = "write", !.answer = "rate_limited", !.wait = wait]
    <3> DEFINE said == "rate_limited"
    <3>1. said \in {"none", "not_modified", "release", "error", "rate_limited"}
          /\ said \notin {"not_modified", "release", "none"}
      OBVIOUS
    <3>2. PICK wait \in RetryAfters : check' = [check EXCEPT !.pc = write, !.answer = said, !.wait = wait]
      BY <2>4, Zenon DEF write
    <3>3. wait \in Nat
      BY ReleaseFacts
    <3> HIDE DEF said
    <3> QED BY <1>3, <3>1, <3>2, <3>3, ReleaseTyped DEF Checks
  <2> QED BY <2>1, <2>2, <2>3, <2>4, Zenon DEF FetchLatest
<1>5. AnswerFits'
  BY <1>1, <1>2, <1>4 DEF ReleaseInv, AnswerFits, LatestStable, latest, write
<1>6. ReleaseTypes'
  BY <1>1, <1>4 DEF ReleaseInv, ReleaseTypes
<1>7. PlanFits(plan, notes, pruned, heard)' /\ PlanFits(saved.plan, saved.notes, saved.pruned, saved.heard)'
  BY <1>1 DEF ReleaseInv, PlanFits, LatestStable
<1>8. check'.pc # "fetch"
  BY <1>4 DEF write
<1> QED BY <1>1, <1>5, <1>6, <1>7, <1>8 DEF ReleaseInv

LEMMA ReconcileStartupKeepsRelease ==
    ASSUME ReleaseInv, ReconcileStartup PROVE ReleaseInv'
<1> DEFINE waits == "wait"
<1>1. /\ check' = [check EXCEPT !.pc = waits]
      /\ UNCHANGED <<installed, published, plan, saved, restores, today, pruned, heard, events>>
      /\ \/ notes' = Reconciled(notes) /\ reconciled' = TRUE
         \/ UNCHANGED <<notes, reconciled>>
  BY DEF ReconcileStartup
<1>2. waits \in {"start", "wait", "fetch", "write"} /\ waits \notin {"fetch", "write"}
  OBVIOUS
<1> HIDE DEF waits
<1>3. check' \in Checks /\ check'.pc = waits /\ check'.gen = check.gen
  BY <1>1, <1>2, ReleaseTyped DEF Checks
<1>4. AnswerFits'
  BY <1>1, <1>2, <1>3 DEF ReleaseInv, AnswerFits
<1>5. PlanFits(saved.plan, saved.notes, saved.pruned, saved.heard)'
  BY <1>1 DEF ReleaseInv, PlanFits, LatestStable
<1>6. /\ notes' \in Notes
      /\ \A v \in Versions : notes'[v] = "superseded" => notes[v] = "superseded" \/ v <= installed
      /\ \A v \in Versions : notes[v] = "open" /\ v > installed => notes'[v] = "open"
      /\ reconciled' => \A v \in Versions : notes'[v] = "open" => v > installed
  BY <1>1, ReconciledFacts, ReleaseTyped DEF ReleaseInv
<1>7. plan.tag > installed => plan.tag \in Versions
  BY ReleaseTyped, NotifiedFacts, PlanFacts
<1>8. PlanFits(plan, notes, pruned, heard)'
  BY <1>1, <1>6, <1>7 DEF ReleaseInv, PlanFits, LatestStable
<1>9. ReleaseTypes'
  BY <1>1, <1>3, <1>6 DEF ReleaseInv, ReleaseTypes
<1> QED BY <1>1, <1>2, <1>3, <1>4, <1>5, <1>6, <1>8, <1>9 DEF ReleaseInv

(* A refused answer, and the next wait.                                    *)
LEMMA AnswerIsDone ==
    ASSUME ReleaseInv, restores' \in Nat, check' = [Started EXCEPT !.pc = "wait"] \/ check' = Started
    PROVE  AnswerFits' /\ check' \in Checks /\ check'.pc # "fetch"
<1>1. check' \in Checks /\ check'.pc \notin {"fetch", "write"} /\ check'.gen = 0
  BY StartedFits
<1>2. check'.gen <= restores'
  BY <1>1
<1> QED BY <1>1, <1>2 DEF AnswerFits

LEMMA AnsweredFits ==
    ASSUME ReleaseInv, check.pc = "write", check.gen = restores,
           check.answer \in {"release", "none", "not_modified"}
    PROVE  /\ Answered(plan) \in Plans /\ Answered(plan).tag = check.about
           /\ plan.due <= Answered(plan).due
           /\ Answered(plan).etag # NoEtag => Answered(plan).tag = LatestStable(Answered(plan).etag)
<1> DEFINE tag == IF check.answer = "not_modified" THEN plan.tag ELSE check.tag
           etag == IF check.answer = "not_modified" THEN plan.etag ELSE check.seen
           z == 0
           due == check.now + Daily
<1>1. Answered(plan) = [tag |-> tag, etag |-> etag, failures |-> z, due |-> due]
  BY DEF Answered
<1>2. /\ plan.due \in Nat /\ check.now \in Nat /\ Daily \in Nat /\ plan.due <= check.now
      /\ check.etag = plan.etag
  BY ReleaseTyped, PlanFacts, CheckFacts, ReleaseFacts DEF ReleaseInv, AnswerFits
<1>3. due \in Nat /\ plan.due <= due /\ z \in Nat
  BY <1>2
<1>4. tag \in Tags /\ etag \in Etags
  BY ReleaseTyped, PlanFacts, CheckFacts
<1>5. tag = check.about /\ (etag # NoEtag => tag = LatestStable(etag))
  <2>1. CASE check.answer = "not_modified"
    <3>1. check.etag # NoEtag /\ check.about = LatestStable(check.etag)
      BY <2>1 DEF ReleaseInv, AnswerFits
    <3>2. plan.etag # NoEtag => plan.tag = LatestStable(plan.etag)
      BY DEF ReleaseInv, PlanFits
    <3> QED BY <1>2, <2>1, <3>1, <3>2
  <2>2. CASE check.answer # "not_modified"
    <3>1. check.tag = LatestStable(check.seen) /\ check.about = check.tag
      BY <2>2 DEF ReleaseInv, AnswerFits
    <3> QED BY <2>2, <3>1
  <2> QED BY <2>1, <2>2
<1> HIDE DEF tag, etag, z, due
<1>6. /\ Answered(plan) \in Plans /\ Answered(plan).tag = tag /\ Answered(plan).etag = etag
      /\ Answered(plan).due = due
  BY <1>1, <1>3, <1>4 DEF Plans
<1> QED BY <1>3, <1>5, <1>6

LEMMA AskFailedFits ==
    ASSUME ReleaseInv, check.pc = "write", check.gen = restores
    PROVE  /\ AskFailed(plan) \in Plans /\ AskFailed(plan).tag = plan.tag /\ AskFailed(plan).etag = plan.etag
           /\ plan.due <= AskFailed(plan).due
<1> DEFINE more == plan.failures + 1
           wait == RetryDelay(more)
           due == check.now + (IF check.wait > wait THEN check.wait ELSE wait)
<1>1. AskFailed(plan) = [plan EXCEPT !.failures = more, !.due = due]
  BY DEF AskFailed
<1>2. plan.due \in Nat /\ check.now \in Nat /\ check.wait \in Nat /\ plan.due <= check.now
  BY ReleaseTyped, PlanFacts, CheckFacts DEF ReleaseInv, AnswerFits
<1>3. more \in Nat /\ more \in Nat \ {0}
  BY ReleaseTyped, PlanFacts
<1> HIDE DEF more
<1>4. wait \in Nat
  BY <1>3, RetryDelayIsNat
<1> HIDE DEF wait
<1>5. due \in Nat /\ plan.due <= due
  BY <1>2, <1>4
<1> HIDE DEF due
<1>6. plan \in [tag : Tags, etag : Etags, failures : Nat, due : Nat]
  BY ReleaseTyped DEF Plans
<1>7. /\ AskFailed(plan) \in [tag : Tags, etag : Etags, failures : Nat, due : Nat]
      /\ AskFailed(plan).tag = plan.tag /\ AskFailed(plan).etag = plan.etag /\ AskFailed(plan).due = due
  BY <1>1, <1>3, <1>5, <1>6
<1> QED BY <1>5, <1>7 DEF Plans

LEMMA ApplyResultKeepsRelease ==
    ASSUME ReleaseInv, ApplyResult PROVE ReleaseInv'
<1>1. /\ check.pc = "write" /\ check' = [Started EXCEPT !.pc = "wait"]
      /\ UNCHANGED <<installed, published, saved, restores, today, events>>
  BY DEF ApplyResult
<1>2. AnswerFits' /\ check' \in Checks /\ check'.pc # "fetch"
  BY <1>1, AnswerIsDone, ReleaseTyped
<1>3. PlanFits(saved.plan, saved.notes, saved.pruned, saved.heard)'
  BY <1>1 DEF ReleaseInv, PlanFits, LatestStable
<1>4. /\ plan' \in Plans /\ notes' \in Notes /\ plan.due <= plan'.due
      /\ PlanFits(plan, notes, pruned, heard)'
      /\ reconciled' => \A v \in Versions : notes'[v] = "open" => v > installed
  <2>1. CASE UNCHANGED <<plan, notes, reconciled, pruned, heard>>
    <3>1. plan.due \in Nat
      BY ReleaseTyped, PlanFacts
    <3>2. PlanFits(plan, notes, pruned, heard)'
      BY <1>1, <2>1 DEF ReleaseInv, PlanFits, LatestStable
    <3> QED BY <1>1, <2>1, <3>1, <3>2, ReleaseTyped DEF ReleaseInv
  <2>2. CASE /\ WriteAllowed(check.gen) /\ check.answer \in {"release", "none", "not_modified"}
             /\ plan' = Answered(plan) /\ notes' = Reconciled(Notified(notes, plan'.tag)) /\ reconciled' = TRUE
             /\ pruned' = {} /\ heard' = check.about
    <3> DEFINE tag == plan'.tag
               tidings == Notified(notes, tag)
    <3>1. /\ plan' \in Plans /\ tag = check.about /\ plan.due <= plan'.due
          /\ plan'.etag # NoEtag => tag = LatestStable(plan'.etag)
      BY <1>1, <2>2, AnsweredFits DEF WriteAllowed
    <3>2. tag \in Tags
      BY <3>1, PlanFacts
    <3>3. /\ tidings \in Notes
          /\ \A v \in Versions : tidings[v] = "superseded" => notes[v] = "superseded"
          /\ tag > installed => tag \in Versions /\ (notes[tag] # "superseded" => tidings[tag] = "open")
      BY <3>2, NotifiedFacts, ReleaseTyped
    <3>4. notes' = Reconciled(tidings)
      BY <2>2
    <3> HIDE DEF tidings
    <3>5. /\ notes' \in Notes
          /\ \A v \in Versions : notes'[v] = "open" => v > installed
          /\ \A v \in Versions : tidings[v] = "open" /\ v > installed => notes'[v] = "open"
          /\ \A v \in Versions : notes'[v] = "superseded" => tidings[v] = "superseded" \/ v <= installed
      BY <3>3, <3>4, ReconciledFacts, ReleaseTyped
    <3>6. \A v \in Versions : notes[v] = "superseded" => v <= installed
      BY DEF ReleaseInv, PlanFits
    <3>7. \A v \in Versions : notes'[v] = "superseded" => v <= installed
      BY <3>3, <3>5, <3>6
    <3>8. tag > installed => notes'[tag] = "open"
      <4> SUFFICES ASSUME tag > installed PROVE notes'[tag] = "open"
        OBVIOUS
      <4>1. tag \in Nat /\ installed \in Nat
        BY <3>2, ReleaseFacts, ReleaseTyped
      <4>2. tag \in Versions /\ notes[tag] # "superseded"
        BY <3>3, <3>6, <4>1
      <4> QED BY <3>3, <3>5, <4>2
    <3>9. PlanFits(plan, notes, pruned, heard)'
      BY <1>1, <2>2, <3>1, <3>7, <3>8 DEF PlanFits, LatestStable
    <3> QED BY <3>1, <3>5, <3>9
  <2>3. CASE /\ WriteAllowed(check.gen)
             /\ plan' = AskFailed(plan) /\ UNCHANGED <<notes, reconciled, pruned, heard>>
    <3>1. /\ plan' \in Plans /\ plan'.tag = plan.tag /\ plan'.etag = plan.etag /\ plan.due <= plan'.due
      BY <1>1, <2>3, AskFailedFits DEF WriteAllowed
    <3>2. PlanFits(plan, notes, pruned, heard)'
      BY <1>1, <2>3, <3>1 DEF ReleaseInv, PlanFits, LatestStable
    <3> QED BY <1>1, <2>3, <3>1, <3>2, ReleaseTyped DEF ReleaseInv
  <2> QED BY <2>1, <2>2, <2>3 DEF ApplyResult
<1>5. saved'.plan.due <= plan'.due
  <2>1. saved.plan.due \in Nat /\ plan.due \in Nat /\ plan'.due \in Nat /\ saved.plan.due <= plan.due
    BY <1>4, ReleaseTyped, PlanFacts DEF ReleaseInv
  <2>2. saved.plan.due <= plan'.due
    BY <1>4, <2>1
  <2> QED BY <1>1, <2>2
<1>6. ReleaseTypes'
  BY <1>1, <1>2, <1>4 DEF ReleaseInv, ReleaseTypes
<1> QED BY <1>1, <1>2, <1>3, <1>4, <1>5, <1>6 DEF ReleaseInv

LEMMA PublishKeepsRelease ==
    ASSUME ReleaseInv, NEW v \in Versions, Publish(v) PROVE ReleaseInv'
<1>1. /\ published' = published \union {v}
      /\ UNCHANGED <<installed, plan, notes, saved, check, restores, today, reconciled, pruned, heard>>
  BY DEF Publish
<1>2. PlanFits(plan, notes, pruned, heard)' /\ PlanFits(saved.plan, saved.notes, saved.pruned, saved.heard)'
  BY <1>1 DEF ReleaseInv, PlanFits, LatestStable
<1>3. AnswerFits'
  BY <1>1 DEF ReleaseInv, AnswerFits, LatestStable
<1>4. ReleaseTypes'
  BY <1>1 DEF ReleaseInv, ReleaseTypes
<1> QED BY <1>1, <1>2, <1>3, <1>4 DEF ReleaseInv

LEMMA RestartKeepsRelease ==
    ASSUME ReleaseInv, NEW v \in Versions, RestartAs(v) PROVE ReleaseInv'
<1>1. /\ installed' = v /\ v >= installed /\ check' = Started /\ reconciled' = FALSE
      /\ UNCHANGED <<published, plan, notes, saved, restores, today, pruned, heard>>
  BY DEF RestartAs
<1>2. installed \in Versions /\ installed' \in Versions /\ installed <= installed'
  BY <1>1, ReleaseTyped, ReleaseFacts
<1>3. PlanFits(plan, notes, pruned, heard) /\ PlanFits(saved.plan, saved.notes, saved.pruned, saved.heard)
  BY DEF ReleaseInv
<1>4. PlanFits(plan, notes, pruned, heard)'
  <2>1. PlanFits(plan', notes', pruned', heard')
    BY <1>1, <1>3
  <2>2. \A w \in Versions : notes[w] = "superseded" => w <= installed'
    <3>1. \A w \in Versions : w \in Nat /\ installed \in Nat /\ installed' \in Nat
      BY <1>2, ReleaseFacts
    <3> QED BY <1>2, <1>3, <3>1 DEF PlanFits
  <2>3. plan.tag > installed' => plan.tag > installed
    <3>1. plan.tag \in Nat /\ installed \in Nat /\ installed' \in Nat
      BY <1>2, ReleaseTyped, PlanFacts, ReleaseFacts
    <3> QED BY <1>2, <3>1
  <2> QED BY <1>1, <1>3, <2>2, <2>3 DEF PlanFits, LatestStable
<1>5. PlanFits(saved.plan, saved.notes, saved.pruned, saved.heard)'
  <2>2. \A w \in Versions : saved.notes[w] = "superseded" => w <= installed'
    <3>1. \A w \in Versions : w \in Nat /\ installed \in Nat /\ installed' \in Nat
      BY <1>2, ReleaseFacts
    <3> QED BY <1>2, <1>3, <3>1 DEF PlanFits
  <2>3. saved.plan.tag > installed' => saved.plan.tag > installed
    <3>1. saved.plan.tag \in Nat /\ installed \in Nat /\ installed' \in Nat
      BY <1>2, ReleaseTyped, PlanFacts, ReleaseFacts
    <3> QED BY <1>2, <3>1
  <2> QED BY <1>1, <1>3, <2>2, <2>3 DEF PlanFits, LatestStable
<1>6. restores' \in Nat
  BY <1>1, ReleaseTyped
<1>7. AnswerFits' /\ check' \in Checks /\ check'.pc # "fetch"
  BY <1>1, <1>6, AnswerIsDone
<1>8. ReleaseTypes'
  BY <1>1, <1>2, <1>7 DEF ReleaseInv, ReleaseTypes
<1> QED BY <1>1, <1>4, <1>5, <1>7, <1>8 DEF ReleaseInv

LEMMA BackupKeepsRelease ==
    ASSUME ReleaseInv, Backup PROVE ReleaseInv'
<1>1. /\ saved' = [plan |-> plan, notes |-> notes, pruned |-> pruned, heard |-> heard]
      /\ UNCHANGED <<installed, published, plan, notes, check, restores, today, reconciled, pruned, heard>>
  BY DEF Backup
<1>2. saved'.plan = plan /\ saved'.notes = notes /\ saved'.pruned = pruned /\ saved'.heard = heard
  BY <1>1
<1>3. PlanFits(plan, notes, pruned, heard)'
  BY <1>1 DEF ReleaseInv, PlanFits, LatestStable
<1>4. PlanFits(saved.plan, saved.notes, saved.pruned, saved.heard)'
  BY <1>1, <1>2 DEF ReleaseInv, PlanFits, LatestStable
<1>5. AnswerFits'
  BY <1>1 DEF ReleaseInv, AnswerFits, LatestStable
<1>6. ReleaseTypes'
  BY <1>1, <1>2 DEF ReleaseInv, ReleaseTypes
<1>7. plan.due \in Nat
  BY ReleaseTyped, PlanFacts
<1> QED BY <1>1, <1>2, <1>3, <1>4, <1>5, <1>6, <1>7 DEF ReleaseInv

LEMMA RestoreKeepsRelease ==
    ASSUME ReleaseInv, RestoreSaved PROVE ReleaseInv'
<1>1. /\ restores' = restores + 1 /\ plan' = saved.plan /\ notes' = saved.notes
      /\ pruned' = saved.pruned /\ heard' = saved.heard /\ reconciled' = FALSE
      /\ UNCHANGED <<installed, published, saved, check, today>>
  BY DEF RestoreSaved
<1>2. PlanFits(plan, notes, pruned, heard)' /\ PlanFits(saved.plan, saved.notes, saved.pruned, saved.heard)'
  BY <1>1 DEF ReleaseInv, PlanFits, LatestStable
<1>3. check.gen \in Nat /\ restores \in Nat /\ check.gen <= restores
  BY ReleaseTyped, CheckFacts DEF ReleaseInv, AnswerFits
<1>4. restores' \in Nat /\ check.gen <= restores' /\ check.gen # restores'
  BY <1>1, <1>3
<1>5. AnswerFits'
  BY <1>1, <1>4 DEF ReleaseInv, AnswerFits, LatestStable
<1>6. ReleaseTypes'
  BY <1>1, <1>4 DEF ReleaseInv, ReleaseTypes
<1>7. saved.plan.due \in Nat /\ plan.due \in Nat /\ today \in Nat /\ saved.plan.due <= plan.due
  BY ReleaseTyped, PlanFacts DEF ReleaseInv
<1>8. check'.pc = "fetch" => saved.plan.due <= today
  <2>1. check'.pc = "fetch" => plan.due <= today
    BY <1>1 DEF ReleaseInv
  <2> QED BY <1>7, <2>1
<1>9. saved.plan.due <= saved.plan.due
  BY <1>7
<1> QED BY <1>1, <1>2, <1>5, <1>6, <1>8, <1>9 DEF ReleaseInv

LEMMA PruneNoteKeepsRelease ==
    ASSUME ReleaseInv, NEW v \in Versions, PruneNote(v) PROVE ReleaseInv'
<1> DEFINE none == "none"
<1>1. /\ notes' = [notes EXCEPT ![v] = none] /\ pruned' = pruned \union {v}
      /\ UNCHANGED <<installed, published, plan, saved, check, restores, today, reconciled, heard>>
  BY DEF PruneNote
<1>2. none \in {"none", "open", "superseded"} /\ none \notin {"open", "superseded"}
  OBVIOUS
<1> HIDE DEF none
<1>3. /\ notes' \in Notes /\ notes'[v] = none
      /\ \A w \in Versions : w # v => notes'[w] = notes[w]
  BY <1>1, <1>2, ReleaseTyped DEF Notes
<1>4. plan.tag > installed => plan.tag \in Versions
  BY ReleaseTyped, NotifiedFacts, PlanFacts
<1>5. PlanFits(plan, notes, pruned, heard)'
  <2>1. plan.tag > installed /\ plan.tag \notin pruned' => notes'[plan.tag] = "open"
    BY <1>1, <1>3, <1>4 DEF ReleaseInv, PlanFits
  <2>2. \A w \in Versions : notes'[w] = "superseded" => w <= installed
    BY <1>2, <1>3 DEF ReleaseInv, PlanFits
  <2> QED BY <1>1, <2>1, <2>2 DEF ReleaseInv, PlanFits, LatestStable
<1>6. PlanFits(saved.plan, saved.notes, saved.pruned, saved.heard)'
  BY <1>1 DEF ReleaseInv, PlanFits, LatestStable
<1>7. AnswerFits'
  BY <1>1 DEF ReleaseInv, AnswerFits, LatestStable
<1>8. ReleaseTypes'
  BY <1>1, <1>3 DEF ReleaseInv, ReleaseTypes
<1>9. reconciled' => \A w \in Versions : notes'[w] = "open" => w > installed
  BY <1>1, <1>2, <1>3 DEF ReleaseInv
<1> QED BY <1>1, <1>5, <1>6, <1>7, <1>8, <1>9 DEF ReleaseInv

LEMMA DayPassesKeepsRelease ==
    ASSUME ReleaseInv, DayPasses PROVE ReleaseInv'
<1>1. /\ today' = today + 1
      /\ UNCHANGED <<installed, published, plan, notes, saved, check, restores, reconciled, pruned, heard, events>>
  BY DEF DayPasses
<1>2. PlanFits(plan, notes, pruned, heard)' /\ PlanFits(saved.plan, saved.notes, saved.pruned, saved.heard)'
  BY <1>1 DEF ReleaseInv, PlanFits, LatestStable
<1>3. AnswerFits'
  BY <1>1 DEF ReleaseInv, AnswerFits, LatestStable
<1>4. today \in Nat /\ plan.due \in Nat /\ today' \in Nat
  BY <1>1, ReleaseTyped, PlanFacts
<1>5. ReleaseTypes'
  BY <1>1, <1>4 DEF ReleaseInv, ReleaseTypes
<1>6. check'.pc = "fetch" => plan'.due <= today'
  <2>1. check.pc = "fetch" => plan.due <= today
    BY DEF ReleaseInv
  <2> QED BY <1>1, <1>4, <2>1
<1> QED BY <1>1, <1>2, <1>3, <1>5, <1>6 DEF ReleaseInv

LEMMA ReleaseInvInit == ASSUME ReleaseInit PROVE ReleaseInv
<1> DEFINE z == 0
           none == "none"
<1>1. /\ installed \in Versions /\ published \in SUBSET Versions
      /\ plan = NewPlan /\ NewPlan = [tag |-> z, etag |-> NoEtag, failures |-> z, due |-> z]
      /\ notes = [v \in Versions |-> none]
      /\ saved = [plan |-> plan, notes |-> notes, pruned |-> {}, heard |-> z]
      /\ check = Started /\ restores = z /\ today = z
      /\ reconciled = FALSE /\ pruned = {} /\ heard = z
  BY DEF ReleaseInit, NewPlan
<1>2. /\ z \in Nat /\ z \in Tags /\ NoEtag \in Etags /\ z <= z
      /\ none \in {"none", "open", "superseded"} /\ none \notin {"open", "superseded"}
      /\ ~(z > installed)
  <2>1. installed \in Nat
    BY <1>1, ReleaseFacts
  <2> QED BY <2>1 DEF Tags, Etags
<1> HIDE DEF z, none
<1>3. plan \in Plans /\ plan.tag = z /\ plan.etag = NoEtag /\ plan.due = z
  BY <1>1, <1>2 DEF Plans
<1>4. notes \in Notes /\ \A v \in Versions : notes[v] = none
  BY <1>1, <1>2 DEF Notes
<1>5. saved.plan = plan /\ saved.notes = notes /\ saved.heard = z
  BY <1>1
<1>6. PlanFits(plan, notes, pruned, heard) /\ PlanFits(saved.plan, saved.notes, saved.pruned, saved.heard)
  BY <1>1, <1>2, <1>3, <1>4, <1>5 DEF PlanFits
<1>7. check \in Checks /\ check.pc = "start" /\ check.gen = z
  BY <1>1, StartedFits DEF z
<1>8. AnswerFits
  BY <1>1, <1>2, <1>7 DEF AnswerFits
<1>9. ReleaseTypes
  BY <1>1, <1>2, <1>3, <1>4, <1>5, <1>7 DEF ReleaseTypes
<1> QED BY <1>1, <1>2, <1>3, <1>5, <1>6, <1>7, <1>8, <1>9 DEF ReleaseInv

LEMMA ReleaseInvStep == ASSUME ReleaseInv, [ReleaseNext]_releaseVars PROVE ReleaseInv'
<1>1. CASE ReconcileStartup
  BY <1>1, ReconcileStartupKeepsRelease
<1>2. CASE BeginCheck
  BY <1>2, BeginCheckKeepsRelease
<1>3. CASE FetchLatest
  BY <1>3, FetchLatestKeepsRelease
<1>4. CASE ApplyResult
  BY <1>4, ApplyResultKeepsRelease
<1>5. CASE \E v \in Versions : Publish(v) \/ RestartAs(v) \/ PruneNote(v)
  BY <1>5, PublishKeepsRelease, RestartKeepsRelease, PruneNoteKeepsRelease
<1>6. CASE Backup
  BY <1>6, BackupKeepsRelease
<1>7. CASE RestoreSaved
  BY <1>7, RestoreKeepsRelease
<1>8. CASE DayPasses
  BY <1>8, DayPassesKeepsRelease
<1>9. CASE UNCHANGED releaseVars
  <2>1. UNCHANGED <<installed, published, plan, notes, saved, check, restores, today, reconciled, pruned, heard>>
    BY <1>9 DEF releaseVars
  <2>2. PlanFits(plan, notes, pruned, heard)' /\ PlanFits(saved.plan, saved.notes, saved.pruned, saved.heard)'
    BY <2>1 DEF ReleaseInv, PlanFits, LatestStable
  <2>3. AnswerFits'
    BY <2>1 DEF ReleaseInv, AnswerFits, LatestStable
  <2>4. ReleaseTypes'
    BY <2>1 DEF ReleaseInv, ReleaseTypes
  <2> QED BY <2>1, <2>2, <2>3, <2>4 DEF ReleaseInv
<1> QED BY <1>1, <1>2, <1>3, <1>4, <1>5, <1>6, <1>7, <1>8, <1>9 DEF ReleaseNext

LEMMA ReleaseInvKept == ASSUME ReleaseInv PROVE ReleaseKept
  BY DEF ReleaseInv, PlanFits, ReleaseKept, PlanIsWhatWasSaid, NoticesFit, AsksWhenDue

(* Whatever is published, installed, restored and deleted between the      *)
(* steps of a check, the stored release is the latest of the last stored   *)
(* answer, it is announced while it is newer than the installed one, and   *)
(* nothing is asked before the stored time.                                *)
THEOREM ReleaseIsKept == ReleaseSpec => []ReleaseKept
<1>1. ReleaseInit => ReleaseInv
  BY ReleaseInvInit
<1>2. ReleaseInv /\ [ReleaseNext]_releaseVars => ReleaseInv'
  BY ReleaseInvStep
<1>3. ReleaseInv => ReleaseKept
  BY ReleaseInvKept
<1> QED BY <1>1, <1>2, <1>3, PTL DEF ReleaseSpec

-----------------------------------------------------------------------------
(* The inbox                                                               *)

Marks == [id : Ids, user : Readership, count : Nat, severity : Severities]
Bells == [seq : Nat, fresh : BOOLEAN, fewer : BOOLEAN, missed : BOOLEAN]
Handoffs == [id : Nat, since : Nat, last : Nat]

InboxTypes ==
    /\ roles \in [Readership -> {"admin", "user", "gone"}] /\ watching \subseteq Readership
    /\ notices \in [Ids -> NoticeRows \union {NoRow}]
    /\ nextId \in Nat /\ \A n \in Rows : n < nextId
    /\ read \subseteq Marks /\ hidden \subseteq Ids \X Readership
    /\ handoff \in Handoffs /\ hour \in Nat /\ bell \in Bells

(* The row of an open incident, and the rows of recoveries.                *)
IncidentFits ==
    handoff # NoIncident =>
       /\ handoff.id \in Ids /\ handoff.id < nextId
       /\ \A n \in Rows : notices[n].key[1] = "recovered" => notices[n].key[2] # handoff.id
       /\ handoff.id \in Rows => notices[handoff.id].at = handoff.since /\ notices[handoff.id].audience = "admins"
       /\ handoff.id \notin Rows => handoff.since < hour - Keep

KeysFit ==
    \A n \in Rows :
       /\ notices[n].key[1] = "recovered" => notices[n].key[2] \in Nat /\ n > notices[n].key[2]
       /\ notices[n].key[1] = "sent" => notices[n].audience = "admins"

(* Between two summaries the number only falls by what the watcher does.   *)
BellFits ==
    /\ ~bell.missed
    /\ ~bell.fewer => bell.seq <= EventSeq(Watcher) /\ (bell.fresh => bell.seq < EventSeq(Watcher))

InboxInv == InboxTypes /\ ReadIsSeen /\ NoOrphans /\ IncidentFits /\ KeysFit /\ BellFits

LEMMA InboxTyped ==
    ASSUME InboxInv
    PROVE  /\ roles \in [Readership -> {"admin", "user", "gone"}] /\ watching \subseteq Readership
           /\ notices \in [Ids -> NoticeRows \union {NoRow}]
           /\ nextId \in Nat /\ \A n \in Rows : n < nextId
           /\ read \subseteq Marks /\ hidden \subseteq Ids \X Readership
           /\ handoff \in Handoffs /\ hour \in Nat /\ bell \in Bells
           /\ Ids \subseteq Nat /\ 0 \notin Ids /\ Watcher \in Readership
  BY InboxAssumption DEF InboxInv, InboxTypes

LEMMA NoticeFacts ==
    ASSUME NEW row \in NoticeRows
    PROVE  /\ row.key \in NoticeKeys /\ row.audience \in Audiences /\ row.to \in Readership \union {0}
           /\ row.severity \in Severities /\ row.count \in 1 .. MaxGrouped /\ row.count \in Nat
           /\ row.at \in Nat /\ row.count >= 1 /\ row # NoRow
<1>1. row.key \in NoticeKeys /\ row.audience \in Audiences /\ row.to \in Readership \union {0}
      /\ row.severity \in Severities /\ row.count \in 1 .. MaxGrouped /\ row.at \in Nat
  BY DEF NoticeRows
<1>2. MaxGrouped \in Nat /\ row # NoRow
  BY InboxAssumption
<1> QED BY <1>1, <1>2

LEMMA NoticesAreTyped ==
    ASSUME notices \in [Ids -> NoticeRows \union {NoRow}], NEW n \in Rows
    PROVE  n \in Ids /\ notices[n] \in NoticeRows
  BY DEF Rows

LEMMA BellFacts ==
    ASSUME NEW b \in Bells
    PROVE  b.seq \in Nat /\ b.fresh \in BOOLEAN /\ b.fewer \in BOOLEAN /\ b.missed \in BOOLEAN
  BY DEF Bells

(* What rows count.                                                        *)
EventsOf(ns, unread) == UNION {{n} \X (1 .. ns[n].count) : n \in unread}

LEMMA EventsAreTheirs ==
    ASSUME NEW ns, NEW unread, NEW n, NEW k
    PROVE  <<n, k>> \in EventsOf(ns, unread) <=> n \in unread /\ k \in 1 .. ns[n].count
<1>1. \A m : <<n, k>> \in {m} \X (1 .. ns[m].count) <=> n = m /\ k \in 1 .. ns[m].count
  OBVIOUS
<1>2. <<n, k>> \in EventsOf(ns, unread) <=> \E m \in unread : <<n, k>> \in {m} \X (1 .. ns[m].count)
  BY DEF EventsOf
<1> QED BY <1>1, <1>2

LEMMA EventsAreFinite ==
    ASSUME NEW ns, NEW top \in Nat, NEW unread, unread \subseteq 1 .. top,
           \A n \in unread : ns[n].count \in 1 .. MaxGrouped
    PROVE  IsFiniteSet(EventsOf(ns, unread)) /\ Cardinality(EventsOf(ns, unread)) \in Nat
<1>1. MaxGrouped \in Nat
  BY InboxAssumption
<1>2. IsFiniteSet(1 .. top) /\ IsFiniteSet(1 .. MaxGrouped)
  <2>1. 1 \in Int /\ top \in Int /\ MaxGrouped \in Int
    BY <1>1
  <2>2. IsFiniteSet(1 .. top)
    BY <2>1, FS_Interval
  <2>3. IsFiniteSet(1 .. MaxGrouped)
    BY <2>1, FS_Interval
  <2> QED BY <2>2, <2>3
<1>3. IsFiniteSet((1 .. top) \X (1 .. MaxGrouped))
  BY <1>2, FS_Product
<1>4. ASSUME NEW e \in EventsOf(ns, unread) PROVE e \in (1 .. top) \X (1 .. MaxGrouped)
  <2>1. PICK n \in unread : e \in {n} \X (1 .. ns[n].count)
    BY DEF EventsOf
  <2>2. PICK k \in 1 .. ns[n].count : e = <<n, k>>
    BY <2>1
  <2>3. n \in 1 .. top /\ k \in 1 .. MaxGrouped
    BY <1>1, <2>2
  <2> QED BY <2>2, <2>3
<1>5. EventsOf(ns, unread) \in SUBSET ((1 .. top) \X (1 .. MaxGrouped))
  BY <1>4
<1>6. IsFiniteSet(EventsOf(ns, unread))
  BY <1>3, <1>5, FS_Subset
<1> QED BY <1>6, FS_CardinalityType

(* More rows that count more are more events, as soon as one is.           *)
LEMMA EventsGrow ==
    ASSUME NEW ns, NEW ms, NEW top \in Nat, NEW unread, NEW still, still \subseteq 1 .. top,
           unread \subseteq still,
           \A n \in still : ms[n].count \in 1 .. MaxGrouped,
           \A n \in unread : ns[n].count \in Nat /\ ns[n].count <= ms[n].count
    PROVE  /\ Cardinality(EventsOf(ns, unread)) \in Nat /\ Cardinality(EventsOf(ms, still)) \in Nat
           /\ Cardinality(EventsOf(ns, unread)) <= Cardinality(EventsOf(ms, still))
           /\ (\E n \in still : n \notin unread \/ ns[n].count < ms[n].count) =>
                 Cardinality(EventsOf(ns, unread)) < Cardinality(EventsOf(ms, still))
<1>1. IsFiniteSet(EventsOf(ms, still)) /\ Cardinality(EventsOf(ms, still)) \in Nat
  BY EventsAreFinite
<1>2. MaxGrouped \in Nat
  BY InboxAssumption
<1>3. ASSUME NEW e \in EventsOf(ns, unread) PROVE e \in EventsOf(ms, still)
  <2>1. PICK n \in unread : e \in {n} \X (1 .. ns[n].count)
    BY DEF EventsOf
  <2>2. PICK k \in 1 .. ns[n].count : e = <<n, k>>
    BY <2>1
  <2>3. ns[n].count \in Nat /\ ms[n].count \in Nat /\ ns[n].count <= ms[n].count
    BY <1>2
  <2>4. k \in 1 .. ms[n].count /\ n \in still
    BY <2>3
  <2> QED BY <2>2, <2>4, EventsAreTheirs
<1>4. EventsOf(ns, unread) \in SUBSET EventsOf(ms, still)
  BY <1>3
<1>5. /\ IsFiniteSet(EventsOf(ns, unread)) /\ Cardinality(EventsOf(ns, unread)) \in Nat
      /\ Cardinality(EventsOf(ns, unread)) <= Cardinality(EventsOf(ms, still))
      /\ Cardinality(EventsOf(ms, still)) = Cardinality(EventsOf(ns, unread)) => EventsOf(ms, still) = EventsOf(ns, unread)
  BY <1>1, <1>4, FS_Subset, FS_CardinalityType
<1>6. ASSUME NEW n \in still, n \notin unread \/ ns[n].count < ms[n].count
      PROVE  EventsOf(ms, still) # EventsOf(ns, unread)
  <2> DEFINE k == ms[n].count
  <2>1. k \in Nat /\ k \in 1 .. k
    BY <1>2
  <2>2. <<n, k>> \in EventsOf(ms, still)
    BY <2>1, EventsAreTheirs
  <2>3. ~(n \in unread /\ k \in 1 .. ns[n].count)
    <3>1. CASE n \notin unread
      BY <3>1
    <3>2. CASE n \in unread
      <4>1. ns[n].count \in Nat /\ ns[n].count < k
        BY <1>6, <3>2
      <4> QED BY <2>1, <4>1
    <3> QED BY <3>1, <3>2
  <2>4. <<n, k>> \notin EventsOf(ns, unread)
    BY <2>3, EventsAreTheirs
  <2> QED BY <2>2, <2>4
<1> QED BY <1>1, <1>5, <1>6

(* What the number is after a step that took nothing from the watcher.     *)
LEMMA BellStillFits ==
    ASSUME InboxInv, InboxTypes', Unread(Watcher) \subseteq Unread(Watcher)',
           \A n \in Unread(Watcher) : notices[n].count <= notices'[n].count,
           \/ bell' = bell
           \/ /\ bell'.seq = bell.seq /\ bell'.fewer = bell.fewer /\ bell'.missed = bell.missed
              /\ \E n \in Unread(Watcher)' : n \notin Unread(Watcher) \/ notices[n].count < notices'[n].count
    PROVE  BellFits'
<1> DEFINE unread == Unread(Watcher)
           still == Unread(Watcher)'
           top == nextId'
           before == EventSeq(Watcher)
           after == EventSeq(Watcher)'
<1>1. /\ before = Cardinality(EventsOf(notices, unread))
      /\ after = Cardinality(EventsOf(notices', still))
  BY DEF EventSeq, Unheard, EventsOf
<1>2. top \in Nat /\ still \subseteq 1 .. top
  <2>1. top \in Nat /\ Ids \subseteq Nat /\ 0 \notin Ids
    BY InboxTyped DEF InboxTypes
  <2>2. ASSUME NEW n \in still PROVE n \in 1 .. top
    <3>1. n \in Ids /\ n \in Rows'
      BY DEF Unread, Visible, Rows
    <3>2. n < top
      BY <3>1 DEF InboxTypes
    <3>3. n \in Nat /\ n # 0
      BY <2>1, <3>1
    <3> HIDE DEF top
    <3> QED BY <2>1, <3>2, <3>3
  <2> QED BY <2>1, <2>2
<1>3. \A n \in still : notices'[n].count \in 1 .. MaxGrouped
  <2>1. \A n \in still : notices'[n] \in NoticeRows
    BY DEF InboxTypes, Unread, Visible, Rows
  <2> QED BY <2>1, NoticeFacts
<1>4. \A n \in unread : notices[n].count \in Nat
  <2>1. \A n \in unread : notices[n] \in NoticeRows
    BY DEF InboxInv, InboxTypes, Unread, Visible, Rows
  <2> QED BY <2>1, NoticeFacts
<1>5. /\ before \in Nat /\ after \in Nat /\ before <= after
      /\ (\E n \in still : n \notin unread \/ notices[n].count < notices'[n].count) => before < after
  <2> HIDE DEF unread, still, top, before, after
  <2>1. unread \subseteq still /\ \A n \in unread : notices[n].count <= notices'[n].count
    BY DEF unread, still
  <2> QED BY <1>1, <1>2, <1>3, <1>4, <2>1, EventsGrow
<1>6. bell.seq \in Nat /\ ~bell.missed /\ bell'.seq = bell.seq /\ bell'.fewer = bell.fewer /\ bell'.missed = bell.missed
  BY InboxTyped, BellFacts DEF InboxInv, BellFits
<1>7. ~bell.fewer => bell.seq <= before /\ (bell.fresh => bell.seq < before)
  BY DEF InboxInv, BellFits
<1> HIDE DEF before, after
<1>8. ~bell'.fewer => bell'.seq <= after /\ (bell'.fresh => bell'.seq < after)
  <2>1. CASE bell' = bell
    BY <1>5, <1>6, <1>7, <2>1
  <2>2. CASE \E n \in still : n \notin unread \/ notices[n].count < notices'[n].count
    BY <1>5, <1>6, <1>7, <2>2
  <2> QED BY <2>1, <2>2
<1> QED BY <1>6, <1>8 DEF BellFits, after

LEMMA FewerFacts ==
    ASSUME bell \in Bells, NEW us, Fewer(us)
    PROVE  /\ bell' \in Bells /\ bell'.missed = bell.missed
           /\ Watcher \in us => bell'.fewer = TRUE
           /\ Watcher \notin us => bell' = bell
<1> DEFINE yes == TRUE
<1>1. bell' = IF Watcher \in us THEN [bell EXCEPT !.fewer = yes] ELSE bell
  BY DEF Fewer
<1>2. yes \in BOOLEAN
  OBVIOUS
<1> HIDE DEF yes
<1>3. bell' \in Bells /\ bell'.missed = bell.missed /\ (Watcher \in us => bell'.fewer = yes)
      /\ (Watcher \notin us => bell' = bell)
  BY <1>1, <1>2 DEF Bells
<1> QED BY <1>3 DEF yes

LEMMA FreshFacts ==
    ASSUME bell \in Bells, NEW us, Fresh(us)
    PROVE  /\ bell' \in Bells
           /\ bell'.missed = bell.missed /\ bell'.seq = bell.seq /\ bell'.fewer = bell.fewer
           /\ Watcher \notin us => bell' = bell
<1> DEFINE yes == TRUE
<1>1. bell' = IF Watcher \in us THEN [bell EXCEPT !.fresh = yes] ELSE bell
  BY DEF Fresh
<1>2. yes \in BOOLEAN
  OBVIOUS
<1> HIDE DEF yes
<1> QED BY <1>1, <1>2 DEF Bells

(* A step of another user that leaves what the watcher has not read.       *)
LEMMA FewerKeepsBell ==
    ASSUME InboxInv, InboxTypes', NEW us, Fewer(us),
           Watcher \notin us => /\ Unread(Watcher) \subseteq Unread(Watcher)'
                                /\ \A n \in Unread(Watcher) : notices'[n] = notices[n]
    PROVE  BellFits'
<1>1. bell \in Bells /\ ~bell.missed
  BY InboxTyped DEF InboxInv, BellFits
<1>2. CASE Watcher \in us
  BY <1>1, <1>2, FewerFacts DEF BellFits
<1>3. CASE Watcher \notin us
  <2>1. \A n \in Unread(Watcher) : notices[n].count <= notices'[n].count
    <3>1. \A n \in Unread(Watcher) : notices[n] \in NoticeRows
      BY DEF InboxInv, InboxTypes, Unread, Visible, Rows
    <3>2. \A n \in Unread(Watcher) : notices[n].count \in Nat
      BY <3>1, NoticeFacts
    <3> QED BY <1>3, <3>2
  <2>2. bell' = bell
    BY <1>1, <1>3, FewerFacts
  <2> QED BY <1>3, <2>1, <2>2, BellStillFits
<1> QED BY <1>2, <1>3

NoticeOf(key, audience, to, severity) ==
    [key |-> key, audience |-> audience, to |-> to, severity |-> severity, count |-> 1, at |-> hour]

LEMMA NoticeOfFacts ==
    ASSUME hour \in Nat, NEW key \in NoticeKeys, NEW audience \in Audiences,
           NEW to \in Readership \union {0}, NEW severity \in Severities
    PROVE  LET row == NoticeOf(key, audience, to, severity) IN
           /\ row \in NoticeRows /\ row # NoRow
           /\ row.key = key /\ row.audience = audience /\ row.to = to /\ row.severity = severity /\ row.at = hour
<1> DEFINE row == NoticeOf(key, audience, to, severity)
           one == 1
<1>1. row = [key |-> key, audience |-> audience, to |-> to, severity |-> severity, count |-> one, at |-> hour]
  BY DEF NoticeOf
<1>2. one \in 1 .. MaxGrouped
  BY InboxAssumption
<1> HIDE DEF one, row
<1>3. row \in NoticeRows /\ row.key = key /\ row.audience = audience /\ row.to = to
      /\ row.severity = severity /\ row.at = hour
  BY <1>1, <1>2 DEF NoticeRows
<1>4. row # NoRow
  BY <1>3, NoticeFacts
<1> QED BY <1>3, <1>4 DEF row

(* A row is added, unless one of its key is there.                         *)
LEMMA EmitFacts ==
    ASSUME InboxInv, NEW key \in NoticeKeys, NEW audience \in Audiences,
           NEW to \in Readership \union {0}, NEW severity \in Severities,
           Emit(key, audience, to, severity)
    PROVE  \/ KeyRows(key) # {} /\ UNCHANGED <<notices, nextId, bell>>
           \/ /\ KeyRows(key) = {} /\ nextId \in Ids /\ nextId \notin Rows /\ nextId' = nextId + 1
              /\ notices' \in [Ids -> NoticeRows \union {NoRow}]
              /\ notices'[nextId] = NoticeOf(key, audience, to, severity)
              /\ \A n \in Ids : n # nextId => notices'[n] = notices[n]
              /\ Rows' = Rows \union {nextId}
              /\ Fresh({u \in Readership : Addressed(u, NoticeOf(key, audience, to, severity))})
<1> DEFINE row == NoticeOf(key, audience, to, severity)
<1>1. CASE KeyRows(key) # {}
  BY <1>1 DEF Emit
<1>2. CASE KeyRows(key) = {}
  <2>1. /\ nextId \in Ids /\ nextId' = nextId + 1 /\ notices' = [notices EXCEPT ![nextId] = row]
        /\ Fresh({u \in Readership : Addressed(u, row)})
    BY <1>2 DEF Emit, NoticeOf
  <2>2. row \in NoticeRows /\ row # NoRow
    BY NoticeOfFacts, InboxTyped
  <2> HIDE DEF row
  <2>3. notices \in [Ids -> NoticeRows \union {NoRow}] /\ nextId \in Nat /\ \A n \in Rows : n < nextId
    BY InboxTyped
  <2>4. nextId \notin Rows
    BY <2>3
  <2>5. /\ notices' \in [Ids -> NoticeRows \union {NoRow}] /\ notices'[nextId] = row
        /\ \A n \in Ids : n # nextId => notices'[n] = notices[n]
    BY <2>1, <2>2, <2>3
  <2>6. Rows' = Rows \union {nextId}
    BY <2>1, <2>2, <2>5 DEF Rows
  <2> QED BY <1>2, <2>1, <2>4, <2>5, <2>6 DEF row
<1> QED BY <1>1, <1>2

(* What is so after a row is added, of what does not depend on which.      *)
LEMMA EmitKeeps ==
    ASSUME InboxInv, NEW key \in NoticeKeys, NEW audience \in Audiences,
           NEW to \in Readership \union {0}, NEW severity \in Severities,
           Emit(key, audience, to, severity), UNCHANGED <<roles, watching, read, hidden, hour>>,
           handoff' \in Handoffs
    PROVE  InboxTypes' /\ ReadIsSeen' /\ NoOrphans' /\ BellFits'
<1> DEFINE row == NoticeOf(key, audience, to, severity)
<1>1. CASE KeyRows(key) # {} /\ UNCHANGED <<notices, nextId, bell>>
  <2>1. Rows' = Rows
    BY <1>1 DEF Rows
  <2>2. InboxTypes'
    BY <1>1, <2>1 DEF InboxInv, InboxTypes
  <2>3. ReadIsSeen' /\ NoOrphans'
    BY <1>1, <2>1 DEF InboxInv, ReadIsSeen, NoOrphans
  <2>4. BellFits'
    BY <1>1 DEF InboxInv, BellFits, EventSeq, Unheard, Unread, Visible, HasRead, Rows, Addressed
  <2> QED BY <2>2, <2>3, <2>4
<1>2. CASE /\ KeyRows(key) = {} /\ nextId \in Ids /\ nextId \notin Rows /\ nextId' = nextId + 1
           /\ notices' \in [Ids -> NoticeRows \union {NoRow}]
           /\ notices'[nextId] = row
           /\ \A n \in Ids : n # nextId => notices'[n] = notices[n]
           /\ Rows' = Rows \union {nextId}
           /\ Fresh({u \in Readership : Addressed(u, row)})
  <2> HIDE DEF row
  <2>1. /\ nextId \in Nat /\ \A n \in Rows : n \in Nat /\ n < nextId
        /\ bell \in Bells /\ Watcher \in Readership
    BY InboxTyped DEF Rows
  <2>2. nextId' \in Nat /\ \A n \in Rows' : n < nextId'
    BY <1>2, <2>1
  <2>3. bell' \in Bells
    BY <1>2, <2>1, FreshFacts
  <2>4. InboxTypes'
    BY <1>2, <2>2, <2>3 DEF InboxInv, InboxTypes
  <2>5. \A n \in Rows : n # nextId /\ n \in Ids /\ notices'[n] = notices[n]
    BY <1>2 DEF Rows
  <2>6. \A mark \in read : mark.id \in Rows
    BY DEF InboxInv, ReadIsSeen
  <2>7. ReadIsSeen'
    BY <1>2, <2>5, <2>6 DEF InboxInv, ReadIsSeen
  <2>8. \A mark \in hidden : mark[1] \in Rows
    BY DEF InboxInv, NoOrphans
  <2>9. \A n, k \in Rows' : n # k => notices'[n].key # notices'[k].key
    <3>1. row.key = key
      BY NoticeOfFacts, InboxTyped DEF row
    <3>2. \A n \in Rows : notices[n].key # key
      BY <1>2 DEF KeyRows
    <3>3. \A n, k \in Rows : n # k => notices[n].key # notices[k].key
      BY DEF InboxInv, NoOrphans
    <3> QED BY <1>2, <2>5, <3>1, <3>2, <3>3
  <2>10. NoOrphans'
    BY <1>2, <2>8, <2>9 DEF InboxInv, NoOrphans
  <2>11. Unread(Watcher) \subseteq Unread(Watcher)'
    BY <1>2, <2>5 DEF Unread, Visible, HasRead, Addressed
  <2>12. \A n \in Unread(Watcher) : notices[n].count <= notices'[n].count
    <3>1. \A n \in Unread(Watcher) : n \in Rows /\ notices[n] \in NoticeRows
      BY DEF InboxInv, InboxTypes, Unread, Visible, Rows
    <3>2. \A n \in Unread(Watcher) : notices[n].count \in Nat
      BY <3>1, NoticeFacts
    <3> QED BY <2>5, <3>1, <3>2
  <2>13. CASE Addressed(Watcher, row)
    <3>1. \A mark \in read : mark.id # nextId
      BY <1>2, <2>6
    <3>2. <<nextId, Watcher>> \notin hidden
      BY <1>2, <2>8
    <3>3. nextId \in Unread(Watcher)' /\ nextId \notin Unread(Watcher)
      BY <1>2, <2>13, <3>1, <3>2 DEF Unread, Visible, HasRead, Addressed
    <3>4. bell'.seq = bell.seq /\ bell'.fewer = bell.fewer /\ bell'.missed = bell.missed
      BY <1>2, <2>1, FreshFacts
    <3> QED BY <2>4, <2>7, <2>10, <2>11, <2>12, <3>3, <3>4, BellStillFits
  <2>14. CASE ~Addressed(Watcher, row)
    <3>1. bell' = bell
      BY <1>2, <2>1, <2>14, FreshFacts
    <3> QED BY <2>4, <2>7, <2>10, <2>11, <2>12, <3>1, BellStillFits
  <2> QED BY <2>13, <2>14
<1> QED BY <1>1, <1>2, EmitFacts

LEMMA KeyParts ==
    /\ \A kind \in {"admins", "user", "target", "sent", "incident", "recovered"}, of \in Readership \union Nat :
          /\ <<kind, of>> \in NoticeKeys /\ <<kind, of>>[1] = kind /\ <<kind, of>>[2] = of
    /\ "admins" \in Audiences /\ 0 \in Readership \union {0}
    /\ \A audience \in Audiences :
          /\ audience \in {"admins", "user", "target", "sent", "incident", "recovered"}
          /\ audience # "sent" /\ audience # "recovered"
  BY DEF NoticeKeys, Audiences

LEMMA EmitKeepsKeys ==
    ASSUME InboxInv, NEW key \in NoticeKeys, NEW audience \in Audiences,
           NEW to \in Readership \union {0}, NEW severity \in Severities,
           Emit(key, audience, to, severity),
           key[1] = "sent" => audience = "admins",
           key[1] = "recovered" => key[2] \in Nat /\ key[2] < nextId
    PROVE  KeysFit'
<1> DEFINE row == NoticeOf(key, audience, to, severity)
<1>1. CASE KeyRows(key) # {} /\ UNCHANGED <<notices, nextId, bell>>
  BY <1>1 DEF InboxInv, KeysFit, Rows
<1>2. CASE /\ notices'[nextId] = row
           /\ \A n \in Ids : n # nextId => notices'[n] = notices[n]
           /\ Rows' = Rows \union {nextId} /\ nextId \notin Rows
  <2>1. row.key = key /\ row.audience = audience
    BY NoticeOfFacts, InboxTyped
  <2> HIDE DEF row
  <2>2. \A n \in Rows : n # nextId /\ n \in Ids /\ notices'[n] = notices[n]
    BY <1>2 DEF Rows
  <2> QED BY <1>2, <2>1, <2>2 DEF InboxInv, KeysFit
<1> QED BY <1>1, <1>2, EmitFacts

LEMMA EmitKeepsIncident ==
    ASSUME InboxInv, NEW key \in NoticeKeys, NEW audience \in Audiences,
           NEW to \in Readership \union {0}, NEW severity \in Severities,
           Emit(key, audience, to, severity), key[1] # "recovered", UNCHANGED <<handoff, hour>>
    PROVE  IncidentFits'
<1> DEFINE row == NoticeOf(key, audience, to, severity)
<1>1. CASE KeyRows(key) # {} /\ UNCHANGED <<notices, nextId, bell>>
  BY <1>1 DEF InboxInv, IncidentFits, Rows
<1>2. CASE /\ notices'[nextId] = row /\ nextId' = nextId + 1
           /\ \A n \in Ids : n # nextId => notices'[n] = notices[n]
           /\ Rows' = Rows \union {nextId} /\ nextId \notin Rows
  <2>1. row.key = key
    BY NoticeOfFacts, InboxTyped
  <2> HIDE DEF row
  <2>2. \A n \in Rows : n # nextId /\ n \in Ids /\ notices'[n] = notices[n]
    BY <1>2 DEF Rows
  <2>3. handoff # NoIncident => /\ handoff.id \in Ids /\ handoff.id \in Nat
                                /\ handoff.id < nextId /\ nextId \in Nat
    BY InboxTyped DEF InboxInv, IncidentFits
  <2>4. handoff # NoIncident => handoff.id < nextId' /\ handoff.id # nextId
    BY <1>2, <2>3
  <2> QED BY <1>2, <2>1, <2>2, <2>3, <2>4 DEF InboxInv, IncidentFits, NoIncident
<1> QED BY <1>1, <1>2, EmitFacts, ZenonT(60)

LEMMA NotifyEventKeepsInbox ==
    ASSUME InboxInv, NEW audience \in Audiences, NEW to \in Readership, NotifyEvent(audience, to)
    PROVE  InboxInv'
<1> DEFINE owner == IF audience = "user" THEN to ELSE 0
           key == <<audience, owner>>
           info == "info"
<1>1. /\ Emit(key, audience, owner, info)
      /\ UNCHANGED <<roles, watching, read, hidden, handoff, hour>>
  BY DEF NotifyEvent
<1>2. owner \in Readership \union {0} /\ owner \in Readership \union Nat /\ info \in Severities
  BY DEF Severities
<1> HIDE DEF owner, info
<1>3. key \in NoticeKeys /\ key[1] # "recovered" /\ key[1] # "sent"
  BY <1>2, KeyParts
<1> HIDE DEF key
<1>4. handoff' \in Handoffs
  BY <1>1, InboxTyped
<1>5. InboxTypes' /\ ReadIsSeen' /\ NoOrphans' /\ BellFits'
  BY <1>1, <1>2, <1>3, <1>4, EmitKeeps
<1>6. KeysFit' /\ IncidentFits'
  BY <1>1, <1>2, <1>3, EmitKeepsKeys, EmitKeepsIncident
<1> QED BY <1>5, <1>6 DEF InboxInv

(* A row comes up again: it is unread, hidden to nobody, counts no less.   *)
LEMMA NoticeResurfaces ==
    ASSUME InboxInv, NEW n \in Rows, NEW r \in NoticeRows,
           r.key = notices[n].key, r.audience = notices[n].audience, r.to = notices[n].to,
           r.at = notices[n].at, notices[n].count <= r.count,
           notices' = [notices EXCEPT ![n] = r], read' = Unreads(n), hidden' = Shown(n),
           UNCHANGED <<roles, watching, nextId, handoff, hour>>, NEW us, Fresh(us),
           Watcher \in us => /\ roles[Watcher] = "admin" /\ notices[n].audience = "admins"
                             /\ n \notin Unread(Watcher) \/ notices[n].count < r.count
    PROVE  InboxInv'
<1>1. /\ notices \in [Ids -> NoticeRows \union {NoRow}] /\ n \in Ids /\ r # NoRow /\ bell \in Bells
      /\ Watcher \in Readership
  BY InboxTyped, NoticeFacts DEF Rows
<1>2. /\ notices' \in [Ids -> NoticeRows \union {NoRow}] /\ notices'[n] = r
      /\ \A k \in Ids : k # n => notices'[k] = notices[k]
  BY <1>1
<1>3. Rows' = Rows
  BY <1>1, <1>2 DEF Rows
<1>4. /\ \A mark \in read' : mark \in read /\ mark.id # n
      /\ \A mark \in hidden' : mark \in hidden /\ mark[1] # n
      /\ \A mark \in hidden : mark[1] # n => mark \in hidden'
  BY DEF Unreads, Without, Shown
<1>5. bell' \in Bells
  BY <1>1, FreshFacts
<1>6. InboxTypes'
  BY <1>2, <1>3, <1>4, <1>5 DEF InboxInv, InboxTypes
<1>7. \A k \in Rows : /\ k \in Ids /\ (k # n => notices'[k] = notices[k])
                      /\ notices'[k].key = notices[k].key /\ notices'[k].audience = notices[k].audience
                      /\ notices'[k].to = notices[k].to /\ notices'[k].at = notices[k].at
  BY <1>2 DEF Rows
<1>8. ReadIsSeen'
  BY <1>3, <1>4, <1>7 DEF InboxInv, ReadIsSeen
<1>9. NoOrphans'
  BY <1>3, <1>4, <1>7 DEF InboxInv, NoOrphans
<1>10. KeysFit'
  BY <1>3, <1>7 DEF InboxInv, KeysFit
<1>11. IncidentFits'
  BY <1>3, <1>7 DEF InboxInv, IncidentFits, NoIncident
<1>12. Unread(Watcher) \subseteq Unread(Watcher)'
  <2>1. ASSUME NEW k \in Unread(Watcher) PROVE k \in Unread(Watcher)'
    <3>1. /\ k \in Rows /\ Addressed(Watcher, notices[k]) /\ <<k, Watcher>> \notin hidden
          /\ ~\E mark \in read : mark.id = k /\ mark.user = Watcher
      BY DEF Unread, Visible, HasRead
    <3>2. /\ k \in Rows' /\ <<k, Watcher>> \notin hidden'
          /\ ~\E mark \in read' : mark.id = k /\ mark.user = Watcher
      BY <1>3, <1>4, <3>1
    <3>3. Addressed(Watcher, notices[k])'
      BY <1>7, <3>1 DEF Addressed
    <3> QED BY <3>2, <3>3 DEF Unread, Visible, HasRead
  <2> QED BY <2>1
<1>13. \A k \in Unread(Watcher) : notices[k].count <= notices'[k].count
  <2>1. \A k \in Unread(Watcher) : k \in Rows /\ notices[k] \in NoticeRows
    BY DEF InboxInv, InboxTypes, Unread, Visible, Rows
  <2>2. \A k \in Unread(Watcher) : notices[k].count \in Nat
    BY <2>1, NoticeFacts
  <2> QED BY <1>2, <1>7, <2>1, <2>2
<1>14. CASE Watcher \in us
  <2>1. n \in Unread(Watcher)'
    <3>1. Addressed(Watcher, notices[n])'
      BY <1>7, <1>14 DEF Addressed
    <3>2. <<n, Watcher>> \notin hidden'
      BY <1>4
    <3>3. ~\E mark \in read' : mark.id = n /\ mark.user = Watcher
      BY <1>4
    <3> QED BY <1>3, <3>1, <3>2, <3>3 DEF Unread, Visible, HasRead
  <2>2. n \notin Unread(Watcher) \/ notices[n].count < notices'[n].count
    BY <1>2, <1>14
  <2>3. bell'.seq = bell.seq /\ bell'.fewer = bell.fewer /\ bell'.missed = bell.missed
    BY <1>1, FreshFacts
  <2>4. BellFits'
    BY <1>6, <1>12, <1>13, <2>1, <2>2, <2>3, BellStillFits
  <2> QED BY <1>6, <1>8, <1>9, <1>10, <1>11, <2>4 DEF InboxInv
<1>15. CASE Watcher \notin us
  <2>1. bell' = bell
    BY <1>1, <1>15, FreshFacts
  <2>2. BellFits'
    BY <1>6, <1>12, <1>13, <2>1, BellStillFits
  <2> QED BY <1>6, <1>8, <1>9, <1>10, <1>11, <2>2 DEF InboxInv
<1> QED BY <1>14, <1>15

LEMMA DeliverySentKeepsInbox ==
    ASSUME InboxInv, DeliverySent PROVE InboxInv'
<1> DEFINE key == <<"sent", hour \div Window>>
           success == "success"
<1>1. key \in NoticeKeys /\ key[1] = "sent" /\ success \in Severities
  <2>1. hour \in Nat /\ Window \in Nat /\ Window > 0
    BY InboxTyped, InboxAssumption
  <2>2. hour \div Window \in Nat
    BY <2>1
  <2> QED BY <2>2, KeyParts DEF Severities
<1>2. UNCHANGED <<roles, watching, handoff, hour>>
  BY DEF DeliverySent
<1> HIDE DEF key, success
<1>3. CASE Emit(key, "admins", 0, success) /\ UNCHANGED <<read, hidden>>
  <2>1. "admins" \in Audiences /\ 0 \in Readership \union {0} /\ handoff' \in Handoffs /\ key[1] # "recovered"
    BY <1>1, <1>2, KeyParts, InboxTyped
  <2>2. InboxTypes' /\ ReadIsSeen' /\ NoOrphans' /\ BellFits'
    BY <1>1, <1>2, <1>3, <2>1, EmitKeeps
  <2>3. KeysFit'
    BY <1>1, <1>2, <1>3, <2>1, EmitKeepsKeys
  <2>4. IncidentFits'
    BY <1>1, <1>2, <1>3, <2>1, EmitKeepsIncident
  <2> QED BY <2>2, <2>3, <2>4 DEF InboxInv
<1>4. ASSUME NEW n \in KeyRows(key), notices[n].count < MaxGrouped,
             notices' = [notices EXCEPT ![n].count = @ + 1],
             read' = Unreads(n), hidden' = Shown(n), Fresh(Admins), nextId' = nextId
      PROVE  InboxInv'
  <2> DEFINE more == notices[n].count + 1
             r == [notices[n] EXCEPT !.count = more]
  <2>1. n \in Rows /\ notices[n].key = key /\ notices[n] \in NoticeRows
    BY InboxTyped, NoticesAreTyped DEF KeyRows
  <2>2. notices[n].count \in Nat /\ MaxGrouped \in Nat /\ notices[n].count >= 1
    BY <2>1, NoticeFacts, InboxAssumption
  <2>3. more \in 1 .. MaxGrouped /\ notices[n].count < more /\ notices[n].count <= more
    BY <1>4, <2>2
  <2>4. notices' = [notices EXCEPT ![n] = r]
    BY <1>4
  <2> HIDE DEF more
  <2>5. /\ r \in NoticeRows /\ r.key = notices[n].key /\ r.audience = notices[n].audience
        /\ r.to = notices[n].to /\ r.at = notices[n].at /\ r.count = more
    BY <2>1, <2>3 DEF NoticeRows
  <2> HIDE DEF r
  <2>6. notices[n].audience = "admins"
    BY <1>1, <2>1 DEF InboxInv, KeysFit
  <2>7. Watcher \in Admins => roles[Watcher] = "admin"
    BY DEF Admins
  <2> QED BY <1>2, <1>4, <2>1, <2>3, <2>4, <2>5, <2>6, <2>7, NoticeResurfaces
<1> QED BY <1>3, <1>4 DEF DeliverySent, key, success

LEMMA HandoffFacts ==
    ASSUME handoff \in Handoffs
    PROVE  handoff.id \in Nat /\ handoff.since \in Nat /\ handoff.last \in Nat
  BY DEF Handoffs

LEMMA NoIncidentFits == NoIncident \in Handoffs /\ NoIncident.id = 0
<1> DEFINE z == 0
<1>1. NoIncident = [id |-> z, since |-> z, last |-> z] /\ z \in Nat
  BY DEF NoIncident
<1> HIDE DEF z
<1>2. NoIncident \in Handoffs /\ NoIncident.id = z
  BY <1>1 DEF Handoffs
<1> QED BY <1>2 DEF z

(* The first report.                                                       *)
LEMMA IncidentOpens ==
    ASSUME InboxInv, handoff = NoIncident, Emit(<<"incident", hour>>, "admins", 0, "warning"),
           handoff' = IF KeyRows(<<"incident", hour>>) # {} THEN NoIncident
                      ELSE [id |-> nextId, since |-> hour, last |-> hour],
           UNCHANGED <<roles, watching, read, hidden, hour>>
    PROVE  InboxInv'
<1> DEFINE key == <<"incident", hour>>
           admins == "admins"
           warning == "warning"
           z == 0
           row == NoticeOf(key, admins, z, warning)
<1>1. hour \in Nat /\ nextId \in Nat
  BY InboxTyped
<1>2. /\ key \in NoticeKeys /\ key[1] = "incident" /\ admins \in Audiences
      /\ z \in Readership \union {0} /\ warning \in Severities
  BY <1>1, KeyParts DEF Severities
<1>3. handoff' \in Handoffs
  BY <1>1, NoIncidentFits DEF Handoffs
<1>4. Emit(key, admins, z, warning)
  OBVIOUS
<1>5. /\ row.key = key /\ row.audience = admins /\ row.at = hour
  BY <1>1, <1>2, NoticeOfFacts
<1>6. handoff' = IF KeyRows(key) # {} THEN NoIncident ELSE [id |-> nextId, since |-> hour, last |-> hour]
  OBVIOUS
<1>7. admins = "admins"
  OBVIOUS
<1>8. \/ KeyRows(key) # {} /\ UNCHANGED <<notices, nextId, bell>>
      \/ /\ KeyRows(key) = {} /\ nextId \in Ids /\ nextId \notin Rows /\ nextId' = nextId + 1
         /\ notices'[nextId] = row
         /\ \A n \in Ids : n # nextId => notices'[n] = notices[n]
         /\ Rows' = Rows \union {nextId}
  BY <1>2, <1>4, EmitFacts, ZenonT(60)
<1> HIDE DEF key, admins, warning, z, row
<1>9. InboxTypes' /\ ReadIsSeen' /\ NoOrphans' /\ BellFits'
  BY <1>2, <1>3, <1>4, EmitKeeps
<1>10. KeysFit'
  BY <1>2, <1>4, EmitKeepsKeys
<1>11. IncidentFits'
  <2>1. CASE handoff' = NoIncident
    BY <2>1 DEF IncidentFits, NoIncident
  <2>2. CASE /\ handoff' = [id |-> nextId, since |-> hour, last |-> hour]
             /\ nextId \in Ids /\ nextId' = nextId + 1 /\ notices'[nextId] = row
             /\ \A n \in Ids : n # nextId => notices'[n] = notices[n]
             /\ Rows' = Rows \union {nextId} /\ nextId \notin Rows
    <3>1. handoff'.id = nextId /\ handoff'.since = hour /\ nextId < nextId'
      BY <1>1, <2>2
    <3>2. \A n \in Rows : n \in Ids /\ n # nextId /\ n \in Nat /\ n < nextId /\ notices'[n] = notices[n]
      BY <2>2, InboxTyped DEF Rows
    <3>3. \A n \in Rows : notices[n].key[1] = "recovered" =>
             notices[n].key[2] \in Nat /\ n > notices[n].key[2]
      BY DEF InboxInv, KeysFit
    <3>4. \A n \in Rows : notices[n].key[1] = "recovered" => notices[n].key[2] # nextId
      BY <1>1, <3>2, <3>3
    <3>5. \A n \in Rows' : notices'[n].key[1] = "recovered" => notices'[n].key[2] # nextId
      BY <1>2, <1>5, <2>2, <3>2, <3>4
    <3> QED BY <1>5, <1>7, <2>2, <3>1, <3>5 DEF IncidentFits
  <2> QED BY <1>6, <1>8, <2>1, <2>2
<1> QED BY <1>9, <1>10, <1>11 DEF InboxInv

(* A later one, which may rewrite the row.                                 *)
LEMMA IncidentIsReported ==
    ASSUME InboxInv, handoff # NoIncident, hour - handoff.last >= Refresh,
           handoff' = [handoff EXCEPT !.last = hour],
           notices' = IF handoff.id \in Rows THEN [notices EXCEPT ![handoff.id].severity = "warning"]
                      ELSE notices,
           UNCHANGED <<nextId, bell, roles, watching, read, hidden, hour>>
    PROVE  InboxInv'
<1> DEFINE i == handoff.id
           warning == "warning"
           r == [notices[i] EXCEPT !.severity = warning]
<1>1. /\ notices \in [Ids -> NoticeRows \union {NoRow}] /\ hour \in Nat /\ handoff \in Handoffs
      /\ warning \in Severities /\ warning # "error"
  BY InboxTyped DEF Severities
<1>2. i \in Rows => notices' = [notices EXCEPT ![i] = r]
  OBVIOUS
<1>3. i \notin Rows => notices' = notices
  OBVIOUS
<1> HIDE DEF warning
<1>4. handoff' \in Handoffs /\ handoff'.id = i /\ handoff'.since = handoff.since
  BY <1>1 DEF Handoffs
<1>5. i \in Rows => /\ r \in NoticeRows /\ r.key = notices[i].key /\ r.audience = notices[i].audience
                    /\ r.to = notices[i].to /\ r.at = notices[i].at /\ r.count = notices[i].count
                    /\ r.severity = warning
  <2> SUFFICES ASSUME i \in Rows
               PROVE  /\ r \in NoticeRows /\ r.key = notices[i].key /\ r.audience = notices[i].audience
                      /\ r.to = notices[i].to /\ r.at = notices[i].at /\ r.count = notices[i].count
                      /\ r.severity = warning
    OBVIOUS
  <2>1. notices[i] \in NoticeRows
    BY <1>1, NoticesAreTyped
  <2> QED BY <1>1, <2>1 DEF NoticeRows
<1>6. i \in Rows => i \in Ids
  BY DEF Rows
<1> HIDE DEF r, i
<1>7. notices' \in [Ids -> NoticeRows \union {NoRow}]
  BY <1>1, <1>2, <1>3, <1>5, <1>6
<1>8. \A k \in Ids : k # i \/ i \notin Rows => notices'[k] = notices[k]
  BY <1>1, <1>2, <1>3, <1>6
<1>9. i \in Rows => notices'[i] = r /\ r # NoRow
  BY <1>1, <1>2, <1>5, <1>6, NoticeFacts
<1>10. Rows' = Rows
  BY <1>8, <1>9 DEF Rows
<1>11. \A k \in Rows : /\ k \in Ids /\ notices'[k].key = notices[k].key
                       /\ notices'[k].audience = notices[k].audience /\ notices'[k].to = notices[k].to
                       /\ notices'[k].at = notices[k].at /\ notices'[k].count = notices[k].count
                       /\ notices'[k].severity \in {notices[k].severity, warning}
  BY <1>5, <1>8, <1>9 DEF Rows
<1>12. InboxTypes'
  BY <1>4, <1>7, <1>10 DEF InboxInv, InboxTypes
<1>13. ReadIsSeen'
  BY <1>1, <1>10, <1>11 DEF InboxInv, ReadIsSeen
<1>14. NoOrphans'
  BY <1>10, <1>11 DEF InboxInv, NoOrphans
<1>15. KeysFit'
  BY <1>10, <1>11 DEF InboxInv, KeysFit
<1>16. IncidentFits'
  <2>1. /\ i \in Ids /\ i < nextId
        /\ \A n \in Rows : notices[n].key[1] = "recovered" => notices[n].key[2] # i
        /\ i \in Rows => notices[i].at = handoff.since /\ notices[i].audience = "admins"
        /\ i \notin Rows => handoff.since < hour - Keep
    BY DEF InboxInv, IncidentFits, i
  <2> QED BY <1>4, <1>10, <1>11, <2>1 DEF IncidentFits
<1>17. Unread(Watcher) \subseteq Unread(Watcher)'
  <2>1. ASSUME NEW k \in Unread(Watcher) PROVE k \in Unread(Watcher)'
    <3>1. /\ k \in Rows /\ Addressed(Watcher, notices[k]) /\ <<k, Watcher>> \notin hidden
          /\ ~\E mark \in read : mark.id = k /\ mark.user = Watcher
      BY DEF Unread, Visible, HasRead
    <3>2. Addressed(Watcher, notices[k])'
      BY <1>11, <3>1 DEF Addressed
    <3> QED BY <1>10, <3>1, <3>2 DEF Unread, Visible, HasRead
  <2> QED BY <2>1
<1>18. \A k \in Unread(Watcher) : notices[k].count <= notices'[k].count
  <2>1. \A k \in Unread(Watcher) : k \in Rows /\ notices[k] \in NoticeRows
    BY DEF InboxInv, InboxTypes, Unread, Visible, Rows
  <2>2. \A k \in Unread(Watcher) : notices[k].count \in Nat
    BY <2>1, NoticeFacts
  <2>3. \A k \in Unread(Watcher) : notices'[k].count = notices[k].count
    BY <1>11, <2>1
  <2> QED BY <2>2, <2>3
<1>19. BellFits'
  BY <1>12, <1>17, <1>18, BellStillFits
<1> QED BY <1>12, <1>13, <1>14, <1>15, <1>16, <1>19 DEF InboxInv

LEMMA ReportIncidentKeepsInbox ==
    ASSUME InboxInv, ReportIncident PROVE InboxInv'
<1>1. CASE handoff = NoIncident
  BY <1>1, IncidentOpens DEF ReportIncident
<1>2. CASE handoff # NoIncident
  BY <1>2, IncidentIsReported DEF ReportIncident
<1> QED BY <1>1, <1>2

LEMMA EscalateIncidentKeepsInbox ==
    ASSUME InboxInv, EscalateIncident PROVE InboxInv'
<1> DEFINE i == handoff.id
           error == "error"
           r == [notices[i] EXCEPT !.severity = error]
           us == {u \in Admins : i \notin Unread(u)}
<1>1. handoff # NoIncident /\ UNCHANGED <<roles, watching, nextId, handoff, hour>>
  BY DEF EscalateIncident
<1>2. CASE i \in Rows
  <2>1. /\ notices' = [notices EXCEPT ![i] = r] /\ read' = Unreads(i) /\ hidden' = Shown(i) /\ Fresh(us)
    BY <1>2 DEF EscalateIncident
  <2>2. error \in Severities /\ notices[i] \in NoticeRows
    BY <1>2, InboxTyped, NoticesAreTyped DEF Severities
  <2> HIDE DEF error
  <2>3. /\ r \in NoticeRows /\ r.key = notices[i].key /\ r.audience = notices[i].audience
        /\ r.to = notices[i].to /\ r.at = notices[i].at /\ r.count = notices[i].count
    BY <2>2 DEF NoticeRows
  <2>4. notices[i].count \in Nat
    BY <2>2, NoticeFacts
  <2>5. notices[i].count <= r.count
    BY <2>3, <2>4
  <2>6. notices[i].audience = "admins"
    BY <1>1, <1>2 DEF InboxInv, IncidentFits
  <2>7. Watcher \in us => roles[Watcher] = "admin" /\ i \notin Unread(Watcher)
    BY DEF Admins
  <2> HIDE DEF r, us, i
  <2> QED BY <1>1, <1>2, <2>1, <2>3, <2>5, <2>6, <2>7, NoticeResurfaces
<1>3. CASE i \notin Rows
  <2>1. UNCHANGED <<notices, read, hidden, bell>>
    BY <1>3 DEF EscalateIncident
  <2>2. InboxTypes' /\ ReadIsSeen' /\ NoOrphans' /\ IncidentFits' /\ KeysFit'
    BY <1>1, <2>1 DEF InboxInv, InboxTypes, ReadIsSeen, NoOrphans, IncidentFits, KeysFit, Rows
  <2>3. BellFits'
    BY <1>1, <2>1 DEF InboxInv, BellFits, EventSeq, Unheard, Unread, Visible, HasRead, Rows, Addressed
  <2> QED BY <2>2, <2>3 DEF InboxInv
<1> QED BY <1>2, <1>3

LEMMA ResolveIncidentKeepsInbox ==
    ASSUME InboxInv, ResolveIncident PROVE InboxInv'
<1>1. /\ handoff # NoIncident /\ handoff' = NoIncident
      /\ UNCHANGED <<roles, watching, read, hidden, hour>>
  BY DEF ResolveIncident
<1>2. handoff' \in Handoffs
  BY <1>1, NoIncidentFits
<1>3. IncidentFits'
  <2>1. (handoff = NoIncident)'
    BY <1>1 DEF NoIncident
  <2> QED BY <2>1 DEF IncidentFits
<1>4. CASE Emit(<<"recovered", handoff.id>>, "admins", 0, "success")
  <2> DEFINE key == <<"recovered", handoff.id>>
             admins == "admins"
             success == "success"
             z == 0
  <2>1. handoff.id \in Nat /\ handoff.id < nextId
    BY <1>1, InboxTyped, HandoffFacts DEF InboxInv, IncidentFits
  <2>2. /\ key \in NoticeKeys /\ key[1] = "recovered" /\ key[2] = handoff.id /\ admins \in Audiences
        /\ z \in Readership \union {0} /\ success \in Severities
    BY <2>1, KeyParts DEF Severities
  <2>3. Emit(key, admins, z, success)
    BY <1>4
  <2> HIDE DEF key, admins, success, z
  <2>4. InboxTypes' /\ ReadIsSeen' /\ NoOrphans' /\ BellFits'
    BY <1>1, <1>2, <2>2, <2>3, EmitKeeps
  <2>5. KeysFit'
    BY <2>1, <2>2, <2>3, EmitKeepsKeys
  <2> QED BY <1>3, <2>4, <2>5 DEF InboxInv
<1>5. CASE UNCHANGED <<notices, nextId, bell>>
  <2>1. InboxTypes' /\ ReadIsSeen' /\ NoOrphans' /\ KeysFit'
    BY <1>1, <1>2, <1>5 DEF InboxInv, InboxTypes, ReadIsSeen, NoOrphans, KeysFit, Rows
  <2>2. BellFits'
    BY <1>1, <1>5 DEF InboxInv, BellFits, EventSeq, Unheard, Unread, Visible, HasRead, Rows, Addressed
  <2> QED BY <1>3, <2>1, <2>2 DEF InboxInv
<1> QED BY <1>4, <1>5 DEF ResolveIncident

(* Steps that leave the rows as they are.                                  *)
LEMMA NoticesStay ==
    ASSUME InboxInv, UNCHANGED <<notices, nextId, handoff, hour>>
    PROVE  Rows' = Rows /\ IncidentFits' /\ KeysFit'
  BY DEF InboxInv, IncidentFits, KeysFit, Rows

LEMMA SummaryKeepsInbox ==
    ASSUME InboxInv, Summary PROVE InboxInv'
<1> DEFINE seq == EventSeq(Watcher)
           no == FALSE
           silent == bell.fresh /\ ~bell.fewer /\ seq <= bell.seq
<1>1. /\ bell' = [seq |-> seq, fresh |-> no, fewer |-> no, missed |-> silent]
      /\ UNCHANGED <<roles, watching, notices, nextId, read, hidden, handoff, hour>>
  BY DEF Summary
<1>2. seq \in Nat
  <2> DEFINE top == nextId
  <2>1. seq = Cardinality(EventsOf(notices, Unread(Watcher)))
    BY DEF EventSeq, Unheard, EventsOf
  <2>2. top \in Nat /\ Unread(Watcher) \subseteq 1 .. top
    <3>1. ASSUME NEW n \in Unread(Watcher) PROVE n \in 1 .. top
      <4>1. n \in Rows /\ n \in Ids
        BY DEF Unread, Visible, Rows
      <4>2. n \in Nat /\ n # 0 /\ n < nextId /\ nextId \in Nat
        BY <4>1, InboxTyped
      <4> QED BY <4>2
    <3> QED BY <3>1, InboxTyped
  <2>3. \A n \in Unread(Watcher) : notices[n].count \in 1 .. MaxGrouped
    <3>1. \A n \in Unread(Watcher) : notices[n] \in NoticeRows
      BY DEF InboxInv, InboxTypes, Unread, Visible, Rows
    <3> QED BY <3>1, NoticeFacts
  <2> HIDE DEF top
  <2> QED BY <2>1, <2>2, <2>3, EventsAreFinite
<1>3. bell.fresh /\ ~bell.fewer => bell.seq < seq
  BY DEF InboxInv, BellFits
<1>4. bell.seq \in Nat
  BY InboxTyped, BellFacts
<1>5. silent = FALSE
  <2> HIDE DEF seq
  <2> QED BY <1>2, <1>3, <1>4
<1>6. no \in BOOLEAN /\ no = FALSE
  OBVIOUS
<1>7. EventSeq(Watcher)' = seq
  BY <1>1 DEF EventSeq, Unheard, Unread, Visible, HasRead, Rows, Addressed
<1> HIDE DEF seq, no, silent
<1>8. bell' \in Bells /\ bell'.seq = seq /\ bell'.fresh = no /\ bell'.missed = silent
  <2>1. silent \in BOOLEAN
    BY <1>5
  <2> QED BY <1>1, <1>2, <1>6, <2>1 DEF Bells
<1>9. BellFits'
  <2>1. seq <= seq
    BY <1>2
  <2> QED BY <1>5, <1>6, <1>7, <1>8, <2>1 DEF BellFits
<1>10. InboxTypes' /\ ReadIsSeen' /\ NoOrphans'
  BY <1>1, <1>8 DEF InboxInv, InboxTypes, ReadIsSeen, NoOrphans, Rows
<1> QED BY <1>1, <1>9, <1>10, NoticesStay DEF InboxInv

LEMMA MarkFacts ==
    ASSUME InboxInv, NEW u \in Readership, NEW n \in Unread(u)
    PROVE  /\ n \in Rows /\ Mark(u, n) \in Marks /\ Mark(u, n).id = n /\ Mark(u, n).user = u
           /\ Mark(u, n).count = notices[n].count /\ Mark(u, n).severity = notices[n].severity
           /\ roles[u] # "gone"
<1>1. n \in Rows /\ Addressed(u, notices[n])
  BY DEF Unread, Visible
<1>2. n \in Ids /\ notices[n] \in NoticeRows
  BY <1>1, InboxTyped, NoticesAreTyped
<1>3. notices[n].count \in Nat /\ notices[n].severity \in Severities
  BY <1>2, NoticeFacts
<1>4. roles[u] # "gone"
  BY <1>1 DEF Addressed
<1> QED BY <1>1, <1>2, <1>3, <1>4 DEF Mark, Marks

(* One or all of a user's rows become read.                                *)
LEMMA ReadingKeepsInbox ==
    ASSUME InboxInv, NEW u \in Readership, NEW some, some \subseteq Unread(u),
           read' = read \union {Mark(u, n) : n \in some}, Fewer({u}),
           UNCHANGED <<roles, watching, notices, nextId, hidden, handoff, hour>>
    PROVE  InboxInv'
<1>1. Rows' = Rows /\ IncidentFits' /\ KeysFit'
  BY NoticesStay
<1>2. bell' \in Bells
  BY InboxTyped, FewerFacts
<1>3. \A mark \in read' : mark \in read \/ \E n \in some : mark = Mark(u, n)
  OBVIOUS
<1>4. \A n \in some : /\ n \in Rows /\ Mark(u, n) \in Marks /\ Mark(u, n).id = n /\ Mark(u, n).user = u
                      /\ Mark(u, n).count = notices[n].count /\ Mark(u, n).severity = notices[n].severity
                      /\ roles[u] # "gone"
  BY MarkFacts
<1>5. read' \subseteq Marks
  BY <1>3, <1>4, InboxTyped
<1>6. InboxTypes'
  BY <1>1, <1>2, <1>5 DEF InboxInv, InboxTypes
<1>7. ReadIsSeen'
  <2>1. ASSUME NEW mark \in read'
        PROVE  /\ mark.id \in Rows /\ notices[mark.id].count = mark.count
               /\ notices[mark.id].severity = "error" => mark.severity = "error"
    BY <1>3, <1>4 DEF InboxInv, ReadIsSeen
  <2> QED BY <1>1, <2>1 DEF ReadIsSeen
<1>8. NoOrphans'
  <2>1. \A mark \in read' : roles[mark.user] # "gone"
    BY <1>3, <1>4 DEF InboxInv, NoOrphans
  <2> QED BY <1>1, <2>1 DEF InboxInv, NoOrphans
<1>9. Watcher \notin {u} => Unread(Watcher) \subseteq Unread(Watcher)'
  <2> SUFFICES ASSUME Watcher # u, NEW k \in Unread(Watcher) PROVE k \in Unread(Watcher)'
    OBVIOUS
  <2>1. /\ k \in Rows /\ Addressed(Watcher, notices[k]) /\ <<k, Watcher>> \notin hidden
        /\ ~\E mark \in read : mark.id = k /\ mark.user = Watcher
    BY DEF Unread, Visible, HasRead
  <2>2. ~\E mark \in read' : mark.id = k /\ mark.user = Watcher
    BY <1>3, <1>4, <2>1
  <2>3. Addressed(Watcher, notices[k])'
    BY <2>1 DEF Addressed
  <2> QED BY <1>1, <2>1, <2>2, <2>3 DEF Unread, Visible, HasRead
<1>10. BellFits'
  BY <1>6, <1>9, FewerKeepsBell
<1> QED BY <1>1, <1>6, <1>7, <1>8, <1>10 DEF InboxInv

LEMMA MarkReadKeepsInbox ==
    ASSUME InboxInv, NEW u \in Readership, NEW m \in Ids, MarkRead(u, m) PROVE InboxInv'
<1> DEFINE some == {m}
<1>1. /\ m \in Unread(u) /\ read' = read \union {Mark(u, m)} /\ Fewer({u})
      /\ UNCHANGED <<roles, watching, notices, nextId, hidden, handoff, hour>>
  BY DEF MarkRead
<1>2. some \subseteq Unread(u) /\ {Mark(u, m)} = {Mark(u, n) : n \in some}
  BY <1>1
<1> HIDE DEF some
<1>3. read' = read \union {Mark(u, n) : n \in some}
  BY <1>1, <1>2
<1> QED BY <1>1, <1>2, <1>3, ReadingKeepsInbox

LEMMA MarkAllReadKeepsInbox ==
    ASSUME InboxInv, NEW u \in Readership, MarkAllRead(u) PROVE InboxInv'
<1>1. /\ read' = read \union {Mark(u, n) : n \in Unread(u)} /\ Fewer({u})
      /\ UNCHANGED <<roles, watching, notices, nextId, hidden, handoff, hour>>
  BY DEF MarkAllRead
<1>2. Unread(u) \subseteq Unread(u)
  OBVIOUS
<1> QED BY <1>1, <1>2, ReadingKeepsInbox

LEMMA DismissKeepsInbox ==
    ASSUME InboxInv, NEW u \in Readership, NEW n \in Ids, DismissNotice(u, n) PROVE InboxInv'
<1>1. /\ n \in Rows /\ Addressed(u, notices[n]) /\ hidden' = hidden \union {<<n, u>>} /\ Fewer({u})
      /\ UNCHANGED <<roles, watching, notices, nextId, read, handoff, hour>>
  BY DEF DismissNotice
<1>2. Rows' = Rows /\ IncidentFits' /\ KeysFit'
  BY <1>1, NoticesStay
<1>3. bell' \in Bells
  BY <1>1, InboxTyped, FewerFacts
<1>4. <<n, u>> \in Ids \X Readership /\ <<n, u>>[1] = n /\ <<n, u>>[2] = u
  OBVIOUS
<1>5. InboxTypes'
  BY <1>1, <1>2, <1>3, <1>4 DEF InboxInv, InboxTypes
<1>6. ReadIsSeen'
  BY <1>1, <1>2 DEF InboxInv, ReadIsSeen
<1>7. roles[u] # "gone"
  BY <1>1 DEF Addressed
<1>8. NoOrphans'
  BY <1>1, <1>2, <1>4, <1>7 DEF InboxInv, NoOrphans
<1>9. Watcher \notin {u} => Unread(Watcher) \subseteq Unread(Watcher)'
  <2> SUFFICES ASSUME Watcher # u, NEW k \in Unread(Watcher) PROVE k \in Unread(Watcher)'
    OBVIOUS
  <2>1. /\ k \in Rows /\ Addressed(Watcher, notices[k]) /\ <<k, Watcher>> \notin hidden /\ ~HasRead(Watcher, k)
    BY DEF Unread, Visible
  <2>2. <<k, Watcher>> \notin hidden'
    BY <1>1, <2>1
  <2>3. Addressed(Watcher, notices[k])' /\ ~HasRead(Watcher, k)'
    BY <1>1, <2>1 DEF Addressed, HasRead
  <2> QED BY <1>2, <2>1, <2>2, <2>3 DEF Unread, Visible
<1>10. BellFits'
  BY <1>1, <1>5, <1>9, FewerKeepsBell
<1> QED BY <1>2, <1>5, <1>6, <1>8, <1>10 DEF InboxInv

LEMMA AssignKeepsInbox ==
    ASSUME InboxInv, NEW u \in Readership, AssignTarget(u) PROVE InboxInv'
<1>1. /\ watching' = IF u \in watching THEN watching \ {u} ELSE watching \union {u}
      /\ Fewer({u}) /\ UNCHANGED <<roles, notices, nextId, read, hidden, handoff, hour>>
  BY DEF AssignTarget
<1>2. Rows' = Rows /\ IncidentFits' /\ KeysFit'
  BY <1>1, NoticesStay
<1>3. bell' \in Bells /\ watching' \subseteq Readership
  BY <1>1, InboxTyped, FewerFacts
<1>4. InboxTypes'
  BY <1>1, <1>2, <1>3 DEF InboxInv, InboxTypes
<1>5. ReadIsSeen' /\ NoOrphans'
  BY <1>1, <1>2 DEF InboxInv, ReadIsSeen, NoOrphans
<1>6. Watcher \notin {u} => Unread(Watcher) \subseteq Unread(Watcher)'
  <2> SUFFICES ASSUME Watcher # u, NEW k \in Unread(Watcher) PROVE k \in Unread(Watcher)'
    OBVIOUS
  <2>1. k \in Rows /\ Addressed(Watcher, notices[k]) /\ <<k, Watcher>> \notin hidden /\ ~HasRead(Watcher, k)
    BY DEF Unread, Visible
  <2>2. Watcher \in watching => Watcher \in watching'
    BY <1>1
  <2>3. Addressed(Watcher, notices[k])' /\ ~HasRead(Watcher, k)'
    BY <1>1, <2>1, <2>2 DEF Addressed, HasRead
  <2> QED BY <1>1, <1>2, <2>1, <2>3 DEF Unread, Visible
<1>7. BellFits'
  BY <1>1, <1>4, <1>6, FewerKeepsBell
<1> QED BY <1>2, <1>4, <1>5, <1>7 DEF InboxInv

(* Rows go, with all that is said of them.                                 *)
LEMMA NoticesGo ==
    ASSUME InboxInv, NEW gone, gone \subseteq Rows,
           notices' = [n \in Ids |-> IF n \in gone THEN NoRow ELSE notices[n]]
    PROVE  /\ notices' \in [Ids -> NoticeRows \union {NoRow}]
           /\ Rows' = Rows \ gone
           /\ \A n \in Rows \ gone : n \in Ids /\ notices'[n] = notices[n]
<1>1. notices \in [Ids -> NoticeRows \union {NoRow}]
  BY InboxTyped
<1>2. \A n \in Ids : notices'[n] = IF n \in gone THEN NoRow ELSE notices[n]
  OBVIOUS
<1>3. notices' \in [Ids -> NoticeRows \union {NoRow}]
  BY <1>1
<1> QED BY <1>2, <1>3 DEF Rows

LEMMA PruneInboxKeepsInbox ==
    ASSUME InboxInv, PruneInbox PROVE InboxInv'
<1> DEFINE old == {n \in Rows : notices[n].at < hour - Keep}
<1>1. /\ notices' = [n \in Ids |-> IF n \in old THEN NoRow ELSE notices[n]]
      /\ read' = {mark \in read : mark.id \notin old}
      /\ hidden' = {mark \in hidden : mark[1] \notin old}
      /\ Fewer(Readership) /\ UNCHANGED <<roles, watching, nextId, handoff, hour>>
  BY DEF PruneInbox
<1>2. old \subseteq Rows /\ \A n \in old : notices[n].at < hour - Keep
  OBVIOUS
<1> HIDE DEF old
<1>3. /\ notices' \in [Ids -> NoticeRows \union {NoRow}] /\ Rows' = Rows \ old
      /\ \A n \in Rows \ old : n \in Ids /\ notices'[n] = notices[n]
  BY <1>1, <1>2, NoticesGo
<1>4. /\ \A mark \in read' : mark \in read /\ mark.id \notin old
      /\ \A mark \in hidden' : mark \in hidden /\ mark[1] \notin old
  BY <1>1
<1>5. bell' \in Bells
  BY <1>1, InboxTyped, FewerFacts
<1>6. InboxTypes'
  BY <1>1, <1>3, <1>4, <1>5 DEF InboxInv, InboxTypes
<1>7. ReadIsSeen'
  BY <1>3, <1>4 DEF InboxInv, ReadIsSeen
<1>8. NoOrphans'
  BY <1>1, <1>3, <1>4 DEF InboxInv, NoOrphans
<1>9. KeysFit'
  BY <1>3 DEF InboxInv, KeysFit
<1>10. IncidentFits'
  BY <1>1, <1>2, <1>3 DEF InboxInv, IncidentFits, NoIncident
<1>11. Watcher \in Readership
  BY InboxTyped
<1>12. BellFits'
  BY <1>1, <1>6, <1>11, FewerKeepsBell
<1> QED BY <1>6, <1>7, <1>8, <1>9, <1>10, <1>12 DEF InboxInv

LEMMA ChangeRoleKeepsInbox ==
    ASSUME InboxInv, NEW u \in Readership, NEW role \in {"admin", "user", "gone"}, ChangeRole(u, role)
    PROVE  InboxInv'
<1> DEFINE mine == {n \in Rows : notices[n].audience = "user" /\ notices[n].to = u}
<1>1. /\ roles[u] # "gone" /\ roles' = [roles EXCEPT ![u] = role] /\ Fewer({u})
      /\ UNCHANGED <<nextId, handoff, hour>>
  BY DEF ChangeRole
<1>2. roles \in [Readership -> {"admin", "user", "gone"}] /\ watching \subseteq Readership
  BY InboxTyped
<1>3. /\ roles' \in [Readership -> {"admin", "user", "gone"}] /\ roles'[u] = role
      /\ \A v \in Readership : v # u => roles'[v] = roles[v]
  BY <1>1, <1>2
<1>4. bell' \in Bells /\ Watcher \in Readership
  BY <1>1, InboxTyped, FewerFacts
<1>5. \A mark \in read : mark.user \in Readership
  BY InboxTyped DEF Marks
<1>6. \A mark \in hidden : mark[2] \in Readership
  BY InboxTyped
<1>7. CASE role # "gone" /\ UNCHANGED <<notices, read, hidden, watching>>
  <2>1. Rows' = Rows /\ IncidentFits' /\ KeysFit'
    BY <1>1, <1>7, NoticesStay
  <2>2. InboxTypes'
    BY <1>1, <1>3, <1>4, <1>7, <2>1 DEF InboxInv, InboxTypes
  <2>3. ReadIsSeen'
    BY <1>7, <2>1 DEF InboxInv, ReadIsSeen
  <2>4. NoOrphans'
    BY <1>3, <1>5, <1>6, <1>7, <2>1 DEF InboxInv, NoOrphans
  <2>5. Watcher \notin {u} => Unread(Watcher) \subseteq Unread(Watcher)'
    <3> SUFFICES ASSUME Watcher # u, NEW k \in Unread(Watcher) PROVE k \in Unread(Watcher)'
      OBVIOUS
    <3>1. k \in Rows /\ Addressed(Watcher, notices[k]) /\ <<k, Watcher>> \notin hidden /\ ~HasRead(Watcher, k)
      BY DEF Unread, Visible
    <3>2. Addressed(Watcher, notices[k])' /\ ~HasRead(Watcher, k)'
      BY <1>3, <1>4, <1>7, <3>1 DEF Addressed, HasRead
    <3> QED BY <1>7, <2>1, <3>1, <3>2 DEF Unread, Visible
  <2>6. BellFits'
    BY <1>1, <1>7, <2>2, <2>5, FewerKeepsBell
  <2> QED BY <2>1, <2>2, <2>3, <2>4, <2>6 DEF InboxInv
<1>8. CASE /\ role = "gone"
           /\ notices' = [n \in Ids |-> IF n \in mine THEN NoRow ELSE notices[n]]
           /\ read' = {mark \in read : mark.user # u /\ mark.id \notin mine}
           /\ hidden' = {mark \in hidden : mark[2] # u /\ mark[1] \notin mine}
           /\ watching' = watching \ {u}
  <2>1. mine \subseteq Rows /\ \A n \in mine : notices[n].audience = "user" /\ notices[n].to = u
    OBVIOUS
  <2> HIDE DEF mine
  <2>2. /\ notices' \in [Ids -> NoticeRows \union {NoRow}] /\ Rows' = Rows \ mine
        /\ \A n \in Rows \ mine : n \in Ids /\ notices'[n] = notices[n]
    BY <1>8, <2>1, NoticesGo
  <2>3. /\ \A mark \in read' : mark \in read /\ mark.user # u /\ mark.id \notin mine
        /\ \A mark \in hidden' : mark \in hidden /\ mark[2] # u /\ mark[1] \notin mine
    BY <1>8
  <2>4. InboxTypes'
    BY <1>1, <1>2, <1>3, <1>4, <1>8, <2>2, <2>3 DEF InboxInv, InboxTypes
  <2>5. ReadIsSeen'
    BY <2>2, <2>3 DEF InboxInv, ReadIsSeen
  <2>6. NoOrphans'
    BY <1>3, <1>5, <1>6, <2>2, <2>3 DEF InboxInv, NoOrphans
  <2>7. KeysFit'
    BY <2>2 DEF InboxInv, KeysFit
  <2>8. IncidentFits'
    <3>1. handoff # NoIncident /\ handoff.id \in Rows => handoff.id \notin mine
      BY <2>1 DEF InboxInv, IncidentFits
    <3> QED BY <1>1, <2>2, <3>1 DEF InboxInv, IncidentFits, NoIncident
  <2>9. Watcher \notin {u} => Unread(Watcher) \subseteq Unread(Watcher)'
                              /\ \A n \in Unread(Watcher) : notices'[n] = notices[n]
    <3> SUFFICES ASSUME Watcher # u, NEW k \in Unread(Watcher)
                 PROVE  k \in Unread(Watcher)' /\ notices'[k] = notices[k]
      OBVIOUS
    <3>1. k \in Rows /\ Addressed(Watcher, notices[k]) /\ <<k, Watcher>> \notin hidden /\ ~HasRead(Watcher, k)
      BY DEF Unread, Visible
    <3>2. k \notin mine
      BY <2>1, <3>1 DEF Addressed
    <3>3. k \in Rows' /\ notices'[k] = notices[k]
      BY <2>2, <3>1, <3>2
    <3>4. <<k, Watcher>> \notin hidden' /\ ~HasRead(Watcher, k)'
      BY <2>3, <3>1 DEF HasRead
    <3>5. Watcher \in watching => Watcher \in watching'
      BY <1>8
    <3>6. Addressed(Watcher, notices[k])'
      BY <1>3, <1>4, <3>1, <3>3, <3>5 DEF Addressed
    <3> QED BY <3>3, <3>4, <3>6 DEF Unread, Visible
  <2>10. BellFits'
    BY <1>1, <2>4, <2>9, FewerKeepsBell
  <2> QED BY <2>4, <2>5, <2>6, <2>7, <2>8, <2>10 DEF InboxInv
<1> QED BY <1>7, <1>8 DEF ChangeRole

LEMMA HourPassesKeepsInbox ==
    ASSUME InboxInv, HourPasses PROVE InboxInv'
<1>1. /\ hour' = hour + 1
      /\ UNCHANGED <<roles, watching, notices, nextId, read, hidden, handoff, bell>>
  BY DEF HourPasses
<1>2. hour \in Nat /\ hour' \in Nat /\ Keep \in Nat
  BY <1>1, InboxTyped, InboxAssumption
<1>3. InboxTypes' /\ ReadIsSeen' /\ NoOrphans' /\ KeysFit'
  BY <1>1, <1>2 DEF InboxInv, InboxTypes, ReadIsSeen, NoOrphans, KeysFit, Rows
<1>4. IncidentFits'
  <2>1. handoff.since \in Nat
    BY InboxTyped, HandoffFacts
  <2>2. handoff.since < hour - Keep => handoff.since < hour' - Keep
    BY <1>1, <1>2, <2>1
  <2> QED BY <1>1, <2>2 DEF InboxInv, IncidentFits, NoIncident, Rows
<1>5. BellFits'
  BY <1>1 DEF InboxInv, BellFits, EventSeq, Unheard, Unread, Visible, HasRead, Rows, Addressed
<1> QED BY <1>3, <1>4, <1>5 DEF InboxInv

LEMMA StillInbox == ASSUME InboxInv, UNCHANGED inboxVars PROVE InboxInv'
<1>1. UNCHANGED <<roles, watching, notices, nextId, read, hidden, handoff, hour, bell>>
  BY DEF inboxVars
<1>2. InboxTypes' /\ ReadIsSeen' /\ NoOrphans' /\ KeysFit' /\ IncidentFits'
  BY <1>1 DEF InboxInv, InboxTypes, ReadIsSeen, NoOrphans, KeysFit, IncidentFits, NoIncident, Rows
<1>3. BellFits'
  BY <1>1 DEF InboxInv, BellFits, EventSeq, Unheard, Unread, Visible, HasRead, Rows, Addressed
<1> QED BY <1>2, <1>3 DEF InboxInv

LEMMA InboxNextKeeps == ASSUME InboxInv, InboxNext PROVE InboxInv'
<1>1. CASE \E u \in Readership : MarkAllRead(u) \/ AssignTarget(u)
  BY <1>1, MarkAllReadKeepsInbox, AssignKeepsInbox
<1>2. CASE \E u \in Readership, n \in Ids : MarkRead(u, n) \/ DismissNotice(u, n)
  BY <1>2, MarkReadKeepsInbox, DismissKeepsInbox
<1>3. CASE \E u \in Readership, role \in {"admin", "user", "gone"} : ChangeRole(u, role)
  BY <1>3, ChangeRoleKeepsInbox
<1>4. CASE \E u \in Readership, audience \in Audiences : NotifyEvent(audience, u)
  BY <1>4, NotifyEventKeepsInbox
<1>5. CASE Summary
  BY <1>5, SummaryKeepsInbox
<1>6. CASE DeliverySent
  BY <1>6, DeliverySentKeepsInbox
<1>7. CASE ReportIncident
  BY <1>7, ReportIncidentKeepsInbox
<1>8. CASE EscalateIncident
  BY <1>8, EscalateIncidentKeepsInbox
<1>9. CASE ResolveIncident
  BY <1>9, ResolveIncidentKeepsInbox
<1>10. CASE PruneInbox
  BY <1>10, PruneInboxKeepsInbox
<1>11. CASE HourPasses
  BY <1>11, HourPassesKeepsInbox
<1> QED BY <1>1, <1>2, <1>3, <1>4, <1>5, <1>6, <1>7, <1>8, <1>9, <1>10, <1>11 DEF InboxNext

LEMMA InboxInvInit == ASSUME InboxInit PROVE InboxInv
<1> DEFINE z == 0
           one == 1
           no == FALSE
<1>1. /\ roles \in [Readership -> {"admin", "user"}] /\ watching \subseteq Readership
      /\ notices = [n \in Ids |-> NoRow] /\ nextId = one
      /\ read = {} /\ hidden = {} /\ handoff = NoIncident /\ hour = z
      /\ bell = [seq |-> z, fresh |-> no, fewer |-> no, missed |-> no]
  BY DEF InboxInit, Quiet
<1>2. one \in Nat /\ z \in Nat /\ no \in BOOLEAN /\ no = FALSE
  OBVIOUS
<1>3. Rows = {}
  BY <1>1 DEF Rows
<1>4. roles \in [Readership -> {"admin", "user", "gone"}]
  BY <1>1
<1>5. EventSeq(Watcher) = z
  <2>1. Unread(Watcher) = {}
    BY <1>3 DEF Unread, Visible
  <2>2. Unheard(Watcher) = {}
    BY <2>1 DEF Unheard
  <2> QED BY <2>2, FS_EmptySet DEF EventSeq
<1> HIDE DEF z, one, no
<1>6. bell \in Bells /\ bell.seq = z /\ bell.fresh = no /\ bell.missed = no
  BY <1>1, <1>2 DEF Bells
<1>7. BellFits
  <2>1. z <= z
    BY <1>2
  <2> QED BY <1>2, <1>5, <1>6, <2>1 DEF BellFits
<1>8. InboxTypes
  BY <1>1, <1>2, <1>3, <1>4, <1>6, NoIncidentFits DEF InboxTypes
<1>9. ReadIsSeen /\ NoOrphans /\ KeysFit /\ IncidentFits
  BY <1>1, <1>3 DEF ReadIsSeen, NoOrphans, KeysFit, IncidentFits
<1> QED BY <1>7, <1>8, <1>9, SMTT(60) DEF InboxInv

LEMMA InboxInvKept == ASSUME InboxInv PROVE InboxKept
<1>1. BellRings
  BY DEF InboxInv, BellFits, BellRings
<1>2. handoff # NoIncident => KeyRows(<<"recovered", handoff.id>>) = {}
  <2> SUFFICES ASSUME handoff # NoIncident, NEW n \in KeyRows(<<"recovered", handoff.id>>) PROVE FALSE
    OBVIOUS
  <2>1. n \in Rows /\ notices[n].key = <<"recovered", handoff.id>>
    BY DEF KeyRows
  <2>2. notices[n].key[1] = "recovered" /\ notices[n].key[2] = handoff.id
    BY <2>1
  <2> QED BY <2>1, <2>2 DEF InboxInv, IncidentFits
<1>3. IncidentsAreOnce
  BY <1>2 DEF InboxInv, IncidentFits, KeysFit, IncidentsAreOnce
<1> QED BY <1>1, <1>3 DEF InboxInv, InboxKept

(* Whoever reads, hides, comes or goes, and whatever is counted or deleted *)
(* between, what is marked read was seen, the bell rings for what is new,  *)
(* an incident opens and recovers once, and no mark or key is left over.   *)
THEOREM InboxIsKept == InboxSpec => []InboxKept
<1>1. InboxInit => InboxInv
  BY InboxInvInit
<1>2. InboxInv /\ [InboxNext]_inboxVars => InboxInv'
  BY InboxNextKeeps, StillInbox
<1>3. InboxInv => InboxKept
  BY InboxInvKept
<1> QED BY <1>1, <1>2, <1>3, PTL DEF InboxSpec
=============================================================================
