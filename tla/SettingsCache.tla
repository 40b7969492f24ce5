---------------------------- MODULE SettingsCache ----------------------------
(***************************************************************************)
(* Settings and the two caches in front of them: settings_cache.py, for    *)
(* requests, and runtime_settings.py, for code without a connection.  Both *)
(* are dropped after the commit of a write, by callbacks of the managed    *)
(* transaction (app/db/sqlite/connection.py), which nests by savepoints.   *)
(* A value is the number of the write that stored it.                      *)
(***************************************************************************)
EXTENDS Integers, Sequences, SequencesExt

CONSTANTS
    Keys,         \* keys of settings
    Writers,      \* connections that write
    Readers,      \* threads that read
    CacheMost,    \* CACHE_MAX_SIZE
    MaxWrites,    \* bound on writes
    MaxTx         \* bound on transactions

ASSUME SettingsAssumption == CacheMost \in Nat \ {0} /\ MaxWrites \in Nat /\ MaxTx \in Nat

VARIABLES
    stored,       \* table settings: the number of the last committed write of a key
    tx,           \* the transaction of a connection and its callbacks
    cache,        \* _cache of settings_cache, in the order of insertion
    uncacheable,  \* _uncacheable
    generation,   \* _generation of settings_cache
    runtime,      \* _cache of runtime_settings; 0 is no entry
    lastGood,     \* _last_good; 0 is no entry
    runtimeGeneration,
    lookups,      \* the reads under way
    settled,      \* history: the last write that settings_cache was told of
    settledRuntime, \* history: the last write that runtime_settings was told of
    writes,       \* writes so far
    begun         \* transactions so far

settingsVars == <<stored, tx, cache, uncacheable, generation, runtime, lastGood,
                  runtimeGeneration, lookups, settled, settledRuntime, writes, begun>>

Clean == [k \in Keys |-> 0]
NoTx == [kind |-> "none", wrote |-> Clean, calls |-> <<>>, patch |-> <<>>, saved |-> <<>>, half |-> FALSE]
NoLookup == [pc |-> "idle", key |-> CHOOSE k \in Keys : TRUE, of |-> "none", gen |-> 0, value |-> 0]

SettingsInit ==
    /\ stored = [k \in Keys |-> 1]
    /\ tx = [c \in Writers |-> NoTx]
    /\ cache = <<>> /\ uncacheable = {} /\ generation = 0
    /\ runtime = Clean /\ lastGood = Clean /\ runtimeGeneration = 0
    /\ lookups = [r \in Readers |-> NoLookup]
    /\ settled = stored /\ settledRuntime = stored /\ writes = 1 /\ begun = 0

cacheVars == <<cache, uncacheable, generation, runtime, lastGood, runtimeGeneration, settled,
               settledRuntime>>

---------------------------------------------------------------------------
(* transaction() and set_setting                                           *)

(* The outermost transaction; update_settings names the keys it will drop  *)
(* from the caches once more, whether it commits or not.                   *)
BeginTx(c, patch) ==
    /\ tx[c] = NoTx /\ begun < MaxTx
    /\ begun' = begun + 1
    /\ tx' = [tx EXCEPT ![c].kind = "own", ![c].patch = patch]
    /\ UNCHANGED <<stored, cacheVars, lookups, writes>>

(* SQLite has one writer: the first write of a transaction waits for it.   *)
MayWrite(c) == writes < MaxWrites /\ \A d \in Writers \ {c} : tx[d].wrote = Clean

(* Also delete_setting.  The callback waits for the outermost commit.      *)
SetSetting(c, k) ==
    /\ tx[c].kind = "own" /\ MayWrite(c)
    /\ tx[c].patch # <<>> => Contains(tx[c].patch, k)
    /\ writes' = writes + 1
    /\ tx' = [tx EXCEPT ![c].wrote[k] = writes + 1, ![c].calls = Append(@, k)]
    /\ UNCHANGED <<stored, cacheVars, lookups, begun>>

(* The entry of a key goes; it has one, with one default and one ttl here. *)
Drop(k) ==
    IF \E i \in DOMAIN cache : cache[i].key = k
    THEN RemoveAt(cache, CHOOSE i \in DOMAIN cache : cache[i].key = k)
    ELSE cache

(* In a transaction that somebody else opened and will commit unobserved   *)
(* the key is never cached again; runtime_settings is not told.            *)
SetSettingForeign(c, k) ==
    /\ tx[c].kind \in {"none", "foreign"} /\ MayWrite(c)
    /\ writes' = writes + 1
    /\ tx' = [tx EXCEPT ![c].kind = "foreign", ![c].wrote[k] = writes + 1]
    /\ uncacheable' = uncacheable \union {k}
    /\ generation' = generation + 1
    /\ cache' = Drop(k)
    /\ UNCHANGED <<stored, runtime, lastGood, runtimeGeneration, lookups, settled, settledRuntime,
                   begun>>

OpenSavepoint(c) ==
    /\ tx[c].kind \in {"own", "foreign"} /\ tx[c].patch = <<>> /\ tx[c].saved = <<>>
    /\ tx' = [tx EXCEPT ![c].saved = Append(@, [wrote |-> tx[c].wrote, mark |-> Len(tx[c].calls)])]
    /\ UNCHANGED <<stored, cacheVars, lookups, writes, begun>>

(* del state.after_commit[mark:]                                           *)
CallsKept(calls, mark) == SubSeq(calls, 1, mark)

RollbackSavepoint(c) ==
    /\ tx[c].saved # <<>>
    /\ tx' = [tx EXCEPT ![c].wrote = Last(tx[c].saved).wrote,
                        ![c].calls = CallsKept(@, Last(tx[c].saved).mark),
                        ![c].saved = Front(@)]
    /\ UNCHANGED <<stored, cacheVars, lookups, writes, begun>>

ReleaseSavepoint(c) ==
    /\ tx[c].saved # <<>>
    /\ tx' = [tx EXCEPT ![c].saved = Front(@)]
    /\ UNCHANGED <<stored, cacheVars, lookups, writes, begun>>

Committed(c) == [k \in Keys |-> IF tx[c].wrote[k] = 0 THEN stored[k] ELSE tx[c].wrote[k]]

CommitTx(c) ==
    /\ tx[c].kind = "own" /\ tx[c].saved = <<>>
    /\ stored' = Committed(c)
    /\ tx' = [tx EXCEPT ![c] = [NoTx EXCEPT !.kind = "told", !.calls = tx[c].calls \o tx[c].patch]]
    /\ UNCHANGED <<cacheVars, lookups, writes, begun>>

(* Its readers are safe from now on: its keys are not cached.              *)
CommitForeign(c) ==
    /\ tx[c].kind = "foreign" /\ tx[c].saved = <<>>
    /\ stored' = Committed(c)
    /\ settled' = [k \in Keys |-> IF tx[c].wrote[k] = 0 THEN settled[k] ELSE tx[c].wrote[k]]
    /\ tx' = [tx EXCEPT ![c] = NoTx]
    /\ UNCHANGED <<cache, uncacheable, generation, runtime, lastGood, runtimeGeneration,
                   settledRuntime, lookups, writes, begun>>

RollbackTx(c) ==
    /\ tx[c].kind \in {"own", "foreign"}
    /\ tx' = [tx EXCEPT ![c] = [NoTx EXCEPT !.kind = "told", !.calls = tx[c].patch]]
    /\ UNCHANGED <<stored, cacheVars, lookups, writes, begun>>

---------------------------------------------------------------------------
(* The callbacks: invalidate_settings_cache of one key after the other     *)

ClearRuntime(c) ==
    /\ tx[c].kind = "told" /\ tx[c].calls # <<>> /\ ~tx[c].half
    /\ runtimeGeneration' = runtimeGeneration + 1
    /\ runtime' = Clean /\ lastGood' = Clean
    /\ tx' = [tx EXCEPT ![c].half = TRUE]
    /\ settledRuntime' = [settledRuntime EXCEPT ![Head(tx[c].calls)] = stored[Head(tx[c].calls)]]
    /\ UNCHANGED <<stored, cache, uncacheable, generation, lookups, settled, writes, begun>>

InvalidateSettingsCache(c) ==
    /\ tx[c].half
    /\ generation' = generation + 1
    /\ cache' = Drop(Head(tx[c].calls))
    /\ settled' = [settled EXCEPT ![Head(tx[c].calls)] = stored[Head(tx[c].calls)]]
    /\ tx' = [tx EXCEPT ![c].half = FALSE, ![c].calls = Tail(@)]
    /\ UNCHANGED <<stored, uncacheable, runtime, lastGood, runtimeGeneration, lookups,
                   settledRuntime, writes, begun>>

EndTx(c) ==
    /\ tx[c].kind = "told" /\ tx[c].calls = <<>>
    /\ tx' = [tx EXCEPT ![c] = NoTx]
    /\ UNCHANGED <<stored, cacheVars, lookups, writes, begun>>

---------------------------------------------------------------------------
(* get_setting_cached and _lookup: an entry may have expired whenever one  *)
(* is looked up, so a read may be a miss; a hit changes nothing.           *)
Miss(r, k, of) ==
    /\ lookups[r] = NoLookup
    /\ lookups' = [lookups EXCEPT ![r] = [pc |-> "fetch", key |-> k, of |-> of, value |-> 0,
         gen |-> IF of = "request" THEN generation ELSE runtimeGeneration]]
    /\ UNCHANGED <<stored, tx, cacheVars, writes, begun>>

(* Outside the lock, on a connection of its own.                           *)
Fetch(r) ==
    /\ lookups[r].pc = "fetch"
    /\ lookups' = [lookups EXCEPT ![r].pc = "publish", ![r].value = stored[lookups[r].key]]
    /\ UNCHANGED <<stored, tx, cacheVars, writes, begun>>

(* The store cannot be read: nothing is published, and a privacy switch    *)
(* is taken from lastGood, or is off.                                      *)
Unreadable(r) ==
    /\ lookups[r].pc = "fetch"
    /\ lookups' = [lookups EXCEPT ![r] = NoLookup]
    /\ UNCHANGED <<stored, tx, cacheVars, writes, begun>>

(* _evict_oldest: a quarter of the entries, at least one.                  *)
EvictOldest(entries) ==
    LET quarter == Len(entries) \div 4 IN
    SubSeq(entries, (IF quarter > 1 THEN quarter ELSE 1) + 1, Len(entries))

Entered(entries, e) ==
    IF \E i \in DOMAIN entries : entries[i].key = e.key
    THEN [i \in DOMAIN entries |-> IF entries[i].key = e.key THEN e ELSE entries[i]]
    ELSE Append(entries, e)

PublishRequest(r) ==
    LET k == lookups[r].key  e == [key |-> k, value |-> lookups[r].value] IN
    /\ lookups[r].pc = "publish" /\ lookups[r].of = "request"
    /\ cache' = IF lookups[r].gen = generation /\ k \notin uncacheable
                THEN Entered(IF Len(cache) >= CacheMost THEN EvictOldest(cache) ELSE cache, e)
                ELSE cache
    /\ lookups' = [lookups EXCEPT ![r] = NoLookup]
    /\ UNCHANGED <<stored, tx, uncacheable, generation, runtime, lastGood, runtimeGeneration,
                   settled, settledRuntime, writes, begun>>

PublishRuntime(r) ==
    LET k == lookups[r].key IN
    /\ lookups[r].pc = "publish" /\ lookups[r].of = "runtime"
    /\ IF lookups[r].gen = runtimeGeneration
       THEN /\ runtime' = [runtime EXCEPT ![k] = lookups[r].value]
            /\ lastGood' = [lastGood EXCEPT ![k] = lookups[r].value]
       ELSE UNCHANGED <<runtime, lastGood>>
    /\ lookups' = [lookups EXCEPT ![r] = NoLookup]
    /\ UNCHANGED <<stored, tx, cache, uncacheable, generation, runtimeGeneration, settled,
                   settledRuntime, writes, begun>>

---------------------------------------------------------------------------
SettingsNext ==
    \/ \E c \in Writers :
         \/ BeginTx(c, <<>>) \/ \E k \in Keys : BeginTx(c, <<k>>)
         \/ \E k \in Keys : SetSetting(c, k) \/ SetSettingForeign(c, k)
         \/ OpenSavepoint(c) \/ RollbackSavepoint(c) \/ ReleaseSavepoint(c)
         \/ CommitTx(c) \/ CommitForeign(c) \/ RollbackTx(c)
         \/ ClearRuntime(c) \/ InvalidateSettingsCache(c) \/ EndTx(c)
    \/ \E r \in Readers :
         \/ \E k \in Keys, of \in {"request", "runtime"} : Miss(r, k, of)
         \/ Fetch(r) \/ Unreadable(r) \/ PublishRequest(r) \/ PublishRuntime(r)

SettingsSpec == SettingsInit /\ [][SettingsNext]_settingsVars

---------------------------------------------------------------------------
(* Once a write has told the caches no entry is older than the write, not  *)
(* even one whose value was read before the commit and arrives after it.   *)
EntriesAreCurrent ==
    /\ \A i \in DOMAIN cache : cache[i].value >= settled[cache[i].key]
    /\ \A k \in Keys : runtime[k] = 0 \/ runtime[k] >= settledRuntime[k]

(* The value a privacy switch falls back to when the store cannot be read  *)
(* is never one that a write of this process has replaced.                 *)
OptOutIsKept == \A k \in Keys : lastGood[k] = 0 \/ lastGood[k] >= settledRuntime[k]

(* Every committed write of a key has told the caches of it or is about    *)
(* to, whatever inner blocks of its transaction failed.                    *)
WritesAreTold ==
    \A k \in Keys :
        settled[k] < stored[k] => \E c \in Writers : tx[c].kind = "told" /\ Contains(tx[c].calls, k)

(* The cache keeps its size and no entry of a key that bypasses it.        *)
CacheIsBounded ==
    /\ Len(cache) <= CacheMost
    /\ \A i \in DOMAIN cache : cache[i].key \notin uncacheable

SettingsKept == EntriesAreCurrent /\ OptOutIsKept /\ WritesAreTold /\ CacheIsBounded
=============================================================================
