------------------------------ MODULE GeoOnline ------------------------------
(***************************************************************************)
(* What an online provider is asked about an address                       *)
(* (app/services/ip_lookup.py): a cache with an expiry and a size, one     *)
(* request per address at a time whose answer the others wait for, and a   *)
(* pause after a failure or a 429.  One provider with one key; a caller is *)
(* a worker of the pool.  Time is counted in pauses.                       *)
(***************************************************************************)
EXTENDS Integers, Sequences, FiniteSets, FiniteSetsExt, SequencesExt

CONSTANTS
    Askers, Addresses,
    Timeout,                   \* _TIMEOUT_SECONDS: a request has ended by then
    Ttl, NegativeTtl,          \* of an answer, and of one without content
    BackoffFirst, BackoffTop,  \* _BACKOFF_BASE, _BACKOFF_MAX
    Pauses,                    \* what a 429 may say, _RETRY_AFTER_DEFAULT included
    CacheSize,
    LastSecond, MaxAsked       \* bounds on the time and on requests

ASSUME GeoOnlineAssumption ==
    /\ Timeout \in Nat \ {0} /\ NegativeTtl \in Nat /\ Ttl \in Nat
    /\ Timeout < NegativeTtl /\ NegativeTtl <= Ttl
    /\ BackoffFirst \in Nat \ {0} /\ BackoffTop \in Nat /\ Pauses \subseteq Nat
    /\ CacheSize \in Nat \ {0} /\ LastSecond \in Nat /\ MaxAsked \in Nat

VARIABLES
    second,
    answers,     \* _cache, the least recently used first: address, expiry, found, when it was asked
    inflight,    \* _inflight: addresses with a leader
    breaker,     \* _breaker: blocked until, failures
    askers,
    asked,       \* requests that were sent
    paused       \* history: until when the provider has told us to wait; 0 after any other outcome

onlineVars == <<second, answers, inflight, breaker, askers, asked, paused>>

(* now is the time of the call; told is the history of what the provider   *)
(* had said when the caller looked whether it may be asked.                *)
NoAsk == [pc |-> "idle", ip |-> 0, now |-> 0, told |-> 0, result |-> <<>>]
NoBreaker == [until |-> 0, failures |-> 0]

OnlineInit ==
    /\ second = 0 /\ answers = <<>> /\ inflight = {} /\ breaker = NoBreaker
    /\ askers = [c \in Askers |-> NoAsk]
    /\ asked = 0 /\ paused = 0

Entries(ip) == {i \in DOMAIN answers : answers[i].ip = ip}
PlaceOf(ip) == CHOOSE i \in Entries(ip) : TRUE
TheEntry(ip) == answers[PlaceOf(ip)]
EntriesBut(ip) == IF Entries(ip) = {} THEN answers ELSE RemoveAt(answers, PlaceOf(ip))

Reply(c, result) == [askers EXCEPT ![c].pc = "done", ![c].result = result]

---------------------------------------------------------------------------
(* _source_lookup                                                          *)

(* An entry that is still good; or wait for the leader, or lead.           *)
Call(c, ip) ==
    /\ askers[c].pc = "idle"
    /\ LET call == [NoAsk EXCEPT !.ip = ip, !.now = second]
           good == Entries(ip) # {} /\ TheEntry(ip).expiry > second IN
       IF good
       THEN /\ answers' = Append(EntriesBut(ip), TheEntry(ip))
            /\ askers' = [askers EXCEPT ![c] = [call EXCEPT !.pc = "done", !.result = <<TheEntry(ip)>>]]
            /\ UNCHANGED inflight
       ELSE /\ answers' = EntriesBut(ip)
            /\ askers' = [askers EXCEPT ![c] = [call EXCEPT !.pc = IF ip \in inflight THEN "waiting" ELSE "leading"]]
            /\ inflight' = inflight \union {ip}
    /\ UNCHANGED <<second, breaker, asked, paused>>

(* The leader has set its event, or the wait is over: what the cache has   *)
(* now, whatever its expiry.                                               *)
ReadAfterWait(c) ==
    /\ askers[c].pc = "woken" \/ (askers[c].pc = "waiting" /\ askers[c].now < second)
    /\ askers' = Reply(c, IF Entries(askers[c].ip) = {} THEN <<>> ELSE <<TheEntry(askers[c].ip)>>)
    /\ UNCHANGED <<second, answers, inflight, breaker, asked, paused>>

(* The finally clause: no longer in flight, everyone who waits is woken.   *)
Left(c, result) ==
    [d \in Askers |->
       IF d = c THEN [askers[c] EXCEPT !.pc = "done", !.result = result]
       ELSE IF askers[d].pc = "waiting" /\ askers[d].ip = askers[c].ip THEN [askers[d] EXCEPT !.pc = "woken"]
       ELSE askers[d]]

Leave(c, result) == askers' = Left(c, result) /\ inflight' = inflight \ {askers[c].ip}

(* _blocked                                                                *)
Blocked(now) == breaker.until > now

(* Looked up with the time of the call; the lock is given back before the  *)
(* request is sent.                                                        *)
PassBreaker(c) ==
    /\ askers[c].pc = "leading"
    /\ IF Blocked(askers[c].now)
       THEN Leave(c, <<>>)
       ELSE /\ askers' = [askers EXCEPT ![c].pc = "cleared", ![c].told = paused]
            /\ UNCHANGED inflight
    /\ UNCHANGED <<second, answers, breaker, asked, paused>>

SendRequest(c) ==
    /\ askers[c].pc = "cleared"
    /\ asked < MaxAsked /\ asked' = asked + 1
    /\ askers' = [askers EXCEPT ![c].pc = "asking"]
    /\ UNCHANGED <<second, answers, inflight, breaker, paused>>

Asking(c) == askers[c].pc = "asking"

(* _record_outcome of a 429, of another failure, and of an answer: what    *)
(* comes in counts from the time of the call.                              *)
Throttled(c, pause) ==
    /\ Asking(c)
    /\ breaker' = [breaker EXCEPT !.until = askers[c].now + pause]
    /\ paused' = second + pause /\ Leave(c, <<>>)
    /\ UNCHANGED <<second, answers, asked>>

BackoffOf(failures) == Min({BackoffFirst * 2 ^ (failures - 1), BackoffTop})

NoAnswer(c) ==
    /\ Asking(c)
    /\ LET failures == breaker.failures + 1 IN
       breaker' = [until |-> askers[c].now + BackoffOf(failures), failures |-> failures]
    /\ paused' = 0 /\ Leave(c, <<>>)
    /\ UNCHANGED <<second, answers, asked>>

AskAnswered(c, found) ==
    /\ Asking(c)
    /\ breaker' = NoBreaker /\ paused' = 0
    /\ askers' = [askers EXCEPT ![c].pc = "storing", ![c].result =
         <<[ip |-> askers[c].ip, found |-> found, asked |-> askers[c].now,
            expiry |-> askers[c].now + IF found THEN Ttl ELSE NegativeTtl]>>]
    /\ UNCHANGED <<second, answers, inflight, asked>>

(* As the newest, the oldest have to go.                                   *)
Stored(entry) ==
    LET all == Append(EntriesBut(entry.ip), entry) IN
    SubSeq(all, Len(all) - Min({CacheSize, Len(all)}) + 1, Len(all))

Store(c) ==
    /\ askers[c].pc = "storing"
    /\ answers' = Stored(askers[c].result[1]) /\ Leave(c, askers[c].result)
    /\ UNCHANGED <<second, breaker, asked, paused>>

EndCall(c) ==
    /\ askers[c].pc = "done" /\ askers' = [askers EXCEPT ![c] = NoAsk]
    /\ UNCHANGED <<second, answers, inflight, breaker, asked, paused>>

Leading(c) == askers[c].pc \in {"leading", "cleared", "asking", "storing"}

(* A leader does not take longer than its request may.                     *)
Elapse ==
    /\ second < LastSecond /\ second' = second + 1
    /\ \A c \in Askers : Leading(c) => second < askers[c].now + Timeout
    /\ UNCHANGED <<answers, inflight, breaker, askers, asked, paused>>

OnlineNext ==
    \/ \E c \in Askers :
          \/ \E ip \in Addresses : Call(c, ip)
          \/ ReadAfterWait(c) \/ PassBreaker(c) \/ SendRequest(c) \/ NoAnswer(c) \/ Store(c) \/ EndCall(c)
          \/ \E pause \in Pauses : Throttled(c, pause)
          \/ \E found \in BOOLEAN : AskAnswered(c, found)
    \/ Elapse

OnlineSpec == OnlineInit /\ [][OnlineNext]_onlineVars

---------------------------------------------------------------------------
(* An address in flight has exactly one leader, so that it is asked once   *)
(* and everyone who waits is woken.                                        *)
OneLeader ==
    /\ \A ip \in inflight : Cardinality({c \in Askers : Leading(c) /\ askers[c].ip = ip}) = 1
    /\ \A c \in Askers : Leading(c) \/ askers[c].pc = "waiting" => askers[c].ip \in inflight

(* Once the provider has said how long, who looks whether it may be asked  *)
(* was called when that time was over, but for what a request may take,    *)
(* unless another outcome came in since.  Who had looked before may still  *)
(* send.                                                                   *)
PausesAreKept == \A c \in Askers : askers[c].told <= askers[c].now + Timeout

(* Who called gets an answer about that address which was good when they   *)
(* called, or one that was asked for while they waited.                    *)
AnswersAreGood ==
    \A c \in Askers : askers[c].pc = "done" /\ askers[c].result # <<>> =>
       LET e == askers[c].result[1] IN
       e.ip = askers[c].ip /\ (e.expiry > askers[c].now \/ e.asked >= askers[c].now)

(* Nothing is held twice, nor more than fits.                              *)
AnswersAreBounded == Len(answers) <= CacheSize /\ \A ip \in Addresses : Cardinality(Entries(ip)) <= 1

OnlineKept == OneLeader /\ PausesAreKept /\ AnswersAreGood /\ AnswersAreBounded
=============================================================================
