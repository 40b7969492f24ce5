------------------------------ MODULE RateLimit ------------------------------
(***************************************************************************)
(* The sliding window of requests per client (app/utils/rate_limit.py), as *)
(* the login uses it: the limit is read from the settings at every         *)
(* request, the history is kept when it changes, and the table of clients  *)
(* has a size.  A hit is one section under the window's lock.              *)
(***************************************************************************)
EXTENDS Integers, Sequences, FiniteSets

CONSTANTS
    Clients,
    Limits,          \* records: count and window, what the setting may be
    MaxKeys,         \* clients in the table
    SweepInterval,   \* _SWEEP_INTERVAL
    LastMoment       \* bound on the time

ASSUME RateLimitAssumption ==
    /\ \A l \in Limits : l.count \in Nat \ {0} /\ l.window \in Nat \ {0}
    /\ MaxKeys \in Nat \ {0} /\ SweepInterval \in Nat \ {0} /\ LastMoment \in Nat

VARIABLES
    moment,
    limit,        \* the stored setting
    hits,         \* _hits: times of admitted requests, for the clients of the table
    lastSweep,
    admitted,     \* history: every admission of a client under this setting
    told,         \* history: until when a client was told to wait, 0 if not
    since         \* history: when the setting was stored

rateVars == <<moment, limit, hits, lastSweep, admitted, told, since>>

Tracked == DOMAIN hits

RateInit ==
    /\ moment = 1 /\ limit \in Limits /\ since = 1
    /\ hits = <<>> /\ lastSweep = 1 - SweepInterval
    /\ admitted = [c \in Clients |-> <<>>] /\ told = [c \in Clients |-> 0]

---------------------------------------------------------------------------
Expired(stamp) == stamp <= moment - limit.window

(* The clients whose newest request has expired; never an active one.      *)
Idling == {c \in Tracked : hits[c] = <<>> \/ Expired(hits[c][Len(hits[c])])}

(* _sweep, for a new client at a full table and not too often.             *)
Sweeps(c) == c \notin Tracked /\ Cardinality(Tracked) >= MaxKeys /\ moment - lastSweep >= SweepInterval

Remaining(c) == IF Sweeps(c) THEN Tracked \ Idling ELSE Tracked

NoRoom(c) == c \notin Tracked /\ Cardinality(Remaining(c)) >= MaxKeys

(* From the oldest on, as many as have expired.                            *)
Expiring(stamps) ==
    CHOOSE n \in 0 .. Len(stamps) :
       (\A i \in 1 .. n : Expired(stamps[i])) /\ (n < Len(stamps) => ~Expired(stamps[n + 1]))

History(c) == IF c \in Tracked THEN hits[c] ELSE <<>>
Counting(c) == SubSeq(History(c), Expiring(History(c)) + 1, Len(History(c)))

Kept(c, stamps) == [d \in Remaining(c) \union {c} |-> IF d = c THEN stamps ELSE hits[d]]

(* Seconds until enough of the admitted requests have left the window.     *)
Wait(stamps) == stamps[Len(stamps) - limit.count + 1] + limit.window - moment

Sweeping(c) == lastSweep' = IF Sweeps(c) THEN moment ELSE lastSweep

Admit(c) ==
    /\ ~NoRoom(c) /\ Len(Counting(c)) < limit.count
    /\ hits' = Kept(c, Append(Counting(c), moment))
    /\ admitted' = [admitted EXCEPT ![c] = Append(@, moment)] /\ told' = [told EXCEPT ![c] = 0]
    /\ Sweeping(c) /\ UNCHANGED <<moment, limit, since>>

RejectHit(c) ==
    /\ ~NoRoom(c) /\ Len(Counting(c)) >= limit.count
    /\ hits' = Kept(c, Counting(c))
    /\ told' = [told EXCEPT ![c] = moment + Wait(Counting(c))]
    /\ Sweeping(c) /\ UNCHANGED <<moment, limit, admitted, since>>

(* CapacityExhaustedError                                                  *)
TurnAway(c) ==
    /\ NoRoom(c)
    /\ hits' = [d \in Remaining(c) |-> hits[d]]
    /\ Sweeping(c) /\ UNCHANGED <<moment, limit, admitted, told, since>>

(* An admin stores another limit.                                          *)
ChangeLimit ==
    /\ limit' \in Limits \ {limit} /\ since' = moment
    /\ admitted' = [c \in Clients |-> <<>>] /\ told' = [c \in Clients |-> 0]
    /\ UNCHANGED <<moment, hits, lastSweep>>

Pass ==
    /\ moment < LastMoment /\ moment' = moment + 1
    /\ UNCHANGED <<limit, hits, lastSweep, admitted, told, since>>

RateNext ==
    \/ \E c \in Clients : Admit(c) \/ RejectHit(c) \/ TurnAway(c)
    \/ ChangeLimit \/ Pass

RateSpec == RateInit /\ [][RateNext]_rateVars

---------------------------------------------------------------------------
(* Under one setting no window has more admitted requests than the limit,  *)
(* though clients are dropped from the table.  (A shorter window in        *)
(* between forgets what the longer one would still count.)                 *)
BudgetKept ==
    \A c \in Clients : \A i \in DOMAIN admitted[c] :
       i > limit.count => admitted[c][i] - admitted[c][i - limit.count] >= limit.window

(* Who waits as long as it was told is admitted if there is room, and      *)
(* nobody is before that.                                                  *)
WaitIsTrue ==
    \A c \in Clients : told[c] # 0 =>
       IF moment < told[c] THEN Len(Counting(c)) >= limit.count
       ELSE Len(Counting(c)) < limit.count

(* A full table has only clients of the last window and sweep interval.    *)
FullOfActive ==
    \A c \in Clients : NoRoom(c) /\ since <= lastSweep - limit.window =>
       \A d \in Remaining(c) : hits[d][Len(hits[d])] > moment - limit.window - SweepInterval

RateKept == BudgetKept /\ WaitIsTrue /\ FullOfActive
=============================================================================
