-------------------------------- MODULE Probes --------------------------------
(***************************************************************************)
(* One measurement of a target (app/monitor/scheduler.py, _run_target) and *)
(* the probes it is made of (app/monitor/checks.py).  A probe looks its    *)
(* host up several times, and every lookup may answer differently; it      *)
(* connects to the addresses it has checked, never to the name.  The       *)
(* addresses of a site are tried in order, HEAD before GET; a measurement  *)
(* is repeated when a probe of it timed out.                               *)
(***************************************************************************)
EXTENDS Integers, Sequences, FiniteSets, SequencesExt

CONSTANTS
    Addresses,
    Blocked,        \* loopback, link-local, metadata
    NoAddress,      \* no answer; a host that is a name
    Retries,        \* max_retries of the target
    NegativeTtl     \* dns_neg_ttl_seconds

ASSUME ProbesAssumption ==
    /\ Blocked \subseteq Addresses /\ NoAddress \notin Addresses
    /\ Retries \in Nat /\ NegativeTtl \in Nat \ {0}

VARIABLES
    setup,      \* the settings: services, what the host is, are errors of certificates
                \* ignored, has the target success codes of its own
    measure,    \* the measurement: attempt, probes still to do, where it is
    readings,   \* the snapshot, with the attempt each reading is of
    probe,      \* the probe under way
    negative,   \* _DNS_NEG_CACHE for the host: time left
    timeouts    \* history: attempts in which a probe timed out

probeVars == <<setup, measure, readings, probe, negative, timeouts>>

Measurable == {"ping", "http", "tcp"}
NoReading == [up |-> FALSE, of |-> 0]
NoProbe == [stage |-> "idle", candidates |-> <<>>, answers |-> <<>>, resp |-> "none"]
NoCertificate == [days |-> "none", trusted |-> FALSE]

(* The order of the probes; there are two ports.                           *)
Of(service) == IF service \in setup.services THEN <<service>> ELSE <<>>
ToProbe == Of("ping") \o Of("http") \o Of("cert") \o Of("tcp") \o Of("tcp")

ProbesInit ==
    /\ setup \in [services : SUBSET (Measurable \union {"cert"}), host : Addresses \union {NoAddress},
                  ignore : BOOLEAN, custom : BOOLEAN]
    /\ measure = [attempt |-> 1, todo |-> ToProbe, pc |-> "probing"]
    /\ readings = [s \in Measurable \union {"cert"} |-> IF s = "cert" THEN NoCertificate ELSE NoReading]
    /\ probe = NoProbe /\ negative = 0 /\ timeouts = {}

---------------------------------------------------------------------------
Kind == Head(measure.todo)
Named == setup.host = NoAddress

(* What getaddrinfo says of the host, at this moment.                      *)
Listings ==
    IF Named THEN {listing \in UNION {[1 .. n -> Addresses] : n \in 0 .. 2} : IsInjective(listing)}
    ELSE {<<setup.host>>}

(* _is_host_blocked and resolve_validated: no answer counts as blocked.    *)
Passes(listing) == listing # <<>> /\ ToSet(listing) \intersect Blocked = {}

Unmoved == UNCHANGED <<setup, measure, readings, timeouts>>

Probing(stage) == measure.pc = "probing" /\ measure.todo # <<>> /\ probe.stage = stage

(* A reading of a service; of several ports all have to be open.           *)
Reading(ok) ==
    IF Kind = "tcp" /\ Len(measure.todo) = 1
    THEN [up |-> ok /\ readings["tcp"].up, of |-> measure.attempt]
    ELSE [up |-> ok, of |-> measure.attempt]

Finish(ok, timeout) ==
    /\ readings' = IF Kind = "cert" THEN readings ELSE [readings EXCEPT ![Kind] = Reading(ok)]
    /\ timeouts' = IF timeout /\ Kind # "cert" THEN timeouts \union {measure.attempt} ELSE timeouts
    /\ measure' = [measure EXCEPT !.todo = Tail(@)]
    /\ probe' = NoProbe

(* The days that are left; "none" when the certificate could not be read.  *)
FinishCertificate(days, trusted) ==
    /\ readings' = [readings EXCEPT !["cert"] = [days |-> days, trusted |-> trusted]]
    /\ measure' = [measure EXCEPT !.todo = Tail(@)]
    /\ probe' = NoProbe /\ UNCHANGED timeouts

FinishBlocked ==
    IF Kind = "cert" THEN FinishCertificate("none", FALSE) ELSE Finish(FALSE, FALSE)

---------------------------------------------------------------------------
(* _validate_url, or the head of _resolve_probe_target.                    *)
CheckHost ==
    /\ Probing("idle") /\ UNCHANGED <<setup, negative>>
    /\ \E listing \in Listings :
         IF ~Passes(listing) THEN FinishBlocked
         ELSE /\ probe' = IF Named \/ Kind = "http" THEN [probe EXCEPT !.stage = "asking"]
                          ELSE [probe EXCEPT !.stage = "connecting", !.candidates = <<setup.host>>]
              /\ UNCHANGED <<measure, readings, timeouts>>

(* _resolve_host_via_public_dns_first_answer: an answer clears the entry,  *)
(* none keeps everybody from asking for a while.                           *)
Answered(answer) ==
    IF answer \in Blocked THEN FinishBlocked /\ UNCHANGED setup
    ELSE /\ probe' = IF answer = NoAddress THEN [probe EXCEPT !.stage = "pinning"]
                     ELSE [probe EXCEPT !.stage = IF Kind = "http" THEN "pinning" ELSE "connecting",
                                        !.candidates = <<answer>>]
         /\ Unmoved

AskPublic ==
    /\ Probing("asking")
    /\ \E answer \in IF Named /\ negative = 0 THEN Addresses \union {NoAddress} ELSE {NoAddress} :
         /\ Answered(answer)
         /\ negative' = IF answer # NoAddress THEN 0
                        ELSE IF negative = 0 THEN NegativeTtl ELSE negative

(* What the host resolves to, but for the address that was answered.       *)
Others(listing) ==
    IF probe.candidates # <<>> /\ probe.candidates[1] \in ToSet(listing)
    THEN RemoveAt(listing, CHOOSE i \in DOMAIN listing : listing[i] = probe.candidates[1])
    ELSE listing

(* resolve_validated: the addresses of a site, or the first one.           *)
Pin ==
    /\ Probing("pinning") /\ UNCHANGED <<setup, negative>>
    /\ \E listing \in Listings :
         IF ~Passes(listing) THEN FinishBlocked
         ELSE /\ probe' = [probe EXCEPT
                   !.stage = "connecting",
                   !.candidates = IF Kind = "http" THEN @ \o Others(listing) ELSE <<listing[1]>>]
              /\ UNCHANGED <<measure, readings, timeouts>>

---------------------------------------------------------------------------
(* What a site answers: a status below 400 that counts as a success or     *)
(* does not, a status from 400 that counts as one or does not, a redirect  *)
(* to where no probe may go, nothing.  With the default codes, 200-399, a  *)
(* status counts exactly if it is below 400.  A GET that fails after a     *)
(* refused HEAD leaves the status of the HEAD.                             *)
Statuses == {"good", "unwanted", "wanted", "error", "astray"}
Answers == (Statuses \union {"silent", "refused"}) \ (IF setup.custom THEN {} ELSE {"unwanted", "wanted"})
Tried == probe.answers
NextAddress == probe.candidates[Len(Tried) + 1]
LastOne == Len(Tried) + 1 = Len(probe.candidates)
Heard(answer) == Append(Tried, [to |-> NextAddress, answer |-> answer])

(* http_head.  From 400 the next address is tried, whatever the target     *)
(* counts as a success; resp is the last status that was received, an      *)
(* older one when the last address did not answer.                         *)
TryAddress ==
    /\ Probing("connecting") /\ Kind = "http" /\ UNCHANGED <<setup, negative>>
    /\ \E answer \in Answers :
         probe' = [probe EXCEPT !.answers = Heard(answer),
                                !.resp = IF answer \in Statuses THEN answer ELSE @,
                                !.stage = IF LastOne \/ answer \in {"good", "unwanted", "astray"}
                                          THEN "judging" ELSE "connecting"]
    /\ UNCHANGED <<measure, readings, timeouts>>

(* is_status_code_allowed, with the codes of the target.                   *)
Allowed == probe.resp \in {"good", "wanted"}

Judge ==
    /\ Probing("judging") /\ UNCHANGED <<setup, negative>>
    /\ Finish(Allowed, probe.resp = "none" /\ Last(Tried).answer = "silent")

(* One address, one try: a host that does not answer in time, one that is  *)
(* there and refuses.                                                      *)
Once(kind) ==
    /\ Probing("connecting") /\ Kind = kind /\ UNCHANGED <<setup, negative>>
    /\ \E answer \in {"good", "silent", "refused"} : Finish(answer = "good", answer = "silent")

PingHost == Once("ping")
TcpConnect == Once("tcp")

(* cert_expiration.  A certificate that has expired is read once more,     *)
(* unverified, to tell for how long; by then it may be another.            *)
Certificates == [trusted : BOOLEAN, days : {"left", "over"}]
Verified(c) == c.trusted /\ c.days = "left"

FetchCertificate ==
    /\ Probing("connecting") /\ Kind = "cert" /\ UNCHANGED <<setup, negative>>
    /\ \/ FinishCertificate("none", FALSE)
       \/ \E c \in Certificates :
            /\ setup.ignore \/ Verified(c)
            /\ FinishCertificate(c.days, c.trusted)
       \/ \E c \in Certificates :
            /\ ~setup.ignore /\ c.days = "over"
            /\ probe' = [probe EXCEPT !.stage = "rereading"] /\ UNCHANGED <<measure, readings, timeouts>>

FetchUnverified ==
    /\ Probing("rereading") /\ UNCHANGED <<setup, negative>>
    /\ \/ FinishCertificate("none", FALSE)
       \/ \E c \in Certificates :
            FinishCertificate(IF c.days = "left" THEN "none" ELSE "over", c.trusted)

---------------------------------------------------------------------------
Available == setup.services \intersect Measurable
EveryUp == \A s \in Available : readings[s].up

(* The end of an attempt: only a timeout is worth another one.             *)
EndAttempt ==
    /\ measure.pc = "probing" /\ measure.todo = <<>>
    /\ measure' = [measure EXCEPT !.pc =
           IF EveryUp \/ measure.attempt > Retries \/ measure.attempt \notin timeouts THEN "measured" ELSE "waiting"]
    /\ UNCHANGED <<setup, readings, probe, negative, timeouts>>

EndBackoff ==
    /\ measure.pc = "waiting"
    /\ measure' = [attempt |-> measure.attempt + 1, todo |-> ToProbe, pc |-> "probing"]
    /\ readings' = [readings EXCEPT !["cert"] = NoCertificate]
    /\ UNCHANGED <<setup, probe, negative, timeouts>>

(* Another probe of the same host asks, and the entry expires.             *)
OthersAsk == negative' \in {0, NegativeTtl} /\ negative' # negative /\ Unmoved /\ UNCHANGED probe
NegativePasses == negative > 0 /\ negative' = negative - 1 /\ Unmoved /\ UNCHANGED probe

ProbesNext ==
    \/ CheckHost \/ AskPublic \/ Pin \/ TryAddress \/ Judge \/ PingHost \/ TcpConnect
    \/ FetchCertificate \/ FetchUnverified \/ EndAttempt \/ EndBackoff
    \/ OthersAsk \/ NegativePasses

ProbesSpec == ProbesInit /\ [][ProbesNext]_probeVars

---------------------------------------------------------------------------
(* Whatever the lookups say, and however they change between the check and *)
(* the connection, a probe connects to an address that may be probed.      *)
Pinned == ToSet(probe.candidates) \intersect Blocked = {}

(* A site is down only if no address answered well, and an answer from 400 *)
(* that would have counted was followed by one that did not.  Addresses    *)
(* are left untried only behind an answer that leads astray or, for a      *)
(* target with codes of its own, one below 400 that does not count.        *)
DownIsTried ==
    probe.stage = "judging" /\ ~Allowed =>
        /\ \A t \in ToSet(Tried) : t.answer # "good"
        /\ \A i \in DOMAIN Tried : Tried[i].answer = "wanted" =>
             \E k \in DOMAIN Tried : k > i /\ Tried[k].answer \in Statuses
        /\ \/ {t.to : t \in ToSet(Tried)} = ToSet(probe.candidates)
           \/ Last(Tried).answer = "astray"
           \/ setup.custom /\ Last(Tried).answer = "unwanted"

(* The readings that are stored are of one attempt, and another attempt    *)
(* was made exactly when a probe had timed out.                            *)
OneAttempt ==
    /\ measure.pc = "measured" => \A s \in Available : readings[s].of = measure.attempt
    /\ 1 .. measure.attempt - 1 \subseteq timeouts
    /\ measure.pc = "measured" /\ ~EveryUp => measure.attempt > Retries \/ measure.attempt \notin timeouts

(* Days are reported as left only for a certificate that was verified, or  *)
(* whose errors the target ignores.                                        *)
DaysAreVerified == readings["cert"].days = "left" => setup.ignore \/ readings["cert"].trusted

ProbesKept == Pinned /\ DownIsTried /\ OneAttempt /\ DaysAreVerified
=============================================================================
