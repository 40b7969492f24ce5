----------------------------- MODULE PopCandidates -----------------------------
(***************************************************************************)
(* The codes of places in the names of routers: how one is looked up       *)
(* (app/db/pop_lookup.py, app/services/pop_codes.py), and how an unknown   *)
(* one becomes a learned location: observed on routes, then approved,      *)
(* rejected or revoked by an admin (app/db/pop_candidates.py).             *)
(*                                                                         *)
(* The candidate is the code New; Known is a curated one.                  *)
(***************************************************************************)
EXTENDS Integers, Sequences, FiniteSets, FiniteSetsExt

CONSTANTS
    New, Known,        \* codes
    Coordinates, Km,   \* positions, and the distance of two of them
    Nowhere,           \* no position
    Routes,            \* measurement keys of routes
    Networks,          \* the networks of the routers
    Observers,         \* route measurements under way at once
    MostObservations   \* MAX_OBSERVATIONS_PER_CANDIDATE

ASSUME CandidateAssumption ==
    /\ New # Known /\ Nowhere \notin Coordinates /\ MostObservations \in Nat
    /\ Km \in [Coordinates \X Coordinates -> Nat]
    /\ \A p, q \in Coordinates : Km[p, p] = 0 /\ Km[p, q] = Km[q, p]

VARIABLES
    locations,    \* the rows of pop_locations for these codes, in the order of their ids
    candidate,    \* the row of New in pop_alias_candidates
    observations, \* its rows of pop_candidate_observations, with what they proposed
    observers,    \* measurements that have looked New up and not found it
    basis         \* history: the observations an approval rested on

popCandidateVars == <<locations, candidate, observations, observers, basis>>

Codes == {New, Known}
Countries == {"A", "B"}
Row(alias, canonical, place, source) ==
    [alias |-> alias, canonical |-> canonical, place |-> place, source |-> source,
     confidence |-> IF source = "learned" THEN 70 ELSE 100, priority |-> 10, active |-> TRUE]

(* What the local database says of the address, if it has a position.      *)
NoProposal == [country |-> "", place |-> Nowhere, city |-> FALSE]
Proposals ==
    {NoProposal} \union [country : Countries \union {""}, place : Coordinates, city : BOOLEAN]
Sourced(proposal) == proposal.city /\ proposal.country # "" /\ proposal.place # Nowhere

NoCandidate == [status |-> "none", country |-> "", place |-> Nowhere, sourced |-> FALSE,
                conflicts |-> 0, quality |-> 0, location |-> 0]

(* The curated rows: a code may name two places.                           *)
CandidateInit ==
    /\ \/ locations = <<>>
       \/ \E p \in Coordinates : locations = <<Row(Known, Known, p, "seed")>>
       \/ \E p, q \in Coordinates :
            locations = <<Row(Known, Known, p, "seed"), Row(Known, New, q, "seed")>>
    /\ candidate = NoCandidate
    /\ observations = {}
    /\ observers = [o \in Observers |-> [busy |-> FALSE]]
    /\ basis = {}

---------------------------------------------------------------------------
(* The lookups.  A name is its labels; a label is a code, perhaps with a   *)
(* number behind it.                                                       *)
SameSite(a, b) == a.canonical = b.canonical \/ a.place = b.place

(* Rows of the best rank must be one site; of these the least is taken, by *)
(* canonical code, then alias.  The codes are ordered New, Known.          *)
Mutual(tied) == \A a, b \in tied : SameSite(a, b)
Rank(r) == (IF r.canonical = New THEN 0 ELSE 2) + (IF r.alias = New THEN 0 ELSE 1)
Least(tied) == {a \in tied : \A b \in tied : Rank(a) <= Rank(b)}

(* What a lookup may return for some order of the rows it sorts: nothing   *)
(* if the best ones are different sites.                                   *)
BestOf(rows, Worse(_, _)) ==
    LET tied == {r \in rows : \A q \in rows : ~Worse(r, q)}
    IN  IF tied = {} \/ ~Mutual(tied) THEN {} ELSE Least(tied)

Active == {locations[i] : i \in {j \in DOMAIN locations : locations[j].active}}

(* lkp_t: by priority, then confidence.                                    *)
ByTokens(codes) ==
    BestOf({r \in Active : r.alias \in codes},
           LAMBDA r, q : \/ r.priority > q.priority
                         \/ r.priority = q.priority /\ r.confidence < q.confidence)

(* lkp_h: by the place of the code in the name first.                      *)
Position(name, alias) ==
    LET found == {i \in DOMAIN name : name[i] = [code |-> alias, number |-> FALSE]}
    IN  IF found = {} THEN 0 ELSE Min(found)
ByName(name) ==
    BestOf({r \in Active : Position(name, r.alias) > 0},
           LAMBDA r, q :
             LET p == Position(name, r.alias)  s == Position(name, q.alias)
             IN  \/ p > s
                 \/ p = s /\ r.priority > q.priority
                 \/ p = s /\ r.priority = q.priority /\ r.confidence < q.confidence)

(* lkp_p: the codes in front of the numbers, one label after the other.    *)
ByPrefix(name) ==
    LET hits == {i \in DOMAIN name : ByTokens({name[i].code}) # {}}
    IN  IF hits = {} THEN {} ELSE ByTokens({name[Min(hits)].code})

(* The strategies of the lookup, one after the other.                      *)
Found(name) ==
    LET tokens == {name[i].code : i \in {j \in DOMAIN name : ~name[j].number}}
    IN  IF ByName(name) # {} THEN ByName(name)
        ELSE IF ByTokens(tokens) # {} THEN ByTokens(tokens)
        ELSE ByPrefix(name)

Label == [code : Codes, number : BOOLEAN]
Names == {<<a>> : a \in Label} \union {<<a, b>> : a, b \in Label}

---------------------------------------------------------------------------
(* observe_unknown_pop: a code that is not found is observed later, with   *)
(* what the databases of addresses propose for it.                         *)
LookUp(o) ==
    /\ ~observers[o].busy /\ ByTokens({New}) = {}
    /\ \E route \in Routes, network \in Networks, proposal \in Proposals :
         observers' = [observers EXCEPT ![o] =
             [busy |-> TRUE, route |-> route, network |-> network, proposal |-> proposal]]
    /\ UNCHANGED <<locations, candidate, observations, basis>>

(* Positions are compared with the first one that was proposed.            *)
Differ(p, q) == Nowhere \notin {p, q} /\ Km[p, q] > 250
Contradicts(proposal) ==
    \/ "" \notin {proposal.country, candidate.country} /\ proposal.country # candidate.country
    \/ Differ(proposal.place, candidate.place)

(* The limit and a route that was seen before keep it out.                 *)
Counts(seen) ==
    /\ Cardinality(observations) < MostObservations
    /\ \A o \in observations : o.route # seen.route

Observed(seen) ==
    LET p == seen.proposal
        conflicts == candidate.conflicts + IF Contradicts(p) THEN 1 ELSE 0
        known == [candidate EXCEPT
            !.country = IF @ = "" THEN p.country ELSE @,
            !.place = IF @ = Nowhere THEN p.place ELSE @,
            !.sourced = @ \/ Sourced(p)]
        networks == {o.network : o \in observations \union {seen}}
    IN  [known EXCEPT
            !.conflicts = conflicts,
            !.quality = IF ~known.sourced THEN 0
                        ELSE IF Cardinality(networks) >= 2 /\ conflicts = 0 THEN 70 ELSE 40,
            !.status = IF @ \in {"none", "pending"}
                       THEN IF conflicts > 0 THEN "conflict" ELSE "pending" ELSE @]

Observe(o) ==
    LET seen == observers[o] IN
    /\ seen.busy
    /\ IF Counts(seen)
       THEN candidate' = Observed(seen) /\ observations' = observations \union {seen}
       ELSE UNCHANGED <<candidate, observations>>
    /\ observers' = [observers EXCEPT ![o] = [busy |-> FALSE]]
    /\ UNCHANGED <<locations, basis>>

---------------------------------------------------------------------------
(* review                                                                  *)

Approvable ==
    /\ Cardinality({o.network : o \in observations}) >= 2
    /\ candidate.conflicts = 0 /\ candidate.quality >= 70

(* Curated anchors near the place, if the code is not its own.  Which of   *)
(* the codes the city was proposed with is left open.                      *)
Anchored(canonical, place) ==
    canonical # New =>
        LET anchors == {r \in Active : r.canonical = canonical /\ r.source = "seed"}
        IN  anchors # {} /\ \A a \in anchors : Km[place, a.place] <= 50

Approve(canonical, country, place) ==
    /\ candidate.status = "pending" /\ Approvable
    /\ country = candidate.country
    /\ ~Differ(place, candidate.place)
    /\ ~\E r \in Active : r.alias = New
    /\ Anchored(canonical, place)
    /\ locations' = Append(locations, Row(New, canonical, place, "learned"))
    /\ candidate' = [candidate EXCEPT !.status = "approved", !.location = Len(locations) + 1]
    /\ basis' = observations
    /\ UNCHANGED <<observations, observers>>

Revoke ==
    /\ candidate.status = "approved" /\ locations[candidate.location].active
    /\ locations' = [locations EXCEPT ![candidate.location].active = FALSE]
    /\ candidate' = [candidate EXCEPT !.status = "revoked"]
    /\ UNCHANGED <<observations, observers, basis>>

Reject ==
    /\ candidate.status \in {"pending", "conflict"}
    /\ candidate' = [candidate EXCEPT !.status = "rejected"]
    /\ UNCHANGED <<locations, observations, observers, basis>>

---------------------------------------------------------------------------
CandidateNext ==
    \/ \E o \in Observers : LookUp(o) \/ Observe(o)
    \/ \E canonical \in Codes, country \in Countries, place \in Coordinates :
         Approve(canonical, country, place)
    \/ Revoke \/ Reject

CandidateSpec == CandidateInit /\ [][CandidateNext]_popCandidateVars

---------------------------------------------------------------------------
(* A learned location rests on observations of two networks, one of which  *)
(* names a city and country.  None names another country, and all of them, *)
(* with the location, are within 250 km of the first that had a position,  *)
(* so within twice as much of each other, whatever observations and        *)
(* reviews overlap.  It is in use exactly while its candidate is approved. *)
LearnedIsSupported ==
    /\ candidate.status = "approved" <=> \E r \in Active : r.source = "learned"
    /\ candidate.status = "approved" =>
         LET r == locations[candidate.location] IN
         /\ r.alias = New /\ r.active
         /\ Cardinality({o.network : o \in basis}) >= 2
         /\ \E o \in basis : Sourced(o.proposal)
         /\ \A o \in basis : o.proposal.country \in {"", candidate.country}
         /\ \E first \in basis :
              /\ first.proposal.place # Nowhere /\ ~Differ(r.place, first.proposal.place)
              /\ \A o \in basis : ~Differ(o.proposal.place, first.proposal.place)

(* A lookup never chooses between two sites that are known equally well,   *)
(* and what it finds does not depend on the order of the rows.             *)
LookupsAreDecided ==
    /\ \A name \in Names : Cardinality(Found(name)) <= 1
    /\ \A code \in Codes : \A a, b \in Active :
         a.alias = code /\ b.alias = code /\ ~SameSite(a, b) /\ a.confidence = b.confidence
         => \A r \in Found(<<[code |-> code, number |-> FALSE]>>) : r.confidence > a.confidence

CandidatesKept == LearnedIsSupported /\ LookupsAreDecided
================================================================================
