----------------------------- MODULE GeoResolver -----------------------------
(***************************************************************************)
(* Where an address is: the local database and the host name each make a   *)
(* claim, online providers are asked only when neither is good enough, and *)
(* one claim is selected (app/services/geo_resolver.py, resolve_location   *)
(* and the prefetch of a route in app/services/traceroute_geo.py).         *)
(* A claim has a place, how much of the address it names, and for the      *)
(* database a radius, for the host name a confidence.                      *)
(***************************************************************************)
EXTENDS Integers, FiniteSets, FiniteSetsExt

CONSTANTS
    Places,        \* records: x in kilometres along a line, and country
    Radii,         \* accuracy radii, -1 for none
    NoClaim

ASSUME ResolverAssumption == Radii \subseteq Int /\ \A p \in Places : p.x \in Int

VARIABLES
    claims,        \* what each source would say of the address
    claimed,         \* the claims that are known so far, by source
    considered,    \* the sources that were asked
    decision

resolverVars == <<claims, claimed, considered, decision>>

(* SOURCE_PRIORITY: the lower wins a tie.                                  *)
Geolite == 1
Pop == 2
Pro == 3
IpWho == 4
Sources == {Geolite, Pop, Pro, IpWho}
Local == {Geolite, Pop}

MaxCityRadius == 25
VerifiedConfidence == 85
Contradiction == 250

(* data_level: a country, a region, a city.                                *)
Levels == 1 .. 3

Claims(source) ==
    [source : {source}, place : Places, level : Levels,
     radius : IF source = Geolite THEN Radii ELSE {-1},
     confidence : IF source = Pop THEN {VerifiedConfidence - 1, VerifiedConfidence} ELSE {-1}]
    \union {NoClaim}

ResolverInit ==
    /\ claims \in Claims(Geolite) \X Claims(Pop) \X Claims(Pro) \X Claims(IpWho)
    /\ claimed = [s \in Sources |-> NoClaim] /\ considered = {}
    /\ decision = NoClaim

---------------------------------------------------------------------------
(* What a claim is worth                                                   *)

IsVerifiedPop(c) == c.source = Pop /\ c.confidence >= VerifiedConfidence /\ c.level = 3

(* geolite2_quality: a city with a small radius.                           *)
IsHighQuality(c) == c.source = Geolite /\ c.level = 3 /\ c.radius >= 0 /\ c.radius <= MaxCityRadius

NeedsOnlineFallback(known) == ~\E c \in known : IsHighQuality(c) \/ IsVerifiedPop(c)

EvidenceRank(c) ==
    IF IsVerifiedPop(c) \/ IsHighQuality(c) THEN 4
    ELSE IF c.source = Geolite /\ c.radius >= 0 THEN 3
    ELSE IF c.source = Pop THEN 2 ELSE 1

SourceQuality(c) == IF (c.source = Geolite /\ c.radius >= 0) \/ IsVerifiedPop(c) THEN 1 ELSE 0

(* quality_key, as one number: evidence, level, source, then priority.     *)
QualityKey(c) == 1000 * EvidenceRank(c) + 100 * c.level + 10 * SourceQuality(c) - c.source

Best(some) == CHOOSE c \in some : \A d \in some : QualityKey(d) <= QualityKey(c)

Distance(c, d) == IF c.place.x < d.place.x THEN d.place.x - c.place.x ELSE c.place.x - d.place.x

(* _text_upgrade: a city that may name a coarser winner.                   *)
TextUpgrades(winner, known) ==
    {c \in known \ {winner} :
       /\ winner.level < 3 /\ c.level = 3
       /\ c.place.country = winner.place.country
       /\ Distance(winner, c) <= Max({Contradiction, winner.radius})}

PreciseRivals(winner, known) ==
    {c \in known \ {winner} : EvidenceRank(c) = 4 /\ Distance(winner, c) > Contradiction}

(* A local claim, if there is one.                                         *)
Winner(known) ==
    LET mine == {c \in known : c.source \in Local} IN Best(IF mine = {} THEN known ELSE mine)

(* select                                                                  *)
Select(known, asked) ==
    IF known = {} THEN [selected |-> NoClaim, accuracy |-> "unknown", text |-> NoClaim, fallback |-> FALSE]
    ELSE LET w == Winner(known)
             upgrades == TextUpgrades(w, known) IN
         [selected |-> w,
          accuracy |-> IF EvidenceRank(w) = 4 /\ PreciseRivals(w, known) = {} THEN "precise" ELSE "approximate",
          text |-> IF upgrades = {} THEN NoClaim ELSE Best(upgrades),
          fallback |-> w.source = Geolite /\ \E s \in asked \ {Geolite} : ~\E c \in known : c.source = s]

ClaimsIn(of) == {of[s] : s \in Sources} \ {NoClaim}

---------------------------------------------------------------------------
(* One address of a route                                                  *)

(* _local_candidates                                                       *)
AskLocal(named) ==
    /\ considered = {} /\ considered' = IF named THEN Local ELSE {Geolite}
    /\ claimed' = [s \in Sources |-> IF s \in considered' THEN claims[s] ELSE NoClaim]
    /\ UNCHANGED <<claims, decision>>

(* Those that answer within the budget; the others count as no answer.     *)
AskOnline(withKey, inTime) ==
    /\ considered # {} /\ considered \subseteq Local /\ decision = NoClaim
    /\ NeedsOnlineFallback(ClaimsIn(claimed))
    /\ LET providers == {IpWho} \union (IF withKey THEN {Pro} ELSE {}) IN
       /\ inTime \subseteq providers /\ considered' = considered \union providers
       /\ claimed' = [s \in Sources |-> IF s \in inTime THEN claims[s] ELSE claimed[s]]
    /\ UNCHANGED <<claims, decision>>

(* The fallback may be switched off.                                       *)
Resolve ==
    /\ considered # {} /\ decision = NoClaim
    /\ decision' = Select(ClaimsIn(claimed), considered)
    /\ UNCHANGED <<claims, claimed, considered>>

ResolverNext ==
    \/ Resolve
    \/ \E named \in BOOLEAN : AskLocal(named)
    \/ \E withKey \in BOOLEAN, inTime \in SUBSET {Pro, IpWho} : AskOnline(withKey, inTime)

ResolverSpec == ResolverInit /\ [][ResolverNext]_resolverVars

---------------------------------------------------------------------------
Decided == decision # NoClaim
LocalHeard == {c \in ClaimsIn(claimed) : c.source \in Local}

(* Whoever answers online, and whenever: a local position stays where it   *)
(* is and as sure as it is.                                                *)
OnlineMovesNothing ==
    Decided /\ LocalHeard # {} =>
       LET alone == Select(LocalHeard, considered \intersect Local) IN
       decision.selected = alone.selected /\ decision.accuracy = alone.accuracy

(* A precise position is evidenced, no evidence is far from it, and then   *)
(* the address was given to nobody outside.                                *)
PreciseIsEvidenced ==
    Decided /\ decision.accuracy = "precise" =>
       /\ considered \subseteq Local /\ ~NeedsOnlineFallback({decision.selected})
       /\ \A c \in LocalHeard : ~NeedsOnlineFallback({c}) => Distance(c, decision.selected) <= Contradiction

(* A place name from elsewhere is one of the same country, near enough.    *)
TextFits ==
    Decided /\ decision.selected # NoClaim /\ decision.text # NoClaim =>
       /\ decision.text.place.country = decision.selected.place.country
       /\ decision.text.level > decision.selected.level

DecisionsKept == OnlineMovesNothing /\ PreciseIsEvidenced /\ TextFits
=============================================================================
