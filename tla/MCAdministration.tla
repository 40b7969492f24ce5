--------------------------- MODULE MCAdministration ---------------------------
(***************************************************************************)
(* Small instances of what an admin keeps and of the data that is fetched  *)
(* for them.  The components do not share a variable: the initial state    *)
(* picks the one that moves, the others stay where they are.               *)
(***************************************************************************)
EXTENDS PopRefresh, PopCandidates, Recipients, SettingsCache, TargetAdmin, SignalDevice,
        Inbox, ReleaseCheck, Archive, GeoDatabase, GeoOnline, GeoResolver, RateLimit

CONSTANTS newCode, knownCode, atWest, atMiddle, atEast, atNowhere, ph1, ph2, h1, k1

VARIABLE part

adminVars == <<part, popVars, popCandidateVars, peopleVars, settingsVars, targetAdminVars, signalVars,
               inboxVars, releaseVars, archiveVars, geoVars, onlineVars, resolverVars, rateVars>>

Others(moving) ==
    /\ part' = part
    /\ moving # "pops" => UNCHANGED popVars
    /\ moving # "candidates" => UNCHANGED popCandidateVars
    /\ moving # "people" => UNCHANGED peopleVars
    /\ moving # "settings" => UNCHANGED settingsVars
    /\ moving # "targets" => UNCHANGED targetAdminVars
    /\ moving # "signal" => UNCHANGED signalVars
    /\ moving # "inbox" => UNCHANGED inboxVars
    /\ moving # "releases" => UNCHANGED releaseVars
    /\ moving # "archives" => UNCHANGED archiveVars
    /\ moving # "geo" => UNCHANGED geoVars
    /\ moving # "online" => UNCHANGED onlineVars
    /\ moving # "places" => UNCHANGED resolverVars
    /\ moving # "rates" => UNCHANGED rateVars

Release(n, stage) == [number |-> n, pre |-> stage]
SomeReleases == {Release(1, "final"), Release(2, "rc1"), Release(2, "rc2"), Release(2, "final"), Release(3, "final")}

Place(x, country) == [x |-> x, country |-> country]
SomePlaces == {Place(0, 1), Place(600, 1), Place(5000, 2)}
SomeRadii == {-1, 10, 1000}
SomeLimits == {[count |-> 2, window |-> 2], [count |-> 1, window |-> 3]}

(* Nearer than 250 km to the middle, but not to each other.                *)
SomeKm == LET all == {atWest, atMiddle, atEast} IN
    [pair \in all \X all |->
       CASE pair[1] = pair[2] -> 0
         [] {pair[1], pair[2]} = {atMiddle, atEast} -> 40
         [] {pair[1], pair[2]} = {atMiddle, atWest} -> 220
         [] OTHER -> 260]

(* A country with a city anywhere; or something is missing or contradicts. *)
SomeProposals ==
    {NoProposal} \union [country : {"A"}, place : Coordinates, city : {TRUE}]
    \union {[country |-> "A", place |-> atMiddle, city |-> FALSE],
            [country |-> "", place |-> atWest, city |-> TRUE],
            [country |-> "B", place |-> atMiddle, city |-> TRUE]}

(* The providers name a city and agree, where both know one.               *)
AdminClaims ==
    /\ IF part = "places"
       THEN \E g \in Claims(Geolite), p \in Claims(Pop), o \in Claims(Pro), both \in BOOLEAN :
               /\ p # NoClaim => p.level # 2
               /\ o # NoClaim => o.level = 3
               /\ claims = <<g, p, o, IF both /\ o # NoClaim THEN [o EXCEPT !.source = IpWho] ELSE NoClaim>>
       ELSE claims = <<NoClaim, NoClaim, NoClaim, NoClaim>>
    /\ ResolverInit

(* Where a component may begin in several ways, it waits in one of them.   *)
AdminInit ==
    /\ part \in {"refresh", "candidates", "recipients", "welcomes", "settings", "targets", "groups",
                "device", "sending", "inbox", "incidents", "releases", "archives", "geo", "online",
                "places", "rates"}
    /\ PopInit
    /\ CandidateInit /\ (part # "candidates" => locations = <<>>)
    /\ \A i \in DOMAIN locations : locations[i].place \in IF i = 1 THEN {atEast} ELSE {atEast, atWest}
    /\ PeopleInit /\ targetIds[1] = "used" /\ Owner(ph1) \in {{1}, {1, 2}}
    /\ part # "recipients" => Person = {1, 2}
    /\ SettingsInit
    /\ AdminTargetInit
    /\ SignalInit /\ (part # "device" => accounts = {})
    /\ InboxInit /\ roles = [u \in Readership |-> IF u = 1 THEN "admin" ELSE "user"]
    /\ watching = IF part = "inbox" THEN {2} ELSE {}
    /\ ReleaseInit /\ installed = 1 /\ (part # "releases" => published = {})
    /\ ArchiveInit /\ app.keys = <<k1>> /\ db.version \in {0, app.release.number}
    /\ part # "archives" => app.release.number = 3 /\ db.version = 0
    /\ GeoInit /\ (part # "geo" => file = 1)
    /\ OnlineInit
    /\ RateInit /\ (part # "rates" => limit = [count |-> 1, window |-> 3])
    /\ AdminClaims

RefreshMoves == part = "refresh" /\ PopNext /\ Others("pops")
(* Routes and networks are numbered in the order they are seen.            *)
CandidatesMove ==
    /\ part = "candidates" /\ CandidateNext
    /\ \A o \in Observers : observers'[o].busy =>
         /\ observers'[o].route <= Cardinality(observations) + 1
         /\ observers'[o].network <= Cardinality({seen.network : seen \in observations}) + 1
         /\ observers'[o].proposal \in SomeProposals
    /\ Others("candidates")

(* Two requests about recipients cross, or three about the list of one     *)
(* target, with their welcomes.  Of two handlers the first is taken first. *)
PeopleMove ==
    /\ part \in {"recipients", "welcomes"} /\ PeopleNext
    /\ edits[2] = NoEdit /\ edits'[2] # NoEdit => edits[1] # NoEdit
    /\ part = "recipients" => edited' <= 2 /\ closed' = "no" /\ welcomes' = welcomes
    /\ part = "welcomes" =>
         /\ targetIds' = targetIds
         /\ edited' = 3 => closed' = "no" /\ Person' = {1, 2}
         /\ \A e \in Edits : edits'[e].op \in {"none", "put"} /\ edits'[e].list # {2}
    /\ Others("people")

(* One connection has the settings page, the other what else is written.   *)
SettingsMove ==
    /\ part = "settings" /\ SettingsNext
    /\ tx'[1].kind # "foreign" /\ tx'[2].patch = <<>>
    /\ tx'[1].kind = "own" => tx'[1].patch = <<1>>
    /\ tx'[2].kind = "foreign" => tx'[2].wrote[2] = 0
    /\ \A r \in Readers : lookups'[r].of = "runtime" => lookups'[r].key = 1
    /\ Others("settings")

(* Targets are changed in all ways without points, or measured and grouped.*)
TargetsMove ==
    /\ part \in {"targets", "groups"} /\ AdminTargetNext
    /\ part = "targets" => groups' = groups /\ writing' = {}
    /\ part = "groups" =>
         \A t \in Monitors : rows'[t] # None => CheckIdentities(rows'[t]) = {<<"ping", h1>>}
    /\ Others("targets")

(* The device is linked and its account changed, or messages are sent.     *)
SignalMoves ==
    /\ part \in {"device", "sending"} /\ SignalNext
    /\ LET sends == {"none", "send", "test"} IN
       \A r \in Requests : signalCalls'[r].op \in IF part = "sending" THEN sends ELSE (Operations \ sends) \union {"none"}
    /\ part = "device" => sendClock' = 0
    /\ Others("signal")

(* Users and what is for them, or one admin, incidents and the time.       *)
InboxMoves ==
    /\ part \in {"inbox", "incidents"} /\ InboxNext
    /\ part = "inbox" => /\ hour' = 0 /\ handoff' = NoIncident /\ nextId' <= 3
                         /\ roles'[1] = "admin" /\ watching' \subseteq {2}
    /\ part = "incidents" =>
         /\ hour' = LastHour => nextId' <= 3
         /\ roles' = roles /\ watching' = watching /\ hidden' = hidden
         /\ \A n \in Ids : notices'[n] # NoRow => notices'[n].key[1] \in {"sent", "incident", "recovered"}
    /\ Others("inbox")

ReleasesMove == part = "releases" /\ ReleaseNext /\ Others("releases")

(* The second start may be with another release and other keys.            *)
ArchivesMove ==
    /\ part = "archives" /\ ArchiveNext
    /\ starts' = 1 => app'.release = app.release /\ app'.keys = app.keys
    /\ Others("archives")

GeoMoves == part = "geo" /\ GeoNext /\ Others("geo")
OnlineMoves == part = "online" /\ OnlineNext /\ Others("online")
PlacesMove == part = "places" /\ ResolverNext /\ Others("places")
RatesMove == part = "rates" /\ RateNext /\ Others("rates")

AdminNext == RefreshMoves \/ CandidatesMove \/ PeopleMove \/ SettingsMove \/ TargetsMove \/ SignalMoves
             \/ InboxMoves \/ ReleasesMove \/ ArchivesMove
             \/ GeoMoves \/ OnlineMoves \/ PlacesMove \/ RatesMove

AdminSpec == AdminInit /\ [][AdminNext]_adminVars

(* Each is asked of the component that moves.                              *)
LocationsKept ==
    /\ part = "refresh" => RefreshKept
    /\ part = "candidates" => CandidatesKept

ConfigurationKept ==
    /\ part = "settings" => SettingsKept
    /\ part \in {"targets", "groups"} => TargetsKept

ChannelsKept == part \in {"device", "sending"} => SignalKept

NoticesKept ==
    /\ part \in {"inbox", "incidents"} => InboxKept
    /\ part = "releases" => ReleaseKept

UpkeepKept ==
    /\ part = "archives" => ArchivesKept
    /\ part = "geo" => GeoDatabaseKept
    /\ part = "online" => OnlineKept
    /\ part = "places" => DecisionsKept
    /\ part = "rates" => RateKept

PeopleKept == part \in {"recipients", "welcomes"} => RecipientsKept
=============================================================================
