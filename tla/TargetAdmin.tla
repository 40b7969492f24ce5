----------------------------- MODULE TargetAdmin -----------------------------
(***************************************************************************)
(* The targets an admin configures: app/api/targets.py, app/db/sqlite/     *)
(* targets.py, the identity of what a target measures (app/services/       *)
(* target_identity.py), the wizard's profiles and the groups.  Every write *)
(* is one write transaction; a handler that reads first writes later.      *)
(* Intervals, retention, SLA limits and certificates' hosts are left out.  *)
(***************************************************************************)
EXTENDS Integers, FiniteSets

CONSTANTS
    Monitors,     \* ids of targets, from 1
    Hosts,        \* normalised host names
    Ports,        \* TCP ports, 80, 443 and one more
    Groups,       \* ids of groups
    Titles,       \* names of groups
    MaxChanges,   \* bound on requests
    None

(* An address of a web check has its scheme, its host and maybe a port.    *)
Urls == [scheme : {"http", "https"}, host : Hosts, port : Ports \union {None}]

(* The columns of table targets that the checks read; a password is there  *)
(* or not.                                                                 *)
TargetRows ==
    [on : BOOLEAN, ping : BOOLEAN, http : BOOLEAN, tcp : BOOLEAN, cert : BOOLEAN,
     user : BOOLEAN, password : BOOLEAN, basic : BOOLEAN,
     host : Hosts \union {None}, pingHost : Hosts \union {None}, tcpHost : Hosts \union {None},
     url : Urls \union {None}, httpPort : Ports \union {None}, ports : SUBSET Ports,
     group : Groups \union {None}]

ASSUME TargetAdminAssumption ==
    /\ {80, 443} \subseteq Ports
    /\ None \notin Hosts /\ None \notin Ports /\ None \notin Groups /\ None \notin Titles
    /\ None \notin TargetRows
    /\ Monitors = 1..Cardinality(Monitors) /\ MaxChanges \in Nat

ASSUME PortsAssumption == Ports \subseteq 1..65535

VARIABLES
    rows,       \* table targets; None is no row
    signature,  \* column identity_signature
    metrics,    \* targets that have metric files
    alerted,    \* targets that have rows of alerts and of the status
    lastId,     \* sqlite_sequence: ids are not given twice
    writing,    \* targets whose points a storage thread is about to write
    overtaken,  \* targets that were deleted while that was so
    groups,     \* table groups: the name of a group; None is no row
    handlers,   \* targets whose delete or reset has found its row
    changes     \* requests so far

targetAdminVars == <<rows, signature, metrics, alerted, lastId, writing, overtaken, groups, handlers, changes>>

---------------------------------------------------------------------------
(* What a target measures                                                  *)

DefaultPort(scheme) == IF scheme = "https" THEN 443 ELSE 80
Or(a, b) == IF a = None THEN b ELSE a

(* Mutant: the address counts as it is written.                            *)
UrlAsWritten(url, override) == <<url.scheme, url.host, Or(url.port, override)>>

(* normalize_url: the port of the address comes before the setting, and    *)
(* the scheme's own port is the same as none.                              *)
NormalizeUrl(url, override) ==
    LET port == Or(url.port, override) IN
    <<url.scheme, url.host, IF port = DefaultPort(url.scheme) THEN None ELSE port>>

CheckIdentities(row) ==
    (IF row.ping THEN {<<"ping", Or(row.pingHost, row.host)>>} ELSE {})
    \union (IF row.http /\ row.url # None THEN {<<"http", NormalizeUrl(row.url, row.httpPort)>>} ELSE {})
    \union (IF row.tcp THEN {<<"tcp", Or(row.tcpHost, row.host), p>> : p \in row.ports} ELSE {})

Existing == {t \in Monitors : rows[t] # None}

(* classify_conflicts: targets that measure exactly the same.              *)
Exact(row, self) ==
    {t \in Existing \ {self} : CheckIdentities(rows[t]) = CheckIdentities(row)
                               /\ CheckIdentities(row) # {}}

(* The API refuses them, and again the writer, by the stored signature,    *)
(* which an index keeps unique.                                            *)
HostCollision(row, self) == Exact(row, self) # {}
ExactDuplicate(row, self) ==
    \E t \in Existing \ {self} : signature[t] # {} /\ signature[t] = CheckIdentities(row)

---------------------------------------------------------------------------
(* What is accepted                                                        *)

(* _validate_target_consistency                                            *)
Consistent(row) ==
    /\ row.host # None
    /\ row.on => row.ping \/ row.http \/ row.tcp
    /\ row.http => row.url # None
    /\ row.user \/ row.password => row.url # None
    /\ row.tcp => row.tcpHost # None
    /\ row.cert => row.http /\ row.url # None /\ row.url.scheme = "https"
    /\ row.password => row.user

BasicAuthComplete(row) == row.basic => row.user /\ row.password

(* _prepare_create_values, after the model of the request.                 *)
Prepared(row) == Consistent(row) /\ BasicAuthComplete(row) /\ (row.tcp => row.ports # {})

(* build_profile, with one setting that the wizard may override: whether   *)
(* ports are connected to as well.  The host is derived for TCP.           *)
Blank == [on |-> TRUE, host |-> None, ping |-> FALSE, http |-> FALSE, tcp |-> FALSE, cert |-> FALSE,
          pingHost |-> None, url |-> None, httpPort |-> None, user |-> FALSE, password |-> FALSE,
          basic |-> FALSE, tcpHost |-> None, ports |-> {80}, group |-> None]

BuildProfile(profile, address, ports) ==
    LET web == profile \in {"website", "custom"} /\ address.url
        row == IF web
               THEN [Blank EXCEPT !.host = address.host, !.http = TRUE,
                       !.url = [scheme |-> address.scheme, host |-> address.host, port |-> None],
                       !.cert = address.scheme = "https"]
               ELSE IF profile = "tcp" THEN [Blank EXCEPT !.host = address.host, !.tcp = TRUE]
               ELSE [Blank EXCEPT !.host = address.host, !.ping = TRUE]
        asked == [row EXCEPT !.tcp = @ \/ ports # {}]
    IN IF asked.tcp THEN [asked EXCEPT !.tcpHost = asked.host, !.ports = ports] ELSE asked

(* Ports of a TCP service are selected explicitly.                         *)
Wizard ==
    {BuildProfile(profile, [url |-> profile = "website", host |-> host, scheme |-> scheme], ports) :
        profile \in {"website", "server", "tcp"}, host \in Hosts, scheme \in {"http", "https"},
        ports \in {{80}, {}}}

---------------------------------------------------------------------------
AdminTargetInit ==
    /\ rows = [t \in Monitors |-> None]
    /\ signature = [t \in Monitors |-> {}]
    /\ metrics = {} /\ alerted = {} /\ handlers = {} /\ changes = 0
    /\ lastId = 0 /\ writing = {} /\ overtaken = {}
    /\ groups = [g \in Groups |-> None]

MayChange == changes < MaxChanges /\ changes' = changes + 1

(* _resolve_group_id: a name that no group has makes a group.              *)
ResolveGroup(title, g) ==
    \/ title = None /\ g = None /\ groups' = groups
    \/ /\ title # None /\ g # None
       /\ groups[g] = title \/ (groups[g] = None /\ \A h \in Groups : groups[h] # title)
       /\ groups' = [groups EXCEPT ![g] = title]

(* create: checked, then written, in one write transaction.                *)
CreateMonitor(t, row, title, g) ==
    /\ t = lastId + 1 /\ lastId' = t /\ MayChange
    /\ Prepared(row) /\ ~HostCollision(row, t) /\ ~ExactDuplicate(row, t)
    /\ ResolveGroup(title, g)
    /\ rows' = [rows EXCEPT ![t] = [row EXCEPT !.group = g]]
    /\ signature' = [signature EXCEPT ![t] = CheckIdentities(row)]
    /\ UNCHANGED <<metrics, alerted, writing, overtaken, handlers>>

(* A patch names the fields it sets.                                       *)
PatchValues ==
    [on |-> BOOLEAN, ping |-> BOOLEAN, http |-> BOOLEAN, tcp |-> BOOLEAN, cert |-> BOOLEAN,
     basic |-> BOOLEAN, user |-> BOOLEAN, password |-> {TRUE}, host |-> Hosts,
     pingHost |-> Hosts \union {None}, tcpHost |-> Hosts \union {None},
     url |-> Urls \union {None}, httpPort |-> Ports \union {None}, ports |-> {{}, {443}}]

(* _validate_tcp_ports: no port is the default port.                       *)
WithPorts(row) == [row EXCEPT !.ports = IF @ = {} THEN {80} ELSE @]

(* The certificate's check goes when its address or the web check goes,    *)
(* unless the patch asks for it.                                           *)
DesiredCert(row, fields) ==
    IF /\ "cert" \notin fields /\ fields \intersect {"url", "http"} # {}
       /\ ~row.http \/ row.url = None \/ row.url.scheme # "https"
    THEN FALSE ELSE row.cert

Cleared(row, clear) ==
    IF clear THEN [row EXCEPT !.user = FALSE, !.password = FALSE, !.basic = FALSE] ELSE row

(* _patch_locked: the merged row is judged and written.                    *)
PatchMonitor(t, values, clear) ==
    LET merged == WithPorts(Cleared(
            [f \in DOMAIN rows[t] |-> IF f \in DOMAIN values THEN values[f] ELSE rows[t][f]], clear))
        row == [merged EXCEPT !.cert = DesiredCert(merged, DOMAIN values)]
        touched == clear \/ DOMAIN values \intersect {"basic", "user", "password"} # {}
    IN
    /\ t \in Existing /\ MayChange
    /\ clear => "password" \notin DOMAIN values
    /\ Consistent(row)
    /\ touched => BasicAuthComplete(row)
    /\ ~HostCollision(row, t) /\ ~ExactDuplicate(row, t)
    /\ rows' = [rows EXCEPT ![t] = row]
    /\ signature' = [signature EXCEPT ![t] = CheckIdentities(row)]
    /\ UNCHANGED <<metrics, alerted, lastId, writing, overtaken, groups, handlers>>

PatchGroup(t, title, g) ==
    /\ t \in Existing /\ MayChange
    /\ ResolveGroup(title, g)
    /\ rows' = [rows EXCEPT ![t].group = g]
    /\ UNCHANGED <<signature, metrics, alerted, lastId, writing, overtaken, handlers>>

---------------------------------------------------------------------------
(* Measuring, deleting and resetting.  The files go last, inside the       *)
(* transaction; a write between the two and the commit is as one after it. *)

(* A check looks at the settings for the last time and hands its points    *)
(* to a thread, which writes whatever happens to the target meanwhile, or  *)
(* gives up.                                                               *)
HandOver(t) ==
    /\ t \in Existing \ writing
    /\ writing' = writing \union {t}
    /\ UNCHANGED <<rows, signature, metrics, alerted, lastId, overtaken, groups, handlers, changes>>

WritePoints(t, lost) ==
    /\ t \in writing
    /\ writing' = writing \ {t}
    /\ metrics' = IF lost THEN metrics ELSE metrics \union {t}
    /\ UNCHANGED <<rows, signature, alerted, lastId, overtaken, groups, handlers, changes>>

(* The status and the alerts look again and write in one transaction.      *)
Reported(t) ==
    /\ t \in Existing
    /\ alerted' = alerted \union {t}
    /\ UNCHANGED <<rows, signature, metrics, lastId, writing, overtaken, groups, handlers, changes>>

FindTarget(t, op) ==
    /\ t \in Existing /\ MayChange
    /\ handlers' = handlers \union {<<op, t>>}
    /\ UNCHANGED <<rows, signature, metrics, alerted, lastId, writing, overtaken, groups>>

(* Files that are left roll the rows back.                                 *)
RowsGo(left, committed) == ~left /\ committed

DeleteMonitor(t, left, committed) ==
    /\ <<"delete", t>> \in handlers
    /\ handlers' = handlers \ {<<"delete", t>>}
    /\ metrics' = IF left THEN metrics ELSE metrics \ {t}
    /\ IF RowsGo(left, committed)
       THEN /\ rows' = [rows EXCEPT ![t] = None]
            /\ signature' = [signature EXCEPT ![t] = {}]
            /\ alerted' = alerted \ {t}
            /\ overtaken' = overtaken \union (writing \intersect {t})
       ELSE UNCHANGED <<rows, signature, alerted, overtaken>>
    /\ UNCHANGED <<lastId, writing, groups, changes>>

ResetMetrics(t, left, committed) ==
    /\ <<"reset", t>> \in handlers
    /\ handlers' = handlers \ {<<"reset", t>>}
    /\ metrics' = IF left THEN metrics ELSE metrics \ {t}
    /\ alerted' = IF RowsGo(left, committed) THEN alerted \ {t} ELSE alerted
    /\ UNCHANGED <<rows, signature, lastId, writing, overtaken, groups, changes>>

---------------------------------------------------------------------------
(* Groups                                                                  *)

CreateGroup(g, title) ==
    /\ groups[g] = None /\ MayChange
    /\ \A h \in Groups : groups[h] # title
    /\ groups' = [groups EXCEPT ![g] = title]
    /\ UNCHANGED <<rows, signature, metrics, alerted, lastId, writing, overtaken, handlers>>

RenameGroup(g, title) ==
    /\ groups[g] # None /\ MayChange
    /\ \A h \in Groups \ {g} : groups[h] # title
    /\ groups' = [groups EXCEPT ![g] = title]
    /\ UNCHANGED <<rows, signature, metrics, alerted, lastId, writing, overtaken, handlers>>

(* Refused while a target is in it, in the transaction that deletes it.    *)
DeleteGroupIfEmpty(g) ==
    /\ groups[g] # None /\ MayChange
    /\ \A t \in Existing : rows[t].group # g
    /\ groups' = [groups EXCEPT ![g] = None]
    /\ UNCHANGED <<rows, signature, metrics, alerted, lastId, writing, overtaken, handlers>>

---------------------------------------------------------------------------
OneField == UNION {{[x \in {f} |-> v] : v \in PatchValues[f]} : f \in DOMAIN PatchValues}
FieldPairs ==
    {<<"http", "url">>, <<"basic", "user">>, <<"user", "password">>,
     <<"tcp", "tcpHost">>, <<"ping", "http">>, <<"cert", "url">>}
BothFields(f, g) ==
    {[x \in {f, g} |-> IF x = f THEN v ELSE w] : v \in PatchValues[f], w \in PatchValues[g]}
TwoFields == UNION {BothFields(pair[1], pair[2]) : pair \in FieldPairs}

AdminTargetNext ==
    \/ \E t \in Monitors :
         \/ \E row \in Wizard, title \in Titles \union {None}, g \in Groups \union {None} :
              CreateMonitor(t, row, title, g)
         \/ \E values \in OneField \union TwoFields : PatchMonitor(t, values, FALSE)
         \/ PatchMonitor(t, <<>>, TRUE)
         \/ \E title \in Titles \union {None}, g \in Groups \union {None} : PatchGroup(t, title, g)
         \/ \E op \in {"delete", "reset"} : FindTarget(t, op)
         \/ \E left, committed \in BOOLEAN :
              DeleteMonitor(t, left, committed) \/ ResetMetrics(t, left, committed)
         \/ HandOver(t) \/ Reported(t)
         \/ \E lost \in BOOLEAN : WritePoints(t, lost)
    \/ \E g \in Groups :
         \/ \E title \in Titles : CreateGroup(g, title) \/ RenameGroup(g, title)
         \/ DeleteGroupIfEmpty(g)

AdminTargetSpec == AdminTargetInit /\ [][AdminTargetNext]_targetAdminVars

---------------------------------------------------------------------------
(* What a check of a target connects to, as the monitor does it.           *)
Endpoints(row) ==
    (IF row.ping THEN {<<"ping", Or(row.pingHost, row.host)>>} ELSE {})
    \union (IF row.http THEN {<<"web", row.url.scheme, row.url.host,
                 Or(Or(row.url.port, row.httpPort), DefaultPort(row.url.scheme))>>} ELSE {})
    \union {<<"tcp", Or(row.tcpHost, row.host), p>> : p \in IF row.tcp THEN row.ports ELSE {}}

(* No two targets measure the same endpoints, switched on or not, however  *)
(* they were changed after they were made.                                 *)
NoTwinTargets ==
    \A t, u \in Existing :
        t # u /\ Endpoints(rows[t]) # {} => Endpoints(rows[t]) # Endpoints(rows[u])

(* Every stored row can be measured: what its checks need is there after   *)
(* any sequence of patches, and credentials are complete when sent.        *)
RowsAreConsistent ==
    \A t \in Existing :
        /\ Consistent(rows[t]) /\ BasicAuthComplete(rows[t])
        /\ signature[t] = CheckIdentities(rows[t])

(* A target that is gone has left no alerts behind, and metrics only when  *)
(* a thread was about to write while it was deleted, also when the delete  *)
(* had failed half way before.                                             *)
GoneIsGone == alerted \subseteq Existing /\ metrics \subseteq Existing \union overtaken

(* Names of groups are unique and a target's group exists.                 *)
GroupsAreKept ==
    /\ \A t \in Existing : rows[t].group # None => groups[rows[t].group] # None
    /\ \A g, h \in Groups : groups[g] = groups[h] /\ groups[g] # None => g = h

TargetsKept == NoTwinTargets /\ RowsAreConsistent /\ GoneIsGone /\ GroupsAreKept
=============================================================================
