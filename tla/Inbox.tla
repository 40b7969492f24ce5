-------------------------------- MODULE Inbox --------------------------------
(***************************************************************************)
(* The notification inbox (app/db/notifications.py, app/api/               *)
(* notifications.py): one row per event, what every user has read and      *)
(* hidden, deliveries grouped into one row per window, incidents with one  *)
(* row from their opening to their recovery, and the retention that        *)
(* deletes old rows.  Every writer runs in one transaction.                *)
(***************************************************************************)
EXTENDS Integers, FiniteSets

CONSTANTS
    Readership,   \* users of the web interface
    Watcher,      \* the one of them whose bell is looked at
    Ids,          \* row ids, 1 .. their number: never given twice
    Window,       \* SENT_GROUP_SECONDS
    Refresh,      \* INCIDENT_UPDATE_MIN_SECONDS
    Keep,         \* NOTIFICATION_INBOX_RETENTION_DAYS
    LastHour,     \* bound on the clock
    MaxGrouped,   \* bound on the deliveries of one row
    NoRow

(* What a row holds; the second part of its key is a user, a time or a row.*)
NoticeKeys == {"admins", "user", "target", "sent", "incident", "recovered"} \X (Readership \union Nat)
Audiences == {"admins", "user", "target"}
Severities == {"info", "success", "warning", "error"}
NoticeRows == [key : NoticeKeys, audience : Audiences, to : Readership \union {0},
               severity : Severities, count : 1 .. MaxGrouped, at : Nat]

ASSUME InboxAssumption ==
    /\ Watcher \in Readership
    /\ Ids \subseteq Nat \ {0} /\ {Window, Refresh} \subseteq Nat \ {0}
    /\ Keep \in Nat /\ Keep > Window /\ LastHour \in Nat
    /\ MaxGrouped \in Nat \ {0} /\ NoRow \notin NoticeRows

VARIABLES
    roles,       \* "admin", "user" or "gone"
    watching,    \* the users that one target alerts (target_alert_users)
    notices,     \* table notifications
    nextId,
    read,        \* table notification_reads: what each has read, with its count then
    hidden,      \* table notification_dismissals
    handoff,     \* setting inbox_incident.<name>
    hour,
    bell         \* history: the watcher's last summary and what has happened since

inboxVars == <<roles, watching, notices, nextId, read, hidden, handoff, hour, bell>>

NoIncident == [id |-> 0, since |-> 0, last |-> 0]
Rows == {n \in Ids : notices[n] # NoRow}
Quiet == [seq |-> 0, fresh |-> FALSE, fewer |-> FALSE, missed |-> FALSE]

InboxInit ==
    /\ roles \in [Readership -> {"admin", "user"}] /\ \E u \in Readership : roles[u] = "admin"
    /\ watching \in SUBSET Readership
    /\ notices = [n \in Ids |-> NoRow] /\ nextId = 1
    /\ read = {} /\ hidden = {}
    /\ handoff = NoIncident /\ hour = 0
    /\ bell = Quiet

---------------------------------------------------------------------------
(* Who sees what                                                           *)

(* _AUDIENCE_VISIBLE: decided when it is asked, from who the user is now.  *)
Addressed(u, row) ==
    \/ row.audience = "admins" /\ roles[u] = "admin"
    \/ row.audience = "user" /\ row.to = u /\ roles[u] # "gone"
    \/ row.audience = "target" /\ (roles[u] = "admin" \/ (roles[u] = "user" /\ u \in watching))

Visible(u) == {n \in Rows : Addressed(u, notices[n]) /\ <<n, u>> \notin hidden}
HasRead(u, n) == \E mark \in read : mark.id = n /\ mark.user = u
Unread(u) == {n \in Visible(u) : ~HasRead(u, n)}

(* get_summary: the events that unread rows count, each on its row.        *)
Unheard(u) == UNION {{n} \X (1 .. notices[n].count) : n \in Unread(u)}
EventSeq(u) == Cardinality(Unheard(u))

(* The page asks again, now and then.                                      *)
Summary ==
    LET seq == EventSeq(Watcher) IN
    /\ roles[Watcher] # "gone" /\ bell # [Quiet EXCEPT !.seq = seq]
    /\ bell' = [seq |-> seq, fresh |-> FALSE, fewer |-> FALSE,
                missed |-> bell.fresh /\ ~bell.fewer /\ seq <= bell.seq]
    /\ UNCHANGED <<roles, watching, notices, nextId, read, hidden, handoff, hour>>

Fresh(us) == bell' = IF Watcher \in us THEN [bell EXCEPT !.fresh = TRUE] ELSE bell
Fewer(us) == bell' = IF Watcher \in us THEN [bell EXCEPT !.fewer = TRUE] ELSE bell

---------------------------------------------------------------------------
(* Writers                                                                 *)

KeyRows(key) == {n \in Rows : notices[n].key = key}
Admins == {u \in Readership : roles[u] = "admin"}

(* emit: the first of its key, or nothing at all.                          *)
Emit(key, audience, to, severity) ==
    LET row == [key |-> key, audience |-> audience, to |-> to, severity |-> severity,
                count |-> 1, at |-> hour] IN
    IF KeyRows(key) # {} THEN UNCHANGED <<notices, nextId, bell>>
    ELSE /\ nextId \in Ids /\ nextId' = nextId + 1
         /\ notices' = [notices EXCEPT ![nextId] = row]
         /\ Fresh({u \in Readership : Addressed(u, row)})

(* An alert opens, a report is done, a password or a target is new; the    *)
(* same event may be reported again.                                       *)
NotifyEvent(audience, to) ==
    /\ roles[to] # "gone"
    /\ LET owner == IF audience = "user" THEN to ELSE 0 IN Emit(<<audience, owner>>, audience, owner, "info")
    /\ UNCHANGED <<roles, watching, read, hidden, handoff, hour>>

Without(marks, n) == {mark \in marks : mark.id # n}
Shown(n) == {mark \in hidden : mark[1] # n}

(* Mutant: who has read the row does not hear of what it counts later.     *)
StayRead(n) == read

(* A further delivery is new to everyone.                                  *)
Unreads(n) == Without(read, n)

(* emit_delivery_sent: counted on the row of its window, or the first.     *)
DeliverySent ==
    LET key == <<"sent", hour \div Window>> IN
    /\ \/ /\ KeyRows(key) = {}
          /\ Emit(key, "admins", 0, "success") /\ UNCHANGED <<read, hidden>>
       \/ \E n \in KeyRows(key) :
            /\ notices[n].count < MaxGrouped
            /\ notices' = [notices EXCEPT ![n].count = @ + 1]
            /\ read' = Unreads(n) /\ hidden' = Shown(n)
            /\ Fresh(Admins) /\ UNCHANGED nextId
    /\ UNCHANGED <<roles, watching, handoff, hour>>

(* report_incident: the first report opens it, later ones rewrite its row  *)
(* now and then without a word to those who have read it.                  *)
ReportIncident ==
    /\ IF handoff = NoIncident
       THEN /\ Emit(<<"incident", hour>>, "admins", 0, "warning")
            /\ handoff' = IF KeyRows(<<"incident", hour>>) # {} THEN NoIncident
                          ELSE [id |-> nextId, since |-> hour, last |-> hour]
       ELSE /\ hour - handoff.last >= Refresh
            /\ handoff' = [handoff EXCEPT !.last = hour]
            /\ notices' = IF handoff.id \in Rows THEN [notices EXCEPT ![handoff.id].severity = "warning"]
                          ELSE notices
            /\ UNCHANGED <<nextId, bell>>
    /\ UNCHANGED <<roles, watching, read, hidden, hour>>

(* update_incident with renotify: everyone is told again.                  *)
EscalateIncident ==
    /\ handoff # NoIncident
    /\ IF handoff.id \in Rows
       THEN /\ notices[handoff.id].severity = "warning"
            /\ notices' = [notices EXCEPT ![handoff.id].severity = "error"]
            /\ read' = Unreads(handoff.id) /\ hidden' = Shown(handoff.id)
            /\ Fresh({u \in Admins : handoff.id \notin Unread(u)})
       ELSE UNCHANGED <<notices, read, hidden, bell>>
    /\ UNCHANGED <<roles, watching, nextId, handoff, hour>>

(* resolve_incident: the row of the recovery may fail to be stored.        *)
ResolveIncident ==
    /\ handoff # NoIncident /\ handoff' = NoIncident
    /\ \/ Emit(<<"recovered", handoff.id>>, "admins", 0, "success")
       \/ UNCHANGED <<notices, nextId, bell>>
    /\ UNCHANGED <<roles, watching, read, hidden, hour>>

---------------------------------------------------------------------------
(* What users do                                                           *)

Mark(u, n) == [id |-> n, user |-> u, count |-> notices[n].count, severity |-> notices[n].severity]

MarkRead(u, n) ==
    /\ n \in Unread(u)
    /\ read' = read \union {Mark(u, n)}
    /\ Fewer({u})
    /\ UNCHANGED <<roles, watching, notices, nextId, hidden, handoff, hour>>

MarkAllRead(u) ==
    /\ Unread(u) # {}
    /\ read' = read \union {Mark(u, n) : n \in Unread(u)}
    /\ Fewer({u})
    /\ UNCHANGED <<roles, watching, notices, nextId, hidden, handoff, hour>>

(* dismiss: also what is hidden already, but never what is not for them.   *)
DismissNotice(u, n) ==
    /\ n \in Rows /\ Addressed(u, notices[n]) /\ <<n, u>> \notin hidden
    /\ hidden' = hidden \union {<<n, u>>}
    /\ Fewer({u})
    /\ UNCHANGED <<roles, watching, notices, nextId, read, handoff, hour>>

(* The user becomes another, or goes: reads, dismissals and the rows that  *)
(* are only for them go too.                                               *)
ChangeRole(u, role) ==
    /\ roles[u] \notin {role, "gone"} /\ roles' = [roles EXCEPT ![u] = role]
    /\ Fewer({u})
    /\ IF role # "gone" THEN UNCHANGED <<notices, read, hidden, watching>>
       ELSE /\ LET mine == {n \in Rows : notices[n].audience = "user" /\ notices[n].to = u} IN
               /\ notices' = [n \in Ids |-> IF n \in mine THEN NoRow ELSE notices[n]]
               /\ read' = {mark \in read : mark.user # u /\ mark.id \notin mine}
               /\ hidden' = {mark \in hidden : mark[2] # u /\ mark[1] \notin mine}
            /\ watching' = watching \ {u}
    /\ UNCHANGED <<nextId, handoff, hour>>

AssignTarget(u) ==
    /\ roles[u] # "gone"
    /\ watching' = IF u \in watching THEN watching \ {u} ELSE watching \union {u}
    /\ Fewer({u})
    /\ UNCHANGED <<roles, notices, nextId, read, hidden, handoff, hour>>

(* run_retention: rows go by their age, with what is said of them.         *)
PruneInbox ==
    LET old == {n \in Rows : notices[n].at < hour - Keep} IN
    /\ old # {}
    /\ notices' = [n \in Ids |-> IF n \in old THEN NoRow ELSE notices[n]]
    /\ read' = {mark \in read : mark.id \notin old}
    /\ hidden' = {mark \in hidden : mark[1] \notin old}
    /\ Fewer(Readership)
    /\ UNCHANGED <<roles, watching, nextId, handoff, hour>>

HourPasses ==
    /\ hour < LastHour /\ hour' = hour + 1
    /\ UNCHANGED <<roles, watching, notices, nextId, read, hidden, handoff, bell>>

---------------------------------------------------------------------------
InboxNext ==
    \/ \E u \in Readership :
         \/ MarkAllRead(u) \/ AssignTarget(u)
         \/ \E n \in Ids : MarkRead(u, n) \/ DismissNotice(u, n)
         \/ \E role \in {"admin", "user", "gone"} : ChangeRole(u, role)
         \/ \E audience \in Audiences : NotifyEvent(audience, u)
    \/ Summary \/ DeliverySent \/ ReportIncident \/ EscalateIncident \/ ResolveIncident
    \/ PruneInbox \/ HourPasses

InboxSpec == InboxInit /\ [][InboxNext]_inboxVars

---------------------------------------------------------------------------
(* What a user has marked read is what the row said then: no delivery was  *)
(* counted since, and no incident has become an error.                     *)
ReadIsSeen ==
    \A mark \in read :
       /\ mark.id \in Rows /\ notices[mark.id].count = mark.count
       /\ notices[mark.id].severity = "error" => mark.severity = "error"

(* The number behind the bell rises when there is something new and the    *)
(* user took nothing away.                                                 *)
BellRings == ~bell.missed

(* An incident is open or over: the row of its recovery comes once, after  *)
(* it; an open one is in the inbox unless retention has deleted it.        *)
IncidentsAreOnce ==
    /\ handoff # NoIncident =>
         /\ KeyRows(<<"recovered", handoff.id>>) = {}
         /\ handoff.id \in Rows \/ handoff.since < hour - Keep
    /\ \A n \in Rows : notices[n].key[1] = "recovered" => n > notices[n].key[2]

(* Marks are of rows and users that are there; no event is in it twice.    *)
NoOrphans ==
    /\ \A mark \in hidden : mark[1] \in Rows /\ roles[mark[2]] # "gone"
    /\ \A mark \in read : roles[mark.user] # "gone"
    /\ \A n, k \in Rows : n # k => notices[n].key # notices[k].key

InboxKept == ReadIsSeen /\ BellRings /\ IncidentsAreOnce /\ NoOrphans
=============================================================================
