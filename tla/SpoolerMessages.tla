-------------------------- MODULE SpoolerMessages --------------------------
(***************************************************************************)
(* The messages that are queued, reduced to what the spooler tells apart:  *)
(* their kind, the send path they leave through and, for alert events, the *)
(* alert, recipient and channel they belong to and whether they open or    *)
(* resolve it.                                                             *)
(***************************************************************************)

CONSTANTS
    Msgs,       \* the messages
    NoMsg,      \* the message of no row
    Paths,      \* send paths: email, and Signal per sending account
    KindOf,     \* [Msgs -> Kinds]: notification_type
    PathOf,     \* [Msgs -> Paths]: channel_key() of the row
    AlertOf,    \* alert, recipient and channel of an alert event
    EventOf,    \* [Msgs -> Events]: payload.alert_event
    SignalPaths \* the paths that are Signal accounts

Kinds == {"alert", "test", "welcome"}
Events == {"open", "resolved"}

ASSUME MessagesAssumption ==
    /\ NoMsg \notin Msgs
    /\ KindOf \in [Msgs -> Kinds]
    /\ PathOf \in [Msgs -> Paths]
    /\ EventOf \in [Msgs -> Events]
    /\ SignalPaths \subseteq Paths

IsAlert(m) == KindOf[m] = "alert"
IsTest(m) == KindOf[m] = "test"

(* Only Signal test messages are deduplicated and rate-limited at enqueue. *)
IsLimited(m) == IsTest(m) /\ PathOf[m] \in SignalPaths

(* Two events of one alert for one recipient over one channel. *)
SameAlert(m, n) == IsAlert(m) /\ IsAlert(n) /\ AlertOf[m] = AlertOf[n]
=============================================================================
