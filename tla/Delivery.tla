------------------------------ MODULE Delivery ------------------------------
(***************************************************************************)
(* What the notification queue promises, without workers, claims, pacing,  *)
(* retries or clocks: a queued message waits until the provider accepted   *)
(* it or the queue gave it up; it is shown as sent only if the provider    *)
(* accepted that very message; a final state is final; a restore replaces  *)
(* the queue as a whole by one that was saved earlier.                     *)
(***************************************************************************)
EXTENDS Naturals

CONSTANTS Ids, Msgs, NoMsg

VARIABLES phase,     \* [Ids -> {"none", "waiting", "sent", "failed"}]
          message,   \* the message of each row
          accepted,  \* what the provider has accepted
          saved      \* the queues that backups hold

vars == <<phase, message, accepted, saved>>

Init ==
    /\ phase = [i \in Ids |-> "none"]
    /\ message = [i \in Ids |-> NoMsg]
    /\ accepted = {}
    /\ saved = {}

Submit(i, m) ==
    /\ phase[i] = "none"
    /\ phase' = [phase EXCEPT ![i] = "waiting"]
    /\ message' = [message EXCEPT ![i] = m]
    /\ UNCHANGED <<accepted, saved>>

Accept(m) ==
    /\ accepted' = accepted \cup {m}
    /\ UNCHANGED <<phase, message, saved>>

Confirm(i) ==
    /\ phase[i] = "waiting"
    /\ message[i] \in accepted
    /\ phase' = [phase EXCEPT ![i] = "sent"]
    /\ UNCHANGED <<message, accepted, saved>>

GiveUp(S) ==
    /\ \A i \in S : phase[i] = "waiting"
    /\ phase' = [i \in Ids |-> IF i \in S THEN "failed" ELSE phase[i]]
    /\ UNCHANGED <<message, accepted, saved>>

Forget(S) ==
    /\ phase' = [i \in Ids |-> IF i \in S THEN "none" ELSE phase[i]]
    /\ message' = [i \in Ids |-> IF i \in S THEN NoMsg ELSE message[i]]
    /\ UNCHANGED <<accepted, saved>>

Save ==
    /\ saved' = saved \cup {[phase |-> phase, message |-> message]}
    /\ UNCHANGED <<phase, message, accepted>>

Rewind ==
    /\ \E queue \in saved : phase' = queue.phase /\ message' = queue.message
    /\ UNCHANGED <<accepted, saved>>

Next ==
    \/ \E i \in Ids, m \in Msgs : Submit(i, m)
    \/ \E m \in Msgs : Accept(m)
    \/ \E i \in Ids : Confirm(i)
    \/ \E S \in SUBSET Ids : GiveUp(S) \/ Forget(S)
    \/ Save
    \/ Rewind

Spec == Init /\ [][Next]_vars
=============================================================================
