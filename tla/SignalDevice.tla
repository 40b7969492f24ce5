----------------------------- MODULE SignalDevice -----------------------------
(***************************************************************************)
(* The Signal account the notifications are sent from: linking a device,   *)
(* registering, unlinking and unregistering, the configured sender and the *)
(* test messages (signal_cli_backend.py, app/api/signal.py, the Signal     *)
(* part of app/api/settings.py and of app/api/recipients.py).  signal-cli  *)
(* is external: a run of it answers, fails, or is killed at its timeout    *)
(* with its effect done or not.  Its runs exclude each other, except for   *)
(* the link process, which waits in the background for a phone.            *)
(***************************************************************************)
EXTENDS Integers, FiniteSets

CONSTANTS
    Numbers,      \* phone numbers of accounts
    Requests,     \* threads that serve requests
    Links,        \* link processes; their numbers are the sessions too
    Interval,     \* MIN_SEND_INTERVAL
    MaxCalls,     \* bound on requests that begin
    LastTick,     \* bound on the sendClock
    Nothing

ASSUME SignalAssumption ==
    /\ Nothing \notin Numbers /\ Links \subseteq Nat \ {0} /\ IsFiniteSet(Requests)
    /\ Interval \in Nat \ {0} /\ MaxCalls \in Nat /\ LastTick \in Nat

VARIABLES
    accounts,    \* accounts of signal-cli's data directory
    sender,      \* setting signal_api_sender_number
    link,        \* _link_process and _link_session_id; 0 is none
    processes,   \* link processes: "new", "running", "linked", "failed", "killed"
    stateLock,   \* the thread that holds _state_lock
    signalCalls,       \* the requests under way
    replies,     \* history: confirmed link processes and what was said of each
    strays,      \* history: numbers that may stay configured though their account is gone
    queuedTests, \* test messages to one recipient since its last cooldown
    sendClock,
    lastSend,    \* _last_send_times of one sender; 0 is none yet
    slots,       \* history: the times that sends were given
    callsMade         \* requests so far

linkVars == <<link, processes, stateLock>>
sendVars == <<sendClock, lastSend, slots>>
signalVars == <<accounts, sender, linkVars, signalCalls, replies, strays, queuedTests, sendVars, callsMade>>

NoCall == [op |-> "none", pc |-> "none", session |-> 0, process |-> 0, number |-> Nothing]

SignalInit ==
    /\ accounts \in {{}} \union {{n} : n \in Numbers}
    /\ sender \in accounts \union {Nothing}
    /\ link = [process |-> 0, session |-> 0]
    /\ processes = [p \in Links |-> "new"]
    /\ stateLock = Nothing
    /\ signalCalls = [r \in Requests |-> NoCall]
    /\ replies = {} /\ strays = {} /\ queuedTests = 0
    /\ sendClock = 0 /\ lastSend = 0 /\ slots = {} /\ callsMade = 0

AtStep(r, op, pc) == signalCalls[r].op = op /\ signalCalls[r].pc = pc
CallGoes(r, pc) == signalCalls' = [signalCalls EXCEPT ![r].pc = pc]
CallEnds(r) == signalCalls' = [signalCalls EXCEPT ![r] = NoCall]
StateFree == stateLock = Nothing
LinksRunning == {p \in Links : processes[p] = "running"}

(* _run_signal_cli: a run that fails or is killed at its timeout has had   *)
(* its effect or not.                                                      *)
RunSignalCli(effect) == {accounts, effect}

(* list_accounts asks signal-cli itself.                                   *)
ListAccounts == accounts

BeginCall(r, op) ==
    /\ signalCalls[r] = NoCall /\ callsMade < MaxCalls
    /\ callsMade' = callsMade + 1
    /\ signalCalls' = [signalCalls EXCEPT ![r] = [NoCall EXCEPT !.op = op, !.pc = "begun"]]
    /\ UNCHANGED <<accounts, sender, linkVars, replies, strays, queuedTests, sendVars>>

---------------------------------------------------------------------------
(* Linking                                                                 *)

(* _cleanup_link_process: the tracked process is ended and forgotten.      *)
Stopped == [p \in Links |-> IF p = link.process /\ processes[p] = "running" THEN "killed" ELSE processes[p]]

(* get_link_qr takes the lock, or gives up after a while.                  *)
StartLink(r, p) ==
    /\ AtStep(r, "qr", "begun") /\ StateFree
    /\ processes[p] = "new" /\ \A q \in Links : processes[q] = "new" => p <= q
    /\ stateLock' = r
    /\ processes' = [Stopped EXCEPT ![p] = "running"]
    /\ link' = [process |-> p, session |-> p]
    /\ CallGoes(r, "uri")
    /\ UNCHANGED <<accounts, sender, replies, strays, queuedTests, sendVars, callsMade>>

GiveUpLock(r) ==
    /\ AtStep(r, "qr", "begun") /\ ~StateFree
    /\ CallEnds(r)
    /\ UNCHANGED <<accounts, sender, linkVars, replies, strays, queuedTests, sendVars, callsMade>>

(* The address arrives and becomes the picture, or the process is ended.   *)
ShowQr(r) ==
    /\ AtStep(r, "qr", "uri")
    /\ \/ UNCHANGED <<link, processes>>
       \/ processes' = Stopped /\ link' = [process |-> 0, session |-> 0]
    /\ stateLock' = Nothing
    /\ CallEnds(r)
    /\ UNCHANGED <<accounts, sender, replies, strays, queuedTests, sendVars, callsMade>>

(* The phone has scanned the picture, or the process fails.                *)
PhoneLinks(p, n) ==
    /\ p \in LinksRunning /\ \A r \in Requests : ~AtStep(r, "qr", "uri")
    /\ \/ processes' = [processes EXCEPT ![p] = "linked"] /\ accounts' = accounts \union {n}
       \/ processes' = [processes EXCEPT ![p] = "failed"] /\ UNCHANGED accounts
    /\ UNCHANGED <<sender, link, stateLock, signalCalls, replies, strays, queuedTests, sendVars, callsMade>>

(* signal_link_confirm reads the session without the lock.                 *)
ReadSession(r) ==
    /\ AtStep(r, "confirm", "begun")
    /\ IF link.session = 0 THEN CallEnds(r)
       ELSE signalCalls' = [signalCalls EXCEPT ![r].pc = "wait", ![r].session = link.session]
    /\ UNCHANGED <<accounts, sender, linkVars, replies, strays, queuedTests, sendVars, callsMade>>

BeginWait(r) ==
    /\ AtStep(r, "confirm", "wait") /\ StateFree
    /\ IF link.session # signalCalls[r].session \/ link.process = 0 THEN CallEnds(r)
       ELSE signalCalls' = [signalCalls EXCEPT ![r].pc = "waiting", ![r].process = link.process]
    /\ UNCHANGED <<accounts, sender, linkVars, replies, strays, queuedTests, sendVars, callsMade>>

(* The process ends by itself, or is ended at the timeout.                 *)
EndWait(r) ==
    LET p == signalCalls[r].process IN
    /\ AtStep(r, "confirm", "waiting")
    /\ processes' = [processes EXCEPT ![p] = IF @ = "running" THEN "killed" ELSE @]
    /\ replies' = replies \union {<<p, IF processes[p] = "linked" THEN "linked" ELSE "timeout">>}
    /\ CallGoes(r, "clear")
    /\ UNCHANGED <<accounts, sender, link, stateLock, strays, queuedTests, sendVars, callsMade>>

(* Mutant: whatever link process is tracked by now is forgotten.           *)
ForgetAny(p) == [process |-> 0, session |-> 0]

(* Only its own process is forgotten.                                      *)
Forget(p) == IF link.process = p THEN [process |-> 0, session |-> 0] ELSE link

ClearLink(r) ==
    /\ AtStep(r, "confirm", "clear") /\ StateFree
    /\ link' = Forget(signalCalls[r].process)
    /\ CallEnds(r)
    /\ UNCHANGED <<accounts, sender, processes, stateLock, replies, strays, queuedTests, sendVars, callsMade>>

CancelLink(r) ==
    /\ AtStep(r, "cancel", "begun") /\ StateFree
    /\ processes' = Stopped
    /\ link' = [process |-> 0, session |-> 0]
    /\ CallEnds(r)
    /\ UNCHANGED <<accounts, sender, stateLock, replies, strays, queuedTests, sendVars, callsMade>>

---------------------------------------------------------------------------
(* Accounts and the configured sender                                      *)

(* verify: the account is there when signal-cli says so, and perhaps when  *)
(* it does not answer.                                                     *)
Verify(r, n) ==
    /\ AtStep(r, "verify", "begun") /\ StateFree
    /\ accounts' \in RunSignalCli(accounts \union {n})
    /\ CallEnds(r)
    /\ UNCHANGED <<sender, linkVars, replies, strays, queuedTests, sendVars, callsMade>>

(* _resolve_signal_sender: the setting, then the accounts.                 *)
ReadSender(r) ==
    /\ signalCalls[r].op \in {"unlink", "unregister"} /\ signalCalls[r].pc = "begun"
    /\ signalCalls' = [signalCalls EXCEPT ![r].pc = "resolve", ![r].number = sender]
    /\ UNCHANGED <<accounts, sender, linkVars, replies, strays, queuedTests, sendVars, callsMade>>

ResolveSender(r) ==
    /\ signalCalls[r].op \in {"unlink", "unregister"} /\ signalCalls[r].pc = "resolve"
    /\ IF ListAccounts = {} THEN sender' = Nothing /\ CallEnds(r)
       ELSE /\ sender' = sender
            /\ IF signalCalls[r].number \notin ListAccounts THEN CallEnds(r) ELSE CallGoes(r, "remove")
    /\ UNCHANGED <<accounts, linkVars, replies, strays, queuedTests, sendVars, callsMade>>

(* The backend looks again, under its lock.                                *)
BeginRemoval(r) ==
    /\ signalCalls[r].pc = "remove" /\ StateFree
    /\ IF signalCalls[r].number \in ListAccounts
       THEN stateLock' = r /\ CallGoes(r, IF signalCalls[r].op = "unlink" THEN "data" ELSE "server")
       ELSE UNCHANGED stateLock /\ CallGoes(r, "unset")
    /\ UNCHANGED <<accounts, sender, link, processes, replies, strays, queuedTests, sendVars, callsMade>>

(* Signal's server forgets the account; signal-cli may drop its data too.  *)
LeaveServer(r) ==
    LET n == signalCalls[r].number IN
    /\ signalCalls[r].pc = "server"
    /\ accounts' \in RunSignalCli(accounts \ {n})
    /\ \/ UNCHANGED <<stateLock, strays>> /\ CallGoes(r, IF n \in accounts' THEN "data" ELSE "check")
       \/ stateLock' = Nothing /\ CallEnds(r) /\ strays' = strays \union {n}
    /\ UNCHANGED <<sender, link, processes, replies, queuedTests, sendVars, callsMade>>

DeleteData(r) ==
    LET n == signalCalls[r].number IN
    /\ signalCalls[r].pc = "data"
    /\ \/ accounts' = accounts \ {n} /\ UNCHANGED <<stateLock, strays>> /\ CallGoes(r, "check")
       \/ accounts' \in RunSignalCli(accounts \ {n}) /\ stateLock' = Nothing /\ CallEnds(r)
          /\ strays' = strays \union {n}
    /\ UNCHANGED <<sender, link, processes, replies, queuedTests, sendVars, callsMade>>

CheckRemoved(r) ==
    /\ signalCalls[r].pc = "check"
    /\ stateLock' = Nothing
    /\ IF signalCalls[r].number \in ListAccounts THEN CallEnds(r) ELSE CallGoes(r, "unset")
    /\ UNCHANGED <<accounts, sender, link, processes, replies, strays, queuedTests, sendVars, callsMade>>

(* The setting is cleared, whatever it is by now.                          *)
UnsetSender(r) ==
    /\ signalCalls[r].pc = "unset"
    /\ sender' = Nothing
    /\ CallEnds(r)
    /\ UNCHANGED <<accounts, linkVars, replies, strays, queuedTests, sendVars, callsMade>>

(* The settings page stores the number it was given.                       *)
SetSender(r, n) ==
    /\ AtStep(r, "set", "begun")
    /\ sender' = n
    /\ strays' = IF n \in accounts THEN strays \ {n} ELSE strays \union {n}
    /\ CallEnds(r)
    /\ UNCHANGED <<accounts, linkVars, replies, queuedTests, sendVars, callsMade>>

(* get_valid_sender: a configured number must be an account; without one   *)
(* it is the first account, which the test of the settings page stores.    *)
FindSender(r) ==
    /\ AtStep(r, "selftest", "begun")
    /\ IF ListAccounts = {} \/ sender # Nothing THEN CallEnds(r)
       ELSE \E n \in ListAccounts : signalCalls' = [signalCalls EXCEPT ![r].pc = "store", ![r].number = n]
    /\ UNCHANGED <<accounts, sender, linkVars, replies, strays, queuedTests, sendVars, callsMade>>

StoreSender(r) ==
    LET n == signalCalls[r].number IN
    /\ AtStep(r, "selftest", "store")
    /\ sender' = n
    /\ strays' = IF n \in accounts THEN strays ELSE strays \union {n}
    /\ CallEnds(r)
    /\ UNCHANGED <<accounts, linkVars, replies, queuedTests, sendVars, callsMade>>

---------------------------------------------------------------------------
(* Sending                                                                 *)

(* _queue_recipient_test: the cooldown is looked up, the sender is asked   *)
(* for, then the test is queued.                                           *)
CheckCooldown(r) ==
    /\ AtStep(r, "test", "begun")
    /\ IF queuedTests > 0 THEN CallEnds(r) ELSE CallGoes(r, "queue")
    /\ UNCHANGED <<accounts, sender, linkVars, replies, strays, queuedTests, sendVars, callsMade>>

QueueTest(r) ==
    /\ AtStep(r, "test", "queue")
    /\ queuedTests' = IF accounts # {} /\ (sender = Nothing \/ sender \in accounts)
                      THEN queuedTests + 1 ELSE queuedTests
    /\ CallEnds(r)
    /\ UNCHANGED <<accounts, sender, linkVars, replies, strays, sendVars, callsMade>>

CooldownEnds ==
    /\ queuedTests > 0 /\ queuedTests' = 0
    /\ UNCHANGED <<accounts, sender, linkVars, signalCalls, replies, strays, sendVars, callsMade>>

(* send_message gives itself the next time and sleeps until then.          *)
Slot == IF slots # {} /\ sendClock - lastSend < Interval THEN sendClock + (Interval - (sendClock - lastSend)) ELSE sendClock

TakeSlot(r) ==
    /\ AtStep(r, "send", "begun")
    /\ lastSend' = Slot /\ slots' = slots \union {<<r, Slot>>}
    /\ CallGoes(r, "sleep")
    /\ UNCHANGED <<accounts, sender, linkVars, replies, strays, queuedTests, sendClock, callsMade>>

SendMessage(r) ==
    /\ AtStep(r, "send", "sleep") /\ \E s \in slots : s[1] = r /\ s[2] <= sendClock
    /\ CallEnds(r)
    /\ UNCHANGED <<accounts, sender, linkVars, replies, strays, queuedTests, sendVars, callsMade>>

SendTick ==
    /\ sendClock < LastTick /\ sendClock' = sendClock + 1
    /\ UNCHANGED <<accounts, sender, linkVars, signalCalls, replies, strays, queuedTests, lastSend, slots, callsMade>>

---------------------------------------------------------------------------
Operations == {"qr", "confirm", "cancel", "verify", "unlink", "unregister", "set", "selftest",
               "test", "send"}

SignalNext ==
    \/ \E r \in Requests :
         \/ \E op \in Operations : BeginCall(r, op)
         \/ \E p \in Links : StartLink(r, p)
         \/ GiveUpLock(r) \/ ShowQr(r)
         \/ ReadSession(r) \/ BeginWait(r) \/ EndWait(r) \/ ClearLink(r) \/ CancelLink(r)
         \/ \E n \in Numbers : Verify(r, n) \/ SetSender(r, n)
         \/ ReadSender(r) \/ ResolveSender(r) \/ BeginRemoval(r) \/ LeaveServer(r)
         \/ DeleteData(r) \/ CheckRemoved(r) \/ UnsetSender(r)
         \/ FindSender(r) \/ StoreSender(r)
         \/ CheckCooldown(r) \/ QueueTest(r) \/ TakeSlot(r) \/ SendMessage(r)
    \/ \E p \in Links, n \in Numbers : PhoneLinks(p, n)
    \/ CooldownEnds \/ SendTick

SignalSpec == SignalInit /\ [][SignalNext]_signalVars

---------------------------------------------------------------------------
(* Of the link processes only the one that can be cancelled and confirmed  *)
(* runs, although a confirm waits without the lock and ends late.          *)
LinkIsTracked == \A p \in LinksRunning : link.process = p /\ link.session = p

(* A confirm says "linked" only of the process it waited for.              *)
ConfirmedIsLinked ==
    \A reply \in replies : reply[2] = "linked" => processes[reply[1]] = "linked"

(* The configured sender has an account, unless the account is just being  *)
(* removed, a removal failed after it took effect, or a request that had   *)
(* seen the account stored it late.                                        *)
SenderHasAccount ==
    sender \in accounts \union strays \union {Nothing}
    \/ \E r \in Requests : signalCalls[r].pc \in {"check", "unset"} /\ signalCalls[r].number = sender

(* Sends of one sender get times that are an interval apart.               *)
SlotsAreApart == \A s, u \in slots : s # u => s[2] - u[2] >= Interval \/ u[2] - s[2] >= Interval

(* Tests that cross pass the cooldown together, no more than there are     *)
(* requests at once.                                                       *)
TestsAreFew == queuedTests <= Cardinality(Requests)

SignalKept ==
    /\ LinkIsTracked /\ ConfirmedIsLinked /\ SenderHasAccount /\ SlotsAreApart /\ TestsAreFew
=============================================================================
