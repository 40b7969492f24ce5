------------------------- MODULE AdministrationProofs -------------------------
(***************************************************************************)
(* What the Signal device, the lists of recipients, the settings behind    *)
(* their caches and the targets promise, for any number of requests,       *)
(* accounts, link processes, recipients, tasks, connections, readers and   *)
(* targets, and that the promises hold in the composition whose small      *)
(* instance is checked, with what UpkeepProofs shows of its other parts.   *)
(***************************************************************************)
EXTENDS MCAdministration, UpkeepProofs, FiniteSetTheorems, SequenceTheorems, TLAPS

-----------------------------------------------------------------------------
(* The Signal device                                                       *)

CallSteps == {"none", "begun", "uri", "wait", "waiting", "clear", "resolve", "remove", "data", "server",
              "check", "unset", "store", "queue", "sleep"}
SignalCall == [op : Operations \union {"none"}, pc : CallSteps, session : Links \union {0},
               process : Links \union {0}, number : Numbers \union {Nothing}]

SignalTyped ==
    /\ signalCalls \in [Requests -> SignalCall]
    /\ accounts \subseteq Numbers /\ sender \in Numbers \union {Nothing}
    /\ link \in [process : Links \union {0}, session : Links \union {0}]
    /\ processes \in [Links -> {"new", "running", "linked", "failed", "killed"}]
    /\ replies \subseteq Links \X {"linked", "timeout"}
    /\ sendClock \in Nat /\ lastSend \in Nat /\ slots \subseteq Requests \X Nat
    /\ queuedTests \in Nat

(* A process that is tracked or waited for has been started; the one whose *)
(* wait is over has ended.                                                 *)
WaitedFor(c) ==
    c.op = "confirm" =>
        /\ c.pc = "waiting" => c.process \in Links /\ processes[c.process] # "new"
        /\ c.pc = "clear" => c.process \in Links /\ processes[c.process] \notin {"new", "running"}
LinksHeld ==
    /\ LinkIsTracked /\ ConfirmedIsLinked
    /\ link.process = link.session
    /\ link.process # 0 => processes[link.process] # "new"
    /\ \A r \in Requests : WaitedFor(signalCalls[r])

SlotsHeld == SlotsAreApart /\ \A s \in slots : s[2] <= lastSend

(* Those that have passed the cooldown count as queued.                    *)
Passing == {r \in Requests : signalCalls[r].op = "test" /\ signalCalls[r].pc = "queue"}
TestsHeld == queuedTests + Cardinality(Passing) <= Cardinality(Requests)

SignalInv == SignalTyped /\ LinksHeld /\ SenderHasAccount /\ SlotsHeld /\ TestsHeld

(* One request goes on, the others stay.                                   *)
Advances(r, c) ==
    /\ c \in SignalCall
    /\ signalCalls' = [signalCalls EXCEPT ![r] = c]

LEMMA OneAdvances ==
    ASSUME SignalTyped, NEW r \in Requests, NEW c, Advances(r, c)
    PROVE  /\ signalCalls' \in [Requests -> SignalCall] /\ signalCalls'[r] = c
           /\ \A q \in Requests \ {r} : signalCalls'[q] = signalCalls[q]
  BY DEF SignalTyped, Advances

LEMMA NoCallIsACall ==
    NoCall \in SignalCall /\ NoCall.op = "none" /\ NoCall.pc = "none"
<1> DEFINE z == 0
           none == [op |-> "none", pc |-> "none", session |-> z, process |-> z, number |-> Nothing]
<1>1. z \in Links \union {0} /\ NoCall = none
  BY DEF NoCall
<1> HIDE DEF z
<1>2. none \in SignalCall /\ none.op = "none" /\ none.pc = "none"
  BY <1>1 DEF SignalCall, CallSteps
<1> QED BY <1>1, <1>2

LEMMA CallsEnd ==
    ASSUME SignalTyped, NEW r \in Requests, CallEnds(r)
    PROVE  Advances(r, NoCall)
  BY NoCallIsACall DEF CallEnds, Advances

LEMMA CallsGo ==
    ASSUME SignalTyped, NEW r \in Requests, NEW pc \in CallSteps, CallGoes(r, pc)
    PROVE  \E c \in SignalCall :
              /\ Advances(r, c) /\ c.op = signalCalls[r].op /\ c.pc = pc
              /\ c.number = signalCalls[r].number /\ c.process = signalCalls[r].process
              /\ c.session = signalCalls[r].session
<1> DEFINE c == [signalCalls[r] EXCEPT !.pc = pc]
<1>1. signalCalls[r] \in SignalCall
  BY DEF SignalTyped
<1>2. /\ c \in SignalCall /\ c.op = signalCalls[r].op /\ c.pc = pc
      /\ c.number = signalCalls[r].number /\ c.process = signalCalls[r].process
      /\ c.session = signalCalls[r].session
  BY <1>1 DEF SignalCall
<1>3. signalCalls' = [signalCalls EXCEPT ![r] = c]
  BY DEF CallGoes
<1> HIDE DEF c
<1> QED BY <1>2, <1>3 DEF Advances

LEMMA RequestsAreFinite == IsFiniteSet(Requests) /\ Cardinality(Requests) \in Nat
  BY SignalAssumption, FS_CardinalityType

LEMMA PassingIsFinite ==
    /\ IsFiniteSet(Passing) /\ Cardinality(Passing) \in Nat
    /\ Cardinality(Passing) <= Cardinality(Requests)
<1>1. Passing \subseteq Requests
  BY DEF Passing
<1> QED BY <1>1, RequestsAreFinite, FS_Subset, FS_CardinalityType

(* The parts of the invariant, and what leaves each of them alone.         *)
LEMMA LinksStay ==
    ASSUME SignalInv, NEW r \in Requests, NEW c, Advances(r, c),
           link' = link, processes' = processes, replies' = replies,
           c.op = "confirm" => c.pc \notin {"waiting", "clear"}
    PROVE  LinksHeld'
<1>1. SignalTyped /\ LinksHeld
  BY DEF SignalInv
<1>2. /\ signalCalls'[r] = c /\ \A q \in Requests \ {r} : signalCalls'[q] = signalCalls[q]
  BY <1>1, OneAdvances
<1>3. LinkIsTracked' /\ ConfirmedIsLinked'
  BY <1>1 DEF LinksHeld, LinkIsTracked, ConfirmedIsLinked, LinksRunning
<1>4. ASSUME NEW q \in Requests PROVE WaitedFor(signalCalls[q])'
  <2>1. CASE q = r
    BY <1>2, <2>1 DEF WaitedFor
  <2>2. CASE q # r
    BY <1>1, <1>2, <2>2 DEF LinksHeld, WaitedFor
  <2> QED BY <2>1, <2>2
<1> QED BY <1>1, <1>3, <1>4 DEF LinksHeld

LEMMA SenderStays ==
    ASSUME SignalInv, NEW r \in Requests, NEW c, Advances(r, c),
           signalCalls[r].pc \notin {"check", "unset"},
           sender' = sender, accounts \subseteq accounts', strays \subseteq strays'
    PROVE  SenderHasAccount'
<1>1. SignalTyped /\ SenderHasAccount
  BY DEF SignalInv
<1>2. \A q \in Requests \ {r} : signalCalls'[q] = signalCalls[q]
  BY <1>1, OneAdvances
<1> QED BY <1>1, <1>2 DEF SenderHasAccount

LEMMA SlotsStay ==
    ASSUME SignalInv, lastSend' = lastSend, slots' = slots
    PROVE  SlotsHeld'
  BY DEF SignalInv, SlotsHeld, SlotsAreApart

LEMMA TestsStay ==
    ASSUME SignalInv, NEW r \in Requests, NEW c, Advances(r, c),
           queuedTests' = queuedTests, ~(c.op = "test" /\ c.pc = "queue")
    PROVE  TestsHeld'
<1>1. SignalTyped /\ TestsHeld /\ queuedTests \in Nat
  BY DEF SignalInv, SignalTyped
<1>2. /\ signalCalls'[r] = c /\ \A q \in Requests \ {r} : signalCalls'[q] = signalCalls[q]
  BY <1>1, OneAdvances
<1> DEFINE after == {q \in Requests : signalCalls'[q].op = "test" /\ signalCalls'[q].pc = "queue"}
<1>3. after \subseteq Passing
  BY <1>2 DEF Passing
<1>4. IsFiniteSet(Passing) /\ Cardinality(Passing) \in Nat
  BY PassingIsFinite
<1>5. Cardinality(after) <= Cardinality(Passing) /\ IsFiniteSet(after)
  <2> HIDE DEF after
  <2> QED BY <1>3, <1>4, FS_Subset
<1>6. Cardinality(after) \in Nat /\ after = Passing'
  <2>1. after = Passing'
    BY DEF Passing
  <2> QED BY <1>5, <2>1, FS_CardinalityType
<1> HIDE DEF after
<1> QED BY <1>1, <1>4, <1>5, <1>6, RequestsAreFinite DEF TestsHeld

(* A step of one request that disturbs nothing.                            *)
LEMMA OrdinaryStep ==
    ASSUME SignalInv, NEW r \in Requests, NEW c, Advances(r, c),
           link' = link, processes' = processes, replies' = replies,
           c.op = "confirm" => c.pc \notin {"waiting", "clear"},
           signalCalls[r].pc \notin {"check", "unset"},
           sender' = sender, accounts \subseteq accounts', accounts' \subseteq Numbers,
           strays \subseteq strays', UNCHANGED sendVars,
           queuedTests' = queuedTests, ~(c.op = "test" /\ c.pc = "queue")
    PROVE  SignalInv'
<1>1. SignalTyped'
  <2>1. SignalTyped /\ signalCalls' \in [Requests -> SignalCall]
    BY OneAdvances DEF SignalInv
  <2> QED BY <2>1 DEF SignalTyped, sendVars
<1> QED BY <1>1, LinksStay, SenderStays, SlotsStay, TestsStay DEF SignalInv, sendVars

LEMMA CallOf ==
    ASSUME SignalInv, NEW r \in Requests
    PROVE  SignalTyped /\ signalCalls[r] \in SignalCall
  BY DEF SignalInv, SignalTyped

(* Requests that end, or go on, and disturb nothing.                       *)
LEMMA EndingStep ==
    ASSUME SignalInv, NEW r \in Requests, CallEnds(r),
           link' = link, processes' = processes, replies' = replies,
           signalCalls[r].pc \notin {"check", "unset"},
           sender' = sender, accounts \subseteq accounts', accounts' \subseteq Numbers,
           strays \subseteq strays', UNCHANGED sendVars, queuedTests' = queuedTests
    PROVE  SignalInv'
<1>1. Advances(r, NoCall)
  BY CallOf, CallsEnd
<1> QED BY <1>1, NoCallIsACall, OrdinaryStep

LEMMA GoingStep ==
    ASSUME SignalInv, NEW r \in Requests, NEW pc \in CallSteps, CallGoes(r, pc),
           pc \notin {"waiting", "clear", "queue"},
           link' = link, processes' = processes, replies' = replies,
           signalCalls[r].pc \notin {"check", "unset"},
           sender' = sender, accounts \subseteq accounts', accounts' \subseteq Numbers,
           strays \subseteq strays', UNCHANGED sendVars, queuedTests' = queuedTests
    PROVE  SignalInv'
<1>1. PICK c \in SignalCall : Advances(r, c) /\ c.pc = pc
  BY CallOf, CallsGo
<1> QED BY <1>1, OrdinaryStep

LEMMA CallsBegin ==
    ASSUME SignalInv, NEW r \in Requests, NEW op \in Operations, BeginCall(r, op)
    PROVE  SignalInv'
<1> DEFINE c == [NoCall EXCEPT !.op = op, !.pc = "begun"]
<1>1. /\ c \in SignalCall /\ c.op = op /\ c.pc = "begun"
  BY NoCallIsACall DEF SignalCall, CallSteps
<1>2. /\ signalCalls' = [signalCalls EXCEPT ![r] = c] /\ signalCalls[r].pc = "none"
      /\ UNCHANGED <<accounts, sender, linkVars, replies, strays, queuedTests, sendVars>>
  BY NoCallIsACall DEF BeginCall
<1> HIDE DEF c
<1>3. Advances(r, c)
  BY <1>1, <1>2 DEF Advances
<1> QED BY <1>1, <1>2, <1>3, OrdinaryStep, CallOf DEF linkVars, SignalTyped

(* Requests that only look.                                                *)
LEMMA LookingSteps ==
    ASSUME SignalInv, NEW r \in Requests,
           GiveUpLock(r) \/ ReadSession(r) \/ ReadSender(r) \/ FindSender(r)
    PROVE  SignalInv'
<1>1. SignalTyped /\ signalCalls[r] \in SignalCall
  BY CallOf
<1>2. CASE GiveUpLock(r)
  BY <1>1, <1>2, EndingStep DEF GiveUpLock, AtStep, linkVars, SignalTyped
<1>3. CASE ReadSession(r)
  <2>1. /\ signalCalls[r].pc = "begun"
        /\ UNCHANGED <<accounts, sender, linkVars, replies, strays, queuedTests, sendVars>>
    BY <1>3 DEF ReadSession, AtStep
  <2>2. CASE CallEnds(r)
    BY <1>1, <2>1, <2>2, EndingStep DEF linkVars, SignalTyped
  <2>3. CASE ~CallEnds(r)
    <3> DEFINE c == [signalCalls[r] EXCEPT !.pc = "wait", !.session = link.session]
    <3>1. link.session \in Links \union {0}
      BY <1>1 DEF SignalTyped
    <3>2. c \in SignalCall /\ c.pc = "wait"
      BY <1>1, <3>1 DEF SignalCall, CallSteps
    <3>3. signalCalls' = [signalCalls EXCEPT ![r] = c]
      BY <1>1, <1>3, <2>3 DEF ReadSession, SignalTyped
    <3> HIDE DEF c
    <3>4. Advances(r, c)
      BY <3>2, <3>3 DEF Advances
    <3> QED BY <1>1, <2>1, <3>2, <3>4, OrdinaryStep DEF linkVars, SignalTyped
  <2> QED BY <2>2, <2>3
<1>4. CASE ReadSender(r)
  <2> DEFINE c == [signalCalls[r] EXCEPT !.pc = "resolve", !.number = sender]
  <2>1. /\ signalCalls[r].pc = "begun"
        /\ UNCHANGED <<accounts, sender, linkVars, replies, strays, queuedTests, sendVars>>
        /\ signalCalls' = [signalCalls EXCEPT ![r] = c]
    BY <1>1, <1>4 DEF ReadSender, SignalTyped
  <2>2. c \in SignalCall /\ c.pc = "resolve"
    BY <1>1 DEF SignalCall, SignalTyped, CallSteps
  <2> HIDE DEF c
  <2>3. Advances(r, c)
    BY <2>1, <2>2 DEF Advances
  <2> QED BY <1>1, <2>1, <2>2, <2>3, OrdinaryStep DEF linkVars, SignalTyped
<1>5. CASE FindSender(r)
  <2>1. /\ signalCalls[r].pc = "begun"
        /\ UNCHANGED <<accounts, sender, linkVars, replies, strays, queuedTests, sendVars>>
    BY <1>5 DEF FindSender, AtStep
  <2>2. CASE CallEnds(r)
    BY <1>1, <2>1, <2>2, EndingStep DEF linkVars, SignalTyped
  <2>3. CASE ~CallEnds(r)
    <3>1. PICK n \in accounts :
             signalCalls' = [signalCalls EXCEPT ![r].pc = "store", ![r].number = n]
      BY <1>5, <2>3 DEF FindSender, ListAccounts
    <3> DEFINE c == [signalCalls[r] EXCEPT !.pc = "store", !.number = n]
    <3>2. n \in Numbers \union {Nothing}
      BY <1>1 DEF SignalTyped
    <3>3. c \in SignalCall /\ c.pc = "store"
      BY <1>1, <3>2 DEF SignalCall, CallSteps
    <3>4. signalCalls' = [signalCalls EXCEPT ![r] = c]
      BY <1>1, <3>1 DEF SignalTyped
    <3> HIDE DEF c
    <3>5. Advances(r, c)
      BY <3>3, <3>4 DEF Advances
    <3> QED BY <1>1, <2>1, <3>3, <3>5, OrdinaryStep DEF linkVars, SignalTyped
  <2> QED BY <2>2, <2>3
<1> QED BY <1>2, <1>3, <1>4, <1>5

(* Registering, and the way to a removal.                                  *)
LEMMA AccountSteps ==
    ASSUME SignalInv, NEW r \in Requests,
           (\E n \in Numbers : Verify(r, n)) \/ ResolveSender(r) \/ BeginRemoval(r)
    PROVE  SignalInv'
<1>1. SignalTyped /\ signalCalls[r] \in SignalCall
  BY CallOf
<1>2. CASE \E n \in Numbers : Verify(r, n)
  <2>1. PICK n \in Numbers : Verify(r, n)
    BY <1>2
  <2>2. accounts \subseteq accounts' /\ accounts' \subseteq Numbers
    BY <1>1, <2>1 DEF Verify, RunSignalCli, SignalTyped
  <2> QED BY <2>1, <2>2, EndingStep DEF Verify, AtStep, linkVars
<1>3. CASE ResolveSender(r)
  <2>1. /\ signalCalls[r].pc = "resolve"
        /\ UNCHANGED <<accounts, linkVars, replies, strays, queuedTests, sendVars>>
    BY <1>3 DEF ResolveSender
  <2>2. CASE sender' = Nothing /\ CallEnds(r)
    <3>1. Advances(r, NoCall)
      BY <1>1, <2>2, CallsEnd
    <3>2. LinksHeld' /\ SlotsHeld' /\ TestsHeld'
      BY <2>1, <3>1, NoCallIsACall, LinksStay, SlotsStay, TestsStay DEF linkVars, sendVars
    <3>3. SignalTyped'
      BY <1>1, <2>1, <2>2, <3>1, OneAdvances DEF SignalTyped, linkVars, sendVars
    <3>4. SenderHasAccount'
      BY <2>2 DEF SenderHasAccount
    <3> QED BY <3>2, <3>3, <3>4 DEF SignalInv
  <2>3. CASE sender' = sender /\ CallEnds(r)
    BY <1>1, <2>1, <2>3, EndingStep DEF linkVars, SignalTyped
  <2>4. CASE sender' = sender /\ CallGoes(r, "remove")
    BY <1>1, <2>1, <2>4, GoingStep DEF linkVars, SignalTyped, CallSteps
  <2> QED BY <1>3, <2>2, <2>3, <2>4 DEF ResolveSender
<1>4. CASE BeginRemoval(r)
  <2>1. /\ signalCalls[r].pc = "remove"
        /\ UNCHANGED <<accounts, sender, link, processes, replies, strays, queuedTests, sendVars>>
        /\ CallGoes(r, "data") \/ CallGoes(r, "server") \/ CallGoes(r, "unset")
    BY <1>4 DEF BeginRemoval
  <2> QED BY <1>1, <2>1, GoingStep DEF SignalTyped, CallSteps
<1> QED BY <1>2, <1>3, <1>4

(* Accounts go, and with them the sender; what disturbs only the sender.   *)
LEMMA RemovingStep ==
    ASSUME SignalInv, NEW r \in Requests, NEW c, Advances(r, c),
           link' = link, processes' = processes, replies' = replies,
           c.op = "confirm" => c.pc \notin {"waiting", "clear"},
           c.pc # "queue", UNCHANGED sendVars, queuedTests' = queuedTests,
           sender' \in Numbers \union {Nothing}, accounts' \subseteq Numbers,
           SenderHasAccount'
    PROVE  SignalInv'
<1>1. LinksHeld' /\ SlotsHeld' /\ TestsHeld'
  BY LinksStay, SlotsStay, TestsStay DEF sendVars
<1>2. SignalTyped /\ signalCalls' \in [Requests -> SignalCall]
  BY OneAdvances DEF SignalInv
<1>3. SignalTyped'
  BY <1>2 DEF SignalTyped, sendVars
<1> QED BY <1>1, <1>3 DEF SignalInv

(* The account may go: then the request says so, or leaves a stray.        *)
LEMMA AccountGoes ==
    ASSUME SignalInv, NEW r \in Requests, NEW c, Advances(r, c),
           signalCalls[r].pc \notin {"check", "unset"}, sender' = sender,
           accounts \ {signalCalls[r].number} \subseteq accounts', strays \subseteq strays',
           \/ signalCalls[r].number \in accounts' \union strays'
           \/ c.pc = "check" /\ c.number = signalCalls[r].number
    PROVE  SenderHasAccount'
<1>1. SignalTyped /\ SenderHasAccount
  BY DEF SignalInv
<1>2. signalCalls'[r] = c /\ \A q \in Requests \ {r} : signalCalls'[q] = signalCalls[q]
  BY <1>1, OneAdvances
<1>3. CASE \E q \in Requests : signalCalls[q].pc \in {"check", "unset"} /\ signalCalls[q].number = sender
  BY <1>2, <1>3 DEF SenderHasAccount
<1>4. CASE sender \in accounts \union strays \union {Nothing}
  <2>1. CASE sender \in strays \union {Nothing}
    BY <2>1 DEF SenderHasAccount
  <2>2. CASE sender \in accounts /\ sender # signalCalls[r].number
    BY <2>2 DEF SenderHasAccount
  <2>3. CASE sender = signalCalls[r].number
    BY <1>2, <2>3 DEF SenderHasAccount
  <2> QED BY <1>4, <2>1, <2>2, <2>3
<1> QED BY <1>1, <1>3, <1>4 DEF SenderHasAccount

LEMMA RemovalSteps ==
    ASSUME SignalInv, NEW r \in Requests,
           LeaveServer(r) \/ DeleteData(r) \/ CheckRemoved(r) \/ UnsetSender(r)
    PROVE  SignalInv'
<1> DEFINE n == signalCalls[r].number
<1>1. SignalTyped /\ signalCalls[r] \in SignalCall /\ SenderHasAccount
  BY CallOf DEF SignalInv
<1>2. CASE LeaveServer(r) \/ DeleteData(r)
  <2>1. /\ signalCalls[r].pc \in {"server", "data"}
        /\ accounts' \in {accounts, accounts \ {n}}
        /\ UNCHANGED <<sender, link, processes, replies, queuedTests, sendVars>>
        /\ \/ strays' = strays /\ CallGoes(r, "data") /\ n \in accounts'
           \/ strays' = strays /\ CallGoes(r, "check")
           \/ strays' = strays \union {n} /\ CallEnds(r)
    BY <1>2 DEF LeaveServer, DeleteData, RunSignalCli
  <2>2. accounts \ {n} \subseteq accounts' /\ accounts' \subseteq Numbers
    BY <1>1, <2>1 DEF SignalTyped
  <2>3. CASE CallGoes(r, "data") \/ CallGoes(r, "check")
    <3>1. PICK pc \in {"data", "check"} :
             CallGoes(r, pc) /\ (pc = "data" => n \in accounts' \union strays')
      BY <2>1, <2>3 DEF CallEnds
    <3>2. PICK c \in SignalCall : Advances(r, c) /\ c.pc = pc /\ c.number = n
      BY <1>1, <3>1, CallsGo DEF CallSteps
    <3> HIDE DEF n
    <3>3. SenderHasAccount'
      BY <2>1, <2>2, <3>1, <3>2, AccountGoes DEF n
    <3> QED BY <1>1, <2>1, <2>2, <3>1, <3>2, <3>3, RemovingStep DEF SignalTyped
  <2>4. CASE strays' = strays \union {n} /\ CallEnds(r)
    <3>1. Advances(r, NoCall)
      BY <1>1, <2>4, CallsEnd
    <3>2. SenderHasAccount'
      BY <2>1, <2>2, <2>4, <3>1, AccountGoes
    <3> QED BY <1>1, <2>1, <2>2, <3>1, <3>2, NoCallIsACall, RemovingStep DEF SignalTyped
  <2> QED BY <2>1, <2>3, <2>4
<1>3. CASE CheckRemoved(r)
  <2>1. /\ signalCalls[r].pc = "check"
        /\ UNCHANGED <<accounts, sender, link, processes, replies, strays, queuedTests, sendVars>>
        /\ \/ n \in accounts /\ CallEnds(r)
           \/ CallGoes(r, "unset")
    BY <1>3 DEF CheckRemoved, ListAccounts
  <2>2. CASE n \in accounts /\ CallEnds(r)
    <3>1. Advances(r, NoCall)
      BY <1>1, <2>2, CallsEnd
    <3>2. \A q \in Requests \ {r} : signalCalls'[q] = signalCalls[q]
      BY <1>1, <3>1, OneAdvances
    <3>3. SenderHasAccount'
      BY <1>1, <2>1, <2>2, <3>2 DEF SenderHasAccount
    <3> QED BY <1>1, <2>1, <3>1, <3>3, NoCallIsACall, RemovingStep DEF SignalTyped
  <2>3. CASE CallGoes(r, "unset")
    <3>1. PICK c \in SignalCall : Advances(r, c) /\ c.pc = "unset" /\ c.number = n
      BY <1>1, <2>3, CallsGo DEF CallSteps
    <3>2. signalCalls'[r] = c /\ \A q \in Requests \ {r} : signalCalls'[q] = signalCalls[q]
      BY <1>1, <3>1, OneAdvances
    <3>3. SenderHasAccount'
      BY <1>1, <2>1, <3>1, <3>2 DEF SenderHasAccount
    <3> QED BY <1>1, <2>1, <3>1, <3>3, RemovingStep DEF SignalTyped
  <2> QED BY <2>1, <2>2, <2>3
<1>4. CASE UnsetSender(r)
  <2>1. sender' = Nothing /\ CallEnds(r)
        /\ UNCHANGED <<accounts, linkVars, replies, strays, queuedTests, sendVars>>
    BY <1>4 DEF UnsetSender
  <2>2. Advances(r, NoCall) /\ SenderHasAccount'
    BY <1>1, <2>1, CallsEnd DEF SenderHasAccount
  <2> QED BY <1>1, <2>1, <2>2, NoCallIsACall, RemovingStep DEF SignalTyped, linkVars
<1> QED BY <1>2, <1>3, <1>4

LEMMA SenderSteps ==
    ASSUME SignalInv, NEW r \in Requests,
           (\E n \in Numbers : SetSender(r, n)) \/ StoreSender(r)
    PROVE  SignalInv'
<1>1. SignalTyped /\ signalCalls[r] \in SignalCall
  BY CallOf
<1>2. /\ sender' \in Numbers \union {Nothing} /\ sender' \in accounts \union strays'
      /\ CallEnds(r) /\ UNCHANGED <<accounts, linkVars, replies, queuedTests, sendVars>>
  <2>1. signalCalls[r].number \in Numbers \union {Nothing}
    BY <1>1 DEF SignalCall
  <2> QED BY <2>1 DEF SetSender, StoreSender
<1>3. Advances(r, NoCall) /\ SenderHasAccount'
  BY <1>1, <1>2, CallsEnd DEF SenderHasAccount
<1> QED BY <1>1, <1>2, <1>3, NoCallIsACall, RemovingStep DEF SignalTyped, linkVars

(* What disturbs only the links.                                           *)
LEMMA LinkingStep ==
    ASSUME SignalInv, NEW r \in Requests, NEW c, Advances(r, c),
           signalCalls[r].pc \notin {"check", "unset"}, c.pc # "queue",
           UNCHANGED <<accounts, sender, strays, queuedTests, sendVars>>,
           link' \in [process : Links \union {0}, session : Links \union {0}],
           processes' \in [Links -> {"new", "running", "linked", "failed", "killed"}],
           replies' \subseteq Links \X {"linked", "timeout"},
           LinksHeld'
    PROVE  SignalInv'
<1>1. SenderHasAccount' /\ SlotsHeld' /\ TestsHeld'
  BY SenderStays, SlotsStay, TestsStay DEF sendVars
<1>2. SignalTyped /\ signalCalls' \in [Requests -> SignalCall]
  BY OneAdvances DEF SignalInv
<1>3. SignalTyped'
  BY <1>2 DEF SignalTyped, sendVars
<1> QED BY <1>1, <1>3 DEF SignalInv

(* Processes go on: what has started is never new again, what has ended    *)
(* has ended, and who is linked stays so.                                  *)
GoOn ==
    \A p \in Links :
        /\ processes'[p] = "new" => processes[p] = "new"
        /\ processes'[p] = "running" => processes[p] \in {"new", "running"}
        /\ processes[p] = "linked" => processes'[p] = "linked"

LEMMA WaitsGoOn ==
    ASSUME SignalInv, GoOn, NEW c, WaitedFor(c)
    PROVE  c.op = "confirm" =>
              /\ c.pc = "waiting" => c.process \in Links /\ processes'[c.process] # "new"
              /\ c.pc = "clear" => c.process \in Links /\ processes'[c.process] \notin {"new", "running"}
  BY DEF GoOn, WaitedFor

(* The parts of LinksHeld that do not depend on the step.                  *)
LEMMA LinksGoOn ==
    ASSUME SignalInv, GoOn, NEW r \in Requests, NEW c, Advances(r, c),
           c.op = "confirm" =>
               /\ c.pc = "waiting" => c.process \in Links /\ processes'[c.process] # "new"
               /\ c.pc = "clear" => c.process \in Links /\ processes'[c.process] \notin {"new", "running"},
           LinkIsTracked', link'.process = link'.session,
           link'.process # 0 => processes'[link'.process] # "new",
           \A reply \in replies' : reply[2] = "linked" => processes'[reply[1]] = "linked"
    PROVE  LinksHeld'
<1>1. SignalTyped /\ LinksHeld
  BY DEF SignalInv
<1>2. signalCalls'[r] = c /\ \A q \in Requests \ {r} : signalCalls'[q] = signalCalls[q]
  BY <1>1, OneAdvances
<1>3. ASSUME NEW q \in Requests PROVE WaitedFor(signalCalls[q])'
  <2>1. CASE q = r
    BY <1>2, <2>1 DEF WaitedFor
  <2>2. CASE q # r
    <3>1. WaitedFor(signalCalls[q]) /\ signalCalls'[q] = signalCalls[q]
      BY <1>1, <1>2, <2>2 DEF LinksHeld
    <3> QED BY <3>1, WaitsGoOn DEF WaitedFor
  <2> QED BY <2>1, <2>2
<1> QED BY <1>3 DEF LinksHeld, ConfirmedIsLinked

LEMMA StoppedEnds ==
    ASSUME SignalInv, NEW p \in Links
    PROVE  /\ Stopped[p] \in {"new", "linked", "failed", "killed"}
           /\ Stopped[p] = "new" => processes[p] = "new"
           /\ processes[p] = "linked" => Stopped[p] = "linked"
<1>1. processes[p] \in {"new", "running", "linked", "failed", "killed"}
  BY DEF SignalInv, SignalTyped
<1>2. processes[p] = "running" => p = link.process
  BY DEF SignalInv, LinksHeld, LinkIsTracked, LinksRunning
<1>3. CASE p = link.process /\ processes[p] = "running"
  <2>1. Stopped[p] = "killed"
    BY <1>3 DEF Stopped
  <2> QED BY <1>3, <2>1
<1>4. CASE ~(p = link.process /\ processes[p] = "running")
  <2>1. Stopped[p] = processes[p]
    BY <1>4 DEF Stopped
  <2> QED BY <1>1, <1>2, <1>4, <2>1
<1> QED BY <1>3, <1>4

LEMMA StoppedIsTyped ==
    ASSUME SignalInv
    PROVE  Stopped \in [Links -> {"new", "running", "linked", "failed", "killed"}]
<1> DEFINE v(p) == IF p = link.process /\ processes[p] = "running" THEN "killed" ELSE processes[p]
<1>1. \A p \in Links : v(p) \in {"new", "running", "linked", "failed", "killed"}
  <2>1. \A p \in Links : processes[p] \in {"new", "running", "linked", "failed", "killed"}
    BY DEF SignalInv, SignalTyped
  <2> QED BY <2>1
<1>2. Stopped = [p \in Links |-> v(p)]
  BY DEF Stopped
<1> HIDE DEF v
<1> QED BY <1>1, <1>2

LEMMA NoLink ==
    LET l == [process |-> 0, session |-> 0] IN
    /\ l \in [process : Links \union {0}, session : Links \union {0}]
    /\ l.process = 0 /\ l.session = 0
<1> DEFINE z == 0
           l == [process |-> z, session |-> z]
<1>1. z \in Links \union {0}
  OBVIOUS
<1> HIDE DEF z
<1>2. l \in [process : Links \union {0}, session : Links \union {0}] /\ l.process = z /\ l.session = z
  BY <1>1
<1> QED BY <1>2 DEF z

LEMMA LinksAreNumbers == Links \subseteq Nat /\ 0 \notin Links
  BY SignalAssumption

LEMMA RepliesHold ==
    ASSUME SignalInv
    PROVE  \A reply \in replies : reply[1] \in Links /\ (reply[2] = "linked" => processes[reply[1]] = "linked")
  BY DEF SignalInv, SignalTyped, LinksHeld, ConfirmedIsLinked

LEMMA LinkStarts ==
    ASSUME SignalInv, NEW r \in Requests, NEW p \in Links, StartLink(r, p)
    PROVE  SignalInv'
<1> DEFINE l == [process |-> p, session |-> p]
<1>1. SignalTyped /\ signalCalls[r] \in SignalCall
  BY CallOf
<1>2. /\ signalCalls[r].op = "qr" /\ signalCalls[r].pc = "begun" /\ processes[p] = "new"
      /\ processes' = [Stopped EXCEPT ![p] = "running"] /\ link' = l
      /\ CallGoes(r, "uri")
      /\ UNCHANGED <<accounts, sender, replies, strays, queuedTests, sendVars>>
  BY DEF StartLink, AtStep
<1>3. PICK c \in SignalCall : Advances(r, c) /\ c.pc = "uri" /\ c.op = "qr"
  BY <1>1, <1>2, CallsGo DEF CallSteps
<1>4. /\ l \in [process : Links \union {0}, session : Links \union {0}]
      /\ l.process = p /\ l.session = p
  OBVIOUS
<1> HIDE DEF l
<1>5. /\ processes' \in [Links -> {"new", "running", "linked", "failed", "killed"}]
      /\ processes'[p] = "running" /\ \A q \in Links \ {p} : processes'[q] = Stopped[q]
  BY <1>2, StoppedIsTyped
<1>6. GoOn
  <2> SUFFICES ASSUME NEW q \in Links
               PROVE  /\ processes'[q] = "new" => processes[q] = "new"
                      /\ processes'[q] = "running" => processes[q] \in {"new", "running"}
                      /\ processes[q] = "linked" => processes'[q] = "linked"
    BY DEF GoOn
  <2>1. CASE q = p
    BY <1>2, <1>5, <2>1
  <2>2. CASE q # p
    <3>1. processes'[q] = Stopped[q]
      BY <1>5, <2>2
    <3> QED BY <3>1, StoppedEnds
  <2> QED BY <2>1, <2>2
<1>7. LinkIsTracked'
  <2> SUFFICES ASSUME NEW q \in Links, processes'[q] = "running"
               PROVE  link'.process = q /\ link'.session = q
    BY DEF LinkIsTracked, LinksRunning
  <2>1. q = p
    <3>1. Stopped[q] # "running"
      BY StoppedEnds
    <3> QED BY <1>5, <3>1
  <2> QED BY <1>2, <1>4, <2>1
<1>8. \A reply \in replies' : reply[2] = "linked" => processes'[reply[1]] = "linked"
  BY <1>2, <1>6, RepliesHold DEF GoOn
<1>9. LinksHeld'
  BY <1>2, <1>3, <1>4, <1>5, <1>6, <1>7, <1>8, LinksGoOn
<1> QED BY <1>1, <1>2, <1>3, <1>4, <1>5, <1>9, LinkingStep DEF SignalTyped

(* The tracked process is ended, whatever it was about.                    *)
LEMMA LinkStops ==
    ASSUME SignalInv, NEW r \in Requests, NEW c, Advances(r, c),
           signalCalls[r].pc \notin {"check", "unset"}, c.pc # "queue",
           c.op = "confirm" => c.pc \notin {"waiting", "clear"},
           UNCHANGED <<accounts, sender, strays, queuedTests, sendVars, replies>>,
           processes' = Stopped, link' = [process |-> 0, session |-> 0]
    PROVE  SignalInv'
<1>1. SignalTyped
  BY DEF SignalInv
<1>2. ASSUME NEW p \in Links
      PROVE  /\ processes'[p] # "running"
             /\ processes'[p] = "new" => processes[p] = "new"
             /\ processes[p] = "linked" => processes'[p] = "linked"
  BY StoppedEnds
<1>3. GoOn /\ LinkIsTracked'
  BY <1>2 DEF GoOn, LinkIsTracked, LinksRunning
<1>4. \A reply \in replies' : reply[2] = "linked" => processes'[reply[1]] = "linked"
  BY <1>3, RepliesHold DEF GoOn
<1>5. LinksHeld'
  BY <1>3, <1>4, NoLink, LinksGoOn
<1> QED BY <1>1, <1>5, NoLink, StoppedIsTyped, LinkingStep DEF SignalTyped

LEMMA LinkSteps ==
    ASSUME SignalInv, NEW r \in Requests, ShowQr(r) \/ BeginWait(r) \/ CancelLink(r)
    PROVE  SignalInv'
<1>1. SignalTyped /\ signalCalls[r] \in SignalCall
  BY CallOf
<1>2. CASE ShowQr(r)
  <2>1. /\ signalCalls[r].pc = "uri" /\ CallEnds(r)
        /\ UNCHANGED <<accounts, sender, replies, strays, queuedTests, sendVars>>
        /\ \/ UNCHANGED <<link, processes>>
           \/ processes' = Stopped /\ link' = [process |-> 0, session |-> 0]
    BY <1>2 DEF ShowQr, AtStep
  <2>2. Advances(r, NoCall)
    BY <1>1, <2>1, CallsEnd
  <2>3. CASE UNCHANGED <<link, processes>>
    BY <1>1, <2>1, <2>3, EndingStep DEF SignalTyped
  <2>4. CASE processes' = Stopped /\ link' = [process |-> 0, session |-> 0]
    BY <2>1, <2>2, <2>4, LinkStops, NoCallIsACall
  <2> QED BY <2>1, <2>3, <2>4
<1>3. CASE CancelLink(r)
  <2>1. /\ signalCalls[r].pc = "begun" /\ CallEnds(r)
        /\ UNCHANGED <<accounts, sender, replies, strays, queuedTests, sendVars>>
        /\ processes' = Stopped /\ link' = [process |-> 0, session |-> 0]
    BY <1>3 DEF CancelLink, AtStep
  <2>2. Advances(r, NoCall)
    BY <1>1, <2>1, CallsEnd
  <2> QED BY <2>1, <2>2, LinkStops, NoCallIsACall
<1>4. CASE BeginWait(r)
  <2>1. /\ signalCalls[r].pc = "wait"
        /\ UNCHANGED <<accounts, sender, linkVars, replies, strays, queuedTests, sendVars>>
    BY <1>4 DEF BeginWait, AtStep
  <2>2. CASE CallEnds(r)
    BY <1>1, <2>1, <2>2, EndingStep DEF linkVars, SignalTyped
  <2>3. CASE ~CallEnds(r)
    <3> DEFINE c == [signalCalls[r] EXCEPT !.pc = "waiting", !.process = link.process]
    <3>1. /\ link.process \in Links /\ processes[link.process] # "new"
          /\ signalCalls' = [signalCalls EXCEPT ![r] = c]
      BY <1>1, <1>4, <2>3 DEF BeginWait, SignalTyped, SignalInv, LinksHeld
    <3>2. c \in SignalCall /\ c.pc = "waiting" /\ c.process = link.process
      BY <1>1, <3>1 DEF SignalCall, CallSteps
    <3> HIDE DEF c
    <3>3. Advances(r, c)
      BY <3>1, <3>2 DEF Advances
    <3>4. /\ c.op = "confirm" =>
               /\ c.pc = "waiting" => c.process \in Links /\ processes'[c.process] # "new"
               /\ c.pc = "clear" => c.process \in Links /\ processes'[c.process] \notin {"new", "running"}
      BY <2>1, <3>1, <3>2 DEF linkVars
    <3>5. GoOn
      BY <2>1 DEF GoOn, linkVars
    <3>6. /\ LinkIsTracked' /\ link'.process = link'.session
          /\ link'.process # 0 => processes'[link'.process] # "new"
          /\ \A reply \in replies' : reply[2] = "linked" => processes'[reply[1]] = "linked"
      BY <2>1 DEF SignalInv, LinksHeld, LinkIsTracked, LinksRunning, ConfirmedIsLinked, linkVars
    <3>7. LinksHeld'
      BY <3>3, <3>4, <3>5, <3>6, LinksGoOn
    <3> QED BY <1>1, <2>1, <3>2, <3>3, <3>7, LinkingStep DEF linkVars, SignalTyped
  <2> QED BY <2>2, <2>3
<1> QED BY <1>2, <1>3, <1>4

LEMMA WaitEnds ==
    ASSUME SignalInv, NEW r \in Requests, EndWait(r)
    PROVE  SignalInv'
<1> DEFINE p == signalCalls[r].process
<1>1. SignalTyped /\ signalCalls[r] \in SignalCall
  BY CallOf
<1>2. /\ signalCalls[r].op = "confirm" /\ signalCalls[r].pc = "waiting"
      /\ processes' = [processes EXCEPT ![p] = IF processes[p] = "running" THEN "killed" ELSE processes[p]]
      /\ replies' = replies \union {<<p, IF processes[p] = "linked" THEN "linked" ELSE "timeout">>}
      /\ CallGoes(r, "clear")
      /\ UNCHANGED <<accounts, sender, link, strays, queuedTests, sendVars>>
  BY DEF EndWait, AtStep
<1>3. PICK c \in SignalCall : Advances(r, c) /\ c.pc = "clear" /\ c.op = "confirm" /\ c.process = p
  BY <1>1, <1>2, CallsGo DEF CallSteps
<1>4. p \in Links /\ processes[p] # "new"
  BY <1>2 DEF SignalInv, LinksHeld, WaitedFor
<1>5. processes[p] \in {"running", "linked", "failed", "killed"}
  BY <1>1, <1>4 DEF SignalTyped
<1> HIDE DEF p
<1>6. /\ processes' \in [Links -> {"new", "running", "linked", "failed", "killed"}]
      /\ processes'[p] \in {"linked", "failed", "killed"}
      /\ processes[p] = "linked" => processes'[p] = "linked"
      /\ \A q \in Links \ {p} : processes'[q] = processes[q]
  <2>1. CASE processes[p] = "running"
    BY <1>1, <1>2, <1>4, <2>1 DEF SignalTyped
  <2>2. CASE processes[p] # "running"
    BY <1>1, <1>2, <1>4, <1>5, <2>2 DEF SignalTyped
  <2> QED BY <2>1, <2>2
<1>7. GoOn
  <2> SUFFICES ASSUME NEW q \in Links
               PROVE  /\ processes'[q] = "new" => processes[q] = "new"
                      /\ processes'[q] = "running" => processes[q] \in {"new", "running"}
                      /\ processes[q] = "linked" => processes'[q] = "linked"
    BY DEF GoOn
  <2>1. CASE q = p
    BY <1>6, <2>1
  <2>2. CASE q # p
    BY <1>6, <2>2
  <2> QED BY <2>1, <2>2
<1>8. LinkIsTracked'
  <2> SUFFICES ASSUME NEW q \in Links, processes'[q] = "running"
               PROVE  link'.process = q /\ link'.session = q
    BY DEF LinkIsTracked, LinksRunning
  <2>1. processes[q] = "running"
    BY <1>6
  <2> QED BY <1>2, <2>1 DEF SignalInv, LinksHeld, LinkIsTracked, LinksRunning
<1>9. /\ link'.process = link'.session
      /\ link'.process # 0 => processes'[link'.process] # "new"
  <2>1. link \in [process : Links \union {0}, session : Links \union {0}]
    BY <1>1 DEF SignalTyped
  <2>2. /\ link.process = link.session /\ link' = link
        /\ link.process # 0 => link.process \in Links /\ processes[link.process] # "new"
    BY <1>2, <2>1 DEF SignalInv, LinksHeld
  <2> QED BY <1>7, <2>2 DEF GoOn
<1>10. /\ replies' \subseteq Links \X {"linked", "timeout"}
       /\ \A reply \in replies' : reply[2] = "linked" => processes'[reply[1]] = "linked"
  <2>1. replies \subseteq Links \X {"linked", "timeout"}
    BY <1>1 DEF SignalTyped
  <2>2. \A reply \in replies : reply[2] = "linked" => processes'[reply[1]] = "linked"
    BY <1>7, RepliesHold DEF GoOn
  <2>3. CASE processes[p] = "linked"
    <3>1. replies' = replies \union {<<p, "linked">>}
      BY <1>2, <2>3
    <3> QED BY <1>4, <1>6, <2>1, <2>2, <2>3, <3>1
  <2>4. CASE processes[p] # "linked"
    <3>1. replies' = replies \union {<<p, "timeout">>}
      BY <1>2, <2>4
    <3> QED BY <1>4, <2>1, <2>2, <3>1
  <2> QED BY <2>3, <2>4
<1>11. LinksHeld'
  BY <1>3, <1>4, <1>6, <1>7, <1>8, <1>9, <1>10, LinksGoOn
<1> QED BY <1>1, <1>2, <1>3, <1>6, <1>10, <1>11, LinkingStep DEF SignalTyped

LEMMA LinkClears ==
    ASSUME SignalInv, NEW r \in Requests, ClearLink(r)
    PROVE  SignalInv'
<1> DEFINE p == signalCalls[r].process
<1>1. SignalTyped /\ signalCalls[r] \in SignalCall
  BY CallOf
<1>2. /\ signalCalls[r].op = "confirm" /\ signalCalls[r].pc = "clear"
      /\ link' = Forget(p) /\ CallEnds(r)
      /\ UNCHANGED <<accounts, sender, processes, replies, strays, queuedTests, sendVars>>
  BY DEF ClearLink, AtStep
<1>3. Advances(r, NoCall)
  BY <1>1, <1>2, CallsEnd
<1>4. p \in Links /\ processes[p] # "running"
  BY <1>2 DEF SignalInv, LinksHeld, WaitedFor
<1>5. GoOn /\ \A reply \in replies' : reply[2] = "linked" => processes'[reply[1]] = "linked"
  BY <1>2 DEF GoOn, SignalInv, LinksHeld, ConfirmedIsLinked
<1>6. CASE link.process = p
  <2>1. link' = [process |-> 0, session |-> 0]
    BY <1>2, <1>6 DEF Forget
  <2>2. LinkIsTracked'
    BY <1>2, <1>4, <1>6 DEF SignalInv, LinksHeld, LinkIsTracked, LinksRunning
  <2>3. LinksHeld'
    BY <1>3, <1>5, <2>1, <2>2, NoLink, NoCallIsACall, LinksGoOn
  <2> QED BY <1>1, <1>2, <1>3, <2>1, <2>3, NoLink, NoCallIsACall, LinkingStep DEF SignalTyped
<1>7. CASE link.process # p
  <2>1. link' = link
    BY <1>2, <1>7 DEF Forget
  <2> QED BY <1>1, <1>2, <2>1, EndingStep DEF SignalTyped
<1> QED BY <1>6, <1>7

LEMMA PhoneSteps ==
    ASSUME SignalInv, NEW p \in Links, NEW n \in Numbers, PhoneLinks(p, n)
    PROVE  SignalInv'
<1>1. SignalTyped /\ LinksHeld /\ SenderHasAccount
  BY DEF SignalInv
<1>2. PICK end \in {"linked", "failed"} :
         /\ processes[p] = "running" /\ processes' = [processes EXCEPT ![p] = end]
         /\ accounts \subseteq accounts' /\ accounts' \subseteq accounts \union {n}
         /\ UNCHANGED <<sender, link, signalCalls, replies, strays, queuedTests, sendVars>>
  BY DEF PhoneLinks, LinksRunning
<1>3. /\ processes' \in [Links -> {"new", "running", "linked", "failed", "killed"}]
      /\ processes'[p] = end /\ \A q \in Links \ {p} : processes'[q] = processes[q]
  BY <1>1, <1>2 DEF SignalTyped
<1>4. GoOn
  BY <1>2, <1>3 DEF GoOn
<1>5. LinkIsTracked'
  <2>1. LinksRunning' \subseteq LinksRunning
    BY <1>3 DEF LinksRunning
  <2> QED BY <1>1, <1>2, <2>1 DEF LinksHeld, LinkIsTracked
<1>6. ConfirmedIsLinked'
  BY <1>2, <1>4, RepliesHold DEF ConfirmedIsLinked, GoOn
<1>7. link'.process = link'.session /\ (link'.process # 0 => processes'[link'.process] # "new")
  <2>1. link \in [process : Links \union {0}, session : Links \union {0}]
    BY <1>1 DEF SignalTyped
  <2>2. /\ link.process = link.session /\ link' = link
        /\ link.process # 0 => link.process \in Links /\ processes[link.process] # "new"
    BY <1>1, <1>2, <2>1 DEF LinksHeld
  <2> QED BY <1>4, <2>2 DEF GoOn
<1>8. ASSUME NEW q \in Requests PROVE WaitedFor(signalCalls[q])'
  <2>1. WaitedFor(signalCalls[q]) /\ signalCalls'[q] = signalCalls[q]
    BY <1>1, <1>2 DEF LinksHeld
  <2> QED BY <1>4, <2>1, WaitsGoOn DEF WaitedFor
<1>9. LinksHeld'
  BY <1>5, <1>6, <1>7, <1>8 DEF LinksHeld
<1>10. SenderHasAccount'
  BY <1>1, <1>2 DEF SenderHasAccount
<1>11. SlotsHeld' /\ TestsHeld'
  BY <1>2 DEF SignalInv, SlotsHeld, SlotsAreApart, TestsHeld, Passing, sendVars
<1>12. SignalTyped'
  BY <1>1, <1>2, <1>3 DEF SignalTyped, sendVars
<1> QED BY <1>9, <1>10, <1>11, <1>12 DEF SignalInv

(* Tests: who passes the cooldown counts at once.                          *)
LEMMA CooldownPasses ==
    ASSUME SignalInv, NEW r \in Requests, CheckCooldown(r)
    PROVE  SignalInv'
<1>1. SignalTyped /\ signalCalls[r] \in SignalCall
  BY CallOf
<1>2. /\ signalCalls[r].op = "test" /\ signalCalls[r].pc = "begun"
      /\ UNCHANGED <<accounts, sender, linkVars, replies, strays, queuedTests, sendVars>>
      /\ CallEnds(r) \/ (queuedTests = 0 /\ CallGoes(r, "queue"))
  BY <1>1 DEF CheckCooldown, AtStep, SignalTyped
<1>3. CASE CallEnds(r)
  BY <1>1, <1>2, <1>3, EndingStep DEF linkVars, SignalTyped
<1>4. CASE queuedTests = 0 /\ CallGoes(r, "queue")
  <2>1. PICK c \in SignalCall : Advances(r, c) /\ c.pc = "queue" /\ c.op = "test"
    BY <1>1, <1>2, <1>4, CallsGo DEF CallSteps
  <2>2. LinksHeld' /\ SenderHasAccount' /\ SlotsHeld'
    BY <1>2, <2>1, LinksStay, SenderStays, SlotsStay DEF linkVars, sendVars
  <2>3. SignalTyped'
    BY <1>1, <1>2, <2>1, OneAdvances DEF SignalTyped, linkVars, sendVars
  <2>4. TestsHeld'
    <3>1. Passing' \subseteq Requests
      BY DEF Passing
    <3>2. IsFiniteSet(Passing') /\ Cardinality(Passing') <= Cardinality(Requests)
      BY <3>1, RequestsAreFinite, FS_Subset
    <3>3. Cardinality(Passing') \in Nat
      BY <3>2, FS_CardinalityType
    <3>4. queuedTests' = 0
      BY <1>2, <1>4
    <3> QED BY <3>2, <3>3, <3>4, RequestsAreFinite DEF TestsHeld
  <2> QED BY <2>2, <2>3, <2>4 DEF SignalInv
<1> QED BY <1>2, <1>3, <1>4

LEMMA TestQueues ==
    ASSUME SignalInv, NEW r \in Requests, QueueTest(r)
    PROVE  SignalInv'
<1>1. SignalTyped /\ signalCalls[r] \in SignalCall /\ TestsHeld
  BY CallOf DEF SignalInv
<1>2. /\ signalCalls[r].op = "test" /\ signalCalls[r].pc = "queue" /\ CallEnds(r)
      /\ queuedTests' \in {queuedTests, queuedTests + 1}
      /\ UNCHANGED <<accounts, sender, linkVars, replies, strays, sendVars>>
  BY DEF QueueTest, AtStep
<1>3. Advances(r, NoCall)
  BY <1>1, <1>2, CallsEnd
<1>4. LinksHeld' /\ SenderHasAccount' /\ SlotsHeld'
  BY <1>2, <1>3, NoCallIsACall, LinksStay, SenderStays, SlotsStay DEF linkVars, sendVars
<1>5. queuedTests \in Nat /\ queuedTests' \in Nat
  BY <1>1, <1>2 DEF SignalTyped
<1>6. SignalTyped'
  <2>1. signalCalls' \in [Requests -> SignalCall]
    BY <1>1, <1>3, OneAdvances
  <2> QED BY <1>1, <1>2, <1>5, <2>1 DEF SignalTyped, linkVars, sendVars
<1>7. TestsHeld'
  <2>1. Passing' = Passing \ {r} /\ r \in Passing
    BY <1>1, <1>2, <1>3, NoCallIsACall, OneAdvances DEF Passing
  <2>2. Cardinality(Passing \ {r}) = Cardinality(Passing) - 1 /\ Cardinality(Passing) \in Nat
    BY <2>1, PassingIsFinite, FS_RemoveElement
  <2>3. Cardinality(Passing') = Cardinality(Passing) - 1
    BY <2>1, <2>2
  <2> QED BY <1>1, <1>2, <1>5, <2>2, <2>3, RequestsAreFinite DEF TestsHeld
<1> QED BY <1>4, <1>6, <1>7 DEF SignalInv

(* Sends take slots.                                                       *)
LEMMA SlotIsTaken ==
    ASSUME SignalInv, NEW r \in Requests, TakeSlot(r)
    PROVE  SignalInv'
<1>1. SignalTyped /\ signalCalls[r] \in SignalCall /\ SlotsHeld
  BY CallOf DEF SignalInv
<1>2. /\ signalCalls[r].op = "send" /\ signalCalls[r].pc = "begun" /\ CallGoes(r, "sleep")
      /\ lastSend' = Slot /\ slots' = slots \union {<<r, Slot>>}
      /\ UNCHANGED <<accounts, sender, linkVars, replies, strays, queuedTests, sendClock>>
  BY DEF TakeSlot, AtStep
<1>3. PICK c \in SignalCall : Advances(r, c) /\ c.pc = "sleep" /\ c.op = "send"
  BY <1>1, <1>2, CallsGo DEF CallSteps
<1>4. LinksHeld' /\ SenderHasAccount' /\ TestsHeld'
  BY <1>2, <1>3, LinksStay, SenderStays, TestsStay DEF linkVars
<1>5. /\ sendClock \in Nat /\ lastSend \in Nat /\ slots \subseteq Requests \X Nat
      /\ Interval \in Nat \ {0}
  BY <1>1, SignalAssumption DEF SignalTyped
<1>6. Slot \in Nat /\ (slots # {} => Slot >= lastSend + Interval)
  BY <1>5 DEF Slot
<1> DEFINE s == Slot
<1>7. s \in Nat /\ (slots # {} => s >= lastSend + Interval) /\ lastSend' = s
      /\ slots' = slots \union {<<r, s>>}
  BY <1>2, <1>6
<1> HIDE DEF s
<1>8. SignalTyped'
  <2>1. signalCalls' \in [Requests -> SignalCall]
    BY <1>1, <1>3, OneAdvances
  <2>2. slots' \subseteq Requests \X Nat
    BY <1>5, <1>7
  <2> QED BY <1>1, <1>2, <1>7, <2>1, <2>2 DEF SignalTyped, linkVars
<1>9. ASSUME NEW old \in slots PROVE s - old[2] >= Interval /\ old[2] <= s
  <2>1. old[2] \in Nat /\ old[2] <= lastSend /\ slots # {}
    BY <1>1, <1>5 DEF SlotsHeld
  <2> QED BY <1>5, <1>7, <2>1
<1>10. \A t \in slots' : t[2] <= lastSend'
  BY <1>7, <1>9
<1>11. SlotsAreApart'
  <2> SUFFICES ASSUME NEW t \in slots', NEW u \in slots', t # u
               PROVE  t[2] - u[2] >= Interval \/ u[2] - t[2] >= Interval
    BY DEF SlotsAreApart
  <2>1. CASE t \in slots /\ u \in slots
    BY <1>1, <2>1 DEF SlotsHeld, SlotsAreApart
  <2>2. CASE t \in slots /\ u = <<r, s>>
    BY <1>9, <2>2
  <2>3. CASE u \in slots /\ t = <<r, s>>
    BY <1>9, <2>3
  <2> QED BY <1>7, <2>1, <2>2, <2>3
<1>12. SlotsHeld'
  BY <1>10, <1>11 DEF SlotsHeld
<1> QED BY <1>4, <1>8, <1>12 DEF SignalInv

LEMMA ClockSteps ==
    ASSUME SignalInv, CooldownEnds \/ SendTick
    PROVE  SignalInv'
<1>1. /\ UNCHANGED <<accounts, sender, linkVars, signalCalls, replies, strays, lastSend, slots>>
      /\ queuedTests' \in {0, queuedTests} /\ sendClock' \in {sendClock, sendClock + 1}
  BY DEF CooldownEnds, SendTick, sendVars
<1>2. SignalTyped /\ queuedTests \in Nat /\ queuedTests' \in Nat /\ sendClock' \in Nat
  BY <1>1 DEF SignalInv, SignalTyped
<1>3. SignalTyped'
  BY <1>1, <1>2 DEF SignalTyped, linkVars
<1>4. LinksHeld'
  BY <1>1 DEF SignalInv, LinksHeld, LinkIsTracked, ConfirmedIsLinked, LinksRunning, WaitedFor, linkVars
<1>5. SenderHasAccount' /\ SlotsHeld'
  BY <1>1 DEF SignalInv, SenderHasAccount, SlotsHeld, SlotsAreApart
<1>6. TestsHeld'
  <2>1. Passing' = Passing
    BY <1>1 DEF Passing
  <2>2. TestsHeld /\ Cardinality(Passing) \in Nat
    BY PassingIsFinite DEF SignalInv
  <2> QED BY <1>1, <1>2, <2>1, <2>2, RequestsAreFinite DEF TestsHeld
<1> QED BY <1>3, <1>4, <1>5, <1>6 DEF SignalInv

LEMMA SignalStarts == ASSUME SignalInit PROVE SignalInv
<1>1. SignalTyped
  <2>1. /\ accounts \subseteq Numbers /\ sender \in Numbers \union {Nothing}
        /\ signalCalls \in [Requests -> SignalCall]
        /\ processes \in [Links -> {"new", "running", "linked", "failed", "killed"}]
        /\ replies = {} /\ slots = {} /\ sendClock = 0 /\ lastSend = 0 /\ queuedTests = 0
    BY NoCallIsACall DEF SignalInit
  <2>2. link \in [process : Links \union {0}, session : Links \union {0}]
    BY NoLink DEF SignalInit
  <2> QED BY <2>1, <2>2 DEF SignalTyped
<1>2. LinksHeld
  <2>1. /\ \A r \in Requests : signalCalls[r].op = "none"
        /\ link.process = 0 /\ link.session = 0 /\ LinksRunning = {} /\ replies = {}
    BY NoCallIsACall, NoLink DEF SignalInit, LinksRunning
  <2> QED BY <2>1 DEF LinksHeld, LinkIsTracked, ConfirmedIsLinked, WaitedFor
<1>3. SenderHasAccount /\ SlotsHeld
  BY DEF SignalInit, SenderHasAccount, SlotsHeld, SlotsAreApart
<1>4. TestsHeld
  <2>1. \A r \in Requests : signalCalls[r].op = "none"
    BY NoCallIsACall DEF SignalInit
  <2>2. Passing = {} /\ queuedTests = 0
    BY <2>1 DEF Passing, SignalInit
  <2> QED BY <2>2, FS_EmptySet, RequestsAreFinite DEF TestsHeld
<1> QED BY <1>1, <1>2, <1>3, <1>4 DEF SignalInv

LEMMA SignalSteps == ASSUME SignalInv, SignalNext PROVE SignalInv'
<1>1. ASSUME NEW r \in Requests,
             \/ \E op \in Operations : BeginCall(r, op)
             \/ \E p \in Links : StartLink(r, p)
             \/ GiveUpLock(r) \/ ShowQr(r)
             \/ ReadSession(r) \/ BeginWait(r) \/ EndWait(r) \/ ClearLink(r) \/ CancelLink(r)
      PROVE  SignalInv'
  BY <1>1, CallsBegin, LinkStarts, LookingSteps, LinkSteps, WaitEnds, LinkClears
<1>2. ASSUME NEW r \in Requests, SendMessage(r)
      PROVE  SignalInv'
  <2>1. SignalTyped
    BY CallOf
  <2> QED BY <1>2, <2>1, EndingStep DEF SendMessage, AtStep, linkVars, SignalTyped
<1>3. ASSUME NEW r \in Requests,
             \/ \E n \in Numbers : Verify(r, n) \/ SetSender(r, n)
             \/ ReadSender(r) \/ ResolveSender(r) \/ BeginRemoval(r) \/ LeaveServer(r)
             \/ DeleteData(r) \/ CheckRemoved(r) \/ UnsetSender(r)
             \/ FindSender(r) \/ StoreSender(r)
             \/ CheckCooldown(r) \/ QueueTest(r) \/ TakeSlot(r)
      PROVE  SignalInv'
  BY <1>3, LookingSteps, AccountSteps, RemovalSteps, SenderSteps, CooldownPasses, TestQueues, SlotIsTaken
<1> QED BY <1>1, <1>2, <1>3, PhoneSteps, ClockSteps DEF SignalNext

LEMMA SignalStutters == ASSUME SignalInv, UNCHANGED signalVars PROVE SignalInv'
<1>1. /\ UNCHANGED <<accounts, sender, link, processes, signalCalls, replies, strays, queuedTests>>
      /\ UNCHANGED <<sendClock, lastSend, slots>>
  BY DEF signalVars, linkVars, sendVars
<1>2. SignalTyped' /\ SenderHasAccount' /\ SlotsHeld'
  BY <1>1 DEF SignalInv, SignalTyped, SenderHasAccount, SlotsHeld, SlotsAreApart
<1>3. LinksHeld'
  BY <1>1 DEF SignalInv, LinksHeld, LinkIsTracked, ConfirmedIsLinked, LinksRunning, WaitedFor
<1>4. TestsHeld'
  BY <1>1 DEF SignalInv, TestsHeld, Passing
<1> QED BY <1>2, <1>3, <1>4 DEF SignalInv

LEMMA SignalKeeps == ASSUME SignalInv PROVE SignalKept
<1>1. queuedTests <= Cardinality(Requests)
  <2>1. queuedTests \in Nat /\ TestsHeld
    BY DEF SignalInv, SignalTyped
  <2> QED BY <2>1, PassingIsFinite, RequestsAreFinite DEF TestsHeld
<1> QED BY <1>1 DEF SignalInv, SignalKept, LinksHeld, SlotsHeld, TestsAreFew

(* Whatever requests cross on the Signal device, only the link process     *)
(* that can be cancelled and confirmed runs, "linked" is said only of a    *)
(* process that linked, the configured sender has an account, sends keep   *)
(* their distance, and crossing tests are bounded by the requests.         *)
THEOREM DeviceIsKept == SignalSpec => []SignalKept
<1>1. SignalInit => SignalInv
  BY SignalStarts
<1>2. SignalInv /\ [SignalNext]_signalVars => SignalInv'
  BY SignalSteps, SignalStutters
<1>3. SignalInv => SignalKept
  BY SignalKeeps
<1> QED BY <1>1, <1>2, <1>3, PTL DEF SignalSpec

(* In the composition of what an admin keeps, the Signal device and its    *)
(* senders keep their promises whichever component moves.                  *)
THEOREM ChannelsAreKept == AdminSpec => []ChannelsKept
<1>1. AdminInit => SignalInv
  BY SignalStarts DEF AdminInit
<1>2. SignalInv /\ [AdminNext]_adminVars => SignalInv'
  <2> SUFFICES ASSUME SignalInv, [AdminNext]_adminVars
               PROVE  SignalInv'
    OBVIOUS
  <2>1. CASE SignalMoves
    BY <2>1, SignalSteps DEF SignalMoves
  <2>2. CASE UNCHANGED signalVars
    BY <2>2, SignalStutters
  <2>3. SignalMoves \/ UNCHANGED signalVars
    <3>1. ASSUME NEW moving, moving # "signal", Others(moving)
          PROVE  UNCHANGED signalVars
      BY <3>1, SMTT(60) DEF Others
    <3>2. ASSUME AdminNext PROVE SignalMoves \/ UNCHANGED signalVars
      BY <3>1, <3>2
         DEF AdminNext, RefreshMoves, CandidatesMove, PeopleMove, SettingsMove, TargetsMove, InboxMoves,
             ReleasesMove, ArchivesMove, GeoMoves, OnlineMoves, PlacesMove, RatesMove
    <3>3. ASSUME UNCHANGED adminVars PROVE UNCHANGED signalVars
      BY <3>3 DEF adminVars
    <3> QED BY <3>2, <3>3
  <2> QED BY <2>1, <2>2, <2>3
<1>3. SignalInv => ChannelsKept
  BY SignalKeeps DEF ChannelsKept
<1> QED BY <1>1, <1>2, <1>3, PTL DEF AdminSpec

-----------------------------------------------------------------------------
(* Recipients, their targets and their welcomes                            *)

PersonRow == [id : {"free", "used", "gone"}, phone : Phones \union {NoPhone},
              email : BOOLEAN, enabled : BOOLEAN, all : BOOLEAN]
Edit == [pc : {"idle", "write", "read", "replace", "welcome"}, op : {"none", "create", "update", "put"},
         who : PersonRow \union Patches, id : People \union {0}, target : Watched \union {0},
         list : SUBSET People, new : SUBSET People]
Task == [status : {"none", "running", "completed", "queued", "failed", "deferred", "forgotten"},
         thread : {"none", "created", "waiting", "section", "over"}, target : Watched \union {0},
         list : SUBSET People, todo : SUBSET People, assigned : SUBSET People,
         queued : SUBSET People, skipped : SUBSET People]

PeopleTyped ==
    /\ people \in [People -> PersonRow]
    /\ targetIds \in [Watched -> {"free", "used", "gone"}]
    /\ edits \in [Edits -> Edit]
    /\ welcomes \in [Tasks -> Task]

(* What a handler under way has read: a new row, a patch, or a list for a  *)
(* target that has been created.                                           *)
EditFits(ed) ==
    /\ ed.pc = "write" /\ ed.op = "create" => ed.who \in PersonRow /\ ed.who.id = "used"
    /\ ed.pc = "write" /\ ed.op = "update" => ed.who \in Patches
    /\ ed.pc \in {"read", "replace", "welcome"} =>
          ed.target \in Watched /\ targetIds[ed.target] # "free"

(* A task that has a thread is of a target that has been created, and what *)
(* is left to look at makes up its list with those it has looked at.       *)
TaskFits(k) ==
    /\ k.status = "running" => k.thread # "over"
    /\ k.status \in {"completed", "queued"} => k.thread = "over"
    /\ k.thread # "none" => k.target \in Watched /\ targetIds[k.target] # "free"
    /\ k.thread \in {"created", "waiting", "section"} =>
          k.todo \union k.queued \union k.skipped = k.list
    /\ k.thread = "none" => k.status = "none"

TaskTells(k) ==
    k.status \in {"completed", "queued"} =>
        k.queued \union k.skipped = k.list \/ k.target \notin Targets

Welcoming(ed) == ed.pc = "welcome" \/ (ed.pc = "replace" /\ ed.new # {})
Promised == {e \in Edits : Welcoming(edits[e])}

(* Every edit that will start a task counts as a task already.             *)
TasksBounded ==
    /\ IsFiniteSet(ActiveTasks)
    /\ Cardinality(ActiveTasks) + Cardinality(Promised) < MaxActive + Cardinality(Edits)

WelcomesFit ==
    /\ \A e \in Edits : EditFits(edits[e])
    /\ \A w \in Tasks : TaskFits(welcomes[w]) /\ TaskTells(welcomes[w])

PeopleInv == PeopleTyped /\ NumbersAreUnique /\ FlaggedJoinAll /\ WelcomesFit /\ TasksBounded

LEMMA RowFields ==
    ASSUME NEW r \in PersonRow
    PROVE  /\ r.id \in {"free", "used", "gone"} /\ r.phone \in Phones \union {NoPhone}
           /\ r.email \in BOOLEAN /\ r.enabled \in BOOLEAN /\ r.all \in BOOLEAN
BY DEF PersonRow

(* A patch changes what it names and leaves the row a row.                 *)
LEMMA PatchedRow ==
    ASSUME NEW r \in PersonRow, NEW patch \in Patches
    PROVE  /\ Patched(r, patch) \in PersonRow
           /\ Patched(r, patch).id = r.id
           /\ Patched(r, patch).all = IF patch.all = "keep" THEN r.all ELSE patch.all = "on"
<1> DEFINE phone == IF patch.phone = "keep" THEN r.phone ELSE patch.phone
           email == IF patch.email = "keep" THEN r.email ELSE patch.email = "set"
           enabled == IF patch.enabled = "keep" THEN r.enabled ELSE patch.enabled = "on"
           all == IF patch.all = "keep" THEN r.all ELSE patch.all = "on"
<1>1. patch.phone \in Phones \union {NoPhone, "keep"}
  BY DEF Patches
<1>2. phone \in Phones \union {NoPhone}
  BY <1>1, RowFields
<1>3. email \in BOOLEAN /\ enabled \in BOOLEAN /\ all \in BOOLEAN
  BY RowFields
<1>4. Patched(r, patch) = [r EXCEPT !.phone = phone, !.email = email, !.enabled = enabled, !.all = all]
  BY DEF Patched
<1>5. all = IF patch.all = "keep" THEN r.all ELSE patch.all = "on"
  OBVIOUS
<1> HIDE DEF phone, email, enabled, all
<1>6. /\ [r EXCEPT !.phone = phone, !.email = email, !.enabled = enabled, !.all = all] \in PersonRow
      /\ [r EXCEPT !.phone = phone, !.email = email, !.enabled = enabled, !.all = all].id = r.id
      /\ [r EXCEPT !.phone = phone, !.email = email, !.enabled = enabled, !.all = all].all = all
  BY <1>2, <1>3 DEF PersonRow
<1> QED BY <1>4, <1>5, <1>6

-----------------------------------------------------------------------------
(* Handlers and tasks: who moves, and who stays                            *)

LEMMA EditsMove ==
    ASSUME PeopleTyped, NEW e \in Edits, NEW ed \in Edit, edits' = [edits EXCEPT ![e] = ed]
    PROVE  /\ edits'[e] = ed /\ \A f \in Edits \ {e} : edits'[f] = edits[f]
           /\ edits' \in [Edits -> Edit]
BY DEF PeopleTyped

LEMMA TasksMove ==
    ASSUME PeopleTyped, NEW w \in Tasks, NEW k \in Task, welcomes' = [welcomes EXCEPT ![w] = k]
    PROVE  /\ welcomes'[w] = k /\ \A v \in Tasks \ {w} : welcomes'[v] = welcomes[v]
           /\ welcomes' \in [Tasks -> Task]
BY DEF PeopleTyped

(* Targets come and go, but none becomes one that was never created.       *)
TargetsAge == \A t \in Watched : targetIds[t] # "free" =>
                 targetIds'[t] # "free" /\ (targetIds[t] # "used" => targetIds'[t] # "used")

LEMMA StillFit ==
    ASSUME TargetsAge, NEW k
    PROVE  /\ EditFits(k) => EditFits(k)'
           /\ TaskFits(k) => TaskFits(k)'
           /\ TaskFits(k) /\ TaskTells(k) => TaskTells(k)'
<1>1. ASSUME EditFits(k) PROVE EditFits(k)'
  BY <1>1 DEF EditFits, TargetsAge
<1>2. ASSUME TaskFits(k) PROVE TaskFits(k)'
  BY <1>2 DEF TaskFits, TargetsAge
<1>3. ASSUME TaskFits(k), TaskTells(k) PROVE TaskTells(k)'
  BY <1>3 DEF TaskFits, TaskTells, Targets, TargetsAge
<1> QED BY <1>1, <1>2, <1>3

LEMMA BoundedStays ==
    ASSUME TasksBounded, ActiveTasks' \subseteq ActiveTasks, Promised' \subseteq Promised
    PROVE  TasksBounded'
<1>1. IsFiniteSet(Edits) /\ IsFiniteSet(Promised)
  BY RecipientsAssumption, FS_Subset DEF Promised
<1>2. /\ IsFiniteSet(ActiveTasks') /\ Cardinality(ActiveTasks') <= Cardinality(ActiveTasks)
      /\ IsFiniteSet(Promised') /\ Cardinality(Promised') <= Cardinality(Promised)
  BY <1>1, FS_Subset DEF TasksBounded
<1>3. /\ Cardinality(ActiveTasks) \in Nat /\ Cardinality(ActiveTasks') \in Nat
      /\ Cardinality(Promised) \in Nat /\ Cardinality(Promised') \in Nat
      /\ Cardinality(Edits) \in Nat /\ MaxActive \in Nat
  BY <1>1, <1>2, FS_CardinalityType, RecipientsAssumption DEF TasksBounded
<1> HIDE DEF Promised, ActiveTasks
<1>4. TasksBounded'
  <2>1. Cardinality(ActiveTasks') + Cardinality(Promised') < MaxActive + Cardinality(Edits)
    BY <1>2, <1>3 DEF TasksBounded
  <2> QED BY <1>2, <2>1 DEF TasksBounded
<1> QED BY <1>4

(* A handler goes on.                                                      *)
LEMMA HandlerFits ==
    ASSUME PeopleInv, NEW e \in Edits, NEW ed \in Edit, edits' = [edits EXCEPT ![e] = ed],
           EditFits(ed)', welcomes' = welcomes, TargetsAge
    PROVE  /\ WelcomesFit' /\ ActiveTasks' = ActiveTasks
           /\ edits'[e] = ed /\ \A f \in Edits \ {e} : edits'[f] = edits[f]
           /\ edits' \in [Edits -> Edit] /\ welcomes' \in [Tasks -> Task]
<1>1. /\ edits'[e] = ed /\ \A f \in Edits \ {e} : edits'[f] = edits[f]
      /\ edits' \in [Edits -> Edit]
  BY EditsMove DEF PeopleInv
<1>2. ASSUME NEW f \in Edits PROVE EditFits(edits[f])'
  <2>1. CASE f = e
    BY <1>1, <2>1 DEF EditFits
  <2>2. CASE f # e
    <3>1. EditFits(edits[f])
      BY DEF PeopleInv, WelcomesFit
    <3> QED BY <1>1, <2>2, <3>1 DEF EditFits, TargetsAge
  <2> QED BY <2>1, <2>2
<1>3. ASSUME NEW w \in Tasks PROVE TaskFits(welcomes[w])' /\ TaskTells(welcomes[w])'
  <2>1. TaskFits(welcomes[w]) /\ TaskTells(welcomes[w])
    BY DEF PeopleInv, WelcomesFit
  <2>2. TaskFits(welcomes[w])'
    BY <2>1 DEF TaskFits, TargetsAge
  <2>3. TaskTells(welcomes[w])'
    BY <2>1 DEF TaskTells, TaskFits, Targets, TargetsAge
  <2> QED BY <2>2, <2>3
<1>4. ActiveTasks' = ActiveTasks
  BY DEF ActiveTasks
<1> QED BY <1>1, <1>2, <1>3, <1>4 DEF WelcomesFit, PeopleInv, PeopleTyped

LEMMA HandlerGoes ==
    ASSUME PeopleInv, NEW e \in Edits, NEW ed \in Edit, edits' = [edits EXCEPT ![e] = ed],
           EditFits(ed)', Welcoming(ed) => Welcoming(edits[e]),
           welcomes' = welcomes, TargetsAge
    PROVE  /\ WelcomesFit' /\ TasksBounded'
           /\ edits' \in [Edits -> Edit] /\ welcomes' \in [Tasks -> Task]
<1>1. /\ WelcomesFit' /\ ActiveTasks' = ActiveTasks
      /\ edits'[e] = ed /\ \A f \in Edits \ {e} : edits'[f] = edits[f]
      /\ edits' \in [Edits -> Edit] /\ welcomes' \in [Tasks -> Task]
  BY HandlerFits
<1>2. Promised' \subseteq Promised
  BY <1>1 DEF Promised, Welcoming
<1> QED BY <1>1, <1>2, BoundedStays DEF PeopleInv

(* Nobody goes on.                                                         *)
LEMMA AllStay ==
    ASSUME PeopleInv, UNCHANGED <<edits, welcomes>>, TargetsAge
    PROVE  WelcomesFit' /\ TasksBounded'
<1>1. ASSUME NEW f \in Edits PROVE EditFits(edits[f])'
  <2>1. EditFits(edits[f])
    BY DEF PeopleInv, WelcomesFit
  <2> QED BY <2>1 DEF EditFits, TargetsAge
<1>2. ASSUME NEW w \in Tasks PROVE TaskFits(welcomes[w])' /\ TaskTells(welcomes[w])'
  <2>1. TaskFits(welcomes[w]) /\ TaskTells(welcomes[w])
    BY DEF PeopleInv, WelcomesFit
  <2>2. TaskFits(welcomes[w])'
    BY <2>1 DEF TaskFits, TargetsAge
  <2>3. TaskTells(welcomes[w])'
    BY <2>1 DEF TaskTells, TaskFits, Targets, TargetsAge
  <2> QED BY <2>2, <2>3
<1>3. ActiveTasks' = ActiveTasks /\ Promised' = Promised
  BY DEF ActiveTasks, Promised, Welcoming
<1> QED BY <1>1, <1>2, <1>3, BoundedStays DEF PeopleInv, WelcomesFit

(* A task goes on.                                                         *)
Working(k) == k.thread \notin {"none", "over"}

LEMMA TaskGoes ==
    ASSUME PeopleInv, NEW w \in Tasks, NEW k \in Task, welcomes' = [welcomes EXCEPT ![w] = k],
           TaskFits(k), TaskTells(k), Working(k) => Working(welcomes[w]),
           UNCHANGED <<people, targetIds, assigned, edits, twins, omitted>>
    PROVE  PeopleInv'
<1>1. /\ welcomes'[w] = k /\ \A v \in Tasks \ {w} : welcomes'[v] = welcomes[v]
      /\ welcomes' \in [Tasks -> Task]
  BY TasksMove DEF PeopleInv
<1>2. PeopleTyped'
  BY <1>1 DEF PeopleInv, PeopleTyped
<1>3. NumbersAreUnique' /\ FlaggedJoinAll'
  BY DEF PeopleInv, NumbersAreUnique, FlaggedJoinAll, Person, Targets
<1>4. \A v \in Tasks : TaskFits(welcomes'[v]) /\ TaskTells(welcomes'[v])
  BY <1>1 DEF PeopleInv, WelcomesFit
<1>5. WelcomesFit'
  BY <1>4 DEF PeopleInv, WelcomesFit, EditFits, TaskFits, TaskTells, Targets
<1>6. ActiveTasks' \subseteq ActiveTasks
  BY <1>1 DEF ActiveTasks, Working
<1>7. Promised' = Promised
  BY DEF Promised, Welcoming
<1>8. TasksBounded'
  BY <1>6, <1>7, BoundedStays DEF PeopleInv
<1> QED BY <1>2, <1>3, <1>5, <1>8 DEF PeopleInv

(* No thread goes on: polls forget tasks that have ended.                  *)
LEMMA TasksForgotten ==
    ASSUME PeopleInv, NEW old \in SUBSET Tasks, welcomes' = Forgotten(old),
           \A w \in old : welcomes[w].status # "none",
           UNCHANGED <<people, targetIds, assigned, edits, twins, omitted>>
    PROVE  PeopleInv'
<1>1. ASSUME NEW w \in Tasks
      PROVE  /\ welcomes'[w] \in Task /\ TaskFits(welcomes'[w]) /\ TaskTells(welcomes'[w])
             /\ welcomes'[w].thread = welcomes[w].thread
  <2> DEFINE k == welcomes[w]
  <2>1. k \in Task /\ TaskFits(k) /\ TaskTells(k)
    BY DEF PeopleInv, PeopleTyped, WelcomesFit
  <2>2. CASE w \in old
    <3> DEFINE g == [k EXCEPT !.status = "forgotten"]
    <3>1. welcomes'[w] = g /\ k.status # "none"
      BY <2>2 DEF Forgotten
    <3> HIDE DEF k
    <3>2. /\ g \in Task /\ g.status = "forgotten" /\ g.thread = k.thread
          /\ g.target = k.target /\ g.todo = k.todo /\ g.queued = k.queued
          /\ g.skipped = k.skipped /\ g.list = k.list
      BY <2>1 DEF Task
    <3> HIDE DEF g
    <3>3. TaskFits(g) /\ TaskTells(g)
      BY <2>1, <3>1, <3>2 DEF TaskFits, TaskTells
    <3> QED BY <3>1, <3>2, <3>3 DEF k
  <2>3. CASE w \notin old
    <3>1. welcomes'[w] = k
      BY <2>3 DEF Forgotten
    <3> QED BY <2>1, <3>1
  <2> QED BY <2>2, <2>3
<1>2. welcomes' \in [Tasks -> Task]
  <2>1. welcomes' = [w \in Tasks |-> welcomes'[w]]
    BY DEF Forgotten
  <2> QED BY <1>1, <2>1
<1>3. PeopleTyped'
  BY <1>2 DEF PeopleInv, PeopleTyped
<1>4. NumbersAreUnique' /\ FlaggedJoinAll'
  BY DEF PeopleInv, NumbersAreUnique, FlaggedJoinAll, Person, Targets
<1>5. WelcomesFit'
  BY <1>1 DEF PeopleInv, WelcomesFit, EditFits, TaskFits, TaskTells, Targets
<1>6. ActiveTasks' = ActiveTasks /\ Promised' = Promised
  BY <1>1 DEF ActiveTasks, Promised, Welcoming
<1>7. TasksBounded'
  BY <1>6, BoundedStays DEF PeopleInv
<1> QED BY <1>3, <1>4, <1>5, <1>7 DEF PeopleInv

-----------------------------------------------------------------------------
(* The handlers                                                            *)

LEMMA NoEditFacts ==
    /\ NoEdit \in Edit /\ NoEdit.pc = "idle" /\ NoEdit.op = "none" /\ NoEdit.new = {}
    /\ EditFits(NoEdit)' /\ ~Welcoming(NoEdit)
<1> DEFINE z == 0
           nobody == Nobody
<1>1. z \in People \union {0} /\ z \in Watched \union {0}
  OBVIOUS
<1>2. nobody \in PersonRow
  BY DEF Nobody, PersonRow
<1>3. NoEdit = [pc |-> "idle", op |-> "none", who |-> nobody, id |-> z, target |-> z, list |-> {}, new |-> {}]
  BY DEF NoEdit
<1> HIDE DEF z, nobody
<1>4. NoEdit \in Edit /\ NoEdit.pc = "idle" /\ NoEdit.op = "none" /\ NoEdit.new = {}
  BY <1>1, <1>2, <1>3 DEF Edit
<1> QED BY <1>4 DEF EditFits, Welcoming

LEMMA HandlerOnly ==
    ASSUME PeopleInv, NEW e \in Edits, NEW ed \in Edit, edits' = [edits EXCEPT ![e] = ed],
           EditFits(ed)', Welcoming(ed) => Welcoming(edits[e]),
           UNCHANGED <<people, targetIds, assigned, welcomes, twins, omitted>>
    PROVE  PeopleInv'
<1>1. TargetsAge
  BY DEF TargetsAge
<1>2. /\ WelcomesFit' /\ TasksBounded'
      /\ edits' \in [Edits -> Edit] /\ welcomes' \in [Tasks -> Task]
  BY <1>1, HandlerGoes
<1>3. PeopleTyped' /\ NumbersAreUnique' /\ FlaggedJoinAll'
  BY <1>2 DEF PeopleInv, PeopleTyped, NumbersAreUnique, FlaggedJoinAll, Person, Targets
<1> QED BY <1>2, <1>3 DEF PeopleInv

LEMMA HandlerEnds ==
    ASSUME PeopleInv, NEW e \in Edits, EndsEdit(e),
           UNCHANGED <<people, targetIds, assigned, welcomes, twins, omitted>>
    PROVE  PeopleInv'
BY HandlerOnly, NoEditFacts DEF EndsEdit

LEMMA RecipientRow ==
    ASSUME NEW phone \in Phones \union {NoPhone}, NEW email \in BOOLEAN, NEW all \in BOOLEAN
    PROVE  /\ [Recipient(phone, email) EXCEPT !.all = all] \in PersonRow
           /\ [Recipient(phone, email) EXCEPT !.all = all].id = "used"
           /\ Recipient(phone, email) \in PersonRow
           /\ Recipient(phone, email).id = "used" /\ ~Recipient(phone, email).all
BY DEF Recipient, PersonRow

LEMMA HandlersBegin ==
    ASSUME PeopleInv, NEW e \in Edits,
           BeginCreateRecipient(e) \/ BeginUpdateRecipient(e) \/ BeginPut(e)
    PROVE  PeopleInv'
<1>1. ASSUME NEW ed \in Edit, Begins(e, ed), ed.pc \in {"write", "read"}, EditFits(ed)',
             UNCHANGED <<people, targetIds, assigned, welcomes, twins, omitted>>
      PROVE  PeopleInv'
  BY <1>1, HandlerOnly DEF Begins, Welcoming
<1>2. CASE BeginCreateRecipient(e)
  <2>1. PICK phone \in Phones \union {NoPhone}, email \in BOOLEAN, all \in BOOLEAN :
           Begins(e, [NoEdit EXCEPT !.pc = "write", !.op = "create",
                        !.who = [Recipient(phone, email) EXCEPT !.all = all]])
    BY <1>2, Zenon DEF BeginCreateRecipient
  <2> DEFINE row == [Recipient(phone, email) EXCEPT !.all = all]
             ed == [NoEdit EXCEPT !.pc = "write", !.op = "create", !.who = row]
  <2>2. row \in PersonRow /\ row.id = "used"
    BY RecipientRow
  <2>3. Begins(e, ed)
    BY <2>1
  <2> HIDE DEF row
  <2>4. /\ ed \in Edit /\ ed.pc = "write" /\ ed.op = "create" /\ ed.who = row
    BY <2>2, NoEditFacts DEF Edit
  <2> HIDE DEF ed
  <2>5. EditFits(ed)'
    BY <2>2, <2>4 DEF EditFits
  <2> QED BY <1>1, <1>2, <2>3, <2>4, <2>5, Zenon DEF BeginCreateRecipient
<1>3. CASE BeginUpdateRecipient(e)
  <2>1. PICK p \in Person, patch \in Patches :
           Begins(e, [NoEdit EXCEPT !.pc = "write", !.op = "update", !.id = p, !.who = patch])
    BY <1>3, Zenon DEF BeginUpdateRecipient
  <2> DEFINE ed == [NoEdit EXCEPT !.pc = "write", !.op = "update", !.id = p, !.who = patch]
  <2>2. ed \in Edit /\ ed.pc = "write" /\ ed.op = "update" /\ ed.who = patch
    BY NoEditFacts DEF Edit, Person
  <2>3. Begins(e, ed)
    BY <2>1
  <2> HIDE DEF ed
  <2>4. EditFits(ed)'
    BY <2>2 DEF EditFits
  <2> QED BY <1>1, <1>3, <2>2, <2>3, <2>4, Zenon DEF BeginUpdateRecipient
<1>4. CASE BeginPut(e)
  <2>1. PICK t \in Targets, list \in SUBSET Person :
           Begins(e, [NoEdit EXCEPT !.pc = "read", !.op = "put", !.target = t, !.list = list])
    BY <1>4, Zenon DEF BeginPut
  <2> DEFINE ed == [NoEdit EXCEPT !.pc = "read", !.op = "put", !.target = t, !.list = list]
  <2>2. t \in Watched /\ targetIds[t] # "free" /\ list \in SUBSET People
    BY DEF Targets, Person
  <2>3. ed \in Edit /\ ed.pc = "read" /\ ed.target = t
    BY <2>2, NoEditFacts DEF Edit
  <2>4. Begins(e, ed)
    BY <2>1
  <2> HIDE DEF ed
  <2>5. EditFits(ed)'
    BY <1>4, <2>2, <2>3, Zenon DEF EditFits, BeginPut
  <2> QED BY <1>1, <1>4, <2>3, <2>4, <2>5, ZenonT(60) DEF BeginPut
<1> QED BY <1>2, <1>3, <1>4

(* The recipient joins the targets before anybody can share its number.    *)
LEMMA RecipientCreated ==
    ASSUME PeopleInv, NEW e \in Edits, CreateRecipient(e)
    PROVE  PeopleInv'
<1> DEFINE who == edits[e].who
<1>1. /\ edits[e].pc = "write" /\ edits[e].op = "create" /\ EndsEdit(e)
      /\ UNCHANGED <<targetIds, welcomes, twins, omitted>>
  BY DEF CreateRecipient
<1>2. who \in PersonRow /\ who.id = "used"
  BY <1>1 DEF PeopleInv, WelcomesFit, EditFits
<1>3. CASE UNCHANGED <<people, assigned>>
  BY <1>1, <1>3, HandlerEnds
<1>4. CASE ~UNCHANGED <<people, assigned>>
  <2>1. PICK p \in People :
           /\ people[p].id = "free" /\ PhoneFree(p, who.phone)
           /\ people' = [people EXCEPT ![p] = who]
           /\ assigned' = IF who.all THEN assigned \union (Targets \X {p}) ELSE assigned
    BY <1>4 DEF CreateRecipient
  <2> HIDE DEF who
  <2>2. people \in [People -> PersonRow] /\ people' \in [People -> PersonRow]
    BY <1>2, <2>1 DEF PeopleInv, PeopleTyped
  <2>3. /\ people'[p] = who /\ \A q \in People \ {p} : people'[q] = people[q]
        /\ Person' = Person \union {p} /\ p \notin Person
    BY <1>2, <2>1, <2>2 DEF Person
  <2>4. TargetsAge
    BY <1>1 DEF TargetsAge
  <2>5. /\ WelcomesFit' /\ TasksBounded'
        /\ edits' \in [Edits -> Edit] /\ welcomes' \in [Tasks -> Task]
    BY <1>1, <2>4, HandlerGoes, NoEditFacts DEF EndsEdit
  <2>6. PeopleTyped'
    BY <1>1, <2>2, <2>5 DEF PeopleInv, PeopleTyped
  <2>7. NumbersAreUnique'
    <3>1. who.phone # NoPhone => \A q \in Person : people[q].phone # who.phone
      BY <2>1, <2>3 DEF PhoneFree, Owner
    <3> QED BY <1>1, <2>3, <3>1 DEF PeopleInv, NumbersAreUnique, Person
  <2>8. FlaggedJoinAll'
    <3> SUFFICES ASSUME NEW q \in Person', NEW t \in Targets', people'[q].all
                 PROVE  <<t, q>> \in assigned' \/ <<t, q>> \in omitted'
      BY DEF FlaggedJoinAll
    <3>1. t \in Targets
      BY <1>1 DEF Targets
    <3>2. CASE q = p
      BY <2>1, <2>3, <3>1, <3>2
    <3>3. CASE q # p
      BY <1>1, <2>1, <2>3, <3>1, <3>3 DEF PeopleInv, FlaggedJoinAll, Person
    <3> QED BY <3>2, <3>3
  <2> QED BY <2>5, <2>6, <2>7, <2>8 DEF PeopleInv
<1> QED BY <1>3, <1>4

(* Switched on, the flag joins the recipient to every target.              *)
LEMMA RecipientUpdated ==
    ASSUME PeopleInv, NEW e \in Edits, UpdateRecipient(e)
    PROVE  PeopleInv'
<1> DEFINE p == edits[e].id
           patch == edits[e].who
           row == Patched(people[p], patch)
<1>1. /\ edits[e].pc = "write" /\ edits[e].op = "update" /\ EndsEdit(e)
      /\ UNCHANGED <<targetIds, welcomes>>
  BY DEF UpdateRecipient
<1>2. patch \in Patches
  BY <1>1 DEF PeopleInv, WelcomesFit, EditFits
<1>3. CASE UNCHANGED <<people, assigned, omitted, twins>>
  BY <1>1, <1>3, HandlerEnds
<1>4. CASE ~UNCHANGED <<people, assigned, omitted, twins>>
  <2>1. /\ p \in Person /\ (row.phone = people[p].phone \/ PhoneFree(p, row.phone))
        /\ people' = [people EXCEPT ![p] = row]
        /\ assigned' = IF patch.all = "on" THEN JoinsAll(p)
                       ELSE IF patch.all = "off" /\ people[p].all
                       THEN {a \in assigned : a[2] # p} ELSE assigned
        /\ omitted' = IF patch.all = "on" THEN {o \in omitted : o[2] # p} ELSE omitted
        /\ twins' = IF row.phone = people[p].phone THEN twins ELSE twins \ {p}
    BY <1>4 DEF UpdateRecipient
  <2>2. people[p] \in PersonRow /\ people[p].id = "used" /\ p \in People
    BY <2>1 DEF Person, PeopleInv, PeopleTyped
  <2>3. /\ row \in PersonRow /\ row.id = "used"
        /\ row.all = IF patch.all = "keep" THEN people[p].all ELSE patch.all = "on"
    BY <1>2, <2>2, PatchedRow
  <2> HIDE DEF p, patch, row
  <2>4. people \in [People -> PersonRow] /\ people' \in [People -> PersonRow]
    BY <2>1, <2>3 DEF PeopleInv, PeopleTyped
  <2>5. /\ people'[p] = row /\ \A q \in People \ {p} : people'[q] = people[q]
        /\ Person' = Person
    BY <2>1, <2>2, <2>3, <2>4 DEF Person
  <2>6. TargetsAge
    BY <1>1 DEF TargetsAge
  <2>7. /\ WelcomesFit' /\ TasksBounded'
        /\ edits' \in [Edits -> Edit] /\ welcomes' \in [Tasks -> Task]
    BY <1>1, <2>6, HandlerGoes, NoEditFacts DEF EndsEdit
  <2>8. PeopleTyped'
    BY <1>1, <2>4, <2>7 DEF PeopleInv, PeopleTyped
  <2>9. NumbersAreUnique'
    <3>1. CASE row.phone = people[p].phone
      BY <2>1, <2>5, <3>1 DEF PeopleInv, NumbersAreUnique, Person
    <3>2. CASE row.phone # people[p].phone
      <4>1. row.phone # NoPhone => \A q \in Person \ {p} : people[q].phone # row.phone
        BY <2>1, <3>2 DEF PhoneFree, Owner
      <4>2. twins' = twins \ {p}
        BY <2>1, <3>2
      <4> SUFFICES ASSUME NEW q \in Person, NEW r \in Person, q # r,
                          people'[q].phone = people'[r].phone, people'[q].phone # NoPhone
                   PROVE  {q, r} \subseteq twins'
        BY <2>5 DEF NumbersAreUnique
      <4>3. q # p /\ r # p
        BY <2>5, <4>1 DEF Person
      <4>4. people'[q] = people[q] /\ people'[r] = people[r]
        BY <2>5, <4>3 DEF Person
      <4>5. {q, r} \subseteq twins
        BY <4>4 DEF PeopleInv, NumbersAreUnique
      <4> QED BY <4>2, <4>3, <4>5
    <3> QED BY <3>1, <3>2
  <2>10. FlaggedJoinAll'
    <3> SUFFICES ASSUME NEW q \in Person, NEW t \in Targets, people'[q].all
                 PROVE  <<t, q>> \in assigned' \/ <<t, q>> \in omitted'
      <4>1. Targets' = Targets
        BY <1>1 DEF Targets
      <4> QED BY <2>5, <4>1 DEF FlaggedJoinAll
    <3>1. CASE q = p
      <4>1. CASE patch.all = "on"
        BY <2>1, <3>1, <4>1 DEF JoinsAll
      <4>2. CASE patch.all # "on"
        <5>1. people[p].all /\ patch.all = "keep"
          BY <2>3, <2>5, <3>1, <4>2
        <5>2. assigned' = assigned /\ omitted' = omitted
          BY <2>1, <5>1
        <5> QED BY <3>1, <5>1, <5>2 DEF PeopleInv, FlaggedJoinAll
      <4> QED BY <4>1, <4>2
    <3>2. CASE q # p
      <4>1. people[q].all
        BY <2>5, <3>2 DEF Person
      <4>2. <<t, q>> \in assigned \/ <<t, q>> \in omitted
        BY <4>1 DEF PeopleInv, FlaggedJoinAll
      <4>3. <<t, q>>[2] = q
        OBVIOUS
      <4> QED BY <2>1, <3>2, <4>2, <4>3 DEF JoinsAll
    <3> QED BY <3>1, <3>2
  <2> QED BY <2>7, <2>8, <2>9, <2>10 DEF PeopleInv
<1> QED BY <1>3, <1>4

(* Rows and targets that go take their assignments with them, and a new    *)
(* target is joined by everybody who is alerted of all.                    *)
LEMMA RecipientDeleted ==
    ASSUME PeopleInv, NEW p \in People, DeleteRecipient(p)
    PROVE  PeopleInv'
<1> DEFINE gone == [Nobody EXCEPT !.id = "gone"]
<1>1. gone \in PersonRow /\ gone.id = "gone"
  BY DEF Nobody, PersonRow
<1>2. /\ people' = [people EXCEPT ![p] = gone] /\ assigned' = {a \in assigned : a[2] # p}
      /\ UNCHANGED <<targetIds, edits, welcomes, twins, omitted>>
  BY DEF DeleteRecipient
<1> HIDE DEF gone
<1>3. /\ people' \in [People -> PersonRow] /\ people \in [People -> PersonRow]
      /\ people'[p] = gone /\ \A q \in People \ {p} : people'[q] = people[q]
  BY <1>1, <1>2 DEF PeopleInv, PeopleTyped
<1>4. Person' = Person \ {p} /\ Targets' = Targets
  BY <1>1, <1>2, <1>3 DEF Person, Targets
<1>5. PeopleTyped'
  BY <1>2, <1>3 DEF PeopleInv, PeopleTyped
<1>6. NumbersAreUnique'
  BY <1>2, <1>3, <1>4 DEF PeopleInv, NumbersAreUnique, Person
<1>7. FlaggedJoinAll'
  <2> SUFFICES ASSUME NEW q \in Person \ {p}, NEW t \in Targets, people'[q].all
               PROVE  <<t, q>> \in assigned' \/ <<t, q>> \in omitted'
    BY <1>4 DEF FlaggedJoinAll
  <2>1. people[q].all
    BY <1>3 DEF Person
  <2>2. <<t, q>> \in assigned \/ <<t, q>> \in omitted
    BY <2>1 DEF PeopleInv, FlaggedJoinAll
  <2> QED BY <1>2, <2>2
<1>8. WelcomesFit' /\ TasksBounded'
  BY <1>2, AllStay DEF TargetsAge
<1> QED BY <1>5, <1>6, <1>7, <1>8 DEF PeopleInv

LEMMA TargetCreated ==
    ASSUME PeopleInv, NEW t \in Watched, NEW list \in SUBSET People, CreateTarget(t, list)
    PROVE  PeopleInv'
<1>1. /\ targetIds[t] = "free" /\ targetIds' = [targetIds EXCEPT ![t] = "used"]
      /\ assigned' = assigned \union ({t} \X (list \union {p \in Person : people[p].all}))
      /\ UNCHANGED <<people, edits, welcomes, twins, omitted>>
  BY DEF CreateTarget
<1>2. /\ targetIds' \in [Watched -> {"free", "used", "gone"}]
      /\ targetIds'[t] = "used" /\ \A u \in Watched \ {t} : targetIds'[u] = targetIds[u]
  BY <1>1 DEF PeopleInv, PeopleTyped
<1>3. TargetsAge
  BY <1>1, <1>2 DEF TargetsAge
<1>4. PeopleTyped' /\ NumbersAreUnique'
  BY <1>1, <1>2 DEF PeopleInv, PeopleTyped, NumbersAreUnique, Person
<1>5. FlaggedJoinAll'
  <2> SUFFICES ASSUME NEW q \in Person, NEW u \in Targets', people[q].all
               PROVE  <<u, q>> \in assigned' \/ <<u, q>> \in omitted
    BY <1>1 DEF FlaggedJoinAll, Person
  <2>1. CASE u = t
    BY <1>1, <2>1
  <2>2. CASE u # t
    <3>1. u \in Targets
      BY <1>2, <2>2 DEF Targets
    <3> QED BY <1>1, <3>1 DEF PeopleInv, FlaggedJoinAll
  <2> QED BY <2>1, <2>2
<1>6. WelcomesFit' /\ TasksBounded'
  BY <1>1, <1>3, AllStay
<1> QED BY <1>4, <1>5, <1>6 DEF PeopleInv

LEMMA TargetDeleted ==
    ASSUME PeopleInv, NEW t \in Watched, DeleteTarget(t)
    PROVE  PeopleInv'
<1>1. /\ t \in Targets /\ targetIds' = [targetIds EXCEPT ![t] = "gone"]
      /\ assigned' = {a \in assigned : a[1] # t}
      /\ UNCHANGED <<people, edits, welcomes, twins, omitted>>
  BY DEF DeleteTarget
<1>2. /\ targetIds' \in [Watched -> {"free", "used", "gone"}]
      /\ targetIds'[t] = "gone" /\ \A u \in Watched \ {t} : targetIds'[u] = targetIds[u]
  BY <1>1 DEF PeopleInv, PeopleTyped
<1>3. TargetsAge
  BY <1>2 DEF TargetsAge
<1>4. PeopleTyped' /\ NumbersAreUnique'
  BY <1>1, <1>2 DEF PeopleInv, PeopleTyped, NumbersAreUnique, Person
<1>5. FlaggedJoinAll'
  <2> SUFFICES ASSUME NEW q \in Person, NEW u \in Targets', people[q].all
               PROVE  <<u, q>> \in assigned' \/ <<u, q>> \in omitted
    BY <1>1 DEF FlaggedJoinAll, Person
  <2>1. u # t /\ u \in Targets
    BY <1>2 DEF Targets
  <2>2. <<u, q>> \in assigned \/ <<u, q>> \in omitted
    BY <2>1 DEF PeopleInv, FlaggedJoinAll
  <2> QED BY <1>1, <2>1, <2>2
<1>6. WelcomesFit' /\ TasksBounded'
  BY <1>1, <1>3, AllStay
<1> QED BY <1>4, <1>5, <1>6 DEF PeopleInv

(* A list is read, and is one more task to come if somebody is new on it.  *)
LEMMA ListRead ==
    ASSUME PeopleInv, NEW e \in Edits, ReadList(e)
    PROVE  PeopleInv'
<1> DEFINE old == edits[e]
           new == {p \in old.list : <<old.target, p>> \notin assigned}
           ed == [old EXCEPT !.pc = "replace", !.new = new]
<1>1. /\ old.pc = "read"
      /\ UNCHANGED <<people, targetIds, assigned, welcomes, twins, omitted>>
  BY DEF ReadList
<1>2. old \in Edit /\ EditFits(old)
  BY DEF PeopleInv, PeopleTyped, WelcomesFit
<1>3. CASE EndsEdit(e)
  BY <1>1, <1>3, HandlerEnds
<1>4. CASE ~EndsEdit(e)
  <2>1. edits' = [edits EXCEPT ![e].pc = "replace", ![e].new = new]
    BY <1>4 DEF ReadList
  <2>2. edits' = [edits EXCEPT ![e] = ed]
    BY <2>1 DEF PeopleInv, PeopleTyped
  <2>3. new # {} => Cardinality(ActiveTasks) < MaxActive
    BY <1>4 DEF ReadList
  <2>4. new \in SUBSET People
    BY <1>2 DEF Edit
  <2> HIDE DEF new, old
  <2>5. ed \in Edit /\ ed.pc = "replace" /\ ed.new = new /\ ed.target = old.target
    BY <1>2, <2>4 DEF Edit
  <2> HIDE DEF ed
  <2>6. PICK d \in Edit :
           /\ d.pc = "replace" /\ d.new = new /\ d.target = old.target
           /\ edits' = [edits EXCEPT ![e] = d]
    BY <2>2, <2>5
  <2>9. EditFits(d)'
    BY <1>1, <1>2, <2>6 DEF EditFits
  <2>7. CASE new = {}
    <3>1. ~Welcoming(d)
      BY <2>6, <2>7 DEF Welcoming
    <3> QED BY <1>1, <2>6, <2>9, <3>1, HandlerOnly
  <2>8. CASE new # {}
    <3>1. TargetsAge
      BY <1>1 DEF TargetsAge
    <3>2. /\ WelcomesFit' /\ ActiveTasks' = ActiveTasks
          /\ edits' \in [Edits -> Edit] /\ welcomes' \in [Tasks -> Task]
      BY <1>1, <2>6, <2>9, <3>1, HandlerFits
    <3>3. PeopleTyped' /\ NumbersAreUnique' /\ FlaggedJoinAll'
      BY <1>1, <3>2 DEF PeopleInv, PeopleTyped, NumbersAreUnique, FlaggedJoinAll, Person, Targets
    <3>4. /\ IsFiniteSet(Edits) /\ IsFiniteSet(Promised') /\ IsFiniteSet(ActiveTasks)
          /\ Cardinality(Promised') <= Cardinality(Edits)
      <4>1. Promised' \subseteq Edits /\ IsFiniteSet(Edits)
        BY RecipientsAssumption DEF Promised
      <4> QED BY <4>1, FS_Subset DEF PeopleInv, TasksBounded
    <3>5. /\ Cardinality(Edits) \in Nat /\ Cardinality(Promised') \in Nat
          /\ Cardinality(ActiveTasks) \in Nat /\ MaxActive \in Nat
      BY <3>4, FS_CardinalityType, RecipientsAssumption
    <3> HIDE DEF ActiveTasks, Promised
    <3>6. Cardinality(ActiveTasks) + Cardinality(Promised') < MaxActive + Cardinality(Edits)
      BY <2>3, <2>8, <3>4, <3>5
    <3>7. TasksBounded'
      BY <3>2, <3>4, <3>6 DEF TasksBounded
    <3> QED BY <3>2, <3>3, <3>7 DEF PeopleInv
  <2> QED BY <2>7, <2>8
<1> QED BY <1>3, <1>4

(* Whoever the list leaves out is noted as left out.                       *)
LEMMA ListReplaced ==
    ASSUME PeopleInv, NEW e \in Edits, ReplaceList(e)
    PROVE  PeopleInv'
<1> DEFINE old == edits[e]
           t == old.target
           list == old.list
           ed == [old EXCEPT !.pc = "welcome"]
<1>1. old.pc = "replace" /\ UNCHANGED <<people, targetIds, welcomes, twins>>
  BY DEF ReplaceList
<1>2. old \in Edit /\ EditFits(old)
  BY DEF PeopleInv, PeopleTyped, WelcomesFit
<1>3. CASE EndsEdit(e) /\ UNCHANGED <<assigned, omitted>>
  BY <1>1, <1>3, HandlerEnds
<1>4. CASE ~(EndsEdit(e) /\ UNCHANGED <<assigned, omitted>>)
  <2>1. /\ assigned' = {a \in assigned : a[1] # t} \union ({t} \X list)
        /\ omitted' = {o \in omitted : o[1] # t} \union ({t} \X (Person \ list))
    BY <1>4 DEF ReplaceList
  <2>2. EndsEdit(e) \/ (old.new # {} /\ edits' = [edits EXCEPT ![e].pc = "welcome"])
    BY <1>4 DEF ReplaceList
  <2>3. EndsEdit(e) \/ (old.new # {} /\ edits' = [edits EXCEPT ![e] = ed])
    BY <2>2 DEF PeopleInv, PeopleTyped
  <2>4. Welcoming(edits[e]) <=> old.new # {}
    BY <1>1 DEF Welcoming
  <2>5. FlaggedJoinAll'
    <3> SUFFICES ASSUME NEW q \in Person, NEW u \in Targets, people[q].all
                 PROVE  <<u, q>> \in assigned' \/ <<u, q>> \in omitted'
      BY <1>1 DEF FlaggedJoinAll, Person, Targets
    <3> HIDE DEF t, list
    <3>1. CASE u = t
      BY <2>1, <3>1
    <3>2. CASE u # t
      BY <2>1, <3>2 DEF PeopleInv, FlaggedJoinAll
    <3> QED BY <3>1, <3>2
  <2>6. TargetsAge
    BY <1>1 DEF TargetsAge
  <2> HIDE DEF old
  <2>7. ed \in Edit /\ ed.pc = "welcome" /\ ed.target = old.target
    BY <1>2 DEF Edit
  <2> HIDE DEF ed
  <2>8. PICK d \in Edit : d = ed
    BY <2>7
  <2>9. EditFits(d)'
    BY <1>1, <1>2, <2>7, <2>8 DEF EditFits
  <2>11. /\ WelcomesFit' /\ TasksBounded'
         /\ edits' \in [Edits -> Edit] /\ welcomes' \in [Tasks -> Task]
    <3>1. CASE EndsEdit(e)
      BY <1>1, <2>6, <3>1, HandlerGoes, NoEditFacts DEF EndsEdit
    <3>2. CASE old.new # {} /\ edits' = [edits EXCEPT ![e] = ed]
      <4>1. edits' = [edits EXCEPT ![e] = d] /\ Welcoming(edits[e])
        BY <2>4, <2>8, <3>2
      <4> QED BY <1>1, <2>6, <2>9, <4>1, HandlerGoes
    <3> QED BY <2>3, <3>1, <3>2
  <2>10. PeopleTyped' /\ NumbersAreUnique'
    BY <1>1, <2>11 DEF PeopleInv, PeopleTyped, NumbersAreUnique, Person
  <2> QED BY <2>5, <2>10, <2>11 DEF PeopleInv
<1> QED BY <1>3, <1>4

LEMMA NoTaskFacts ==
    /\ NoTask \in Task /\ NoTask.status = "none" /\ NoTask.thread = "none"
    /\ NoTask.todo = {} /\ NoTask.queued = {} /\ NoTask.skipped = {} /\ NoTask.list = {}
<1> DEFINE z == 0
<1>1. z \in Watched \union {0}
  OBVIOUS
<1>2. NoTask = [status |-> "none", thread |-> "none", target |-> z, list |-> {}, todo |-> {},
                assigned |-> {}, queued |-> {}, skipped |-> {}]
  BY DEF NoTask
<1> HIDE DEF z
<1> QED BY <1>1, <1>2 DEF Task

(* A handler becomes the task it has counted for.                          *)
LEMMA WelcomeStarted ==
    ASSUME PeopleInv, NEW e \in Edits, NEW w \in Tasks, StartWelcome(e, w)
    PROVE  PeopleInv'
<1> DEFINE ed == edits[e]
           k == [NoTask EXCEPT !.status = "running", !.thread = "created", !.target = ed.target,
                               !.list = ed.new, !.todo = ed.new]
<1>1. /\ ed.pc = "welcome" /\ welcomes[w] = NoTask
      /\ welcomes' = [welcomes EXCEPT ![w] = k] /\ edits' = [edits EXCEPT ![e] = NoEdit]
      /\ UNCHANGED <<people, targetIds, assigned, twins, omitted>>
  BY DEF StartWelcome, Unused, EndsEdit
<1>2. ed \in Edit /\ EditFits(ed)
  BY DEF PeopleInv, PeopleTyped, WelcomesFit
<1> HIDE DEF ed
<1>3. ed.target \in Watched /\ targetIds[ed.target] # "free" /\ ed.new \in SUBSET People
  BY <1>1, <1>2 DEF EditFits, Edit
<1>4. /\ k \in Task /\ k.status = "running" /\ k.thread = "created" /\ k.target = ed.target
      /\ k.list = ed.new /\ k.todo = ed.new /\ k.queued = {} /\ k.skipped = {}
  BY <1>3, NoTaskFacts DEF Task
<1> HIDE DEF k
<1>5. /\ welcomes'[w] = k /\ \A v \in Tasks \ {w} : welcomes'[v] = welcomes[v]
      /\ welcomes' \in [Tasks -> Task]
  BY <1>1, <1>4, TasksMove DEF PeopleInv
<1>6. /\ edits'[e] = NoEdit /\ \A f \in Edits \ {e} : edits'[f] = edits[f]
      /\ edits' \in [Edits -> Edit]
  BY <1>1, NoEditFacts, EditsMove DEF PeopleInv
<1>7. PeopleTyped' /\ NumbersAreUnique' /\ FlaggedJoinAll'
  BY <1>1, <1>5, <1>6 DEF PeopleInv, PeopleTyped, NumbersAreUnique, FlaggedJoinAll, Person, Targets
<1>8. ASSUME NEW f \in Edits PROVE EditFits(edits[f])'
  <2>1. CASE f = e
    BY <1>6, <2>1, NoEditFacts DEF EditFits
  <2>2. CASE f # e
    <3>1. EditFits(edits[f])
      BY DEF PeopleInv, WelcomesFit
    <3> QED BY <1>1, <1>6, <2>2, <3>1 DEF EditFits
  <2> QED BY <2>1, <2>2
<1>9. ASSUME NEW v \in Tasks PROVE TaskFits(welcomes[v])' /\ TaskTells(welcomes[v])'
  <2>1. CASE v = w
    <3>1. TaskFits(k) /\ TaskTells(k)
      BY <1>3, <1>4 DEF TaskFits, TaskTells
    <3> QED BY <1>1, <1>5, <2>1, <3>1 DEF TaskFits, TaskTells, Targets
  <2>2. CASE v # w
    <3>1. TaskFits(welcomes[v]) /\ TaskTells(welcomes[v])
      BY DEF PeopleInv, WelcomesFit
    <3> QED BY <1>1, <1>5, <2>2, <3>1 DEF TaskFits, TaskTells, Targets
  <2> QED BY <2>1, <2>2
<1>10. /\ ActiveTasks' = ActiveTasks \union {w} /\ w \notin ActiveTasks
       /\ Promised' = Promised \ {e} /\ e \in Promised
  <2>1. ActiveTasks' = ActiveTasks \union {w} /\ w \notin ActiveTasks
    BY <1>1, <1>4, <1>5, NoTaskFacts DEF ActiveTasks
  <2>2. Welcoming(edits[e]) /\ ~Welcoming(edits'[e])
    BY <1>1, <1>6, NoEditFacts DEF Welcoming, ed
  <2>3. Promised' = Promised \ {e} /\ e \in Promised
    BY <1>6, <2>2 DEF Promised, Welcoming
  <2> QED BY <2>1, <2>3
<1>11. /\ IsFiniteSet(Edits) /\ IsFiniteSet(Promised) /\ IsFiniteSet(ActiveTasks)
       /\ Cardinality(Promised) \in Nat /\ Cardinality(ActiveTasks) \in Nat
  BY RecipientsAssumption, FS_Subset, FS_CardinalityType DEF Promised, PeopleInv, TasksBounded
<1>12. TasksBounded'
  <2> HIDE DEF ActiveTasks, Promised
  <2>1. /\ IsFiniteSet(ActiveTasks') /\ Cardinality(ActiveTasks') = Cardinality(ActiveTasks) + 1
        /\ Cardinality(Promised') = Cardinality(Promised) - 1
    BY <1>10, <1>11, FS_AddElement, FS_RemoveElement
  <2>2. Cardinality(ActiveTasks') + Cardinality(Promised')
            = Cardinality(ActiveTasks) + Cardinality(Promised)
    BY <1>11, <2>1
  <2> QED BY <2>1, <2>2 DEF PeopleInv, TasksBounded
<1> QED BY <1>7, <1>8, <1>9, <1>12 DEF PeopleInv, WelcomesFit

(* Tasks forgotten by a poll, or dropped with the entry of their target.   *)
LEMMA WelcomesPolled ==
    ASSUME PeopleInv, NEW t \in Watched, PollWelcome(t) \/ DropEntry(t)
    PROVE  PeopleInv'
<1>1. PICK old \in SUBSET OfTarget(t) :
         /\ welcomes' = Forgotten(old)
         /\ UNCHANGED <<people, targetIds, assigned, edits, twins, omitted>>
  BY DEF PollWelcome, DropEntry
<1>2. old \in SUBSET Tasks /\ \A w \in old : welcomes[w].status # "none"
  BY DEF OfTarget
<1> QED BY <1>1, <1>2, TasksForgotten

(* A task that ends tells how, unless nobody can ask it any more.          *)
LEMMA TaskOver ==
    ASSUME PeopleInv, NEW w \in Tasks, NEW s \in {"completed", "queued", "failed", "deferred"},
           Ends(w, s), welcomes[w].thread # "none",
           s \in {"completed", "queued"} =>
               \/ welcomes[w].status = "forgotten" \/ welcomes[w].target \notin Targets
               \/ welcomes[w].queued \union welcomes[w].skipped = welcomes[w].list,
           UNCHANGED <<people, targetIds, assigned, edits, twins, omitted>>
    PROVE  PeopleInv'
<1> DEFINE old == welcomes[w]
           status == IF old.status = "forgotten" THEN old.status ELSE s
           k == [old EXCEPT !.thread = "over", !.status = status]
<1>1. old \in Task /\ TaskFits(old)
  BY DEF PeopleInv, PeopleTyped, WelcomesFit
<1>2. welcomes' = [welcomes EXCEPT ![w] = k]
  BY DEF Ends, PeopleInv, PeopleTyped
<1>3. /\ status \in {"completed", "queued", "failed", "deferred", "forgotten"}
      /\ status \in {"completed", "queued"} => status = s /\ old.status # "forgotten"
  OBVIOUS
<1> HIDE DEF status, old
<1>4. /\ k \in Task /\ k.thread = "over" /\ k.status = status /\ k.target = old.target
      /\ k.queued = old.queued /\ k.skipped = old.skipped /\ k.list = old.list
  BY <1>1, <1>3 DEF Task
<1> HIDE DEF k
<1>5. TaskFits(k)
  BY <1>1, <1>3, <1>4 DEF TaskFits, old
<1>6. TaskTells(k)
  BY <1>3, <1>4 DEF TaskTells, old
<1>7. ~Working(k)
  BY <1>4 DEF Working
<1> QED BY <1>2, <1>4, <1>5, <1>6, <1>7, TaskGoes

LEMMA WelcomeWaits ==
    ASSUME PeopleInv, NEW w \in Tasks, BeginWelcome(w) \/ Defer(w)
    PROVE  PeopleInv'
<1> DEFINE old == welcomes[w]
           k == [old EXCEPT !.thread = "waiting"]
<1>1. old \in Task /\ TaskFits(old) /\ TaskTells(old)
  BY DEF PeopleInv, PeopleTyped, WelcomesFit
<1>2. UNCHANGED <<people, targetIds, assigned, edits, twins, omitted>>
  BY DEF BeginWelcome, Defer
<1>3. CASE BeginWelcome(w)
  <2>1. old.thread = "created" /\ welcomes' = [welcomes EXCEPT ![w] = k]
    BY <1>3 DEF BeginWelcome, PeopleInv, PeopleTyped
  <2> HIDE DEF old
  <2>2. /\ k \in Task /\ k.thread = "waiting" /\ k.status = old.status /\ k.target = old.target
        /\ k.todo = old.todo /\ k.queued = old.queued /\ k.skipped = old.skipped
        /\ k.list = old.list
    BY <1>1 DEF Task
  <2> HIDE DEF k
  <2>3. TaskFits(k) /\ TaskTells(k)
    BY <1>1, <2>1, <2>2 DEF TaskFits, TaskTells
  <2>4. Working(welcomes[w])
    BY <2>1 DEF Working, old
  <2> QED BY <1>2, <2>1, <2>2, <2>3, <2>4, TaskGoes
<1>4. CASE Defer(w)
  BY <1>2, <1>4, TaskOver DEF Defer
<1> QED BY <1>3, <1>4

LEMMA SectionEntered ==
    ASSUME PeopleInv, NEW w \in Tasks, EnterSection(w)
    PROVE  PeopleInv'
<1> DEFINE old == welcomes[w]
           there == {p \in People : <<old.target, p>> \in assigned}
           k == [old EXCEPT !.thread = "section", !.assigned = there]
<1>1. old \in Task /\ TaskFits(old) /\ TaskTells(old) /\ there \in SUBSET People
  BY DEF PeopleInv, PeopleTyped, WelcomesFit
<1>2. /\ old.thread = "waiting"
      /\ UNCHANGED <<people, targetIds, assigned, edits, twins, omitted>>
  BY DEF EnterSection
<1>3. CASE old.status = "forgotten" \/ old.target \notin Targets
  BY <1>2, <1>3, TaskOver DEF EnterSection
<1>4. CASE ~(old.status = "forgotten" \/ old.target \notin Targets)
  <2>1. welcomes' = [welcomes EXCEPT ![w].thread = "section", ![w].assigned = there]
    BY <1>4 DEF EnterSection
  <2>2. welcomes' = [welcomes EXCEPT ![w] = k]
    BY <2>1 DEF PeopleInv, PeopleTyped
  <2> HIDE DEF old, there
  <2>3. /\ k \in Task /\ k.thread = "section" /\ k.status = old.status /\ k.target = old.target
        /\ k.todo = old.todo /\ k.queued = old.queued /\ k.skipped = old.skipped
        /\ k.list = old.list
    BY <1>1 DEF Task
  <2> HIDE DEF k
  <2>4. TaskFits(k) /\ TaskTells(k)
    BY <1>1, <1>2, <2>3 DEF TaskFits, TaskTells
  <2>5. Working(welcomes[w])
    BY <1>2 DEF Working, old
  <2> QED BY <1>2, <2>2, <2>3, <2>4, <2>5, TaskGoes
<1> QED BY <1>3, <1>4

(* Whoever is looked at is queued or skipped.                              *)
LEMMA RecipientWelcomed ==
    ASSUME PeopleInv, NEW w \in Tasks, NEW p \in People, WelcomeOne(w, p)
    PROVE  PeopleInv'
<1> DEFINE old == welcomes[w]
           due == p \in old.assigned /\ p \in Person /\ people[p].enabled
           queued == IF due THEN old.queued \union {p} ELSE old.queued
           skipped == IF due THEN old.skipped ELSE old.skipped \union {p}
           k == [old EXCEPT !.todo = old.todo \ {p}, !.queued = queued, !.skipped = skipped]
<1>1. old \in Task /\ TaskFits(old) /\ TaskTells(old)
  BY DEF PeopleInv, PeopleTyped, WelcomesFit
<1>2. /\ old.thread = "section" /\ p \in old.todo
      /\ UNCHANGED <<people, targetIds, assigned, edits, twins, omitted>>
  BY DEF WelcomeOne
<1>3. CASE due /\ Ends(w, "failed")
  BY <1>2, <1>3, TaskOver
<1>4. CASE ~(due /\ Ends(w, "failed"))
  <2>1. welcomes' = [welcomes EXCEPT ![w].todo = @ \ {p},
          ![w].queued = IF due THEN @ \union {p} ELSE @,
          ![w].skipped = IF due THEN @ ELSE @ \union {p}]
    BY <1>4 DEF WelcomeOne
  <2>2. welcomes' = [welcomes EXCEPT ![w] = k]
    BY <2>1 DEF PeopleInv, PeopleTyped
  <2> HIDE DEF due
  <2>3. /\ queued \in SUBSET People /\ skipped \in SUBSET People
        /\ (old.todo \ {p}) \union queued \union skipped
              = old.todo \union old.queued \union old.skipped
    <3>1. /\ old.queued \in SUBSET People /\ old.skipped \in SUBSET People
      BY <1>1 DEF Task
    <3> HIDE DEF old
    <3>2. CASE due
      BY <1>2, <3>1, <3>2
    <3>3. CASE ~due
      BY <1>2, <3>1, <3>3
    <3> QED BY <3>2, <3>3
  <2> HIDE DEF old, queued, skipped
  <2>4. /\ k \in Task /\ k.thread = "section" /\ k.status = old.status /\ k.target = old.target
        /\ k.todo = old.todo \ {p} /\ k.queued = queued /\ k.skipped = skipped
        /\ k.list = old.list
    BY <1>1, <1>2, <2>3 DEF Task
  <2> HIDE DEF k
  <2>5. TaskFits(k) /\ TaskTells(k)
    BY <1>1, <1>2, <2>3, <2>4 DEF TaskFits, TaskTells
  <2>6. Working(welcomes[w])
    BY <1>2 DEF Working, old
  <2> QED BY <1>2, <2>2, <2>4, <2>5, <2>6, TaskGoes
<1> QED BY <1>3, <1>4

LEMMA WelcomeFinished ==
    ASSUME PeopleInv, NEW w \in Tasks, FinishWelcome(w)
    PROVE  PeopleInv'
<1> DEFINE s == IF welcomes[w].queued # {} THEN "queued" ELSE "completed"
<1>1. /\ welcomes[w].thread = "section" /\ welcomes[w].todo = {} /\ Ends(w, s)
      /\ UNCHANGED <<people, targetIds, assigned, edits, twins, omitted>>
  BY DEF FinishWelcome
<1>2. s \in {"completed", "queued", "failed", "deferred"}
  OBVIOUS
<1> HIDE DEF s
<1>3. welcomes[w].queued \union welcomes[w].skipped = welcomes[w].list
  BY <1>1 DEF PeopleInv, WelcomesFit, TaskFits
<1>4. welcomes[w].thread # "none"
  BY <1>1
<1>5. PICK c \in {"completed", "queued", "failed", "deferred"} : c = s
  BY <1>2
<1>6. Ends(w, c)
  BY <1>1, <1>5
<1> QED BY <1>1, <1>3, <1>4, <1>6, TaskOver

-----------------------------------------------------------------------------
LEMMA PeopleStart == PeopleInit => PeopleInv
<1> SUFFICES ASSUME PeopleInit PROVE PeopleInv
  OBVIOUS
<1>1. PICK some \in SUBSET People, phone \in Phones :
         /\ people = [p \in People |-> IF p \in some THEN Recipient(phone, FALSE) ELSE Nobody]
         /\ twins = some
  BY DEF PeopleInit
<1>2. PICK t \in Watched : targetIds = [u \in Watched |-> IF u = t THEN "used" ELSE "free"]
  BY DEF PeopleInit
<1>3. edits = [e \in Edits |-> NoEdit] /\ welcomes = [w \in Tasks |-> NoTask]
  BY DEF PeopleInit
<1>4. /\ Recipient(phone, FALSE) \in PersonRow /\ ~Recipient(phone, FALSE).all
      /\ Nobody \in PersonRow /\ Nobody.id = "free"
  BY RecipientRow DEF Nobody, PersonRow
<1>5. PeopleTyped
  BY <1>1, <1>2, <1>3, <1>4, NoEditFacts, NoTaskFacts DEF PeopleTyped
<1>6. NumbersAreUnique /\ FlaggedJoinAll
  <2>1. \A p \in Person : p \in some /\ ~people[p].all
    BY <1>1, <1>4 DEF Person
  <2> QED BY <1>1, <2>1 DEF NumbersAreUnique, FlaggedJoinAll
<1>7. WelcomesFit
  <2>1. EditFits(NoEdit)
    BY NoEditFacts DEF EditFits
  <2>2. TaskFits(NoTask) /\ TaskTells(NoTask)
    BY NoTaskFacts DEF TaskFits, TaskTells
  <2> QED BY <1>3, <2>1, <2>2 DEF WelcomesFit
<1>8. TasksBounded
  <2>1. ActiveTasks = {} /\ Promised = {}
    BY <1>3, NoEditFacts, NoTaskFacts DEF ActiveTasks, Promised
  <2>2. /\ IsFiniteSet(ActiveTasks) /\ Cardinality(ActiveTasks) = 0
        /\ Cardinality(Promised) = 0 /\ Cardinality(Edits) \in Nat
    BY <2>1, FS_EmptySet, FS_CardinalityType, RecipientsAssumption
  <2> HIDE DEF ActiveTasks, Promised
  <2> QED BY <2>2, RecipientsAssumption DEF TasksBounded
<1> QED BY <1>5, <1>6, <1>7, <1>8 DEF PeopleInv

LEMMA PeopleStay ==
    ASSUME PeopleInv, UNCHANGED <<people, targetIds, assigned, edits, welcomes, twins, omitted>>
    PROVE  PeopleInv'
<1>1. TargetsAge
  BY DEF TargetsAge
<1>2. PeopleTyped' /\ NumbersAreUnique' /\ FlaggedJoinAll'
  BY DEF PeopleInv, PeopleTyped, NumbersAreUnique, FlaggedJoinAll, Person, Targets
<1> QED BY <1>1, <1>2, AllStay DEF PeopleInv

LEMMA PeopleStep == PeopleInv /\ [PeopleNext]_peopleVars => PeopleInv'
<1> SUFFICES ASSUME PeopleInv, [PeopleNext]_peopleVars PROVE PeopleInv'
  OBVIOUS
<1>1. ASSUME NEW e \in Edits,
             BeginCreateRecipient(e) \/ BeginUpdateRecipient(e) \/ BeginPut(e)
      PROVE  PeopleInv'
  BY <1>1, HandlersBegin
<1>2. ASSUME NEW e \in Edits, CreateRecipient(e) \/ UpdateRecipient(e)
      PROVE  PeopleInv'
  BY <1>2, RecipientCreated, RecipientUpdated
<1>3. ASSUME NEW e \in Edits, ReadList(e) \/ ReplaceList(e)
      PROVE  PeopleInv'
  BY <1>3, ListRead, ListReplaced
<1>4. ASSUME NEW e \in Edits, NEW w \in Tasks, StartWelcome(e, w)
      PROVE  PeopleInv'
  BY <1>4, WelcomeStarted
<1>5. ASSUME NEW p \in People, DeleteRecipient(p)
      PROVE  PeopleInv'
  BY <1>5, RecipientDeleted
<1>6. ASSUME NEW t \in Watched, DeleteTarget(t)
      PROVE  PeopleInv'
  BY <1>6, TargetDeleted
<1>7. ASSUME NEW t \in Watched, NEW list \in SUBSET People, CreateTarget(t, list)
      PROVE  PeopleInv'
  BY <1>7, TargetCreated
<1>8. ASSUME NEW t \in Watched, PollWelcome(t) \/ DropEntry(t)
      PROVE  PeopleInv'
  BY <1>8, WelcomesPolled
<1>9. ASSUME NEW w \in Tasks, BeginWelcome(w) \/ Defer(w) \/ EnterSection(w) \/ FinishWelcome(w)
      PROVE  PeopleInv'
  BY <1>9, WelcomeWaits, SectionEntered, WelcomeFinished
<1>10. ASSUME NEW w \in Tasks, NEW p \in People, WelcomeOne(w, p)
       PROVE  PeopleInv'
  BY <1>10, RecipientWelcomed
<1>11. CASE CloseForEdits \/ OpenForEdits \/ UNCHANGED peopleVars
  BY <1>11, PeopleStay DEF CloseForEdits, OpenForEdits, peopleVars
<1> QED
  BY <1>1, <1>2, <1>3, <1>4, <1>5, <1>6, <1>7, <1>8, <1>9, <1>10, <1>11 DEF PeopleNext

(* One task more than allowed for every other request, at most.            *)
LEMMA RecipientsFollow == PeopleInv => RecipientsKept
<1> SUFFICES ASSUME PeopleInv PROVE RecipientsKept
  OBVIOUS
<1>1. WelcomesAreTold
  BY DEF PeopleInv, WelcomesFit, TaskFits, TaskTells, WelcomesAreTold
<1>2. WelcomesAreFew
  <2>1. IsFiniteSet(Promised)
    BY FS_Subset, RecipientsAssumption DEF Promised
  <2>2. /\ Cardinality(ActiveTasks) \in Nat /\ Cardinality(Promised) \in Nat
        /\ Cardinality(Edits) \in Nat /\ MaxActive \in Nat
    BY <2>1, FS_CardinalityType, RecipientsAssumption DEF PeopleInv, TasksBounded
  <2> HIDE DEF Promised, ActiveTasks
  <2>3. Cardinality(ActiveTasks) + Cardinality(Promised) < MaxActive + Cardinality(Edits)
    BY DEF PeopleInv, TasksBounded
  <2> QED BY <2>2, <2>3 DEF WelcomesAreFew
<1> QED BY <1>1, <1>2 DEF PeopleInv, RecipientsKept

(* Whatever requests about recipients cross, with their targets' lists and *)
(* their welcomes: a number is shared only by those who shared it before,  *)
(* who is alerted of all targets is on each list but for those that left   *)
(* them out last, a welcome that ended well has looked at everybody on its *)
(* list, and each request adds at most one task to those allowed.          *)
THEOREM RecipientsAreKept == PeopleSpec => []RecipientsKept
<1>1. PeopleSpec => []PeopleInv
  BY PeopleStart, PeopleStep, PTL DEF PeopleSpec
<1> QED BY <1>1, RecipientsFollow, PTL

(* In the composition of what an admin keeps, recipients and their lists   *)
(* keep their promises whichever component moves.                          *)
THEOREM PeopleAreKept == AdminSpec => []PeopleKept
<1>1. AdminInit => PeopleInv
  BY PeopleStart DEF AdminInit
<1>2. PeopleInv /\ [AdminNext]_adminVars => PeopleInv'
  <2> SUFFICES ASSUME PeopleInv, [AdminNext]_adminVars
               PROVE  PeopleInv'
    OBVIOUS
  <2>1. CASE PeopleMove
    BY <2>1, PeopleStep DEF PeopleMove
  <2>2. CASE UNCHANGED peopleVars
    BY <2>2, PeopleStep
  <2>3. PeopleMove \/ UNCHANGED peopleVars
    <3>1. ASSUME NEW moving, moving # "people", Others(moving)
          PROVE  UNCHANGED peopleVars
      BY <3>1, SMTT(60) DEF Others
    <3>2. ASSUME AdminNext PROVE PeopleMove \/ UNCHANGED peopleVars
      BY <3>1, <3>2
         DEF AdminNext, RefreshMoves, CandidatesMove, SignalMoves, SettingsMove, TargetsMove, InboxMoves,
             ReleasesMove, ArchivesMove, GeoMoves, OnlineMoves, PlacesMove, RatesMove
    <3>3. ASSUME UNCHANGED adminVars PROVE UNCHANGED peopleVars
      BY <3>3 DEF adminVars
    <3> QED BY <3>2, <3>3
  <2> QED BY <2>1, <2>2, <2>3
<1>3. PeopleInv => PeopleKept
  BY RecipientsFollow DEF PeopleKept
<1> QED BY <1>1, <1>2, <1>3, PTL DEF AdminSpec

-----------------------------------------------------------------------------
(* Settings behind their two caches                                        *)

Stamps == [Keys -> Nat]
Transaction == [kind : {"none", "own", "foreign", "told"}, wrote : Stamps, calls : Seq(Keys),
                patch : Seq(Keys), saved : Seq([wrote : Stamps, mark : Nat]), half : BOOLEAN]
Lookup == [pc : {"idle", "fetch", "publish"}, key : Keys \union {CHOOSE k \in Keys : TRUE},
           of : {"none", "request", "runtime"}, gen : Nat, value : Nat]

SettingsTyped ==
    /\ stored \in Stamps /\ settled \in Stamps /\ settledRuntime \in Stamps
    /\ runtime \in Stamps /\ lastGood \in Stamps
    /\ tx \in [Writers -> Transaction] /\ lookups \in [Readers -> Lookup]
    /\ cache \in Seq([key : Keys, value : Nat]) /\ uncacheable \subseteq Keys
    /\ generation \in Nat /\ runtimeGeneration \in Nat /\ writes \in Nat

(* What a transaction has written is newer than what is stored; its keys   *)
(* will be told to the caches, also after a rollback to its savepoint, or  *)
(* are not cached.                                                         *)
PointFits(x, point) ==
    /\ point.mark <= Len(x.calls)
    /\ \A k \in Keys : point.wrote[k] # 0 =>
         /\ x.wrote[k] # 0 /\ stored[k] < point.wrote[k] /\ point.wrote[k] <= writes
         /\ x.kind = "own" => \E i \in 1 .. point.mark : x.calls[i] = k

TxFits(x) ==
    /\ \A k \in Keys : x.wrote[k] # 0 =>
         /\ stored[k] < x.wrote[k] /\ x.wrote[k] <= writes
         /\ x.kind \in {"own", "foreign"}
         /\ x.kind = "own" => Contains(x.calls, k)
         /\ x.kind = "foreign" => k \in uncacheable
    /\ x.saved # <<>> =>
         Len(x.saved) = 1 /\ x.kind \in {"own", "foreign"} /\ PointFits(x, x.saved[1])
    /\ x.half => x.kind = "told" /\ x.calls # <<>>

OneWriter ==
    \A c, d \in Writers : c # d => \A k, m \in Keys : tx[c].wrote[k] = 0 \/ tx[d].wrote[m] = 0

(* A lookup that may still publish has read what the caches were told of.  *)
LookupFits(l) ==
    /\ l.pc # "idle" => l.key \in Keys
    /\ l.of = "request" =>
         /\ l.gen <= generation
         /\ l.pc = "publish" /\ l.gen = generation /\ l.key \notin uncacheable =>
              settled[l.key] <= l.value
    /\ l.of = "runtime" =>
         /\ l.gen <= runtimeGeneration
         /\ l.pc = "publish" /\ l.gen = runtimeGeneration => settledRuntime[l.key] <= l.value

StampsFit ==
    \A k \in Keys :
        stored[k] <= writes /\ settled[k] <= stored[k] /\ settledRuntime[k] <= stored[k]

Entry == [key : Keys, value : Nat]
CacheFits(entries) ==
    /\ entries \in Seq(Entry)
    /\ \A i, j \in DOMAIN entries : entries[i].key = entries[j].key => i = j

SettingsInv ==
    /\ SettingsTyped /\ StampsFit /\ OneWriter /\ CacheFits(cache)
    /\ \A c \in Writers : TxFits(tx[c])
    /\ \A r \in Readers : LookupFits(lookups[r])
    /\ SettingsKept

-----------------------------------------------------------------------------
(* What happens to the entries                                             *)

(* Every entry is one that was there before, under another key.            *)
DroppedFrom(after, before, k) ==
    /\ CacheFits(after) /\ Len(after) <= Len(before)
    /\ \A i \in DOMAIN after :
         after[i].key # k /\ \E j \in DOMAIN before : before[j] = after[i]

LEMMA EntryKeys ==
    ASSUME NEW entries \in Seq(Entry), NEW i \in DOMAIN entries
    PROVE  entries[i].key \in Keys /\ entries[i].value \in Nat
<1>1. entries[i] \in Entry
  OBVIOUS
<1> QED BY <1>1 DEF Entry

LEMMA EntryGone ==
    ASSUME NEW entries \in Seq(Entry), NEW i \in DOMAIN entries, CacheFits(entries)
    PROVE  DroppedFrom(RemoveAt(entries, i), entries, entries[i].key)
<1> DEFINE n == Len(entries)
           before == SubSeq(entries, 1, i - 1)
           after == SubSeq(entries, i + 1, n)
           rest == before \o after
<1>1. n \in Nat /\ DOMAIN entries = 1 .. n /\ i \in 1 .. n
  OBVIOUS
<1>2. before \in Seq(Entry) /\ Len(before) = i - 1 /\ \A j \in 1 .. i - 1 : before[j] = entries[j]
  BY <1>1
<1>3. after \in Seq(Entry) /\ Len(after) = n - i /\ \A j \in 1 .. n - i : after[j] = entries[i + j]
  BY <1>1, SMTT(60)
<1> HIDE DEF before, after, n
<1>4. /\ rest \in Seq(Entry) /\ Len(rest) = n - 1 /\ DOMAIN rest = 1 .. n - 1
      /\ \A j \in 1 .. n - 1 : rest[j] = IF j < i THEN entries[j] ELSE entries[j + 1]
  <2>1. /\ rest \in Seq(Entry) /\ Len(rest) = Len(before) + Len(after)
        /\ \A j \in 1 .. Len(before) + Len(after) :
             rest[j] = IF j <= Len(before) THEN before[j] ELSE after[j - Len(before)]
    BY <1>2, <1>3, ConcatProperties, Zenon
  <2> HIDE DEF rest
  <2>2. Len(rest) = n - 1 /\ DOMAIN rest = 1 .. n - 1
    BY <1>1, <1>2, <1>3, <2>1
  <2>3. ASSUME NEW j \in 1 .. n - 1 PROVE rest[j] = IF j < i THEN entries[j] ELSE entries[j + 1]
    <3>1. CASE j < i
      BY <1>1, <1>2, <2>1, <2>2, <3>1
    <3>2. CASE ~(j < i)
      <4>1. j - (i - 1) \in 1 .. n - i /\ i + (j - (i - 1)) = j + 1 /\ ~(j <= i - 1)
        BY <1>1, <3>2
      <4>2. rest[j] = after[j - (i - 1)]
        BY <1>2, <2>1, <2>2, <4>1
      <4> QED BY <1>3, <3>2, <4>1, <4>2
    <3> QED BY <3>1, <3>2
  <2> QED BY <2>1, <2>2, <2>3
<1>5. RemoveAt(entries, i) = rest
  BY DEF RemoveAt, before, after, n
<1> HIDE DEF rest
<1>6. \A j \in 1 .. n - 1 : \E m \in 1 .. n : m # i /\ rest[j] = entries[m]
                                             /\ m = IF j < i THEN j ELSE j + 1
  BY <1>1, <1>4
<1>7. \A j \in DOMAIN rest :
         rest[j].key # entries[i].key /\ \E m \in DOMAIN entries : entries[m] = rest[j]
  BY <1>1, <1>4, <1>6, SMTT(60) DEF CacheFits
<1>8. ASSUME NEW j \in DOMAIN rest, NEW l \in DOMAIN rest, rest[j].key = rest[l].key PROVE j = l
  <2>1. PICK m \in 1 .. n : rest[j] = entries[m] /\ m = IF j < i THEN j ELSE j + 1
    BY <1>4, <1>6
  <2>2. PICK o \in 1 .. n : rest[l] = entries[o] /\ o = IF l < i THEN l ELSE l + 1
    BY <1>4, <1>6
  <2>3. m = o
    BY <1>1, <1>8, <2>1, <2>2 DEF CacheFits
  <2> QED BY <1>1, <1>4, <2>1, <2>2, <2>3
<1>9. CacheFits(rest)
  BY <1>4, <1>8 DEF CacheFits
<1>10. Len(rest) <= Len(entries)
  BY <1>1, <1>4 DEF n
<1> QED BY <1>5, <1>7, <1>9, <1>10 DEF DroppedFrom

LEMMA KeyDropped ==
    ASSUME CacheFits(cache), NEW k
    PROVE  DroppedFrom(Drop(k), cache, k)
<1>1. CASE \E i \in DOMAIN cache : cache[i].key = k
  <2> DEFINE i == CHOOSE j \in DOMAIN cache : cache[j].key = k
  <2>1. i \in DOMAIN cache /\ cache[i].key = k
    BY <1>1
  <2>2. Drop(k) = RemoveAt(cache, i)
    BY <1>1 DEF Drop
  <2> HIDE DEF i
  <2> QED BY <2>1, <2>2, EntryGone DEF CacheFits
<1>2. CASE ~\E i \in DOMAIN cache : cache[i].key = k
  <2>1. Drop(k) = cache
    BY <1>2 DEF Drop
  <2> QED BY <1>2, <2>1 DEF DroppedFrom, CacheFits
<1> QED BY <1>1, <1>2

(* The oldest go, at least one of them.                                    *)
LEMMA OldestGone ==
    ASSUME NEW entries, CacheFits(entries), Len(entries) > 0
    PROVE  /\ CacheFits(EvictOldest(entries)) /\ Len(EvictOldest(entries)) < Len(entries)
           /\ \A i \in DOMAIN EvictOldest(entries) :
                \E j \in DOMAIN entries : entries[j] = EvictOldest(entries)[i]
<1> DEFINE n == Len(entries)
           quarter == n \div 4
           m == (IF quarter > 1 THEN quarter ELSE 1) + 1
           rest == SubSeq(entries, m, n)
<1>1. entries \in Seq(Entry) /\ n \in Nat /\ n > 0 /\ DOMAIN entries = 1 .. n
  BY DEF CacheFits
<1>2. EvictOldest(entries) = rest
  BY DEF EvictOldest
<1>3. quarter \in Nat /\ quarter <= n
  BY <1>1
<1> HIDE DEF quarter
<1>4. m \in 2 .. n + 1
  BY <1>1, <1>3
<1> HIDE DEF m, n
<1>5. /\ rest \in Seq(Entry) /\ Len(rest) = n - m + 1 /\ DOMAIN rest = 1 .. n - m + 1
      /\ \A i \in 1 .. n - m + 1 : rest[i] = entries[m + i - 1]
  BY <1>1, <1>4
<1> HIDE DEF rest
<1>6. \A i \in DOMAIN rest : m + i - 1 \in DOMAIN entries /\ rest[i] = entries[m + i - 1]
  BY <1>1, <1>4, <1>5
<1>7. \A i, j \in DOMAIN rest : rest[i].key = rest[j].key => i = j
  <2> SUFFICES ASSUME NEW i \in DOMAIN rest, NEW j \in DOMAIN rest, rest[i].key = rest[j].key
               PROVE  i = j
    OBVIOUS
  <2>1. m + i - 1 = m + j - 1
    BY <1>6 DEF CacheFits
  <2> QED BY <1>4, <1>5, <2>1
<1>8. CacheFits(rest)
  BY <1>5, <1>7 DEF CacheFits
<1>9. Len(rest) < Len(entries)
  BY <1>1, <1>4, <1>5 DEF n
<1> QED BY <1>2, <1>6, <1>8, <1>9

(* An entry is replaced or added.                                          *)
LEMMA EntryEntered ==
    ASSUME NEW entries, CacheFits(entries), NEW e \in Entry
    PROVE  /\ CacheFits(Entered(entries, e)) /\ Len(Entered(entries, e)) <= Len(entries) + 1
           /\ \A i \in DOMAIN Entered(entries, e) :
                \/ Entered(entries, e)[i] = e
                \/ \E j \in DOMAIN entries : entries[j] = Entered(entries, e)[i]
<1>1. entries \in Seq(Entry) /\ Len(entries) \in Nat /\ DOMAIN entries = 1 .. Len(entries)
  BY DEF CacheFits
<1>2. CASE \E i \in DOMAIN entries : entries[i].key = e.key
  <2> DEFINE new == [i \in DOMAIN entries |-> IF entries[i].key = e.key THEN e ELSE entries[i]]
  <2>1. Entered(entries, e) = new
    BY <1>2 DEF Entered
  <2>2. /\ new \in Seq(Entry) /\ Len(new) = Len(entries) /\ DOMAIN new = DOMAIN entries
        /\ \A i \in DOMAIN entries : new[i] = IF entries[i].key = e.key THEN e ELSE entries[i]
    BY <1>1
  <2> HIDE DEF new
  <2>3. \A i \in DOMAIN entries : new[i].key = entries[i].key
    BY <2>2
  <2>4. CacheFits(new)
    BY <2>2, <2>3 DEF CacheFits
  <2> QED BY <1>1, <2>1, <2>2, <2>4
<1>3. CASE ~\E i \in DOMAIN entries : entries[i].key = e.key
  <2> DEFINE new == Append(entries, e)
             n == Len(entries)
  <2>1. Entered(entries, e) = new
    BY <1>3 DEF Entered
  <2>2. /\ new \in Seq(Entry) /\ Len(new) = n + 1 /\ DOMAIN new = 1 .. n + 1
        /\ new[n + 1] = e /\ \A i \in 1 .. n : new[i] = entries[i]
    BY <1>1
  <2> HIDE DEF new, n
  <2>3. n \in Nat /\ DOMAIN entries = 1 .. n
    BY <1>1 DEF n
  <2>4. \A i, j \in DOMAIN new : new[i].key = new[j].key => i = j
    <3> SUFFICES ASSUME NEW i \in 1 .. n + 1, NEW j \in 1 .. n + 1, new[i].key = new[j].key
                 PROVE  i = j
      BY <2>2
    <3>1. CASE i \in 1 .. n /\ j \in 1 .. n
      BY <2>2, <2>3, <3>1 DEF CacheFits
    <3>2. CASE i = n + 1 /\ j \in 1 .. n
      BY <1>3, <2>2, <2>3, <3>2
    <3>3. CASE i \in 1 .. n /\ j = n + 1
      BY <1>3, <2>2, <2>3, <3>3
    <3>4. CASE i = n + 1 /\ j = n + 1
      BY <3>4
    <3> QED BY <2>3, <3>1, <3>2, <3>3, <3>4
  <2>5. CacheFits(new)
    BY <2>2, <2>4 DEF CacheFits
  <2>6. \A i \in DOMAIN new : new[i] = e \/ \E j \in DOMAIN entries : entries[j] = new[i]
    BY <2>2, <2>3
  <2> QED BY <2>1, <2>2, <2>5, <2>6 DEF n
<1> QED BY <1>2, <1>3

-----------------------------------------------------------------------------
(* Transactions: one goes on, the others stay                              *)

LEMMA TxParts ==
    ASSUME SettingsInv, NEW c \in Writers
    PROVE  /\ tx[c] \in Transaction /\ TxFits(tx[c])
           /\ tx[c].kind \in {"none", "own", "foreign", "told"} /\ tx[c].wrote \in Stamps
           /\ tx[c].calls \in Seq(Keys) /\ tx[c].patch \in Seq(Keys)
           /\ tx[c].saved \in Seq([wrote : Stamps, mark : Nat]) /\ tx[c].half \in BOOLEAN
BY DEF SettingsInv, SettingsTyped, Transaction

LEMMA TxMoves ==
    ASSUME SettingsInv, NEW c \in Writers, NEW x \in Transaction, tx' = [tx EXCEPT ![c] = x]
    PROVE  /\ tx' \in [Writers -> Transaction] /\ tx'[c] = x
           /\ \A d \in Writers \ {c} : tx'[d] = tx[d]
BY DEF SettingsInv, SettingsTyped

LEMMA NoTxFacts ==
    /\ NoTx \in Transaction /\ NoTx.kind = "none" /\ NoTx.calls = <<>> /\ NoTx.patch = <<>>
    /\ NoTx.saved = <<>> /\ ~NoTx.half /\ \A k \in Keys : NoTx.wrote[k] = 0
<1> DEFINE clean == Clean
           half == FALSE
<1>1. clean \in Stamps /\ \A k \in Keys : clean[k] = 0
  BY DEF Clean, Stamps
<1>2. half \in BOOLEAN /\ ~half
  OBVIOUS
<1>3. NoTx = [kind |-> "none", wrote |-> clean, calls |-> <<>>, patch |-> <<>>, saved |-> <<>>, half |-> half]
  BY DEF NoTx
<1> HIDE DEF clean, half
<1>4. <<>> \in Seq(Keys) /\ <<>> \in Seq([wrote : Stamps, mark : Nat])
  OBVIOUS
<1> QED BY <1>1, <1>2, <1>3, <1>4 DEF Transaction

(* A transaction that has written nothing and has no savepoint fits.       *)
LEMMA NothingWritten ==
    ASSUME NEW x, \A k \in Keys : x.wrote[k] = 0, x.saved = <<>>,
           x.half => x.kind = "told" /\ x.calls # <<>>
    PROVE  TxFits(x)
BY DEF TxFits

(* Only one transaction changes, and what it was to tell it still tells.   *)
LEMMA TxGoes ==
    ASSUME SettingsInv, NEW c \in Writers, NEW x \in Transaction, tx' = [tx EXCEPT ![c] = x],
           TxFits(x), \A k \in Keys : x.wrote[k] # 0 => tx[c].wrote[k] # 0,
           tx[c].kind = "told" =>
              \A k \in Keys : Contains(tx[c].calls, k) => x.kind = "told" /\ Contains(x.calls, k),
           UNCHANGED <<stored, cacheVars, lookups, writes>>
    PROVE  SettingsInv'
<1>1. /\ tx' \in [Writers -> Transaction] /\ tx'[c] = x
      /\ \A d \in Writers \ {c} : tx'[d] = tx[d]
  BY TxMoves
<1>2. SettingsTyped' /\ StampsFit' /\ CacheFits(cache)'
  BY <1>1 DEF SettingsInv, SettingsTyped, StampsFit, CacheFits, cacheVars
<1>3. OneWriter'
  BY <1>1, SMTT(60) DEF SettingsInv, OneWriter
<1>4. ASSUME NEW d \in Writers PROVE TxFits(tx[d])'
  <2>1. TxFits(tx'[d])
    BY <1>1 DEF SettingsInv
  <2> QED BY <2>1 DEF TxFits, PointFits, cacheVars
<1>5. ASSUME NEW r \in Readers PROVE LookupFits(lookups[r])'
  BY DEF SettingsInv, LookupFits, cacheVars
<1>6. (EntriesAreCurrent /\ OptOutIsKept /\ CacheIsBounded)'
  BY DEF SettingsInv, SettingsKept, EntriesAreCurrent, OptOutIsKept, CacheIsBounded, cacheVars
<1>7. WritesAreTold'
  <2> SUFFICES ASSUME NEW k \in Keys, settled[k] < stored[k]
               PROVE  \E d \in Writers : tx'[d].kind = "told" /\ Contains(tx'[d].calls, k)
    BY DEF WritesAreTold, cacheVars
  <2>1. PICK d \in Writers : tx[d].kind = "told" /\ Contains(tx[d].calls, k)
    BY DEF SettingsInv, SettingsKept, WritesAreTold
  <2> QED BY <1>1, <2>1
<1> QED BY <1>2, <1>3, <1>4, <1>5, <1>6, <1>7 DEF SettingsInv, SettingsKept

LEMMA SavedFacts ==
    ASSUME SettingsInv, NEW c \in Writers, tx[c].saved # <<>>
    PROVE  /\ Last(tx[c].saved) = tx[c].saved[1] /\ Front(tx[c].saved) = <<>>
           /\ tx[c].saved[1].wrote \in Stamps /\ tx[c].saved[1].mark \in Nat
           /\ tx[c].kind \in {"own", "foreign"} /\ PointFits(tx[c], tx[c].saved[1])
<1> DEFINE points == tx[c].saved
           Point == [wrote : Stamps, mark : Nat]
<1>1. points \in Seq(Point) /\ Len(points) = 1
  BY TxParts DEF TxFits
<1>2. tx[c].kind \in {"own", "foreign"} /\ PointFits(tx[c], points[1])
  BY TxParts DEF TxFits
<1> HIDE DEF points, Point
<1>3. points[1] \in Point /\ SubSeq(points, 1, 0) = <<>>
  BY <1>1, SMTT(60)
<1>4. Last(points) = points[1] /\ Front(points) = <<>>
  BY <1>1, <1>3 DEF Last, Front
<1>5. points[1].wrote \in Stamps /\ points[1].mark \in Nat
  BY <1>3 DEF Point
<1> QED BY <1>2, <1>4, <1>5 DEF points

(* Another write leaves a transaction fit.                                 *)
LEMMA FitsLater ==
    ASSUME NEW x \in Transaction, TxFits(x), stored' = stored, uncacheable \subseteq uncacheable',
           writes \in Nat, writes' = writes + 1
    PROVE  TxFits(x)'
<1>1. \A k \in Keys : x.wrote[k] # 0 => x.wrote[k] <= writes'
  <2>1. \A k \in Keys : x.wrote[k] \in Nat
    BY DEF Transaction, Stamps
  <2> QED BY <2>1 DEF TxFits
<1>2. ASSUME x.saved # <<>> PROVE PointFits(x, x.saved[1])'
  <2>1. PointFits(x, x.saved[1]) /\ Len(x.saved) = 1
    BY <1>2 DEF TxFits
  <2>2. x.saved[1].wrote \in Stamps
    <3> DEFINE points == x.saved
               Point == [wrote : Stamps, mark : Nat]
    <3>1. points \in Seq(Point) /\ Len(points) = 1
      BY <2>1 DEF Transaction
    <3> HIDE DEF points, Point
    <3>2. points[1] \in Point
      BY <3>1
    <3> QED BY <3>2 DEF points, Point
  <2>3. \A k \in Keys : x.saved[1].wrote[k] \in Nat
    BY <2>2 DEF Stamps
  <2> QED BY <2>1, <2>3 DEF PointFits
<1> QED BY <1>1, <1>2 DEF TxFits

LEMMA TxBegins ==
    ASSUME SettingsInv, NEW c \in Writers, NEW patch \in Seq(Keys), BeginTx(c, patch)
    PROVE  SettingsInv'
<1> DEFINE x == [NoTx EXCEPT !.kind = "own", !.patch = patch]
<1>1. /\ tx[c] = NoTx /\ tx' = [tx EXCEPT ![c].kind = "own", ![c].patch = patch]
      /\ UNCHANGED <<stored, cacheVars, lookups, writes>>
  BY DEF BeginTx
<1>2. tx' = [tx EXCEPT ![c] = x]
  BY <1>1 DEF SettingsInv, SettingsTyped
<1>3. /\ x \in Transaction /\ x.kind = "own" /\ ~x.half /\ x.saved = <<>>
      /\ \A k \in Keys : x.wrote[k] = 0
  BY NoTxFacts DEF Transaction
<1> HIDE DEF x
<1>4. TxFits(x)
  BY <1>3, NothingWritten
<1> QED BY <1>1, <1>2, <1>3, <1>4, NoTxFacts, TxGoes

LEMMA SavepointOpens ==
    ASSUME SettingsInv, NEW c \in Writers, OpenSavepoint(c)
    PROVE  SettingsInv'
<1> DEFINE old == tx[c]
           point == [wrote |-> old.wrote, mark |-> Len(old.calls)]
           points == Append(old.saved, point)
           x == [old EXCEPT !.saved = points]
<1>1. /\ old.kind \in {"own", "foreign"} /\ old.saved = <<>>
      /\ tx' = [tx EXCEPT ![c].saved = Append(@, point)]
      /\ UNCHANGED <<stored, cacheVars, lookups, writes>>
  BY DEF OpenSavepoint
<1>2. tx' = [tx EXCEPT ![c] = x]
  BY <1>1 DEF SettingsInv, SettingsTyped
<1>3. /\ old \in Transaction /\ TxFits(old) /\ old.wrote \in Stamps /\ old.calls \in Seq(Keys)
      /\ old.saved \in Seq([wrote : Stamps, mark : Nat])
  BY TxParts
<1> HIDE DEF old
<1>4. point \in [wrote : Stamps, mark : Nat] /\ point.wrote = old.wrote /\ point.mark = Len(old.calls)
  BY <1>3
<1> HIDE DEF point
<1>5. /\ points \in Seq([wrote : Stamps, mark : Nat])
      /\ Len(points) = 1 /\ points[1] = point
  BY <1>1, <1>4
<1> HIDE DEF points
<1>6. /\ x \in Transaction /\ x.kind = old.kind /\ x.wrote = old.wrote /\ x.calls = old.calls
      /\ x.half = old.half /\ x.saved = points
  BY <1>3, <1>5 DEF Transaction
<1> HIDE DEF x
<1>7. TxFits(x)
  <2>1. PointFits(x, point)
    BY <1>3, <1>4, <1>6 DEF TxFits, PointFits, Contains
  <2> QED BY <1>1, <1>3, <1>5, <1>6, <2>1 DEF TxFits
<1> QED BY <1>1, <1>2, <1>6, <1>7, TxGoes DEF old

LEMMA SavepointCloses ==
    ASSUME SettingsInv, NEW c \in Writers, RollbackSavepoint(c) \/ ReleaseSavepoint(c)
    PROVE  SettingsInv'
<1> DEFINE old == tx[c]
           point == old.saved[1]
           none == <<>>
           calls == CallsKept(old.calls, point.mark)
           back == [old EXCEPT !.wrote = point.wrote, !.calls = calls, !.saved = none]
           on == [old EXCEPT !.saved = none]
<1>1. old.saved # <<>> /\ UNCHANGED <<stored, cacheVars, lookups, writes>>
  BY DEF RollbackSavepoint, ReleaseSavepoint
<1>2. old \in Transaction /\ TxFits(old) /\ old.calls \in Seq(Keys)
  BY TxParts
<1>3. /\ Last(old.saved) = point /\ Front(old.saved) = none
      /\ point.wrote \in Stamps /\ point.mark \in Nat
      /\ old.kind \in {"own", "foreign"} /\ PointFits(old, point)
  BY <1>1, SavedFacts
<1>4. none \in Seq([wrote : Stamps, mark : Nat]) /\ none = <<>>
  OBVIOUS
<1>5. CASE RollbackSavepoint(c)
  <2>1. tx' = [tx EXCEPT ![c] = back]
    BY <1>3, <1>5 DEF RollbackSavepoint, SettingsInv, SettingsTyped
  <2> HIDE DEF old, point, none
  <2>2. /\ calls \in Seq(Keys) /\ Len(calls) = point.mark
        /\ \A i \in 1 .. point.mark : calls[i] = old.calls[i]
    BY <1>2, <1>3 DEF CallsKept, PointFits
  <2> HIDE DEF calls
  <2>3. /\ back \in Transaction /\ back.kind = old.kind /\ back.wrote = point.wrote
        /\ back.calls = calls /\ back.saved = none /\ back.half = old.half
    BY <1>2, <1>3, <1>4, <2>2 DEF Transaction
  <2> HIDE DEF back
  <2>4. \A k \in Keys : back.wrote[k] # 0 =>
           /\ old.wrote[k] # 0 /\ stored[k] < back.wrote[k] /\ back.wrote[k] <= writes
           /\ back.kind = "own" => Contains(back.calls, k)
    BY <1>3, <2>2, <2>3 DEF PointFits, Contains
  <2>5. TxFits(back)
    BY <1>2, <1>3, <1>4, <2>3, <2>4 DEF TxFits
  <2> QED BY <1>1, <1>3, <2>1, <2>3, <2>4, <2>5, TxGoes DEF old
<1>6. CASE ReleaseSavepoint(c)
  <2>1. tx' = [tx EXCEPT ![c] = on]
    BY <1>3, <1>6 DEF ReleaseSavepoint, SettingsInv, SettingsTyped
  <2> HIDE DEF old, none
  <2>2. /\ on \in Transaction /\ on.kind = old.kind /\ on.wrote = old.wrote
        /\ on.calls = old.calls /\ on.saved = none /\ on.half = old.half
    BY <1>2, <1>4 DEF Transaction
  <2> HIDE DEF on
  <2>3. TxFits(on)
    BY <1>2, <1>4, <2>2 DEF TxFits
  <2> QED BY <1>1, <1>3, <2>1, <2>2, <2>3, TxGoes DEF old
<1> QED BY <1>5, <1>6

(* After a rollback only the keys of a patch are told.                     *)
LEMMA TxRollsBack ==
    ASSUME SettingsInv, NEW c \in Writers, RollbackTx(c)
    PROVE  SettingsInv'
<1> DEFINE calls == tx[c].patch
           x == [NoTx EXCEPT !.kind = "told", !.calls = calls]
<1>1. /\ tx[c].kind \in {"own", "foreign"} /\ tx' = [tx EXCEPT ![c] = x]
      /\ UNCHANGED <<stored, cacheVars, lookups, writes>>
  BY DEF RollbackTx
<1>2. calls \in Seq(Keys)
  BY TxParts
<1> HIDE DEF calls
<1>3. x \in Transaction /\ ~x.half /\ x.saved = <<>> /\ \A k \in Keys : x.wrote[k] = 0
  BY <1>2, NoTxFacts DEF Transaction
<1> HIDE DEF x
<1>4. TxFits(x)
  BY <1>3, NothingWritten
<1> QED BY <1>1, <1>3, <1>4, TxGoes

LEMMA TxEnds ==
    ASSUME SettingsInv, NEW c \in Writers, EndTx(c)
    PROVE  SettingsInv'
<1>1. /\ tx[c].calls = <<>> /\ tx' = [tx EXCEPT ![c] = NoTx]
      /\ UNCHANGED <<stored, cacheVars, lookups, writes>>
  BY DEF EndTx
<1>2. \A k \in Keys : ~Contains(tx[c].calls, k)
  BY <1>1 DEF Contains
<1>3. TxFits(NoTx)
  BY NoTxFacts, NothingWritten
<1> QED BY <1>1, <1>2, <1>3, NoTxFacts, TxGoes

(* A write is the newest and the only one under way.                       *)
LEMMA WriteIsNewest ==
    ASSUME SettingsInv, NEW c \in Writers, NEW k \in Keys, NEW x \in Transaction,
           MayWrite(c), writes' = writes + 1, tx' = [tx EXCEPT ![c] = x],
           \A m \in Keys : x.wrote[m] = IF m = k THEN writes + 1 ELSE tx[c].wrote[m]
    PROVE  /\ tx' \in [Writers -> Transaction] /\ tx'[c] = x
           /\ \A d \in Writers \ {c} : tx'[d] = tx[d]
           /\ OneWriter'
           /\ \A m \in Keys : x.wrote[m] # 0 => stored[m] < x.wrote[m] /\ x.wrote[m] <= writes'
           /\ \A m \in Keys : tx[c].wrote[m] # 0 => x.wrote[m] # 0
<1>1. /\ tx' \in [Writers -> Transaction] /\ tx'[c] = x
      /\ \A d \in Writers \ {c} : tx'[d] = tx[d]
  BY TxMoves
<1>2. \A d \in Writers \ {c} : \A m \in Keys : tx[d].wrote[m] = 0
  BY DEF MayWrite, Clean
<1>3. OneWriter'
  BY <1>1, <1>2 DEF OneWriter
<1>4. writes \in Nat /\ stored \in Stamps /\ \A m \in Keys : stored[m] <= writes
  BY DEF SettingsInv, SettingsTyped, StampsFit
<1>5. \A m \in Keys : tx[c].wrote[m] # 0 => stored[m] < tx[c].wrote[m] /\ tx[c].wrote[m] <= writes
  BY TxParts DEF TxFits
<1>6. ASSUME NEW m \in Keys, x.wrote[m] # 0 PROVE stored[m] < x.wrote[m] /\ x.wrote[m] <= writes'
  <2>1. CASE m = k
    <3>1. stored[m] \in Nat
      BY <1>4 DEF Stamps
    <3> QED BY <1>4, <2>1, <3>1
  <2>2. CASE m # k
    <3>1. tx[c].wrote[m] \in Nat
      BY TxParts DEF Stamps
    <3> QED BY <1>4, <1>5, <1>6, <2>2, <3>1
  <2> QED BY <2>1, <2>2
<1>7. \A m \in Keys : tx[c].wrote[m] # 0 => x.wrote[m] # 0
  BY <1>4
<1> QED BY <1>1, <1>3, <1>6, <1>7

LEMMA SettingSet ==
    ASSUME SettingsInv, NEW c \in Writers, NEW k \in Keys, SetSetting(c, k)
    PROVE  SettingsInv'
<1> DEFINE old == tx[c]
           n == writes + 1
           wrote == [old.wrote EXCEPT ![k] = n]
           calls == Append(old.calls, k)
           x == [old EXCEPT !.wrote = wrote, !.calls = calls]
<1>1. /\ old.kind = "own" /\ MayWrite(c) /\ writes' = n
      /\ tx' = [tx EXCEPT ![c].wrote[k] = n, ![c].calls = Append(@, k)]
      /\ UNCHANGED <<stored, cacheVars, lookups>>
  BY DEF SetSetting
<1>2. tx' = [tx EXCEPT ![c] = x]
  BY <1>1 DEF SettingsInv, SettingsTyped
<1>3. /\ old \in Transaction /\ TxFits(old) /\ old.wrote \in Stamps /\ old.calls \in Seq(Keys)
      /\ n \in Nat /\ n = writes + 1 /\ writes \in Nat
  BY TxParts DEF SettingsInv, SettingsTyped
<1> HIDE DEF old, n
<1>4. /\ wrote \in Stamps /\ wrote[k] = n /\ \A m \in Keys \ {k} : wrote[m] = old.wrote[m]
  BY <1>3 DEF Stamps
<1>5. /\ calls \in Seq(Keys) /\ Len(calls) = Len(old.calls) + 1 /\ Len(old.calls) \in Nat
      /\ calls[Len(old.calls) + 1] = k /\ \A i \in 1 .. Len(old.calls) : calls[i] = old.calls[i]
  BY <1>3
<1> HIDE DEF wrote, calls
<1>6. /\ x \in Transaction /\ x.kind = "own" /\ x.wrote = wrote /\ x.calls = calls
      /\ x.saved = old.saved /\ x.half = old.half
  BY <1>1, <1>3, <1>4, <1>5 DEF Transaction
<1> HIDE DEF x
<1>7. \A m \in Keys : x.wrote[m] = IF m = k THEN writes + 1 ELSE tx[c].wrote[m]
  BY <1>3, <1>4, <1>6 DEF old
<1>8. writes' = writes + 1
  BY <1>1, <1>3
<1>9. /\ tx' \in [Writers -> Transaction] /\ tx'[c] = x
      /\ \A d \in Writers \ {c} : tx'[d] = tx[d]
      /\ OneWriter'
      /\ \A m \in Keys : x.wrote[m] # 0 => stored[m] < x.wrote[m] /\ x.wrote[m] <= writes'
      /\ \A m \in Keys : tx[c].wrote[m] # 0 => x.wrote[m] # 0
  <2>1. MayWrite(c)
    BY <1>1
  <2>2. x \in Transaction
    BY <1>6
  <2> QED BY <1>2, <1>7, <1>8, <2>1, <2>2, WriteIsNewest, ZenonT(60)
<1>10. ASSUME NEW d \in Writers PROVE TxFits(tx[d])'
  <2>1. CASE d = c
    <3>1. ASSUME NEW m \in Keys, x.wrote[m] # 0 PROVE Contains(x.calls, m)
      <4>1. CASE m = k
        BY <1>5, <1>6, <4>1 DEF Contains
      <4>2. CASE m # k
        <5>1. Contains(old.calls, m)
          BY <1>1, <1>3, <1>4, <1>6, <3>1, <4>2 DEF TxFits
        <5> QED BY <1>5, <1>6, <5>1 DEF Contains
      <4> QED BY <4>1, <4>2
    <3>2. ASSUME x.saved # <<>>
          PROVE  /\ Len(x.saved) = 1 /\ x.saved[1].mark <= Len(x.calls)
                 /\ \A m \in Keys : x.saved[1].wrote[m] # 0 =>
                      /\ x.wrote[m] # 0 /\ stored[m] < x.saved[1].wrote[m]
                      /\ x.saved[1].wrote[m] <= writes'
                      /\ \E i \in 1 .. x.saved[1].mark : x.calls[i] = m
      <4>1. Len(old.saved) = 1 /\ PointFits(old, old.saved[1])
        BY <1>3, <1>6, <3>2 DEF TxFits
      <4>2. old.saved[1].mark \in Nat /\ \A m \in Keys : old.saved[1].wrote[m] \in Nat
        BY <1>6, <3>2, SavedFacts DEF old, Stamps
      <4>3. ASSUME NEW m \in Keys, old.saved[1].wrote[m] # 0
            PROVE  \E i \in 1 .. old.saved[1].mark : x.calls[i] = m
        <5>1. PICK i \in 1 .. old.saved[1].mark : old.calls[i] = m
          BY <1>1, <4>1, <4>3 DEF PointFits
        <5>2. i \in 1 .. Len(old.calls)
          BY <1>5, <4>1, <4>2 DEF PointFits
        <5> QED BY <1>5, <1>6, <5>1, <5>2
      <4>4. old.saved[1].mark <= Len(x.calls)
        BY <1>5, <1>6, <4>1, <4>2 DEF PointFits
      <4>5. \A m \in Keys : old.saved[1].wrote[m] # 0 => old.saved[1].wrote[m] <= writes'
        BY <1>1, <1>3, <4>1, <4>2 DEF PointFits
      <4>6. \A m \in Keys : old.saved[1].wrote[m] # 0 => x.wrote[m] # 0 /\ stored[m] < old.saved[1].wrote[m]
        BY <1>9, <4>1 DEF PointFits, old
      <4> QED BY <1>6, <4>1, <4>3, <4>4, <4>5, <4>6
    <3>3. ~x.half
      BY <1>1, <1>3, <1>6 DEF TxFits
    <3>4. tx'[d] = x /\ x.kind = "own" /\ stored' = stored
      BY <1>1, <1>6, <1>9, <2>1
    <3>5. \A m \in Keys : x.wrote[m] # 0 => stored[m] < x.wrote[m] /\ x.wrote[m] <= writes'
      BY <1>9
    <3> QED BY <3>1, <3>2, <3>3, <3>4, <3>5 DEF TxFits, PointFits
  <2>2. CASE d # c
    <3>1. PICK y \in Transaction : y = tx[d] /\ y = tx'[d] /\ TxFits(y)
      BY <1>9, <2>2, TxParts
    <3>2. TxFits(y)'
      BY <1>1, <1>3, <3>1, FitsLater, SMTT(60) DEF cacheVars
    <3> QED BY <3>1, <3>2 DEF TxFits, PointFits
  <2> QED BY <2>1, <2>2
<1>11. SettingsTyped' /\ StampsFit' /\ CacheFits(cache)'
  <2>1. \A m \in Keys : stored[m] \in Nat
    BY DEF SettingsInv, SettingsTyped, Stamps
  <2> QED BY <1>1, <1>3, <1>9, <2>1 DEF SettingsInv, SettingsTyped, StampsFit, CacheFits, cacheVars
<1>13. ASSUME NEW r \in Readers PROVE LookupFits(lookups[r])'
  BY <1>1 DEF SettingsInv, LookupFits, cacheVars
<1>14. (EntriesAreCurrent /\ OptOutIsKept /\ CacheIsBounded)'
  BY <1>1 DEF SettingsInv, SettingsKept, EntriesAreCurrent, OptOutIsKept, CacheIsBounded, cacheVars
<1>15. WritesAreTold'
  <2> SUFFICES ASSUME NEW m \in Keys, settled[m] < stored[m]
               PROVE  \E d \in Writers : tx'[d].kind = "told" /\ Contains(tx'[d].calls, m)
    BY <1>1 DEF WritesAreTold, cacheVars
  <2>1. PICK d \in Writers : tx[d].kind = "told" /\ Contains(tx[d].calls, m)
    BY DEF SettingsInv, SettingsKept, WritesAreTold
  <2> QED BY <1>1, <1>9, <2>1 DEF old
<1> QED BY <1>9, <1>10, <1>11, <1>13, <1>14, <1>15 DEF SettingsInv, SettingsKept

(* A key that is written where the commit cannot be seen leaves the cache. *)
LEMMA ForeignSet ==
    ASSUME SettingsInv, NEW c \in Writers, NEW k \in Keys, SetSettingForeign(c, k)
    PROVE  SettingsInv'
<1> DEFINE old == tx[c]
           n == writes + 1
           wrote == [old.wrote EXCEPT ![k] = n]
           x == [old EXCEPT !.kind = "foreign", !.wrote = wrote]
<1>1. /\ old.kind \in {"none", "foreign"} /\ MayWrite(c) /\ writes' = n
      /\ tx' = [tx EXCEPT ![c].kind = "foreign", ![c].wrote[k] = n]
      /\ uncacheable' = uncacheable \union {k} /\ generation' = generation + 1
      /\ cache' = Drop(k)
      /\ UNCHANGED <<stored, runtime, lastGood, runtimeGeneration, lookups, settled, settledRuntime>>
  BY DEF SetSettingForeign
<1>2. tx' = [tx EXCEPT ![c] = x]
  BY <1>1 DEF SettingsInv, SettingsTyped
<1>3. /\ old \in Transaction /\ TxFits(old) /\ old.wrote \in Stamps
      /\ n \in Nat /\ n = writes + 1 /\ writes \in Nat
  BY TxParts DEF SettingsInv, SettingsTyped
<1> HIDE DEF old, n
<1>4. /\ wrote \in Stamps /\ wrote[k] = n /\ \A m \in Keys \ {k} : wrote[m] = old.wrote[m]
  BY <1>3 DEF Stamps
<1> HIDE DEF wrote
<1>5. /\ x \in Transaction /\ x.kind = "foreign" /\ x.wrote = wrote /\ x.calls = old.calls
      /\ x.saved = old.saved /\ x.half = old.half
  BY <1>1, <1>3, <1>4 DEF Transaction
<1> HIDE DEF x
<1>6. \A m \in Keys : x.wrote[m] = IF m = k THEN writes + 1 ELSE tx[c].wrote[m]
  BY <1>3, <1>4, <1>5 DEF old
<1>7. writes' = writes + 1
  BY <1>1, <1>3
<1>8. /\ tx' \in [Writers -> Transaction] /\ tx'[c] = x
      /\ \A d \in Writers \ {c} : tx'[d] = tx[d]
      /\ OneWriter'
      /\ \A m \in Keys : x.wrote[m] # 0 => stored[m] < x.wrote[m] /\ x.wrote[m] <= writes'
      /\ \A m \in Keys : tx[c].wrote[m] # 0 => x.wrote[m] # 0
  <2>1. MayWrite(c)
    BY <1>1
  <2>2. x \in Transaction
    BY <1>5
  <2> QED BY <1>2, <1>6, <1>7, <2>1, <2>2, WriteIsNewest, ZenonT(60)
<1>9. DroppedFrom(cache', cache, k)
  BY <1>1, KeyDropped DEF SettingsInv
<1>10. SettingsTyped' /\ StampsFit' /\ CacheFits(cache)'
  <2>1. \A m \in Keys : stored[m] \in Nat
    BY DEF SettingsInv, SettingsTyped, Stamps
  <2>2. CacheFits(cache')
    BY <1>9 DEF DroppedFrom
  <2>3. cache' \in Seq([key : Keys, value : Nat])
    BY <2>2 DEF CacheFits, Entry
  <2> QED BY <1>1, <1>3, <1>8, <2>1, <2>2, <2>3 DEF SettingsInv, SettingsTyped, StampsFit, CacheFits
<1>11. ASSUME NEW d \in Writers PROVE TxFits(tx[d])'
  <2>1. CASE d = c
    <3>1. ASSUME NEW m \in Keys, x.wrote[m] # 0 PROVE m \in uncacheable'
      <4>1. CASE m = k
        BY <1>1, <4>1
      <4>2. CASE m # k
        BY <1>1, <1>3, <1>4, <1>5, <3>1, <4>2 DEF TxFits
      <4> QED BY <4>1, <4>2
    <3>2. ASSUME x.saved # <<>>
          PROVE  /\ Len(x.saved) = 1 /\ x.saved[1].mark <= Len(x.calls)
                 /\ \A m \in Keys : x.saved[1].wrote[m] # 0 =>
                      /\ x.wrote[m] # 0 /\ stored[m] < x.saved[1].wrote[m]
                      /\ x.saved[1].wrote[m] <= writes'
      <4>1. Len(old.saved) = 1 /\ PointFits(old, old.saved[1])
        BY <1>3, <1>5, <3>2 DEF TxFits
      <4>2. \A m \in Keys : old.saved[1].wrote[m] \in Nat
        BY <1>5, <3>2, SavedFacts DEF old, Stamps
      <4>3. \A m \in Keys : old.saved[1].wrote[m] # 0 => old.saved[1].wrote[m] <= writes'
        BY <1>1, <1>3, <4>1, <4>2 DEF PointFits
      <4>4. \A m \in Keys : old.saved[1].wrote[m] # 0 => x.wrote[m] # 0 /\ stored[m] < old.saved[1].wrote[m]
        BY <1>8, <4>1 DEF PointFits, old
      <4> QED BY <1>5, <4>1, <4>3, <4>4 DEF PointFits
    <3>3. ~x.half
      BY <1>1, <1>3, <1>5 DEF TxFits
    <3> QED BY <1>1, <1>5, <1>8, <2>1, <3>1, <3>2, <3>3 DEF TxFits, PointFits
  <2>2. CASE d # c
    <3>1. PICK y \in Transaction : y = tx[d] /\ y = tx'[d] /\ TxFits(y)
      BY <1>8, <2>2, TxParts
    <3>2. TxFits(y)'
      BY <1>1, <1>3, <3>1, FitsLater
    <3> QED BY <3>1, <3>2 DEF TxFits, PointFits
  <2> QED BY <2>1, <2>2
<1>12. ASSUME NEW r \in Readers PROVE LookupFits(lookups[r])'
  <2>1. LookupFits(lookups[r]) /\ lookups[r].gen \in Nat /\ generation \in Nat
    BY DEF SettingsInv, SettingsTyped, Lookup
  <2> QED BY <1>1, <2>1 DEF LookupFits
<1>13. (EntriesAreCurrent /\ OptOutIsKept /\ CacheIsBounded)'
  <2>1. Len(cache) \in Nat /\ Len(cache') \in Nat
    BY <1>9 DEF SettingsInv, DroppedFrom, CacheFits
  <2>2. \A i \in DOMAIN cache' :
           settled[cache'[i].key] <= cache'[i].value /\ cache'[i].key \notin uncacheable'
    BY <1>1, <1>9 DEF SettingsInv, SettingsKept, EntriesAreCurrent, CacheIsBounded, DroppedFrom
  <2>3. Len(cache') <= CacheMost
    BY <1>9, <2>1, SettingsAssumption DEF SettingsInv, SettingsKept, CacheIsBounded, DroppedFrom
  <2> QED BY <1>1, <2>2, <2>3
       DEF SettingsInv, SettingsKept, EntriesAreCurrent, OptOutIsKept, CacheIsBounded
<1>14. WritesAreTold'
  <2> SUFFICES ASSUME NEW m \in Keys, settled[m] < stored[m]
               PROVE  \E d \in Writers : tx'[d].kind = "told" /\ Contains(tx'[d].calls, m)
    BY <1>1 DEF WritesAreTold
  <2>1. PICK d \in Writers : tx[d].kind = "told" /\ Contains(tx[d].calls, m)
    BY DEF SettingsInv, SettingsKept, WritesAreTold
  <2> QED BY <1>1, <1>8, <2>1 DEF old
<1> QED BY <1>8, <1>10, <1>11, <1>12, <1>13, <1>14 DEF SettingsInv, SettingsKept

(* The transaction that commits is the only one that has written.          *)
LEMMA CommitFacts ==
    ASSUME SettingsInv, NEW c \in Writers
    PROVE  /\ Committed(c) \in Stamps
           /\ \A k \in Keys :
                /\ stored[k] <= Committed(c)[k]
                /\ tx[c].wrote[k] # 0 => Committed(c)[k] = tx[c].wrote[k]
                /\ tx[c].wrote[k] = 0 => Committed(c)[k] = stored[k]
           /\ \A d \in Writers \ {c}, k \in Keys :
                tx[d].wrote[k] # 0 => \A m \in Keys : Committed(c)[m] = stored[m]
<1>1. /\ stored \in Stamps /\ tx[c].wrote \in Stamps
      /\ \A k \in Keys : tx[c].wrote[k] # 0 => stored[k] < tx[c].wrote[k]
  BY TxParts DEF TxFits, SettingsInv, SettingsTyped
<1>2. /\ Committed(c) \in Stamps
      /\ \A k \in Keys :
           /\ tx[c].wrote[k] # 0 => Committed(c)[k] = tx[c].wrote[k]
           /\ tx[c].wrote[k] = 0 => Committed(c)[k] = stored[k]
  BY <1>1 DEF Committed, Stamps
<1>3. \A k \in Keys : stored[k] <= Committed(c)[k]
  BY <1>1, <1>2 DEF Stamps
<1>4. \A d \in Writers \ {c}, k \in Keys :
         tx[d].wrote[k] # 0 => \A m \in Keys : Committed(c)[m] = stored[m]
  BY <1>2 DEF SettingsInv, OneWriter
<1> QED BY <1>2, <1>3, <1>4

LEMMA OthersCommit ==
    ASSUME SettingsInv, NEW c \in Writers, NEW d \in Writers \ {c},
           stored' = Committed(c), UNCHANGED <<uncacheable, writes>>, tx'[d] = tx[d]
    PROVE  TxFits(tx[d])'
<1>1. PICK y \in Transaction : y = tx[d] /\ TxFits(y)
  BY TxParts
<1>2. CASE \E k \in Keys : y.wrote[k] # 0
  <2>1. \A m \in Keys : stored'[m] = stored[m]
    BY <1>1, <1>2, CommitFacts, SMTT(60)
  <2> QED BY <1>1, <2>1 DEF TxFits, PointFits
<1>3. CASE \A k \in Keys : y.wrote[k] = 0
  BY <1>1, <1>3 DEF TxFits, PointFits
<1> QED BY <1>2, <1>3

LEMMA Joined ==
    ASSUME NEW s \in Seq(Keys), NEW t \in Seq(Keys)
    PROVE  s \o t \in Seq(Keys) /\ \A k \in Keys : Contains(s, k) => Contains(s \o t, k)
<1>1. /\ s \o t \in Seq(Keys) /\ Len(s \o t) = Len(s) + Len(t)
      /\ \A i \in 1 .. Len(s) + Len(t) : (s \o t)[i] = IF i <= Len(s) THEN s[i] ELSE t[i - Len(s)]
  BY ConcatProperties, Zenon
<1>2. Len(s) \in Nat /\ Len(t) \in Nat
  OBVIOUS
<1> DEFINE u == s \o t
<1> HIDE DEF u
<1>3. \A i \in 1 .. Len(s) : i \in 1 .. Len(u) /\ u[i] = s[i]
  BY <1>1, <1>2 DEF u
<1>4. \A k \in Keys : Contains(s, k) => Contains(u, k)
  BY <1>3 DEF Contains
<1> QED BY <1>1, <1>4 DEF u

(* What was read for the caches is not older than what they are told.      *)
LEMMA TxCommits ==
    ASSUME SettingsInv, NEW c \in Writers, CommitTx(c)
    PROVE  SettingsInv'
<1> DEFINE old == tx[c]
           calls == old.calls \o old.patch
           x == [NoTx EXCEPT !.kind = "told", !.calls = calls]
<1>1. /\ old.kind = "own" /\ stored' = Committed(c) /\ tx' = [tx EXCEPT ![c] = x]
      /\ UNCHANGED <<cacheVars, lookups, writes>>
  BY DEF CommitTx
<1>2. TxFits(old) /\ old.calls \in Seq(Keys) /\ old.patch \in Seq(Keys)
  BY TxParts
<1> HIDE DEF old
<1>3. calls \in Seq(Keys) /\ \A k \in Keys : Contains(old.calls, k) => Contains(calls, k)
  BY <1>2, Joined
<1> HIDE DEF calls
<1>4. /\ x \in Transaction /\ x.kind = "told" /\ x.calls = calls /\ ~x.half /\ x.saved = <<>>
      /\ \A k \in Keys : x.wrote[k] = 0
  BY <1>3, NoTxFacts DEF Transaction
<1> HIDE DEF x
<1>5. /\ tx' \in [Writers -> Transaction] /\ tx'[c] = x
      /\ \A d \in Writers \ {c} : tx'[d] = tx[d]
  BY <1>1, <1>4, TxMoves
<1>6. /\ stored' \in Stamps /\ stored \in Stamps
      /\ \A k \in Keys :
           /\ stored[k] <= stored'[k]
           /\ old.wrote[k] # 0 => stored'[k] = old.wrote[k]
           /\ old.wrote[k] = 0 => stored'[k] = stored[k]
  BY <1>1, CommitFacts DEF old, SettingsInv, SettingsTyped
<1>7. SettingsTyped'
  BY <1>1, <1>5, <1>6 DEF SettingsInv, SettingsTyped, cacheVars
<1>8. OneWriter'
  BY <1>4, <1>5 DEF SettingsInv, OneWriter
<1>9. StampsFit' /\ CacheFits(cache)'
  <2>1. ASSUME NEW k \in Keys
        PROVE  /\ stored'[k] <= writes /\ settled[k] <= stored'[k]
               /\ settledRuntime[k] <= stored'[k]
    <3>1. /\ stored[k] \in Nat /\ stored'[k] \in Nat /\ settled[k] \in Nat /\ settledRuntime[k] \in Nat
          /\ writes \in Nat
      BY <1>6 DEF SettingsInv, SettingsTyped, Stamps
    <3>2. stored[k] <= writes /\ settled[k] <= stored[k] /\ settledRuntime[k] <= stored[k]
      BY DEF SettingsInv, StampsFit
    <3>3. stored'[k] <= writes
      BY <1>2, <1>6, <3>2 DEF TxFits
    <3> QED BY <1>6, <3>1, <3>2, <3>3
  <2> QED BY <1>1, <2>1 DEF SettingsInv, StampsFit, CacheFits, cacheVars
<1>10. ASSUME NEW d \in Writers PROVE TxFits(tx[d])'
  <2>1. CASE d = c
    BY <1>4, <1>5, <2>1 DEF TxFits
  <2>2. CASE d # c
    BY <1>1, <1>5, <2>2, OthersCommit DEF cacheVars
  <2> QED BY <2>1, <2>2
<1>11. ASSUME NEW r \in Readers PROVE LookupFits(lookups[r])'
  BY <1>1 DEF SettingsInv, LookupFits, cacheVars
<1>12. (EntriesAreCurrent /\ OptOutIsKept /\ CacheIsBounded)'
  BY <1>1 DEF SettingsInv, SettingsKept, EntriesAreCurrent, OptOutIsKept, CacheIsBounded, cacheVars
<1>13. WritesAreTold'
  <2> SUFFICES ASSUME NEW m \in Keys, settled[m] < stored'[m]
               PROVE  \E d \in Writers : tx'[d].kind = "told" /\ Contains(tx'[d].calls, m)
    BY <1>1 DEF WritesAreTold, cacheVars
  <2>1. CASE old.wrote[m] # 0
    <3>1. Contains(old.calls, m)
      BY <1>1, <1>2, <2>1 DEF TxFits
    <3> QED BY <1>3, <1>4, <1>5, <3>1
  <2>2. CASE old.wrote[m] = 0
    <3>1. PICK d \in Writers : tx[d].kind = "told" /\ Contains(tx[d].calls, m)
      BY <1>6, <2>2 DEF SettingsInv, SettingsKept, WritesAreTold
    <3> QED BY <1>1, <1>5, <3>1 DEF old
  <2> QED BY <2>1, <2>2
<1> QED BY <1>7, <1>8, <1>9, <1>10, <1>11, <1>12, <1>13 DEF SettingsInv, SettingsKept

LEMMA ForeignCommits ==
    ASSUME SettingsInv, NEW c \in Writers, CommitForeign(c)
    PROVE  SettingsInv'
<1> DEFINE old == tx[c]
<1>1. /\ old.kind = "foreign" /\ stored' = Committed(c) /\ tx' = [tx EXCEPT ![c] = NoTx]
      /\ settled' = [k \in Keys |-> IF old.wrote[k] = 0 THEN settled[k] ELSE old.wrote[k]]
      /\ UNCHANGED <<cache, uncacheable, generation, runtime, lastGood, runtimeGeneration,
                     settledRuntime, lookups, writes>>
  BY DEF CommitForeign
<1>2. TxFits(old) /\ old.wrote \in Stamps
  BY TxParts
<1> HIDE DEF old
<1>3. /\ tx' \in [Writers -> Transaction] /\ tx'[c] = NoTx
      /\ \A d \in Writers \ {c} : tx'[d] = tx[d]
  BY <1>1, NoTxFacts, TxMoves
<1>4. /\ stored' \in Stamps /\ stored \in Stamps /\ settled \in Stamps /\ settledRuntime \in Stamps
      /\ \A k \in Keys :
           /\ stored[k] <= stored'[k]
           /\ old.wrote[k] # 0 => stored'[k] = old.wrote[k]
           /\ old.wrote[k] = 0 => stored'[k] = stored[k]
  BY <1>1, CommitFacts DEF old, SettingsInv, SettingsTyped
<1>5. /\ settled' \in Stamps
      /\ \A k \in Keys :
           /\ old.wrote[k] # 0 => settled'[k] = old.wrote[k] /\ k \in uncacheable
           /\ old.wrote[k] = 0 => settled'[k] = settled[k]
  BY <1>1, <1>2, <1>4 DEF Stamps, TxFits
<1>6. SettingsTyped'
  BY <1>1, <1>3, <1>4, <1>5 DEF SettingsInv, SettingsTyped
<1>7. OneWriter'
  BY <1>3, NoTxFacts DEF SettingsInv, OneWriter
<1>8. StampsFit' /\ CacheFits(cache)'
  <2>1. ASSUME NEW k \in Keys
        PROVE  /\ stored'[k] <= writes /\ settled'[k] <= stored'[k]
               /\ settledRuntime[k] <= stored'[k]
    <3>1. /\ stored[k] \in Nat /\ stored'[k] \in Nat /\ settled'[k] \in Nat /\ settledRuntime[k] \in Nat
          /\ writes \in Nat
      BY <1>4, <1>5 DEF SettingsInv, SettingsTyped, Stamps
    <3>2. stored[k] <= writes /\ settled[k] <= stored[k] /\ settledRuntime[k] <= stored[k]
      BY DEF SettingsInv, StampsFit
    <3>3. stored'[k] <= writes
      BY <1>2, <1>4, <3>2 DEF TxFits
    <3> QED BY <1>4, <1>5, <3>1, <3>2, <3>3
  <2> QED BY <1>1, <2>1 DEF SettingsInv, StampsFit, CacheFits
<1>9. ASSUME NEW d \in Writers PROVE TxFits(tx[d])'
  <2>1. CASE d = c
    BY <1>3, <2>1, NoTxFacts DEF TxFits
  <2>2. CASE d # c
    BY <1>1, <1>3, <2>2, OthersCommit
  <2> QED BY <2>1, <2>2
<1>10. ASSUME NEW r \in Readers PROVE LookupFits(lookups[r])'
  <2>1. LookupFits(lookups[r]) /\ lookups[r].pc \in {"idle", "fetch", "publish"}
    BY DEF SettingsInv, SettingsTyped, Lookup
  <2> QED BY <1>1, <1>5, <2>1 DEF LookupFits
<1>11. (EntriesAreCurrent /\ OptOutIsKept /\ CacheIsBounded)'
  <2>1. \A i \in DOMAIN cache : cache[i].key \in Keys
    BY EntryKeys DEF SettingsInv, CacheFits
  <2>2. \A i \in DOMAIN cache : settled'[cache[i].key] = settled[cache[i].key]
    BY <1>5, <2>1 DEF SettingsInv, SettingsKept, CacheIsBounded
  <2> QED BY <1>1, <2>2
       DEF SettingsInv, SettingsKept, EntriesAreCurrent, OptOutIsKept, CacheIsBounded
<1>12. WritesAreTold'
  <2> SUFFICES ASSUME NEW m \in Keys, settled'[m] < stored'[m]
               PROVE  \E d \in Writers : tx'[d].kind = "told" /\ Contains(tx'[d].calls, m)
    BY DEF WritesAreTold
  <2>1. old.wrote[m] = 0
    <3>1. stored'[m] \in Nat
      BY <1>4 DEF Stamps
    <3>2. settled'[m] # stored'[m]
      BY <3>1
    <3> QED BY <1>4, <1>5, <3>2
  <2>2. PICK d \in Writers : tx[d].kind = "told" /\ Contains(tx[d].calls, m)
    BY <1>4, <1>5, <2>1 DEF SettingsInv, SettingsKept, WritesAreTold
  <2> QED BY <1>1, <1>3, <2>2 DEF old
<1> QED BY <1>6, <1>7, <1>8, <1>9, <1>10, <1>11, <1>12 DEF SettingsInv, SettingsKept

-----------------------------------------------------------------------------
(* The callbacks after a transaction                                       *)

LEMMA HeadFacts ==
    ASSUME NEW calls \in Seq(Keys), calls # <<>>
    PROVE  /\ Head(calls) \in Keys /\ Tail(calls) \in Seq(Keys)
           /\ \A k \in Keys : Contains(calls, k) => k = Head(calls) \/ Contains(Tail(calls), k)
<1> DEFINE n == Len(calls)
           rest == Tail(calls)
<1>1. n \in Nat /\ n > 0 /\ Head(calls) = calls[1] /\ calls[1] \in Keys
  OBVIOUS
<1>2. rest \in Seq(Keys) /\ Len(rest) = n - 1 /\ \A i \in 1 .. n - 1 : rest[i] = calls[i + 1]
  BY <1>1
<1> HIDE DEF n, rest
<1>3. ASSUME NEW i \in 1 .. n, i # 1 PROVE i - 1 \in 1 .. n - 1 /\ rest[i - 1] = calls[i]
  <2>1. i - 1 \in 1 .. n - 1 /\ (i - 1) + 1 = i
    BY <1>1, <1>3
  <2> QED BY <1>2, <2>1
<1>4. ASSUME NEW k \in Keys, Contains(calls, k) PROVE k = Head(calls) \/ Contains(rest, k)
  <2>1. PICK i \in 1 .. n : calls[i] = k
    BY <1>4 DEF Contains, n
  <2> QED BY <1>1, <1>2, <1>3, <2>1 DEF Contains
<1> QED BY <1>1, <1>2, <1>4 DEF rest

(* One cache is told, then the other.                                      *)
LEMMA RuntimeCleared ==
    ASSUME SettingsInv, NEW c \in Writers, ClearRuntime(c)
    PROVE  SettingsInv'
<1> DEFINE old == tx[c]
           h == Head(old.calls)
           half == TRUE
           x == [old EXCEPT !.half = half]
<1>1. /\ old.kind = "told" /\ old.calls # <<>>
      /\ runtimeGeneration' = runtimeGeneration + 1 /\ runtime' = Clean /\ lastGood' = Clean
      /\ tx' = [tx EXCEPT ![c].half = TRUE]
      /\ settledRuntime' = [settledRuntime EXCEPT ![h] = stored[h]]
      /\ UNCHANGED <<stored, cache, uncacheable, generation, lookups, settled, writes>>
  BY DEF ClearRuntime
<1>2. tx' = [tx EXCEPT ![c] = x]
  BY <1>1 DEF SettingsInv, SettingsTyped
<1>3. old \in Transaction /\ TxFits(old) /\ old.calls \in Seq(Keys)
  BY TxParts
<1>4. h \in Keys
  BY <1>1, <1>3, HeadFacts
<1>5. half \in BOOLEAN
  OBVIOUS
<1> HIDE DEF old, h, half
<1>6. /\ x \in Transaction /\ x.kind = old.kind /\ x.wrote = old.wrote /\ x.calls = old.calls
      /\ x.saved = old.saved
  BY <1>3, <1>5 DEF Transaction
<1> HIDE DEF x
<1>7. /\ tx' \in [Writers -> Transaction] /\ tx'[c] = x
      /\ \A d \in Writers \ {c} : tx'[d] = tx[d]
  BY <1>2, <1>6, TxMoves
<1>8. /\ settledRuntime' \in Stamps /\ stored \in Stamps /\ settledRuntime \in Stamps
      /\ settledRuntime'[h] = stored[h] /\ \A k \in Keys \ {h} : settledRuntime'[k] = settledRuntime[k]
      /\ runtimeGeneration \in Nat
  BY <1>1, <1>4 DEF SettingsInv, SettingsTyped, Stamps
<1>9. Clean \in Stamps /\ \A k \in Keys : Clean[k] = 0
  BY DEF Clean, Stamps
<1>10. SettingsTyped' /\ CacheFits(cache)'
  BY <1>1, <1>7, <1>8, <1>9 DEF SettingsInv, SettingsTyped, CacheFits
<1>11. StampsFit'
  <2>1. \A k \in Keys : stored[k] \in Nat
    BY <1>8 DEF Stamps
  <2> QED BY <1>1, <1>8, <2>1 DEF SettingsInv, StampsFit
<1>12. OneWriter'
  BY <1>6, <1>7 DEF SettingsInv, OneWriter, old
<1>13. ASSUME NEW d \in Writers PROVE TxFits(tx[d])'
  <2>1. CASE d = c
    BY <1>1, <1>3, <1>6, <1>7, <2>1 DEF TxFits, PointFits
  <2>2. CASE d # c
    BY <1>1, <1>7, <2>2 DEF SettingsInv, TxFits, PointFits
  <2> QED BY <2>1, <2>2
<1>14. ASSUME NEW r \in Readers PROVE LookupFits(lookups[r])'
  <2>1. LookupFits(lookups[r]) /\ lookups[r].gen \in Nat
    BY DEF SettingsInv, SettingsTyped, Lookup
  <2> QED BY <1>1, <1>8, <2>1 DEF LookupFits
<1>15. (EntriesAreCurrent /\ OptOutIsKept /\ CacheIsBounded)'
  BY <1>1, <1>9 DEF SettingsInv, SettingsKept, EntriesAreCurrent, OptOutIsKept, CacheIsBounded
<1>16. WritesAreTold'
  <2> SUFFICES ASSUME NEW m \in Keys, settled[m] < stored[m]
               PROVE  \E d \in Writers : tx'[d].kind = "told" /\ Contains(tx'[d].calls, m)
    BY <1>1 DEF WritesAreTold
  <2>1. PICK d \in Writers : tx[d].kind = "told" /\ Contains(tx[d].calls, m)
    BY DEF SettingsInv, SettingsKept, WritesAreTold
  <2> QED BY <1>6, <1>7, <2>1 DEF old
<1> QED BY <1>10, <1>11, <1>12, <1>13, <1>14, <1>15, <1>16 DEF SettingsInv, SettingsKept

LEMMA CacheInvalidated ==
    ASSUME SettingsInv, NEW c \in Writers, InvalidateSettingsCache(c)
    PROVE  SettingsInv'
<1> DEFINE old == tx[c]
           h == Head(old.calls)
           calls == Tail(old.calls)
           half == FALSE
           x == [old EXCEPT !.half = half, !.calls = calls]
<1>1. /\ old.half /\ generation' = generation + 1 /\ cache' = Drop(h)
      /\ settled' = [settled EXCEPT ![h] = stored[h]]
      /\ tx' = [tx EXCEPT ![c].half = FALSE, ![c].calls = Tail(@)]
      /\ UNCHANGED <<stored, uncacheable, runtime, lastGood, runtimeGeneration, lookups,
                     settledRuntime, writes>>
  BY DEF InvalidateSettingsCache
<1>2. tx' = [tx EXCEPT ![c] = x]
  BY <1>1 DEF SettingsInv, SettingsTyped
<1>3. /\ old \in Transaction /\ TxFits(old) /\ old.calls \in Seq(Keys)
      /\ old.kind = "told" /\ old.calls # <<>>
  BY <1>1, TxParts DEF TxFits
<1>4. /\ h \in Keys /\ calls \in Seq(Keys)
      /\ \A k \in Keys : Contains(old.calls, k) => k = h \/ Contains(calls, k)
  BY <1>3, HeadFacts
<1>5. half \in BOOLEAN /\ ~half
  OBVIOUS
<1> HIDE DEF old, h, half, calls
<1>6. /\ x \in Transaction /\ x.kind = "told" /\ x.wrote = old.wrote /\ x.calls = calls
      /\ x.saved = old.saved /\ ~x.half
  BY <1>3, <1>4, <1>5 DEF Transaction
<1> HIDE DEF x
<1>7. /\ tx' \in [Writers -> Transaction] /\ tx'[c] = x
      /\ \A d \in Writers \ {c} : tx'[d] = tx[d]
  BY <1>2, <1>6, TxMoves
<1>8. /\ settled' \in Stamps /\ stored \in Stamps /\ settled \in Stamps
      /\ settled'[h] = stored[h] /\ \A k \in Keys \ {h} : settled'[k] = settled[k]
      /\ generation \in Nat
  BY <1>1, <1>4 DEF SettingsInv, SettingsTyped, Stamps
<1>9. DroppedFrom(cache', cache, h)
  BY <1>1, KeyDropped DEF SettingsInv
<1>10. SettingsTyped' /\ CacheFits(cache)'
  <2>1. CacheFits(cache')
    BY <1>9 DEF DroppedFrom
  <2>2. cache' \in Seq([key : Keys, value : Nat])
    BY <2>1 DEF CacheFits, Entry
  <2> QED BY <1>1, <1>7, <1>8, <2>1, <2>2 DEF SettingsInv, SettingsTyped, CacheFits
<1>11. StampsFit'
  <2>1. \A k \in Keys : stored[k] \in Nat
    BY <1>8 DEF Stamps
  <2> QED BY <1>1, <1>8, <2>1 DEF SettingsInv, StampsFit
<1>12. OneWriter'
  BY <1>6, <1>7 DEF SettingsInv, OneWriter, old
<1>13. ASSUME NEW d \in Writers PROVE TxFits(tx[d])'
  <2>1. CASE d = c
    <3>1. \A k \in Keys : x.wrote[k] = 0
      BY <1>3, <1>6 DEF TxFits
    <3>2. x.saved = <<>>
      BY <1>3, <1>6, SMTT(60) DEF TxFits
    <3> QED BY <1>6, <1>7, <2>1, <3>1, <3>2 DEF TxFits
  <2>2. CASE d # c
    BY <1>1, <1>7, <2>2 DEF SettingsInv, TxFits, PointFits
  <2> QED BY <2>1, <2>2
<1>14. ASSUME NEW r \in Readers PROVE LookupFits(lookups[r])'
  <2>1. LookupFits(lookups[r]) /\ lookups[r].gen \in Nat
    BY DEF SettingsInv, SettingsTyped, Lookup
  <2> QED BY <1>1, <1>8, <2>1 DEF LookupFits
<1>15. (EntriesAreCurrent /\ OptOutIsKept /\ CacheIsBounded)'
  <2>1. Len(cache) \in Nat /\ Len(cache') \in Nat
    BY <1>9 DEF SettingsInv, DroppedFrom, CacheFits
  <2>2. \A i \in DOMAIN cache' : cache'[i].key \in Keys \ {h}
    BY <1>9, EntryKeys DEF DroppedFrom, CacheFits
  <2>3. \A i \in DOMAIN cache' :
           settled'[cache'[i].key] <= cache'[i].value /\ cache'[i].key \notin uncacheable
    BY <1>8, <1>9, <2>2 DEF SettingsInv, SettingsKept, EntriesAreCurrent, CacheIsBounded, DroppedFrom
  <2>4. Len(cache') <= CacheMost
    BY <1>9, <2>1, SettingsAssumption DEF SettingsInv, SettingsKept, CacheIsBounded, DroppedFrom
  <2> QED BY <1>1, <2>3, <2>4
       DEF SettingsInv, SettingsKept, EntriesAreCurrent, OptOutIsKept, CacheIsBounded
<1>16. WritesAreTold'
  <2> SUFFICES ASSUME NEW m \in Keys, settled'[m] < stored[m]
               PROVE  \E d \in Writers : tx'[d].kind = "told" /\ Contains(tx'[d].calls, m)
    BY <1>1 DEF WritesAreTold
  <2>1. m # h
    <3>1. stored[h] \in Nat
      BY <1>4, <1>8 DEF Stamps
    <3>2. settled'[m] # stored[m]
      <4>1. stored[m] \in Nat
        BY <1>8 DEF Stamps
      <4> QED BY <4>1
    <3> QED BY <1>8, <3>2
  <2>2. PICK d \in Writers : tx[d].kind = "told" /\ Contains(tx[d].calls, m)
    BY <1>8, <2>1 DEF SettingsInv, SettingsKept, WritesAreTold
  <2> QED BY <1>4, <1>6, <1>7, <2>1, <2>2 DEF old
<1> QED BY <1>10, <1>11, <1>12, <1>13, <1>14, <1>15, <1>16 DEF SettingsInv, SettingsKept

-----------------------------------------------------------------------------
(* The lookups                                                             *)

LEMMA NoLookupFacts == NoLookup \in Lookup /\ NoLookup.pc = "idle" /\ NoLookup.of = "none"
<1> DEFINE z == 0
           k == CHOOSE m \in Keys : TRUE
<1>1. z \in Nat /\ k \in Keys \union {CHOOSE m \in Keys : TRUE}
  OBVIOUS
<1>2. NoLookup = [pc |-> "idle", key |-> k, of |-> "none", gen |-> z, value |-> z]
  BY DEF NoLookup
<1> HIDE DEF z
<1> QED BY <1>1, <1>2 DEF Lookup

LEMMA LookupParts ==
    ASSUME SettingsInv, NEW r \in Readers
    PROVE  /\ lookups[r] \in Lookup /\ LookupFits(lookups[r])
           /\ lookups[r].gen \in Nat /\ lookups[r].value \in Nat
BY DEF SettingsInv, SettingsTyped, Lookup

(* One lookup goes on, and the caches may change with it.                  *)
LEMMA LookupGoes ==
    ASSUME SettingsInv, NEW r \in Readers, NEW l \in Lookup, LookupFits(l),
           lookups' = [lookups EXCEPT ![r] = l],
           cache' \in Seq([key : Keys, value : Nat]), runtime' \in Stamps, lastGood' \in Stamps,
           CacheFits(cache'), EntriesAreCurrent', OptOutIsKept', CacheIsBounded',
           UNCHANGED <<stored, tx, uncacheable, generation, runtimeGeneration, settled,
                       settledRuntime, writes>>
    PROVE  SettingsInv'
<1>1. /\ lookups' \in [Readers -> Lookup] /\ lookups'[r] = l
      /\ \A q \in Readers \ {r} : lookups'[q] = lookups[q]
  BY DEF SettingsInv, SettingsTyped
<1>2. SettingsTyped' /\ StampsFit' /\ CacheFits(cache)'
  BY <1>1 DEF SettingsInv, SettingsTyped, StampsFit, CacheFits
<1>3. OneWriter' /\ WritesAreTold'
  BY SMTT(60) DEF SettingsInv, OneWriter, SettingsKept, WritesAreTold
<1>4. \A c \in Writers : TxFits(tx[c])'
  BY DEF SettingsInv, TxFits, PointFits
<1>5. ASSUME NEW q \in Readers PROVE LookupFits(lookups[q])'
  <2>1. LookupFits(lookups'[q])
    BY <1>1, LookupParts
  <2> QED BY <2>1 DEF LookupFits
<1> QED BY <1>2, <1>3, <1>4, <1>5 DEF SettingsInv, SettingsKept

LEMMA LookupOnly ==
    ASSUME SettingsInv, NEW r \in Readers, NEW l \in Lookup, LookupFits(l),
           lookups' = [lookups EXCEPT ![r] = l], UNCHANGED <<stored, tx, cacheVars, writes>>
    PROVE  SettingsInv'
<1>1. UNCHANGED <<cache, uncacheable, generation, runtime, lastGood, runtimeGeneration, settled,
                  settledRuntime>>
  BY DEF cacheVars
<1>2. /\ cache' \in Seq([key : Keys, value : Nat]) /\ runtime' \in Stamps /\ lastGood' \in Stamps
      /\ CacheFits(cache')
  BY <1>1 DEF SettingsInv, SettingsTyped
<1>3. EntriesAreCurrent' /\ OptOutIsKept' /\ CacheIsBounded'
  BY <1>1 DEF SettingsInv, SettingsKept, EntriesAreCurrent, OptOutIsKept, CacheIsBounded
<1> QED BY <1>1, <1>2, <1>3, LookupGoes

LEMMA LookupEnds ==
    ASSUME SettingsInv, NEW r \in Readers, lookups' = [lookups EXCEPT ![r] = NoLookup],
           UNCHANGED <<stored, tx, cacheVars, writes>>
    PROVE  SettingsInv'
<1>1. LookupFits(NoLookup)
  BY NoLookupFacts DEF LookupFits
<1> QED BY <1>1, NoLookupFacts, LookupOnly

LEMMA LookupMisses ==
    ASSUME SettingsInv, NEW r \in Readers, NEW k \in Keys, NEW of \in {"request", "runtime"},
           Miss(r, k, of)
    PROVE  SettingsInv'
<1> DEFINE gen == IF of = "request" THEN generation ELSE runtimeGeneration
           z == 0
           l == [pc |-> "fetch", key |-> k, of |-> of, value |-> z, gen |-> gen]
<1>1. lookups' = [lookups EXCEPT ![r] = l] /\ UNCHANGED <<stored, tx, cacheVars, writes>>
  BY DEF Miss
<1>2. z \in Nat /\ gen \in Nat
  BY DEF SettingsInv, SettingsTyped
<1>3. /\ of = "request" => gen <= generation
      /\ of = "runtime" => gen <= runtimeGeneration
  BY DEF SettingsInv, SettingsTyped
<1> HIDE DEF gen, z
<1>4. l \in Lookup /\ l.pc = "fetch" /\ l.key = k /\ l.of = of /\ l.gen = gen
  BY <1>2 DEF Lookup
<1> HIDE DEF l
<1>5. LookupFits(l)
  BY <1>3, <1>4 DEF LookupFits
<1> QED BY <1>1, <1>4, <1>5, LookupOnly

LEMMA LookupFetches ==
    ASSUME SettingsInv, NEW r \in Readers, Fetch(r)
    PROVE  SettingsInv'
<1> DEFINE old == lookups[r]
           value == stored[old.key]
           l == [old EXCEPT !.pc = "publish", !.value = value]
<1>1. /\ old.pc = "fetch" /\ UNCHANGED <<stored, tx, cacheVars, writes>>
      /\ lookups' = [lookups EXCEPT ![r].pc = "publish", ![r].value = value]
  BY DEF Fetch
<1>2. lookups' = [lookups EXCEPT ![r] = l]
  BY <1>1 DEF SettingsInv, SettingsTyped
<1>3. old \in Lookup /\ LookupFits(old) /\ old.key \in Keys
  BY <1>1, LookupParts DEF LookupFits
<1>4. value \in Nat /\ settled[old.key] <= value /\ settledRuntime[old.key] <= value
  BY <1>3 DEF SettingsInv, SettingsTyped, StampsFit, Stamps
<1> HIDE DEF old, value
<1>5. /\ l \in Lookup /\ l.pc = "publish" /\ l.value = value /\ l.key = old.key
      /\ l.of = old.of /\ l.gen = old.gen
  BY <1>3, <1>4 DEF Lookup
<1> HIDE DEF l
<1>6. LookupFits(l)
  BY <1>3, <1>4, <1>5 DEF LookupFits
<1> QED BY <1>1, <1>2, <1>5, <1>6, LookupOnly

(* A value is entered only if no cache was told of a write since the       *)
(* lookup began.                                                           *)
LEMMA RequestPublished ==
    ASSUME SettingsInv, NEW r \in Readers, PublishRequest(r)
    PROVE  SettingsInv'
<1> DEFINE old == lookups[r]
           e == [key |-> old.key, value |-> old.value]
           room == IF Len(cache) >= CacheMost THEN EvictOldest(cache) ELSE cache
<1>1. /\ old.pc = "publish" /\ old.of = "request" /\ lookups' = [lookups EXCEPT ![r] = NoLookup]
      /\ cache' = IF old.gen = generation /\ old.key \notin uncacheable
                  THEN Entered(room, e) ELSE cache
      /\ UNCHANGED <<stored, tx, uncacheable, generation, runtime, lastGood, runtimeGeneration,
                     settled, settledRuntime, writes>>
  BY DEF PublishRequest
<1>2. CASE ~(old.gen = generation /\ old.key \notin uncacheable)
  BY <1>1, <1>2, LookupEnds DEF cacheVars
<1>3. CASE old.gen = generation /\ old.key \notin uncacheable
  <2>1. /\ e \in Entry /\ e.key = old.key /\ e.value = old.value
        /\ old.key \in Keys /\ settled[old.key] <= old.value
    BY <1>1, <1>3, LookupParts DEF LookupFits, Entry
  <2>2. /\ CacheFits(cache) /\ Len(cache) \in Nat /\ Len(cache) <= CacheMost
        /\ CacheMost \in Nat /\ CacheMost > 0
    BY SettingsAssumption DEF SettingsInv, SettingsKept, CacheIsBounded, CacheFits
  <2>3. /\ CacheFits(room) /\ Len(room) \in Nat /\ Len(room) + 1 <= CacheMost
        /\ \A i \in DOMAIN room : \E j \in DOMAIN cache : cache[j] = room[i]
    <3>1. CASE Len(cache) >= CacheMost
      <4>1. /\ CacheFits(EvictOldest(cache)) /\ Len(EvictOldest(cache)) < Len(cache)
            /\ \A i \in DOMAIN EvictOldest(cache) :
                 \E j \in DOMAIN cache : cache[j] = EvictOldest(cache)[i]
        BY <2>2, <3>1, OldestGone
      <4>2. Len(EvictOldest(cache)) \in Nat
        BY <4>1 DEF CacheFits
      <4> QED BY <2>2, <3>1, <4>1, <4>2
    <3>2. CASE ~(Len(cache) >= CacheMost)
      <4>1. room = cache
        BY <3>2
      <4> QED BY <2>2, <3>2, <4>1
    <3> QED BY <3>1, <3>2
  <2>4. cache' = Entered(room, e)
    BY <1>1, <1>3
  <2> HIDE DEF old, e, room
  <2>5. /\ CacheFits(cache') /\ Len(cache') <= Len(room) + 1
        /\ \A i \in DOMAIN cache' : cache'[i] = e \/ \E j \in DOMAIN room : room[j] = cache'[i]
    BY <2>1, <2>3, <2>4, EntryEntered
  <2>6. Len(cache') \in Nat /\ cache' \in Seq([key : Keys, value : Nat])
    BY <2>5 DEF CacheFits, Entry
  <2>7. Len(cache') <= CacheMost
    BY <2>2, <2>3, <2>5, <2>6
  <2>8. ASSUME NEW i \in DOMAIN cache'
        PROVE  settled[cache'[i].key] <= cache'[i].value /\ cache'[i].key \notin uncacheable
    <3>1. CASE cache'[i] = e
      BY <1>3, <2>1, <3>1
    <3>2. CASE cache'[i] # e
      <4>1. PICK j \in DOMAIN cache : cache[j] = cache'[i]
        BY <2>3, <2>5, <3>2
      <4> QED BY <4>1 DEF SettingsInv, SettingsKept, EntriesAreCurrent, CacheIsBounded
    <3> QED BY <3>1, <3>2
  <2>9. EntriesAreCurrent' /\ OptOutIsKept' /\ CacheIsBounded'
    BY <1>1, <2>7, <2>8
       DEF SettingsInv, SettingsKept, EntriesAreCurrent, OptOutIsKept, CacheIsBounded
  <2>10. runtime' \in Stamps /\ lastGood' \in Stamps
    BY <1>1 DEF SettingsInv, SettingsTyped
  <2>11. LookupFits(NoLookup)
    BY NoLookupFacts DEF LookupFits
  <2> QED BY <1>1, <2>5, <2>6, <2>9, <2>10, <2>11, NoLookupFacts, LookupGoes
<1> QED BY <1>2, <1>3

LEMMA RuntimePublished ==
    ASSUME SettingsInv, NEW r \in Readers, PublishRuntime(r)
    PROVE  SettingsInv'
<1> DEFINE old == lookups[r]
           k == old.key
<1>1. /\ old.pc = "publish" /\ old.of = "runtime" /\ lookups' = [lookups EXCEPT ![r] = NoLookup]
      /\ UNCHANGED <<stored, tx, cache, uncacheable, generation, runtimeGeneration, settled,
                     settledRuntime, writes>>
  BY DEF PublishRuntime
<1>2. CASE old.gen # runtimeGeneration
  <2>1. UNCHANGED <<runtime, lastGood>>
    BY <1>2 DEF PublishRuntime
  <2> QED BY <1>1, <2>1, LookupEnds DEF cacheVars
<1>3. CASE old.gen = runtimeGeneration
  <2>1. runtime' = [runtime EXCEPT ![k] = old.value] /\ lastGood' = [lastGood EXCEPT ![k] = old.value]
    BY <1>3 DEF PublishRuntime
  <2>2. k \in Keys /\ old.value \in Nat /\ settledRuntime[k] <= old.value
    BY <1>1, <1>3, LookupParts DEF LookupFits
  <2> HIDE DEF old, k
  <2>3. /\ runtime' \in Stamps /\ lastGood' \in Stamps
        /\ runtime'[k] = old.value /\ lastGood'[k] = old.value
        /\ \A m \in Keys \ {k} : runtime'[m] = runtime[m] /\ lastGood'[m] = lastGood[m]
    BY <2>1, <2>2 DEF SettingsInv, SettingsTyped, Stamps
  <2>4. EntriesAreCurrent' /\ OptOutIsKept' /\ CacheIsBounded'
    BY <1>1, <2>2, <2>3
       DEF SettingsInv, SettingsKept, EntriesAreCurrent, OptOutIsKept, CacheIsBounded
  <2>5. /\ cache' \in Seq([key : Keys, value : Nat]) /\ CacheFits(cache') /\ LookupFits(NoLookup)
    BY <1>1, NoLookupFacts DEF SettingsInv, SettingsTyped, LookupFits
  <2> QED BY <1>1, <2>3, <2>4, <2>5, NoLookupFacts, LookupGoes
<1> QED BY <1>2, <1>3

-----------------------------------------------------------------------------
LEMMA SettingsStart == SettingsInit => SettingsInv
<1> SUFFICES ASSUME SettingsInit PROVE SettingsInv
  OBVIOUS
<1>1. /\ stored = [k \in Keys |-> 1] /\ settled = stored /\ settledRuntime = stored /\ writes = 1
      /\ tx = [c \in Writers |-> NoTx] /\ lookups = [r \in Readers |-> NoLookup]
      /\ cache = <<>> /\ uncacheable = {} /\ generation = 0 /\ runtimeGeneration = 0
      /\ runtime = Clean /\ lastGood = Clean
  BY DEF SettingsInit
<1>2. Clean \in Stamps /\ \A k \in Keys : Clean[k] = 0
  BY DEF Clean, Stamps
<1>3. stored \in Stamps /\ \A k \in Keys : stored[k] = 1
  BY <1>1 DEF Stamps
<1>4. SettingsTyped /\ StampsFit /\ OneWriter
  BY <1>1, <1>2, <1>3, NoTxFacts, NoLookupFacts DEF SettingsTyped, StampsFit, OneWriter
<1>5. CacheFits(cache)
  BY <1>1 DEF CacheFits
<1>6. \A c \in Writers : TxFits(tx[c])
  BY <1>1, NoTxFacts DEF TxFits
<1>7. \A r \in Readers : LookupFits(lookups[r])
  BY <1>1, NoLookupFacts DEF LookupFits
<1>8. SettingsKept
  <2>1. DOMAIN cache = {} /\ Len(cache) <= CacheMost
    BY <1>1, SettingsAssumption
  <2>2. EntriesAreCurrent /\ OptOutIsKept /\ CacheIsBounded
    BY <1>1, <1>2, <2>1 DEF EntriesAreCurrent, OptOutIsKept, CacheIsBounded
  <2>3. WritesAreTold
    BY <1>1, <1>3 DEF WritesAreTold
  <2> QED BY <2>2, <2>3 DEF SettingsKept
<1> QED BY <1>4, <1>5, <1>6, <1>7, <1>8 DEF SettingsInv

LEMMA SettingsStep == SettingsInv /\ [SettingsNext]_settingsVars => SettingsInv'
<1> SUFFICES ASSUME SettingsInv, [SettingsNext]_settingsVars PROVE SettingsInv'
  OBVIOUS
<1>1. ASSUME NEW c \in Writers, BeginTx(c, <<>>) \/ \E k \in Keys : BeginTx(c, <<k>>)
      PROVE  SettingsInv'
  <2>1. <<>> \in Seq(Keys) /\ \A k \in Keys : <<k>> \in Seq(Keys)
    OBVIOUS
  <2> QED BY <1>1, <2>1, TxBegins
<1>2. ASSUME NEW c \in Writers, NEW k \in Keys, SetSetting(c, k) \/ SetSettingForeign(c, k)
      PROVE  SettingsInv'
  BY <1>2, SettingSet, ForeignSet
<1>3. ASSUME NEW c \in Writers, OpenSavepoint(c) \/ RollbackSavepoint(c) \/ ReleaseSavepoint(c)
      PROVE  SettingsInv'
  BY <1>3, SavepointOpens, SavepointCloses
<1>4. ASSUME NEW c \in Writers,
             CommitTx(c) \/ CommitForeign(c) \/ RollbackTx(c) \/ EndTx(c)
      PROVE  SettingsInv'
  BY <1>4, TxCommits, ForeignCommits, TxRollsBack, TxEnds
<1>5. ASSUME NEW c \in Writers, ClearRuntime(c) \/ InvalidateSettingsCache(c)
      PROVE  SettingsInv'
  BY <1>5, RuntimeCleared, CacheInvalidated
<1>6. ASSUME NEW r \in Readers, NEW k \in Keys, NEW of \in {"request", "runtime"}, Miss(r, k, of)
      PROVE  SettingsInv'
  BY <1>6, LookupMisses
<1>7. ASSUME NEW r \in Readers, Fetch(r) \/ PublishRequest(r) \/ PublishRuntime(r)
      PROVE  SettingsInv'
  BY <1>7, LookupFetches, RequestPublished, RuntimePublished
<1>8. ASSUME NEW r \in Readers, Unreadable(r)
      PROVE  SettingsInv'
  BY <1>8, LookupEnds DEF Unreadable
<1>9. ASSUME UNCHANGED settingsVars PROVE SettingsInv'
  <2>1. UNCHANGED <<stored, tx, cache, uncacheable, generation, runtime, lastGood,
                    runtimeGeneration, lookups, settled, settledRuntime, writes>>
    BY <1>9 DEF settingsVars
  <2>2. SettingsTyped' /\ StampsFit' /\ OneWriter' /\ CacheFits(cache)' /\ SettingsKept'
    BY <2>1, SMTT(60) DEF SettingsInv, SettingsTyped, StampsFit, OneWriter, CacheFits, SettingsKept,
                EntriesAreCurrent, OptOutIsKept, WritesAreTold, CacheIsBounded
  <2>3. \A c \in Writers : TxFits(tx[c])'
    BY <2>1 DEF SettingsInv, TxFits, PointFits
  <2>4. \A r \in Readers : LookupFits(lookups[r])'
    BY <2>1 DEF SettingsInv, LookupFits
  <2> QED BY <2>2, <2>3, <2>4 DEF SettingsInv
<1> QED BY <1>1, <1>2, <1>3, <1>4, <1>5, <1>6, <1>7, <1>8, <1>9 DEF SettingsNext

(* Whatever writes, rollbacks, callbacks and lookups cross: no entry of a  *)
(* cache and no privacy switch is older than what the cache was told of,   *)
(* every committed write has been told or will be, and the cache keeps its *)
(* size and holds no key that is written unobserved.                       *)
THEOREM SettingsAreKept == SettingsSpec => []SettingsKept
<1>1. SettingsSpec => []SettingsInv
  BY SettingsStart, SettingsStep, PTL DEF SettingsSpec
<1>2. SettingsInv => SettingsKept
  BY SMTT(60) DEF SettingsInv
<1> QED BY <1>1, <1>2, PTL

-----------------------------------------------------------------------------
(* Targets, their groups and what they measure                             *)

(* What the proofs use of the constants: no set of them holds None.        *)
LEMMA NoneIsApart ==
    /\ None \notin Hosts /\ None \notin Ports /\ None \notin Groups /\ None \notin Titles
    /\ None \notin TargetRows
BY TargetAdminAssumption

LEMMA DefaultPorts == ASSUME NEW scheme PROVE DefaultPort(scheme) \in Ports
BY TargetAdminAssumption DEF DefaultPort

(* What a check connects to, by its kind.                                  *)
PingEnds(row) == IF row.ping THEN {<<"ping", Or(row.pingHost, row.host)>>} ELSE {}
WebEnds(row) ==
    IF row.http THEN {<<"web", row.url.scheme, row.url.host,
        Or(Or(row.url.port, row.httpPort), DefaultPort(row.url.scheme))>>} ELSE {}
TcpEnds(row) == {<<"tcp", Or(row.tcpHost, row.host), p>> : p \in IF row.tcp THEN row.ports ELSE {}}

PingIds(row) == IF row.ping THEN {<<"ping", Or(row.pingHost, row.host)>>} ELSE {}
WebIds(row) ==
    IF row.http /\ row.url # None THEN {<<"http", NormalizeUrl(row.url, row.httpPort)>>} ELSE {}
TcpIds(row) == IF row.tcp THEN {<<"tcp", Or(row.tcpHost, row.host), p>> : p \in row.ports} ELSE {}

LEMMA EndsByKind ==
    ASSUME NEW row
    PROVE  /\ Endpoints(row) = PingEnds(row) \union WebEnds(row) \union TcpEnds(row)
           /\ \A e \in PingEnds(row) : e[1] = "ping"
           /\ \A e \in WebEnds(row) : e[1] = "web"
           /\ \A e \in TcpEnds(row) : e[1] = "tcp"
<1>1. Endpoints(row) = PingEnds(row) \union WebEnds(row) \union TcpEnds(row)
  BY DEF Endpoints, PingEnds, WebEnds, TcpEnds
<1>2. \A e \in PingEnds(row) : e[1] = "ping"
  BY DEF PingEnds
<1>3. \A e \in WebEnds(row) : e[1] = "web"
  BY DEF WebEnds
<1>4. \A e \in TcpEnds(row) : e[1] = "tcp"
  BY DEF TcpEnds
<1> QED
  BY <1>1, <1>2, <1>3, <1>4

LEMMA SameEndsSameParts ==
    ASSUME NEW a, NEW b, Endpoints(a) = Endpoints(b)
    PROVE  PingEnds(a) = PingEnds(b) /\ WebEnds(a) = WebEnds(b) /\ TcpEnds(a) = TcpEnds(b)
<1> DEFINE Of(row) == PingEnds(row) \union WebEnds(row) \union TcpEnds(row)
<1>1. Of(a) = Of(b)
  BY EndsByKind
<1>2. \A e \in PingEnds(a) \union PingEnds(b) : e[1] = "ping"
  BY EndsByKind
<1>3. \A e \in WebEnds(a) \union WebEnds(b) : e[1] = "web"
  BY EndsByKind
<1>4. \A e \in TcpEnds(a) \union TcpEnds(b) : e[1] = "tcp"
  BY EndsByKind
<1>5. PingEnds(a) = PingEnds(b)
  BY <1>1, <1>2, <1>3, <1>4
<1>6. WebEnds(a) = WebEnds(b)
  BY <1>1, <1>2, <1>3, <1>4
<1>7. TcpEnds(a) = TcpEnds(b)
  BY <1>1, <1>2, <1>3, <1>4
<1> QED
  BY <1>5, <1>6, <1>7

LEMMA IdsByKind ==
    ASSUME NEW row
    PROVE  CheckIdentities(row) = PingIds(row) \union WebIds(row) \union TcpIds(row)
BY DEF CheckIdentities, PingIds, WebIds, TcpIds

(* The port of an identity follows from the port that is connected to.     *)
LEMMA PortOfIdentity ==
    ASSUME NEW url \in Urls, NEW port \in Ports \union {None},
           NEW p, p = Or(Or(url.port, port), DefaultPort(url.scheme))
    PROVE  NormalizeUrl(url, port)
           = <<url.scheme, url.host, IF p = DefaultPort(url.scheme) THEN None ELSE p>>
<1> DEFINE q == Or(url.port, port)
           d == DefaultPort(url.scheme)
<1>1. d \in Ports
  BY DefaultPorts
<1>2. q \in Ports \union {None} /\ None # d
  BY <1>1, NoneIsApart DEF Or, Urls
<1>3. p = IF q = None THEN d ELSE q
  BY DEF Or
<1> HIDE DEF q, d
<1>4. (IF q = d THEN None ELSE q) = IF p = d THEN None ELSE p
  BY <1>2, <1>3
<1>5. NormalizeUrl(url, port) = <<url.scheme, url.host, IF q = d THEN None ELSE q>>
  BY DEF NormalizeUrl, q, d
<1> QED
  BY <1>4, <1>5 DEF d

LEMMA SameWebIds ==
    ASSUME NEW a \in TargetRows, NEW b \in TargetRows, Consistent(a), Consistent(b), WebEnds(a) = WebEnds(b)
    PROVE  WebIds(a) = WebIds(b)
<1> DEFINE P(row) == Or(Or(row.url.port, row.httpPort), DefaultPort(row.url.scheme))
           W(row) == <<"web", row.url.scheme, row.url.host, P(row)>>
<1>1. CASE a.http
  <2>1. W(a) \in WebEnds(b)
    BY <1>1 DEF WebEnds
  <2>2. b.http /\ W(a) = W(b)
    BY <2>1 DEF WebEnds
  <2>3. a.url \in Urls /\ b.url \in Urls /\ a.url # None /\ b.url # None
    BY <1>1, <2>2 DEF Consistent, TargetRows
  <2>4. a.httpPort \in Ports \union {None} /\ b.httpPort \in Ports \union {None}
    BY DEF TargetRows
  <2>5. /\ a.url.scheme = b.url.scheme /\ a.url.host = b.url.host
        /\ P(a) = P(b)
    <3> HIDE DEF P
    <3> QED
      BY <2>2
  <2>6. /\ NormalizeUrl(a.url, a.httpPort)
           = <<a.url.scheme, a.url.host, IF P(a) = DefaultPort(a.url.scheme) THEN None ELSE P(a)>>
        /\ NormalizeUrl(b.url, b.httpPort)
           = <<b.url.scheme, b.url.host, IF P(b) = DefaultPort(b.url.scheme) THEN None ELSE P(b)>>
    BY <2>3, <2>4, PortOfIdentity
  <2>7. NormalizeUrl(a.url, a.httpPort) = NormalizeUrl(b.url, b.httpPort)
    <3> HIDE DEF P
    <3> QED
      BY <2>5, <2>6
  <2> QED
    BY <1>1, <2>2, <2>3, <2>7 DEF WebIds
<1>2. CASE ~a.http
  <2>1. WebEnds(b) = {}
    BY <1>2 DEF WebEnds
  <2>2. ~b.http
    BY <2>1 DEF WebEnds
  <2> QED
    BY <1>2, <2>2 DEF WebIds
<1> QED
  BY <1>1, <1>2

(* Targets that connect to the same have the same identity.                *)
LEMMA SameEndsSameIds ==
    ASSUME NEW a \in TargetRows, NEW b \in TargetRows, Consistent(a), Consistent(b),
           Endpoints(a) = Endpoints(b)
    PROVE  CheckIdentities(a) = CheckIdentities(b)
<1>1. PingEnds(a) = PingEnds(b) /\ WebEnds(a) = WebEnds(b) /\ TcpEnds(a) = TcpEnds(b)
  BY SameEndsSameParts
<1>2. PingIds(a) = PingIds(b)
  BY <1>1 DEF PingEnds, PingIds
<1>3. WebIds(a) = WebIds(b)
  BY <1>1, SameWebIds
<1>4. \A row : TcpIds(row) = TcpEnds(row)
  BY DEF TcpIds, TcpEnds
<1> QED
  BY <1>1, <1>2, <1>3, <1>4, IdsByKind

LEMMA EndsHaveIds ==
    ASSUME NEW a, Consistent(a), Endpoints(a) # {}
    PROVE  CheckIdentities(a) # {}
<1>1. PingEnds(a) # {} => PingIds(a) # {}
  BY DEF PingEnds, PingIds
<1>2. WebEnds(a) # {} => WebIds(a) # {}
  BY DEF WebEnds, WebIds, Consistent
<1>3. TcpEnds(a) # {} => TcpIds(a) # {}
  BY DEF TcpEnds, TcpIds
<1> QED
  BY <1>1, <1>2, <1>3, EndsByKind, IdsByKind

(* Every value a patch sets is one of its column; the group is not patched. *)
PatchFits(values) ==
    /\ \A f \in {"on", "ping", "http", "tcp", "cert", "user", "password", "basic"} :
         f \in DOMAIN values => values[f] \in BOOLEAN
    /\ "host" \in DOMAIN values => values["host"] \in Hosts
    /\ "pingHost" \in DOMAIN values => values["pingHost"] \in Hosts \union {None}
    /\ "tcpHost" \in DOMAIN values => values["tcpHost"] \in Hosts \union {None}
    /\ "url" \in DOMAIN values => values["url"] \in Urls \union {None}
    /\ "httpPort" \in DOMAIN values => values["httpPort"] \in Ports \union {None}
    /\ "ports" \in DOMAIN values => values["ports"] \in SUBSET Ports
    /\ "group" \notin DOMAIN values

Patchable == {"on", "ping", "http", "tcp", "cert", "basic", "user", "password", "host",
              "pingHost", "tcpHost", "url", "httpPort", "ports"}

LEMMA PatchColumns ==
    /\ DOMAIN PatchValues = Patchable
    /\ \A f \in {"on", "ping", "http", "tcp", "cert", "user", "password", "basic"} :
         PatchValues[f] \subseteq BOOLEAN
    /\ PatchValues["host"] = Hosts
    /\ PatchValues["pingHost"] = Hosts \union {None}
    /\ PatchValues["tcpHost"] = Hosts \union {None}
    /\ PatchValues["url"] = Urls \union {None}
    /\ PatchValues["httpPort"] = Ports \union {None}
    /\ PatchValues["ports"] \subseteq SUBSET Ports
<1> DEFINE few == {{}, {443}}
<1>1. few \subseteq SUBSET Ports
  BY TargetAdminAssumption
<1>2. PatchValues =
        [on |-> BOOLEAN, ping |-> BOOLEAN, http |-> BOOLEAN, tcp |-> BOOLEAN, cert |-> BOOLEAN,
         basic |-> BOOLEAN, user |-> BOOLEAN, password |-> {TRUE}, host |-> Hosts,
         pingHost |-> Hosts \union {None}, tcpHost |-> Hosts \union {None},
         url |-> Urls \union {None}, httpPort |-> Ports \union {None}, ports |-> few]
  BY SMT DEF PatchValues
<1> HIDE DEF few
<1> QED
  BY <1>1, <1>2 DEF Patchable

LEMMA FieldsFit ==
    ASSUME NEW values, DOMAIN values \subseteq Patchable,
           \A f \in DOMAIN values : values[f] \in PatchValues[f]
    PROVE  PatchFits(values)
BY PatchColumns DEF PatchFits, Patchable

LEMMA BothFieldsFit ==
    ASSUME NEW c, NEW d, c # d, NEW values \in BothFields(c, d)
    PROVE  DOMAIN values = {c, d} /\ values[c] \in PatchValues[c] /\ values[d] \in PatchValues[d]
BY DEF BothFields

LEMMA PatchesFit ==
    ASSUME NEW values \in OneField \union TwoFields \union {<<>>}
    PROVE  PatchFits(values)
<1>1. CASE values \in OneField
  <2>1. PICK f \in DOMAIN PatchValues : values \in {[x \in {f} |-> v] : v \in PatchValues[f]}
    BY <1>1 DEF OneField
  <2>2. PICK v \in PatchValues[f] : values = [x \in {f} |-> v]
    BY <2>1
  <2>3. DOMAIN values = {f} /\ values[f] = v
    BY <2>2
  <2>4. f \in Patchable
    BY <2>1, PatchColumns
  <2> QED
    BY <2>2, <2>3, <2>4, FieldsFit
<1>2. CASE values \in TwoFields
  <2>1. PICK pair \in FieldPairs : values \in BothFields(pair[1], pair[2])
    BY <1>2 DEF TwoFields
  <2> DEFINE c == pair[1]
             d == pair[2]
  <2>2. c \in Patchable /\ d \in Patchable /\ c # d
    BY <2>1 DEF FieldPairs, Patchable
  <2>3. values \in BothFields(c, d)
    BY <2>1
  <2> HIDE DEF c, d
  <2>4. DOMAIN values = {c, d} /\ values[c] \in PatchValues[c] /\ values[d] \in PatchValues[d]
    BY <2>2, <2>3, BothFieldsFit
  <2> QED
    BY <2>2, <2>4, FieldsFit
<1>3. CASE values = <<>>
  <2>1. DOMAIN values = {}
    BY <1>3
  <2> QED
    BY <2>1, FieldsFit
<1> QED
  BY <1>1, <1>2, <1>3

Columns == {"on", "ping", "http", "tcp", "cert", "user", "password", "basic", "host", "pingHost",
            "tcpHost", "url", "httpPort", "ports", "group"}

(* A patch of a row is a row; what it does not name stays.                 *)
LEMMA MergedFits ==
    ASSUME NEW r \in TargetRows, NEW values, PatchFits(values), NEW m,
           m = [f \in DOMAIN r |-> IF f \in DOMAIN values THEN values[f] ELSE r[f]]
    PROVE  /\ m \in TargetRows /\ m.group = r.group
           /\ DOMAIN values \intersect {"basic", "user", "password"} = {}
                => m.basic = r.basic /\ m.user = r.user /\ m.password = r.password
<1>1. DOMAIN r = Columns
  BY DEF TargetRows, Columns
<1>2. /\ m = [f \in Columns |-> m[f]]
      /\ \A f \in Columns : m[f] = IF f \in DOMAIN values THEN values[f] ELSE r[f]
  BY <1>1
<1>3. \A f \in {"on", "ping", "http", "tcp", "cert", "user", "password", "basic"} :
        m[f] \in BOOLEAN
  <2>1. \A f \in {"on", "ping", "http", "tcp", "cert", "user", "password", "basic"} :
          r[f] \in BOOLEAN
    BY DEF TargetRows
  <2> QED
    BY <1>2, <2>1 DEF PatchFits, Columns
<1>4. m["host"] \in Hosts \union {None}
  BY <1>2 DEF PatchFits, Columns, TargetRows
<1>5. m["pingHost"] \in Hosts \union {None}
  BY <1>2 DEF PatchFits, Columns, TargetRows
<1>6. m["tcpHost"] \in Hosts \union {None}
  BY <1>2 DEF PatchFits, Columns, TargetRows
<1>7. m["url"] \in Urls \union {None}
  BY <1>2 DEF PatchFits, Columns, TargetRows
<1>8. m["httpPort"] \in Ports \union {None}
  BY <1>2 DEF PatchFits, Columns, TargetRows
<1>9. m["ports"] \in SUBSET Ports
  BY <1>2 DEF PatchFits, Columns, TargetRows
<1>10. m["group"] \in Groups \union {None}
  BY <1>2 DEF PatchFits, Columns, TargetRows
<1>11. m \in TargetRows
  BY <1>2, <1>3, <1>4, <1>5, <1>6, <1>7, <1>8, <1>9, <1>10 DEF TargetRows, Columns
<1>12. ASSUME DOMAIN values \intersect {"basic", "user", "password"} = {}
       PROVE  m.basic = r.basic /\ m.user = r.user /\ m.password = r.password
  BY <1>2, <1>12 DEF Columns
<1>13. m.group = r.group
  BY <1>2 DEF PatchFits, Columns
<1> QED
  BY <1>11, <1>12, <1>13

LEMMA WithPortsFits ==
    ASSUME NEW r \in TargetRows
    PROVE  /\ WithPorts(r) \in TargetRows /\ WithPorts(r).group = r.group
           /\ WithPorts(r).basic = r.basic /\ WithPorts(r).user = r.user
           /\ WithPorts(r).password = r.password
<1> DEFINE d == {80}
           p == IF r.ports = {} THEN d ELSE r.ports
<1>1. d \in SUBSET Ports
  BY TargetAdminAssumption
<1>2. WithPorts(r) = [r EXCEPT !.ports = p]
  BY SMT DEF WithPorts
<1> HIDE DEF d
<1>3. p \in SUBSET Ports
  BY <1>1 DEF TargetRows
<1> HIDE DEF p
<1> QED
  BY <1>2, <1>3, SMTT(60) DEF TargetRows

LEMMA ClearedFits ==
    ASSUME NEW r \in TargetRows, NEW clear \in BOOLEAN
    PROVE  /\ Cleared(r, clear) \in TargetRows /\ Cleared(r, clear).group = r.group
           /\ ~clear => Cleared(r, clear) = r
<1> DEFINE no == FALSE
<1>1. no \in BOOLEAN
  OBVIOUS
<1>2. Cleared(r, clear)
      = IF clear THEN [r EXCEPT !.user = no, !.password = no, !.basic = no] ELSE r
  BY DEF Cleared
<1> HIDE DEF no
<1> QED
  BY <1>1, <1>2, ZenonT(60) DEF TargetRows

LEMMA CertFits ==
    ASSUME NEW r \in TargetRows, NEW fields
    PROVE  /\ [r EXCEPT !.cert = DesiredCert(r, fields)] \in TargetRows
           /\ [r EXCEPT !.cert = DesiredCert(r, fields)].group = r.group
           /\ [r EXCEPT !.cert = DesiredCert(r, fields)].basic = r.basic
           /\ [r EXCEPT !.cert = DesiredCert(r, fields)].user = r.user
           /\ [r EXCEPT !.cert = DesiredCert(r, fields)].password = r.password
<1> DEFINE c == DesiredCert(r, fields)
<1>1. c \in BOOLEAN
  BY DEF DesiredCert, TargetRows
<1> HIDE DEF c
<1>2. [r EXCEPT !.cert = c] \in TargetRows
  BY <1>1 DEF TargetRows
<1>3. /\ [r EXCEPT !.cert = c].group = r.group
      /\ [r EXCEPT !.cert = c].basic = r.basic
      /\ [r EXCEPT !.cert = c].user = r.user
      /\ [r EXCEPT !.cert = c].password = r.password
  BY DEF TargetRows
<1> QED
  BY <1>2, <1>3 DEF c

(* The group of a row is not what it measures.                             *)
LEMMA GroupIsNotMeasured ==
    ASSUME NEW r \in TargetRows, NEW g \in Groups \union {None}, NEW s, s = [r EXCEPT !.group = g]
    PROVE  /\ s \in TargetRows /\ s.group = g
           /\ Endpoints(s) = Endpoints(r) /\ CheckIdentities(s) = CheckIdentities(r)
           /\ Consistent(r) => Consistent(s)
           /\ BasicAuthComplete(r) => BasicAuthComplete(s)
<1>1. s \in TargetRows /\ s.group = g
  BY DEF TargetRows
<1>2. /\ s.on = r.on /\ s.ping = r.ping /\ s.http = r.http /\ s.tcp = r.tcp /\ s.cert = r.cert
      /\ s.user = r.user /\ s.password = r.password /\ s.basic = r.basic
      /\ s.host = r.host /\ s.pingHost = r.pingHost /\ s.tcpHost = r.tcpHost
      /\ s.url = r.url /\ s.httpPort = r.httpPort /\ s.ports = r.ports
  BY DEF TargetRows
<1>3. Endpoints(s) = Endpoints(r)
  BY <1>2, ZenonT(60) DEF Endpoints
<1>4. CheckIdentities(s) = CheckIdentities(r)
  BY <1>2, ZenonT(60) DEF CheckIdentities
<1>5. Consistent(r) => Consistent(s)
  BY <1>2 DEF Consistent
<1>6. BasicAuthComplete(r) => BasicAuthComplete(s)
  BY <1>2 DEF BasicAuthComplete
<1> QED
  BY <1>1, <1>3, <1>4, <1>5, <1>6

LEMMA BlankFits == Blank \in TargetRows
<1> DEFINE d == {80}
           yes == TRUE
           no == FALSE
<1>1. d \in SUBSET Ports /\ yes \in BOOLEAN /\ no \in BOOLEAN
  BY TargetAdminAssumption
<1>2. Blank = [on |-> yes, host |-> None, ping |-> no, http |-> no, tcp |-> no, cert |-> no,
               pingHost |-> None, url |-> None, httpPort |-> None, user |-> no, password |-> no,
               basic |-> no, tcpHost |-> None, ports |-> d, group |-> None]
  BY SMT DEF Blank
<1> HIDE DEF d, yes, no
<1> QED
  BY <1>1, <1>2 DEF TargetRows

(* What the wizard makes of an address is a row.                           *)
LEMMA ProfileFits ==
    ASSUME NEW profile, NEW address, address.host \in Hosts,
           address.scheme \in {"http", "https"}, NEW ports \in SUBSET Ports
    PROVE  BuildProfile(profile, address, ports) \in TargetRows
<1> DEFINE yes == TRUE
           url == [scheme |-> address.scheme, host |-> address.host, port |-> None]
           secure == address.scheme = "https"
           web == profile \in {"website", "custom"} /\ address.url
           row == IF web
                  THEN [Blank EXCEPT !.host = address.host, !.http = yes, !.url = url,
                          !.cert = secure]
                  ELSE IF profile = "tcp"
                       THEN [Blank EXCEPT !.host = address.host, !.tcp = yes]
                       ELSE [Blank EXCEPT !.host = address.host, !.ping = yes]
           tcp == row.tcp \/ ports # {}
           withPorts == [row EXCEPT !.tcp = tcp]
<1>1. yes \in BOOLEAN /\ url \in Urls /\ secure \in BOOLEAN /\ tcp \in BOOLEAN
  BY DEF Urls
<1>2. BuildProfile(profile, address, ports)
      = IF withPorts.tcp THEN [withPorts EXCEPT !.tcpHost = withPorts.host, !.ports = ports] ELSE withPorts
  BY Zenon DEF BuildProfile
<1> HIDE DEF yes, url, secure, web, tcp
<1>3. row \in TargetRows
  BY <1>1, BlankFits, ZenonT(60) DEF TargetRows
<1> HIDE DEF row
<1>4. withPorts \in TargetRows
  BY <1>1, <1>3 DEF TargetRows
<1> HIDE DEF withPorts
<1>5. [withPorts EXCEPT !.tcpHost = withPorts.host, !.ports = ports] \in TargetRows
  BY <1>4 DEF TargetRows
<1> QED
  BY <1>2, <1>4, <1>5

LEMMA WizardFits == ASSUME NEW row \in Wizard PROVE row \in TargetRows
<1> DEFINE d == {80}
           A(p, h, s) == [url |-> p = "website", host |-> h, scheme |-> s]
<1>1. d \in SUBSET Ports
  BY TargetAdminAssumption
<1>2. PICK p \in {"website", "server", "tcp"}, h \in Hosts, s \in {"http", "https"},
           ports \in {d, {}} : row = BuildProfile(p, A(p, h, s), ports)
  BY SMT DEF Wizard
<1>3. A(p, h, s).host \in Hosts /\ A(p, h, s).scheme \in {"http", "https"}
  OBVIOUS
<1> HIDE DEF A, d
<1>4. ports \in SUBSET Ports
  BY <1>1
<1> QED
  BY <1>2, <1>3, <1>4, ProfileFits

-----------------------------------------------------------------------------
RowFits(row) == row \in TargetRows /\ Consistent(row) /\ BasicAuthComplete(row)

TargetsFit ==
    /\ rows \in [Monitors -> TargetRows \union {None}]
    /\ \A t \in Existing : RowFits(rows[t])
    /\ signature = [t \in Monitors |-> IF t \in Existing THEN CheckIdentities(rows[t]) ELSE {}]

GroupsFit ==
    /\ groups \in [Groups -> Titles \union {None}]
    /\ \A g, h \in Groups : groups[g] = groups[h] /\ groups[g] # None => g = h

(* A thread writes for a target that is there, or was deleted meanwhile.   *)
PointsFit ==
    /\ GoneIsGone
    /\ writing \subseteq Existing \union overtaken

TargetInv ==
    /\ TargetsFit /\ NoTwinTargets
    /\ PointsFit
    /\ GroupsFit
    /\ \A t \in Existing : rows[t].group # None => groups[rows[t].group] # None

LEMMA TargetInvIsEnough == TargetInv => TargetsKept
BY DEF TargetInv, TargetsFit, RowFits, GroupsFit, PointsFit, TargetsKept, RowsAreConsistent,
       GroupsAreKept, Existing

LEMMA TargetStart == AdminTargetInit => TargetInv
<1> SUFFICES ASSUME AdminTargetInit PROVE TargetInv
  OBVIOUS
<1>1. Existing = {}
  BY DEF AdminTargetInit, Existing
<1>2. rows \in [Monitors -> TargetRows \union {None}]
  BY DEF AdminTargetInit
<1>3. signature = [t \in Monitors |-> IF t \in Existing THEN CheckIdentities(rows[t]) ELSE {}]
  BY <1>1 DEF AdminTargetInit
<1>4. GroupsFit
  BY DEF AdminTargetInit, GroupsFit
<1>5. PointsFit
  BY DEF AdminTargetInit, PointsFit, GoneIsGone
<1> QED
  BY <1>1, <1>2, <1>3, <1>4, <1>5 DEF TargetInv, TargetsFit, NoTwinTargets

-----------------------------------------------------------------------------
(* A row that is written: the others stay.                                 *)
LEMMA RowWritten ==
    ASSUME TargetsFit, NEW t \in Monitors, NEW r \in TargetRows, rows' = [rows EXCEPT ![t] = r]
    PROVE  /\ rows' \in [Monitors -> TargetRows \union {None}]
           /\ Existing' = Existing \union {t}
           /\ rows'[t] = r
           /\ \A u \in Monitors : u # t => rows'[u] = rows[u]
<1>1. /\ rows' \in [Monitors -> TargetRows \union {None}]
      /\ rows'[t] = r
      /\ \A u \in Monitors : u # t => rows'[u] = rows[u]
  BY DEF TargetsFit
<1>2. r # None
  BY NoneIsApart
<1>3. Existing' = Existing \union {t}
  BY <1>1, <1>2 DEF Existing
<1> QED
  BY <1>1, <1>3

LEMMA SignatureWritten ==
    ASSUME TargetsFit, NEW t \in Monitors, NEW r \in TargetRows, rows' = [rows EXCEPT ![t] = r],
           NEW s, s = CheckIdentities(r), signature' = [signature EXCEPT ![t] = s]
    PROVE  signature' = [u \in Monitors |-> IF u \in Existing' THEN CheckIdentities(rows'[u]) ELSE {}]
<1> DEFINE S(u) == IF u \in Existing' THEN CheckIdentities(rows'[u]) ELSE {}
           Before(u) == IF u \in Existing THEN CheckIdentities(rows[u]) ELSE {}
<1>1. signature = [u \in Monitors |-> Before(u)]
  BY DEF TargetsFit
<1>2. S(t) = s
  BY RowWritten
<1>3. ASSUME NEW u \in Monitors, u # t PROVE S(u) = Before(u)
  <2>1. Existing' = Existing \union {t} /\ \A v \in Monitors : v # t => rows'[v] = rows[v]
    BY RowWritten
  <2>2. rows'[u] = rows[u]
    BY <1>3, <2>1
  <2>3. CASE u \in Existing
    <3>1. u \in Existing'
      BY <2>1, <2>3
    <3>2. S(u) = CheckIdentities(rows'[u]) /\ Before(u) = CheckIdentities(rows[u])
      BY <2>3, <3>1, Zenon
    <3>3. CheckIdentities(rows'[u]) = CheckIdentities(rows[u])
      BY <2>2
    <3> HIDE DEF S, Before
    <3> QED
      BY <3>2, <3>3
  <2>4. CASE u \notin Existing
    <3>1. u \notin Existing'
      BY <1>3, <2>1, <2>4
    <3> QED
      BY <2>4, <3>1, Zenon
  <2> QED
    BY <2>3, <2>4
<1> HIDE DEF S, Before
<1>4. signature' = [u \in Monitors |-> S(u)]
  BY <1>1, <1>2, <1>3
<1> QED
  BY <1>4 DEF S

LEMMA FitsAfter ==
    ASSUME TargetsFit, NEW t \in Monitors, NEW r \in TargetRows, rows' = [rows EXCEPT ![t] = r],
           RowFits(r), signature' = [signature EXCEPT ![t] = CheckIdentities(r)]
    PROVE  TargetsFit'
<1>1. \A u \in Existing' : RowFits(rows'[u])
  <2> TAKE u \in Existing'
  <2>1. CASE u = t
    BY <2>1, RowWritten
  <2>2. CASE u # t
    <3>1. u \in Existing /\ u \in Monitors
      BY <2>2, RowWritten DEF Existing
    <3>2. rows'[u] = rows[u] /\ RowFits(rows[u])
      BY <2>2, <3>1, RowWritten DEF TargetsFit
    <3> QED
      BY <3>2
  <2> QED
    BY <2>1, <2>2
<1>2. signature' = [u \in Monitors |-> IF u \in Existing' THEN CheckIdentities(rows'[u]) ELSE {}]
  BY SignatureWritten
<1> QED
  BY <1>1, <1>2, RowWritten DEF TargetsFit

(* A row that no other measures the same as is no twin of one.             *)
LEMMA NoTwinOfTheRow ==
    ASSUME TargetsFit, NEW t \in Monitors, NEW r \in TargetRows, Consistent(r), ~HostCollision(r, t),
           NEW u \in Existing, u # t, Endpoints(r) = Endpoints(rows[u])
    PROVE  Endpoints(r) = {}
<1> SUFFICES ASSUME Endpoints(r) # {} PROVE FALSE
  OBVIOUS
<1>1. rows[u] \in TargetRows /\ Consistent(rows[u])
  BY DEF TargetsFit, RowFits
<1>2. CheckIdentities(rows[u]) = CheckIdentities(r)
  BY <1>1, SameEndsSameIds
<1>3. CheckIdentities(r) # {}
  BY EndsHaveIds
<1>4. u \in Exact(r, t)
  BY <1>2, <1>3 DEF Exact
<1> QED
  BY <1>4 DEF HostCollision

LEMMA NoTwinsAfter ==
    ASSUME TargetsFit, NoTwinTargets, NEW t \in Monitors, NEW r \in TargetRows, Consistent(r),
           ~HostCollision(r, t), rows' = [rows EXCEPT ![t] = r]
    PROVE  NoTwinTargets'
<1> SUFFICES ASSUME NEW a \in Existing', NEW b \in Existing', a # b,
                    Endpoints(rows'[a]) # {}, Endpoints(rows'[a]) = Endpoints(rows'[b])
             PROVE  FALSE
  BY Zenon DEF NoTwinTargets
<1>1. a \in Monitors /\ b \in Monitors /\ (a # t => a \in Existing) /\ (b # t => b \in Existing)
  BY RowWritten DEF Existing
<1>2. /\ rows'[t] = r
      /\ a # t => rows'[a] = rows[a]
      /\ b # t => rows'[b] = rows[b]
  BY <1>1, RowWritten
<1>3. CASE a = t
  BY <1>1, <1>2, <1>3, NoTwinOfTheRow
<1>4. CASE b = t
  BY <1>1, <1>2, <1>4, NoTwinOfTheRow
<1>5. CASE a # t /\ b # t
  BY <1>1, <1>2, <1>5 DEF NoTwinTargets
<1> QED
  BY <1>3, <1>4, <1>5

(* The groups that targets are in exist.                                   *)
InAGroup == \A t \in Existing : rows[t].group # None => groups[rows[t].group] # None

LEMMA ResolveFits ==
    ASSUME GroupsFit, NEW title \in Titles \union {None}, NEW g \in Groups \union {None},
           ResolveGroup(title, g)
    PROVE  /\ GroupsFit'
           /\ g # None => groups'[g] # None
           /\ \A h \in Groups : groups[h] # None => groups'[h] # None
<1>1. CASE title = None /\ g = None /\ groups' = groups
  BY <1>1 DEF GroupsFit
<1>2. CASE /\ title # None /\ g # None
           /\ groups[g] = title \/ (groups[g] = None /\ \A h \in Groups : groups[h] # title)
           /\ groups' = [groups EXCEPT ![g] = title]
  <2>1. title \in Titles /\ g \in Groups
    BY <1>2
  <2>2. /\ groups' \in [Groups -> Titles \union {None}]
        /\ groups'[g] = title
        /\ \A h \in Groups : h # g => groups'[h] = groups[h]
    BY <1>2, <2>1 DEF GroupsFit
  <2>3. \A h \in Groups : h # g => groups[h] # title
    BY <1>2, <2>1 DEF GroupsFit
  <2>4. ASSUME NEW h \in Groups, NEW i \in Groups, groups'[h] = groups'[i], groups'[h] # None
        PROVE  h = i
    BY <2>2, <2>3, <2>4 DEF GroupsFit
  <2> QED
    BY <1>2, <2>2, <2>4 DEF GroupsFit
<1> QED
  BY <1>1, <1>2 DEF ResolveGroup

(* A row written with a group that exists.                                 *)
LEMMA InAGroupAfter ==
    ASSUME TargetsFit, InAGroup, NEW t \in Monitors, NEW r \in TargetRows,
           rows' = [rows EXCEPT ![t] = r], r.group # None => groups'[r.group] # None,
           \A h \in Groups : groups[h] # None => groups'[h] # None
    PROVE  InAGroup'
<1> SUFFICES ASSUME NEW u \in Existing', rows'[u].group # None
             PROVE  groups'[rows'[u].group] # None
  BY DEF InAGroup
<1>1. CASE u = t
  <2>1. rows'[u] = r
    BY <1>1, RowWritten
  <2> QED
    BY <2>1
<1>2. CASE u # t
  <2>1. Existing' = Existing \union {t} /\ \A v \in Monitors : v # t => rows'[v] = rows[v]
    BY RowWritten
  <2>2. u \in Existing /\ u \in Monitors
    BY <1>2, <2>1 DEF Existing
  <2>3. rows'[u] = rows[u] /\ rows[u] \in TargetRows
    BY <1>2, <2>1, <2>2 DEF TargetsFit, RowFits
  <2>4. rows[u].group \in Groups
    BY <2>3 DEF TargetRows
  <2>5. groups[rows[u].group] # None
    BY <2>2, <2>3 DEF InAGroup
  <2> QED
    BY <2>3, <2>4, <2>5
<1> QED
  BY <1>1, <1>2

LEMMA CreateStep ==
    ASSUME TargetInv, NEW t \in Monitors, NEW row \in Wizard, NEW title \in Titles \union {None},
           NEW g \in Groups \union {None}, CreateMonitor(t, row, title, g)
    PROVE  TargetInv'
<1> DEFINE r == [row EXCEPT !.group = g]
<1>1. row \in TargetRows
  BY WizardFits
<1>2. /\ r \in TargetRows /\ r.group = g
      /\ Endpoints(r) = Endpoints(row) /\ CheckIdentities(r) = CheckIdentities(row)
      /\ Consistent(row) => Consistent(r)
      /\ BasicAuthComplete(row) => BasicAuthComplete(r)
  BY <1>1, GroupIsNotMeasured
<1>3. Consistent(row) /\ BasicAuthComplete(row) /\ ~HostCollision(row, t)
  BY DEF CreateMonitor, Prepared
<1>4. rows' = [rows EXCEPT ![t] = r] /\ signature' = [signature EXCEPT ![t] = CheckIdentities(r)]
  BY <1>2 DEF CreateMonitor
<1> HIDE DEF r
<1>5. RowFits(r)
  BY <1>2, <1>3 DEF RowFits
<1>6. ~HostCollision(r, t)
  BY <1>2, <1>3 DEF HostCollision, Exact
<1>7. TargetsFit /\ NoTwinTargets /\ GroupsFit /\ InAGroup /\ PointsFit
  BY DEF TargetInv, InAGroup
<1>8. TargetsFit'
  BY <1>2, <1>4, <1>5, <1>7, FitsAfter
<1>9. NoTwinTargets'
  BY <1>2, <1>3, <1>4, <1>6, <1>7, NoTwinsAfter
<1>10. /\ GroupsFit'
       /\ g # None => groups'[g] # None
       /\ \A h \in Groups : groups[h] # None => groups'[h] # None
  <2>1. ResolveGroup(title, g)
    BY DEF CreateMonitor
  <2> QED
    BY <1>7, <2>1, ResolveFits
<1>11. InAGroup'
  BY <1>2, <1>4, <1>7, <1>10, InAGroupAfter
<1>12. PointsFit'
  <2>1. Existing' = Existing \union {t}
    BY <1>2, <1>4, <1>7, RowWritten
  <2> QED
    BY <1>7, <2>1 DEF PointsFit, GoneIsGone, CreateMonitor
<1> QED
  BY <1>8, <1>9, <1>10, <1>11, <1>12 DEF TargetInv, InAGroup

(* The row that _patch_locked judges.                                      *)
PatchedTo(b, values, clear) ==
    LET merged == WithPorts(Cleared(
            [f \in DOMAIN b |-> IF f \in DOMAIN values THEN values[f] ELSE b[f]], clear))
    IN [merged EXCEPT !.cert = DesiredCert(merged, DOMAIN values)]

(* A patched row of credentials that are not touched keeps them.           *)
LEMMA PatchedTarget ==
    ASSUME NEW b \in TargetRows, BasicAuthComplete(b), NEW values, PatchFits(values),
           NEW clear \in BOOLEAN, NEW row, row = PatchedTo(b, values, clear)
    PROVE  /\ row \in TargetRows /\ row.group = b.group
           /\ ~(clear \/ DOMAIN values \intersect {"basic", "user", "password"} # {})
                => BasicAuthComplete(row)
<1> DEFINE named == [f \in DOMAIN b |-> IF f \in DOMAIN values THEN values[f] ELSE b[f]]
           cleared == Cleared(named, clear)
           merged == WithPorts(cleared)
<1>1. /\ named \in TargetRows /\ named.group = b.group
      /\ DOMAIN values \intersect {"basic", "user", "password"} = {}
           => named.basic = b.basic /\ named.user = b.user /\ named.password = b.password
  BY MergedFits
<1>2. row = [merged EXCEPT !.cert = DesiredCert(merged, DOMAIN values)]
  BY Zenon DEF PatchedTo
<1> HIDE DEF named
<1>3. cleared \in TargetRows /\ cleared.group = named.group /\ (~clear => cleared = named)
  BY <1>1, ClearedFits
<1> HIDE DEF cleared
<1>4. /\ merged \in TargetRows /\ merged.group = cleared.group
      /\ merged.basic = cleared.basic /\ merged.user = cleared.user
      /\ merged.password = cleared.password
  BY <1>3, WithPortsFits
<1> HIDE DEF merged
<1>5. /\ row \in TargetRows /\ row.group = merged.group
      /\ row.basic = merged.basic /\ row.user = merged.user /\ row.password = merged.password
  BY <1>2, <1>4, CertFits
<1> QED
  BY <1>1, <1>3, <1>4, <1>5 DEF BasicAuthComplete

LEMMA PatchStep ==
    ASSUME TargetInv, NEW t \in Monitors, NEW values \in OneField \union TwoFields \union {<<>>},
           NEW clear \in BOOLEAN, PatchMonitor(t, values, clear)
    PROVE  TargetInv'
<1> DEFINE b == rows[t]
           row == PatchedTo(b, values, clear)
           touched == clear \/ DOMAIN values \intersect {"basic", "user", "password"} # {}
<1>1. /\ t \in Existing /\ Consistent(row)
      /\ touched => BasicAuthComplete(row)
      /\ ~HostCollision(row, t)
      /\ rows' = [rows EXCEPT ![t] = row]
      /\ signature' = [signature EXCEPT ![t] = CheckIdentities(row)]
      /\ UNCHANGED <<metrics, alerted, writing, overtaken, groups>>
  BY Zenon DEF PatchMonitor, PatchedTo
<1>2. TargetsFit /\ NoTwinTargets /\ GroupsFit /\ InAGroup /\ PointsFit
  BY DEF TargetInv, InAGroup
<1>3. b \in TargetRows /\ BasicAuthComplete(b)
  BY <1>1, <1>2 DEF TargetsFit, RowFits
<1>4. PatchFits(values)
  BY PatchesFit
<1>5. row \in TargetRows /\ row.group = b.group /\ (~touched => BasicAuthComplete(row))
  <2> HIDE DEF b
  <2> HIDE DEF row
  <2>2. row = PatchedTo(b, values, clear)
    BY DEF row
  <2>3. /\ row \in TargetRows /\ row.group = b.group
        /\ ~(clear \/ DOMAIN values \intersect {"basic", "user", "password"} # {})
             => BasicAuthComplete(row)
    BY <1>3, <1>4, <2>2, PatchedTarget
  <2> QED
    BY <2>3
<1> HIDE DEF b, row, touched
<1>6. RowFits(row)
  BY <1>1, <1>5 DEF RowFits
<1>7. TargetsFit'
  BY <1>1, <1>2, <1>5, <1>6, FitsAfter
<1>8. NoTwinTargets'
  BY <1>1, <1>2, <1>5, NoTwinsAfter
<1>9. row.group # None => groups'[row.group] # None
  BY <1>1, <1>2, <1>5 DEF InAGroup, b
<1>10. InAGroup'
  <2>1. \A h \in Groups : groups[h] # None => groups'[h] # None
    BY <1>1
  <2> QED
    BY <1>1, <1>2, <1>5, <1>9, <2>1, InAGroupAfter
<1>11. GroupsFit'
  BY <1>1, <1>2 DEF GroupsFit
<1>12. PointsFit'
  <2>1. Existing' = Existing \union {t}
    BY <1>1, <1>2, <1>5, RowWritten
  <2> QED
    BY <1>1, <1>2, <2>1 DEF PointsFit, GoneIsGone
<1> QED
  BY <1>7, <1>8, <1>10, <1>11, <1>12 DEF TargetInv, InAGroup

LEMMA PatchGroupStep ==
    ASSUME TargetInv, NEW t \in Monitors, NEW title \in Titles \union {None},
           NEW g \in Groups \union {None}, PatchGroup(t, title, g)
    PROVE  TargetInv'
<1> DEFINE b == rows[t]
           r == [b EXCEPT !.group = g]
<1>1. TargetsFit /\ NoTwinTargets /\ GroupsFit /\ InAGroup /\ PointsFit
  BY DEF TargetInv, InAGroup
<1>2. /\ t \in Existing /\ ResolveGroup(title, g)
      /\ rows' = [rows EXCEPT ![t].group = g]
      /\ UNCHANGED <<signature, metrics, alerted, writing, overtaken>>
  BY DEF PatchGroup
<1>3. b \in TargetRows /\ RowFits(b)
  BY <1>1, <1>2 DEF TargetsFit, RowFits
<1>4. rows' = [rows EXCEPT ![t] = r]
  BY <1>2
<1> HIDE DEF b
<1>5. /\ r \in TargetRows /\ r.group = g
      /\ Endpoints(r) = Endpoints(b) /\ CheckIdentities(r) = CheckIdentities(b)
      /\ RowFits(r)
  BY <1>3, GroupIsNotMeasured DEF RowFits
<1> HIDE DEF r
<1>6. signature' = [signature EXCEPT ![t] = CheckIdentities(r)]
  <2>1. signature[t] = CheckIdentities(r)
    BY <1>1, <1>2, <1>5 DEF TargetsFit, b
  <2>2. signature = [signature EXCEPT ![t] = signature[t]]
    BY <1>1 DEF TargetsFit
  <2> QED
    BY <1>2, <2>1, <2>2
<1>7. TargetsFit'
  BY <1>1, <1>4, <1>5, <1>6, FitsAfter
<1>8. Existing' = Existing
  <2>1. Existing' = Existing \union {t}
    BY <1>1, <1>4, <1>5, RowWritten
  <2> QED
    BY <1>2, <2>1
<1>9. ASSUME NEW u \in Existing PROVE Endpoints(rows'[u]) = Endpoints(rows[u])
  <2>1. rows'[t] = r /\ \A v \in Monitors : v # t => rows'[v] = rows[v]
    BY <1>1, <1>4, <1>5, RowWritten
  <2>2. CASE u = t
    BY <1>5, <2>1, <2>2 DEF b
  <2>3. CASE u # t
    <3>1. rows'[u] = rows[u]
      BY <2>1, <2>3 DEF Existing
    <3> QED
      BY <3>1
  <2> QED
    BY <2>2, <2>3
<1>10. NoTwinTargets'
  BY <1>1, <1>8, <1>9 DEF NoTwinTargets
<1>11. /\ GroupsFit'
       /\ g # None => groups'[g] # None
       /\ \A h \in Groups : groups[h] # None => groups'[h] # None
  BY <1>1, <1>2, ResolveFits
<1>12. InAGroup'
  BY <1>1, <1>4, <1>5, <1>11, InAGroupAfter
<1>13. PointsFit'
  BY <1>1, <1>2, <1>8 DEF PointsFit, GoneIsGone
<1> QED
  BY <1>7, <1>10, <1>11, <1>12, <1>13 DEF TargetInv, InAGroup

(* TargetRows that stay as they are.                                             *)
LEMMA RowsStay ==
    ASSUME TargetsFit, NoTwinTargets, UNCHANGED <<rows, signature>>
    PROVE  Existing' = Existing /\ TargetsFit' /\ NoTwinTargets'
<1>1. Existing' = Existing
  BY DEF Existing
<1>2. TargetsFit'
  BY <1>1 DEF TargetsFit
<1>3. NoTwinTargets'
  BY <1>1 DEF NoTwinTargets
<1> QED
  BY <1>1, <1>2, <1>3

LEMMA MeasuredStep ==
    ASSUME TargetInv, NEW t \in Monitors, NEW skipped \in BOOLEAN,
           HandOver(t) \/ WritePoints(t, skipped) \/ Reported(t)
    PROVE  TargetInv'
<1>1. Existing' = Existing /\ TargetsFit' /\ NoTwinTargets'
  BY RowsStay DEF TargetInv, HandOver, WritePoints, Reported
<1>2. PointsFit'
  BY <1>1 DEF TargetInv, PointsFit, GoneIsGone, HandOver, WritePoints, Reported
<1>3. GroupsFit' /\ InAGroup'
  BY <1>1 DEF TargetInv, GroupsFit, InAGroup, HandOver, WritePoints, Reported
<1> QED
  BY <1>1, <1>2, <1>3 DEF TargetInv, InAGroup

LEMMA FindStep ==
    ASSUME TargetInv, NEW t \in Monitors, NEW op, FindTarget(t, op)
    PROVE  TargetInv'
<1>1. Existing' = Existing /\ TargetsFit' /\ NoTwinTargets'
  BY RowsStay DEF TargetInv, FindTarget
<1>2. PointsFit'
  BY <1>1 DEF TargetInv, PointsFit, GoneIsGone, FindTarget
<1>3. GroupsFit' /\ InAGroup'
  BY <1>1 DEF TargetInv, GroupsFit, InAGroup, FindTarget
<1> QED
  BY <1>1, <1>2, <1>3 DEF TargetInv, InAGroup

LEMMA ResetStep ==
    ASSUME TargetInv, NEW t \in Monitors, NEW left \in BOOLEAN, NEW committed \in BOOLEAN,
           ResetMetrics(t, left, committed)
    PROVE  TargetInv'
<1>1. Existing' = Existing /\ TargetsFit' /\ NoTwinTargets'
  BY RowsStay DEF TargetInv, ResetMetrics
<1>2. PointsFit'
  BY <1>1 DEF TargetInv, PointsFit, GoneIsGone, ResetMetrics
<1>3. GroupsFit' /\ InAGroup'
  BY <1>1 DEF TargetInv, GroupsFit, InAGroup, ResetMetrics
<1> QED
  BY <1>1, <1>2, <1>3 DEF TargetInv, InAGroup

(* Where the rows go, the files have gone; else the rows stay.             *)
LEMMA DeleteStep ==
    ASSUME TargetInv, NEW t \in Monitors, NEW left \in BOOLEAN, NEW committed \in BOOLEAN,
           DeleteMonitor(t, left, committed)
    PROVE  TargetInv'
<1>1. TargetsFit /\ NoTwinTargets /\ GroupsFit /\ InAGroup /\ PointsFit
  BY DEF TargetInv, InAGroup
<1>2. groups' = groups
  BY DEF DeleteMonitor
<1>3. GroupsFit'
  BY <1>1, <1>2 DEF GroupsFit
<1>4. CASE ~RowsGo(left, committed)
  <2>1. UNCHANGED <<rows, signature, alerted, writing, overtaken>> /\ metrics' \subseteq metrics
    BY <1>4 DEF DeleteMonitor
  <2>2. Existing' = Existing /\ TargetsFit' /\ NoTwinTargets'
    BY <1>1, <2>1, RowsStay
  <2>3. PointsFit'
    BY <1>1, <2>1, <2>2 DEF PointsFit, GoneIsGone
  <2>4. InAGroup'
    BY <1>1, <1>2, <2>1, <2>2 DEF InAGroup
  <2> QED
    BY <1>3, <2>2, <2>3, <2>4 DEF TargetInv, InAGroup
<1>5. CASE RowsGo(left, committed)
  <2>1. /\ rows' = [rows EXCEPT ![t] = None]
        /\ signature' = [signature EXCEPT ![t] = {}]
        /\ alerted' = alerted \ {t} /\ metrics' = metrics \ {t}
        /\ writing' = writing /\ overtaken' = overtaken \union (writing \intersect {t})
    BY <1>5 DEF DeleteMonitor, RowsGo
  <2>2. /\ rows' \in [Monitors -> TargetRows \union {None}]
        /\ rows'[t] = None
        /\ \A u \in Monitors : u # t => rows'[u] = rows[u]
    BY <1>1, <2>1 DEF TargetsFit
  <2>3. Existing' = Existing \ {t} /\ \A u \in Existing' : u \in Existing /\ rows'[u] = rows[u]
    BY <2>2 DEF Existing
  <2>4. signature' = [u \in Monitors |-> IF u \in Existing' THEN CheckIdentities(rows'[u]) ELSE {}]
    <3> DEFINE S(u) == IF u \in Existing' THEN CheckIdentities(rows'[u]) ELSE {}
               Before(u) == IF u \in Existing THEN CheckIdentities(rows[u]) ELSE {}
    <3>1. signature = [u \in Monitors |-> Before(u)]
      BY <1>1 DEF TargetsFit
    <3>2. S(t) = {}
      BY <2>3
    <3>3. ASSUME NEW u \in Monitors, u # t PROVE S(u) = Before(u)
      <4>1. CASE u \in Existing
        <5>1. u \in Existing' /\ rows'[u] = rows[u]
          BY <2>3, <3>3, <4>1
        <5>2. S(u) = CheckIdentities(rows'[u]) /\ Before(u) = CheckIdentities(rows[u])
          BY <4>1, <5>1, Zenon
        <5>3. CheckIdentities(rows'[u]) = CheckIdentities(rows[u])
          BY <5>1
        <5> HIDE DEF S, Before
        <5> QED
          BY <5>2, <5>3
      <4>2. CASE u \notin Existing
        <5>1. u \notin Existing'
          BY <2>3, <4>2
        <5> QED
          BY <4>2, <5>1, Zenon
      <4> QED
        BY <4>1, <4>2
    <3> HIDE DEF S, Before
    <3>4. signature' = [u \in Monitors |-> S(u)]
      BY <2>1, <3>1, <3>2, <3>3
    <3> QED
      BY <3>4 DEF S
  <2>5. TargetsFit'
    <3>1. \A u \in Existing' : RowFits(rows'[u])
      BY <1>1, <2>3 DEF TargetsFit
    <3> QED
      BY <2>2, <2>4, <3>1 DEF TargetsFit
  <2>6. NoTwinTargets'
    BY <1>1, <2>3 DEF NoTwinTargets
  <2>7. PointsFit'
    BY <1>1, <2>1, <2>3 DEF PointsFit, GoneIsGone
  <2>8. InAGroup'
    BY <1>1, <1>2, <2>3 DEF InAGroup
  <2> QED
    BY <1>3, <2>5, <2>6, <2>7, <2>8 DEF TargetInv, InAGroup
<1> QED
  BY <1>4, <1>5

(* A group that is made, renamed or deleted.                               *)
LEMMA GroupStep ==
    ASSUME TargetInv, NEW g \in Groups, NEW title \in Titles,
           CreateGroup(g, title) \/ RenameGroup(g, title) \/ DeleteGroupIfEmpty(g)
    PROVE  TargetInv'
<1>1. TargetsFit /\ NoTwinTargets /\ GroupsFit /\ InAGroup /\ PointsFit
  BY DEF TargetInv, InAGroup
<1>2. UNCHANGED <<rows, signature, metrics, alerted, writing, overtaken>>
  BY DEF CreateGroup, RenameGroup, DeleteGroupIfEmpty
<1>3. Existing' = Existing /\ TargetsFit' /\ NoTwinTargets'
  BY <1>1, <1>2, RowsStay
<1>4. PointsFit'
  BY <1>1, <1>2, <1>3 DEF PointsFit, GoneIsGone
<1>5. \A t \in Existing : rows[t].group \in Groups \union {None}
  BY <1>1 DEF TargetsFit, RowFits, TargetRows
<1>6. CASE CreateGroup(g, title) \/ RenameGroup(g, title)
  <2>1. /\ groups' = [groups EXCEPT ![g] = title]
        /\ \A h \in Groups \ {g} : groups[h] # title
    BY <1>6, NoneIsApart DEF CreateGroup, RenameGroup
  <2>2. /\ groups' \in [Groups -> Titles \union {None}]
        /\ groups'[g] = title /\ title # None
        /\ \A h \in Groups : h # g => groups'[h] = groups[h]
    BY <1>1, <2>1, NoneIsApart DEF GroupsFit
  <2>3. ASSUME NEW h \in Groups, NEW i \in Groups, groups'[h] = groups'[i], groups'[h] # None
        PROVE  h = i
    BY <1>1, <2>1, <2>2, <2>3 DEF GroupsFit
  <2>4. InAGroup'
    BY <1>1, <1>2, <1>3, <1>5, <2>2 DEF InAGroup
  <2> QED
    BY <1>3, <1>4, <2>2, <2>3, <2>4 DEF TargetInv, InAGroup, GroupsFit
<1>7. CASE DeleteGroupIfEmpty(g)
  <2>1. groups' = [groups EXCEPT ![g] = None] /\ \A t \in Existing : rows[t].group # g
    BY <1>7 DEF DeleteGroupIfEmpty
  <2>2. /\ groups' \in [Groups -> Titles \union {None}]
        /\ groups'[g] = None
        /\ \A h \in Groups : h # g => groups'[h] = groups[h]
    BY <1>1, <2>1 DEF GroupsFit
  <2>3. ASSUME NEW h \in Groups, NEW i \in Groups, groups'[h] = groups'[i], groups'[h] # None
        PROVE  h = i
    BY <1>1, <2>2, <2>3 DEF GroupsFit
  <2>4. InAGroup'
    BY <1>1, <1>2, <1>3, <1>5, <2>1, <2>2 DEF InAGroup
  <2> QED
    BY <1>3, <1>4, <2>2, <2>3, <2>4 DEF TargetInv, InAGroup, GroupsFit
<1> QED
  BY <1>6, <1>7

LEMMA DeleteGroupStep ==
    ASSUME TargetInv, NEW g \in Groups, DeleteGroupIfEmpty(g)
    PROVE  TargetInv'
<1>1. groups[g] \in Titles
  BY DEF TargetInv, GroupsFit, DeleteGroupIfEmpty
<1>2. PICK title \in Titles : title = groups[g]
  BY <1>1
<1> QED
  BY GroupStep

LEMMA TargetStep == TargetInv /\ [AdminTargetNext]_targetAdminVars => TargetInv'
<1> SUFFICES ASSUME TargetInv, [AdminTargetNext]_targetAdminVars PROVE TargetInv'
  OBVIOUS
<1>1. ASSUME NEW t \in Monitors, NEW row \in Wizard, NEW title \in Titles \union {None},
             NEW g \in Groups \union {None}, CreateMonitor(t, row, title, g)
      PROVE  TargetInv'
  BY <1>1, CreateStep
<1>2. ASSUME NEW t \in Monitors, NEW values \in OneField \union TwoFields,
             PatchMonitor(t, values, FALSE)
      PROVE  TargetInv'
  BY <1>2, PatchStep
<1>3. ASSUME NEW t \in Monitors, PatchMonitor(t, <<>>, TRUE) PROVE TargetInv'
  BY <1>3, PatchStep
<1>4. ASSUME NEW t \in Monitors, NEW title \in Titles \union {None},
             NEW g \in Groups \union {None}, PatchGroup(t, title, g)
      PROVE  TargetInv'
  BY <1>4, PatchGroupStep
<1>5. ASSUME NEW t \in Monitors, NEW op, FindTarget(t, op) PROVE TargetInv'
  BY <1>5, FindStep
<1>6. ASSUME NEW t \in Monitors, NEW left \in BOOLEAN, NEW committed \in BOOLEAN,
             DeleteMonitor(t, left, committed) \/ ResetMetrics(t, left, committed)
      PROVE  TargetInv'
  BY <1>6, DeleteStep, ResetStep
<1>7. ASSUME NEW t \in Monitors, NEW skipped \in BOOLEAN,
             HandOver(t) \/ WritePoints(t, skipped) \/ Reported(t)
      PROVE  TargetInv'
  BY <1>7, MeasuredStep
<1>8. ASSUME NEW g \in Groups, NEW title \in Titles, CreateGroup(g, title) \/ RenameGroup(g, title)
      PROVE  TargetInv'
  BY <1>8, GroupStep
<1>9. ASSUME NEW g \in Groups, DeleteGroupIfEmpty(g) PROVE TargetInv'
  BY <1>9, DeleteGroupStep
<1>10. CASE UNCHANGED targetAdminVars
  <2>1. UNCHANGED <<rows, signature, metrics, alerted, writing, overtaken, groups>>
    BY <1>10 DEF targetAdminVars
  <2>2. Existing' = Existing /\ TargetsFit' /\ NoTwinTargets'
    BY <2>1, RowsStay DEF TargetInv
  <2>3. PointsFit' /\ GroupsFit' /\ InAGroup'
    BY <2>1, <2>2 DEF TargetInv, PointsFit, GoneIsGone, GroupsFit, InAGroup
  <2> QED
    BY <2>2, <2>3 DEF TargetInv, InAGroup
<1>11. CASE AdminTargetNext
  BY <1>11, <1>1, <1>2, <1>3, <1>4, <1>5, <1>6, <1>7, <1>8, <1>9, ZenonT(60) DEF AdminTargetNext
<1> QED
  BY <1>10, <1>11

(* However targets are made, patched, grouped, deleted and reset: no two   *)
(* connect to the same endpoints, every row can be measured and carries    *)
(* its signature, what is deleted leaves no alerts, and metrics only where *)
(* points were about to be written, and groups have names of their own and *)
(* outlive their targets' membership.                                      *)
THEOREM TargetsAreKept == AdminTargetSpec => []TargetsKept
<1>1. TargetInv => TargetsKept
  BY TargetInvIsEnough
<1> QED
  BY <1>1, TargetStart, TargetStep, PTL DEF AdminTargetSpec

(* In the composition of what an admin keeps, a setting that is read is    *)
(* the one stored and targets stay consistent and apart, whatever requests *)
(* cross.                                                                  *)
THEOREM ConfigurationIsKept == AdminSpec => []ConfigurationKept
<1> DEFINE Inv == SettingsInv /\ TargetInv
<1>1. AdminInit => Inv
BY SettingsStart, TargetStart DEF AdminInit
<1>2. Inv /\ [AdminNext]_adminVars => Inv'
<2> SUFFICES ASSUME Inv, [AdminNext]_adminVars
             PROVE  Inv'
  OBVIOUS
<2>1. [SettingsNext]_settingsVars
  <3>1. ASSUME NEW moving, moving # "settings", Others(moving)
        PROVE  UNCHANGED settingsVars
    BY <3>1, SMTT(60) DEF Others
  <3>2. ASSUME AdminNext PROVE SettingsNext \/ UNCHANGED settingsVars
    BY <3>1, <3>2
       DEF AdminNext, RefreshMoves, CandidatesMove, PeopleMove, SignalMoves, SettingsMove,
           TargetsMove, InboxMoves, ReleasesMove, ArchivesMove, GeoMoves, OnlineMoves, PlacesMove,
           RatesMove
  <3>3. ASSUME UNCHANGED adminVars PROVE UNCHANGED settingsVars
    BY <3>3 DEF adminVars
  <3> QED BY <3>2, <3>3
<2>2. [AdminTargetNext]_targetAdminVars
  <3>1. ASSUME NEW moving, moving # "targets", Others(moving)
        PROVE  UNCHANGED targetAdminVars
    BY <3>1, SMTT(60) DEF Others
  <3>2. ASSUME AdminNext PROVE AdminTargetNext \/ UNCHANGED targetAdminVars
    BY <3>1, <3>2
       DEF AdminNext, RefreshMoves, CandidatesMove, PeopleMove, SignalMoves, SettingsMove,
           TargetsMove, InboxMoves, ReleasesMove, ArchivesMove, GeoMoves, OnlineMoves, PlacesMove,
           RatesMove
  <3>3. ASSUME UNCHANGED adminVars PROVE UNCHANGED targetAdminVars
    BY <3>3 DEF adminVars
  <3> QED BY <3>2, <3>3
<2> QED BY <2>1, <2>2, SettingsStep, TargetStep
<1>3. Inv => ConfigurationKept
BY TargetInvIsEnough DEF ConfigurationKept, SettingsInv, SettingsKept
<1> HIDE DEF Inv
<1> QED BY <1>1, <1>2, <1>3, PTL DEF AdminSpec

-----------------------------------------------------------------------------
(* Archives, locations, providers and the login limit                      *)

(* In the composition of what an admin keeps, backups, the location        *)
(* database, the online providers, the choice of a location and the login  *)
(* rate limit keep their promises.                                         *)
THEOREM UpkeepIsKept == AdminSpec => []UpkeepKept
<1> DEFINE Inv == ArchiveInv /\ GeoInv /\ OnlineInv /\ ResolverInv /\ RateInv
<1>1. AdminInit => Inv
  <2> SUFFICES ASSUME AdminInit PROVE Inv
    OBVIOUS
  <2>1. ArchiveInit /\ GeoInit /\ OnlineInit /\ ResolverInit /\ RateInit
    BY DEF AdminInit, AdminClaims
  <2> QED BY <2>1, ArchiveStarts, GeoStarts, OnlineStarts, ResolverStarts, RateStarts
<1>2. Inv /\ [AdminNext]_adminVars => Inv'
  <2> SUFFICES ASSUME Inv, [AdminNext]_adminVars
               PROVE  Inv'
    OBVIOUS
  <2>1. [ArchiveNext]_archiveVars
    <3>1. ASSUME NEW moving, moving # "archives", Others(moving)
          PROVE  UNCHANGED archiveVars
      BY <3>1, SMTT(60) DEF Others
    <3>2. ASSUME AdminNext PROVE ArchiveNext \/ UNCHANGED archiveVars
      BY <3>1, <3>2
         DEF AdminNext, RefreshMoves, CandidatesMove, PeopleMove, SignalMoves, SettingsMove,
             TargetsMove, InboxMoves, ReleasesMove, ArchivesMove, GeoMoves, OnlineMoves, PlacesMove,
             RatesMove
    <3>3. ASSUME UNCHANGED adminVars PROVE UNCHANGED archiveVars
      BY <3>3 DEF adminVars
    <3> QED BY <3>2, <3>3
  <2>2. [GeoNext]_geoVars
    <3>1. ASSUME NEW moving, moving # "geo", Others(moving)
          PROVE  UNCHANGED geoVars
      BY <3>1, SMTT(60) DEF Others
    <3>2. ASSUME AdminNext PROVE GeoNext \/ UNCHANGED geoVars
      BY <3>1, <3>2
         DEF AdminNext, RefreshMoves, CandidatesMove, PeopleMove, SignalMoves, SettingsMove,
             TargetsMove, InboxMoves, ReleasesMove, ArchivesMove, GeoMoves, OnlineMoves, PlacesMove,
             RatesMove
    <3>3. ASSUME UNCHANGED adminVars PROVE UNCHANGED geoVars
      BY <3>3 DEF adminVars
    <3> QED BY <3>2, <3>3
  <2>3. [OnlineNext]_onlineVars
    <3>1. ASSUME NEW moving, moving # "online", Others(moving)
          PROVE  UNCHANGED onlineVars
      BY <3>1, SMTT(60) DEF Others
    <3>2. ASSUME AdminNext PROVE OnlineNext \/ UNCHANGED onlineVars
      BY <3>1, <3>2
         DEF AdminNext, RefreshMoves, CandidatesMove, PeopleMove, SignalMoves, SettingsMove,
             TargetsMove, InboxMoves, ReleasesMove, ArchivesMove, GeoMoves, OnlineMoves, PlacesMove,
             RatesMove
    <3>3. ASSUME UNCHANGED adminVars PROVE UNCHANGED onlineVars
      BY <3>3 DEF adminVars
    <3> QED BY <3>2, <3>3
  <2>4. [ResolverNext]_resolverVars
    <3>1. ASSUME NEW moving, moving # "places", Others(moving)
          PROVE  UNCHANGED resolverVars
      BY <3>1, SMTT(60) DEF Others
    <3>2. ASSUME AdminNext PROVE ResolverNext \/ UNCHANGED resolverVars
      BY <3>1, <3>2
         DEF AdminNext, RefreshMoves, CandidatesMove, PeopleMove, SignalMoves, SettingsMove,
             TargetsMove, InboxMoves, ReleasesMove, ArchivesMove, GeoMoves, OnlineMoves, PlacesMove,
             RatesMove
    <3>3. ASSUME UNCHANGED adminVars PROVE UNCHANGED resolverVars
      BY <3>3 DEF adminVars
    <3> QED BY <3>2, <3>3
  <2>5. [RateNext]_rateVars
    <3>1. ASSUME NEW moving, moving # "rates", Others(moving)
          PROVE  UNCHANGED rateVars
      BY <3>1, SMTT(60) DEF Others
    <3>2. ASSUME AdminNext PROVE RateNext \/ UNCHANGED rateVars
      BY <3>1, <3>2
         DEF AdminNext, RefreshMoves, CandidatesMove, PeopleMove, SignalMoves, SettingsMove,
             TargetsMove, InboxMoves, ReleasesMove, ArchivesMove, GeoMoves, OnlineMoves, PlacesMove,
             RatesMove
    <3>3. ASSUME UNCHANGED adminVars PROVE UNCHANGED rateVars
      BY <3>3 DEF adminVars
    <3> QED BY <3>2, <3>3
  <2> QED BY <2>1, <2>2, <2>3, <2>4, <2>5, ArchiveStep, GeoStep, OnlineStep, ResolverStep, RateStep
<1>3. Inv => UpkeepKept
  BY ArchiveInvIsEnough, GeoInvIsEnough, OnlineInvIsEnough, ResolverInvIsEnough, RateInvIsEnough
     DEF UpkeepKept
<1> HIDE DEF Inv
<1> QED BY <1>1, <1>2, <1>3, PTL DEF AdminSpec

-----------------------------------------------------------------------------
(* Locations of data centres                                               *)

(* In the composition of what an admin keeps, the refresh of locations     *)
(* keeps its table and its distance, and what is learned is supported and  *)
(* looked up without a choice.                                             *)
THEOREM LocationsAreKept == AdminSpec => []LocationsKept
<1> DEFINE Inv == RefreshInv /\ CandidatesInv
<1>1. AdminInit => Inv
  <2> SUFFICES ASSUME AdminInit PROVE Inv
    OBVIOUS
  <2>1. PopInit /\ CandidateInit
    BY DEF AdminInit
  <2> QED BY <2>1, PopInitEstablishesRefresh, CandidateInitEstablishes
<1>2. Inv /\ [AdminNext]_adminVars => Inv'
  <2> SUFFICES ASSUME Inv, [AdminNext]_adminVars
               PROVE  Inv'
    OBVIOUS
  <2>1. [PopNext]_popVars
    <3>1. ASSUME NEW moving, moving # "pops", Others(moving)
          PROVE  UNCHANGED popVars
      BY <3>1, SMTT(60) DEF Others
    <3>2. ASSUME AdminNext PROVE PopNext \/ UNCHANGED popVars
      BY <3>1, <3>2
         DEF AdminNext, RefreshMoves, CandidatesMove, PeopleMove, SignalMoves, SettingsMove,
             TargetsMove, InboxMoves, ReleasesMove, ArchivesMove, GeoMoves, OnlineMoves, PlacesMove,
             RatesMove
    <3>3. ASSUME UNCHANGED adminVars PROVE UNCHANGED popVars
      BY <3>3 DEF adminVars
    <3> QED BY <3>2, <3>3
  <2>2. [CandidateNext]_popCandidateVars
    <3>1. ASSUME NEW moving, moving # "candidates", Others(moving)
          PROVE  UNCHANGED popCandidateVars
      BY <3>1, SMTT(60) DEF Others
    <3>2. ASSUME AdminNext PROVE CandidateNext \/ UNCHANGED popCandidateVars
      BY <3>1, <3>2
         DEF AdminNext, RefreshMoves, CandidatesMove, PeopleMove, SignalMoves, SettingsMove,
             TargetsMove, InboxMoves, ReleasesMove, ArchivesMove, GeoMoves, OnlineMoves, PlacesMove,
             RatesMove
    <3>3. ASSUME UNCHANGED adminVars PROVE UNCHANGED popCandidateVars
      BY <3>3 DEF adminVars
    <3> QED BY <3>2, <3>3
  <2> QED BY <2>1, <2>2, PopNextKeepsRefresh, StillRefreshKeeps, CandidateNextKeeps, StillCandidates
<1>3. Inv => LocationsKept
  BY RefreshInvIsKept, CandidatesInvIsKept DEF LocationsKept
<1> HIDE DEF Inv
<1> QED BY <1>1, <1>2, <1>3, PTL DEF AdminSpec

-----------------------------------------------------------------------------
(* The inbox and the releases                                              *)

(* In the composition of what an admin keeps, the inbox and the notices of *)
(* releases keep their promises.                                           *)
THEOREM NoticesAreKept == AdminSpec => []NoticesKept
<1> DEFINE Inv == InboxInv /\ ReleaseInv
<1>1. AdminInit => Inv
  <2> SUFFICES ASSUME AdminInit PROVE Inv
    OBVIOUS
  <2>1. InboxInit /\ ReleaseInit
    BY DEF AdminInit
  <2> QED BY <2>1, InboxInvInit, ReleaseInvInit
<1>2. Inv /\ [AdminNext]_adminVars => Inv'
  <2> SUFFICES ASSUME Inv, [AdminNext]_adminVars
               PROVE  Inv'
    OBVIOUS
  <2>1. [InboxNext]_inboxVars
    <3>1. ASSUME NEW moving, moving # "inbox", Others(moving)
          PROVE  UNCHANGED inboxVars
      BY <3>1, SMTT(60) DEF Others
    <3>2. ASSUME AdminNext PROVE InboxNext \/ UNCHANGED inboxVars
      BY <3>1, <3>2
         DEF AdminNext, RefreshMoves, CandidatesMove, PeopleMove, SignalMoves, SettingsMove,
             TargetsMove, InboxMoves, ReleasesMove, ArchivesMove, GeoMoves, OnlineMoves, PlacesMove,
             RatesMove
    <3>3. ASSUME UNCHANGED adminVars PROVE UNCHANGED inboxVars
      BY <3>3 DEF adminVars
    <3> QED BY <3>2, <3>3
  <2>2. [ReleaseNext]_releaseVars
    <3>1. ASSUME NEW moving, moving # "releases", Others(moving)
          PROVE  UNCHANGED releaseVars
      BY <3>1, SMTT(60) DEF Others
    <3>2. ASSUME AdminNext PROVE ReleaseNext \/ UNCHANGED releaseVars
      BY <3>1, <3>2
         DEF AdminNext, RefreshMoves, CandidatesMove, PeopleMove, SignalMoves, SettingsMove,
             TargetsMove, InboxMoves, ReleasesMove, ArchivesMove, GeoMoves, OnlineMoves, PlacesMove,
             RatesMove
    <3>3. ASSUME UNCHANGED adminVars PROVE UNCHANGED releaseVars
      BY <3>3 DEF adminVars
    <3> QED BY <3>2, <3>3
  <2> QED BY <2>1, <2>2, InboxNextKeeps, StillInbox, ReleaseInvStep
<1>3. Inv => NoticesKept
  BY InboxInvKept, ReleaseInvKept DEF NoticesKept
<1> HIDE DEF Inv
<1> QED BY <1>1, <1>2, <1>3, PTL DEF AdminSpec
=============================================================================
