----------------------------- MODULE StorageProofs -----------------------------
(***************************************************************************)
(* What the components that keep data promise.  Accounts: the invariant    *)
(* says what an open handler still knows of what it read.  Rollups: what   *)
(* has lost its sample or its point has a coarser one, and no later run    *)
(* goes back to it.  Series: what a compaction has staged, beside what was *)
(* appended, pruned, damaged or deleted since, and what a reader has open. *)
(***************************************************************************)
EXTENDS MCStorage, FiniteSetTheorems, SequenceTheorems, WellFoundedInduction, TLAPS

-----------------------------------------------------------------------------
(* Accounts: what a handler has in its hands                               *)

Steps == {"idle", "read", "inactive", "verified", "authenticated", "ready",
          "unlink", "release", "revoking"}
Ops == {"none", "login"} \union OwnOps \union AdminOps

Account == [id : {"free", "used", "gone"}, hash : Nat, admin : BOOLEAN,
            active : BOOLEAN, must : BOOLEAN]
Request == [pc : Steps, op : Ops, user : Users, hash : Nat, target : Users, admin : BOOLEAN]

AccessTypeOK ==
    /\ accounts \in [Users -> Account]
    /\ tokens \subseteq [user : Users, hash : Nat, late : BOOLEAN]
    /\ logins \in [failed : Nat, locked : BOOLEAN]
    /\ credFile \in Nat
    /\ process \in [state : {"down", "empty", "boot", "up"}, starts : Nat,
                    gate : BOOLEAN, banner : Nat]
    /\ requests \in [Requests -> Request]
    /\ passwords \in [drawn : Nat, temporary : SUBSET Nat, initial : Nat]
    /\ crossed \in BOOLEAN

(* Passwords are drawn in order, so that a new one is in nobody's hands.   *)
DrawnInOrder ==
    /\ \A n \in passwords.temporary : n <= passwords.drawn
    /\ passwords.initial <= passwords.drawn /\ credFile <= passwords.drawn
    /\ passwords.initial # 0 => passwords.initial \in passwords.temporary
    /\ \A u \in Users : /\ accounts[u].hash <= passwords.drawn
                        /\ IsAccount(u) => accounts[u].hash # 0
                        /\ IsAccount(u) /\ accounts[u].hash = credFile
                              => credFile = passwords.initial

(* What a handler read still holds of what it is about to write.           *)
Fits(r) ==
    /\ r.hash <= passwords.drawn
    /\ r.pc = "authenticated" => r.op \in AdminOps
    /\ r.pc = "ready" /\ r.op = "change" => r.hash \notin passwords.temporary
    /\ r.pc = "ready" /\ r.op \in {"off", "on", "delete"} => r.target # r.user
    /\ r.pc = "ready" /\ r.op = "demote" => r.target # r.user \/ ~r.admin

(* The initial password still stands: its owner has done nothing yet.      *)
Untouched == IsAccount(Root) /\ accounts[Root].hash = passwords.initial

FirstStart ==
    /\ process.state # "up" => \A q \in Requests : requests[q] = IdleRequest
    /\ process.state = "boot" =>
         /\ passwords.drawn \in passwords.temporary /\ passwords.drawn # 0
         /\ \A u \in Users : ~IsAccount(u)
    /\ process.gate \/ Untouched =>
         \A q \in Requests : requests[q].op \in {"none", "login", "complete"}
    /\ Untouched => \A u \in Users \ {Root} : ~IsAccount(u)

(* The service runs only with an account, if no edit crossed another.      *)
Populated == process.state = "up" => crossed \/ \E u \in Users : IsAccount(u)

AccessInv ==
    /\ AccessTypeOK /\ DrawnInOrder /\ FirstStart /\ Populated
    /\ \A q \in Requests : Fits(requests[q])
    /\ AccessKept

-----------------------------------------------------------------------------
(* Types                                                                   *)

LEMMA IdleTyped == AccessAssumption => IdleRequest \in Request
  BY DEF AccessAssumption, IdleRequest, Request, Steps, Ops

LEMMA TypesStart == AccessInit => AccessTypeOK
<1>1. IdleRequest \in Request
  BY AccessAssumption, IdleTyped
<1>2. NoAccount \in Account
  BY DEF NoAccount, Account
<1> SUFFICES ASSUME AccessInit PROVE AccessTypeOK
  OBVIOUS
<1>3. accounts \in [Users -> Account] /\ requests \in [Requests -> Request]
  BY <1>1, <1>2 DEF AccessInit
<1>4. /\ tokens \subseteq [user : Users, hash : Nat, late : BOOLEAN]
      /\ logins \in [failed : Nat, locked : BOOLEAN] /\ credFile \in Nat /\ crossed \in BOOLEAN
  BY DEF AccessInit
<1>5. /\ process \in [state : {"down", "empty", "boot", "up"}, starts : Nat,
                      gate : BOOLEAN, banner : Nat]
      /\ passwords \in [drawn : Nat, temporary : SUBSET Nat, initial : Nat]
  BY DEF AccessInit
<1> QED BY <1>3, <1>4, <1>5 DEF AccessTypeOK

LEMMA DrawnTyped ==
    ASSUME AccessTypeOK, NEW b \in BOOLEAN, Drawn(b)
    PROVE  /\ passwords' \in [drawn : Nat, temporary : SUBSET Nat, initial : Nat]
           /\ NextPassword \in Nat /\ passwords.drawn \in Nat
           /\ passwords'.drawn = passwords.drawn + 1
           /\ passwords'.initial = passwords.initial
           /\ passwords'.temporary = passwords.temporary \union
                                       (IF b THEN {passwords.drawn + 1} ELSE {})
<1> DEFINE t == passwords.temporary \union (IF b THEN {NextPassword} ELSE {})
<1>1. /\ passwords \in [drawn : Nat, temporary : SUBSET Nat, initial : Nat]
      /\ NextPassword = passwords.drawn + 1
  BY DEF AccessTypeOK, NextPassword
<1>2. NextPassword \in Nat /\ passwords.drawn \in Nat /\ t \in SUBSET Nat
  BY <1>1
<1>3. passwords' = [passwords EXCEPT !.drawn = NextPassword, !.temporary = t]
  BY DEF Drawn
<1> HIDE DEF t
<1>4. /\ passwords'.drawn = NextPassword /\ passwords'.initial = passwords.initial
      /\ passwords'.temporary = t
      /\ passwords' \in [drawn : Nat, temporary : SUBSET Nat, initial : Nat]
  BY <1>1, <1>2, <1>3
<1> QED BY <1>1, <1>2, <1>4 DEF t

LEMMA RequestTyped ==
    ASSUME AccessTypeOK, NEW q \in Requests
    PROVE  /\ requests[q] \in Request
           /\ \A r \in Request : [requests EXCEPT ![q] = r] \in [Requests -> Request]
           /\ \A pc \in Steps : Goes(q, pc) => requests' \in [Requests -> Request]
           /\ Ends(q) => requests' \in [Requests -> Request]
           /\ \A u \in Users : AfterCommit(q, u) => requests' \in [Requests -> Request]
<1>1. requests \in [Requests -> Request] /\ requests[q] \in Request
  BY DEF AccessTypeOK
<1>2. IdleRequest \in Request
  BY AccessAssumption, IdleTyped
<1>3. \A r \in Request : [requests EXCEPT ![q] = r] \in [Requests -> Request]
  BY <1>1
<1>4. ASSUME NEW pc \in Steps, Goes(q, pc) PROVE requests' \in [Requests -> Request]
  <2>1. [requests[q] EXCEPT !.pc = pc] \in Request
    BY <1>1 DEF Request
  <2>2. requests' = [requests EXCEPT ![q] = [requests[q] EXCEPT !.pc = pc]]
    BY <1>1, <1>4 DEF Goes
  <2> QED BY <1>3, <2>1, <2>2
<1>5. ASSUME NEW u \in Users, AfterCommit(q, u) PROVE requests' \in [Requests -> Request]
  <2> DEFINE r == IF u = Root /\ credFile # 0
                  THEN [IdleRequest EXCEPT !.pc = "unlink", !.op = requests[q].op]
                  ELSE IF requests[q].op = "complete"
                  THEN [IdleRequest EXCEPT !.pc = "release", !.op = "complete"]
                  ELSE IdleRequest
  <2>1. requests' = [requests EXCEPT ![q] = r]
    BY <1>5 DEF AfterCommit
  <2>2. r \in Request
    BY <1>1, <1>2 DEF Request, IdleRequest, Steps, Ops, OwnOps
  <2> HIDE DEF r
  <2> QED BY <1>3, <2>1, <2>2
<1> QED BY <1>1, <1>2, <1>3, <1>4, <1>5 DEF Ends

(* The writes of the handlers, as what they do to the one account.         *)
Writes(u, a) ==
    /\ accounts' \in [Users -> Account] /\ accounts'[u] = a
    /\ \A v \in Users : v # u => accounts'[v] = accounts[v]

LEMMA AccountFields ==
    ASSUME NEW a \in Account, NEW h \in Nat, NEW m \in BOOLEAN, NEW d \in BOOLEAN
    PROVE  /\ a = [id |-> a.id, hash |-> a.hash, admin |-> a.admin,
                   active |-> a.active, must |-> a.must]
           /\ [a EXCEPT !.hash = h, !.must = m] =
                [id |-> a.id, hash |-> h, admin |-> a.admin, active |-> a.active, must |-> m]
           /\ [a EXCEPT !.hash = h, !.must = m, !.admin = d] =
                [id |-> a.id, hash |-> h, admin |-> d, active |-> a.active, must |-> m]
           /\ [a EXCEPT !.admin = d] = [id |-> a.id, hash |-> a.hash, admin |-> d,
                                        active |-> a.active, must |-> a.must]
           /\ [a EXCEPT !.active = d] = [id |-> a.id, hash |-> a.hash, admin |-> a.admin,
                                         active |-> d, must |-> a.must]
<1>1. \A b \in Account : b = [id |-> b.id, hash |-> b.hash, admin |-> b.admin,
                              active |-> b.active, must |-> b.must]
  BY DEF Account
<1>2. [a EXCEPT !.hash = h, !.must = m] =
        [id |-> a.id, hash |-> h, admin |-> a.admin, active |-> a.active, must |-> m]
  <2> DEFINE b == [a EXCEPT !.hash = h, !.must = m]
  <2>1. /\ b \in Account /\ b.id = a.id /\ b.hash = h
        /\ b.admin = a.admin /\ b.active = a.active /\ b.must = m
    BY DEF Account
  <2> HIDE DEF b
  <2> QED BY <1>1, <2>1 DEF b
<1>3. [a EXCEPT !.hash = h, !.must = m, !.admin = d] =
        [id |-> a.id, hash |-> h, admin |-> d, active |-> a.active, must |-> m]
  <2> DEFINE b == [a EXCEPT !.hash = h, !.must = m, !.admin = d]
  <2>1. /\ b \in Account /\ b.id = a.id /\ b.hash = h
        /\ b.admin = d /\ b.active = a.active /\ b.must = m
    BY DEF Account
  <2> HIDE DEF b
  <2> QED BY <1>1, <2>1 DEF b
<1>4. /\ [a EXCEPT !.admin = d] = [id |-> a.id, hash |-> a.hash, admin |-> d,
                                    active |-> a.active, must |-> a.must]
      /\ [a EXCEPT !.active = d] = [id |-> a.id, hash |-> a.hash, admin |-> a.admin,
                                     active |-> d, must |-> a.must]
  BY DEF Account
<1> QED BY <1>1, <1>2, <1>3, <1>4

LEMMA WritesAccount ==
    ASSUME AccessTypeOK, NEW u \in Users, NEW a \in Account,
           accounts' = [accounts EXCEPT ![u] = a]
    PROVE  Writes(u, a)
  BY DEF AccessTypeOK, Writes

Draws(temporary) ==
    /\ passwords' \in [drawn : Nat, temporary : SUBSET Nat, initial : Nat]
    /\ passwords'.drawn = passwords.drawn + 1
    /\ passwords'.initial = passwords.initial
    /\ passwords'.temporary = passwords.temporary \union
                                (IF temporary THEN {passwords.drawn + 1} ELSE {})

Replaces(q, u, must, admin, temporary) ==
    /\ Writes(u, [id |-> accounts[u].id, hash |-> passwords.drawn + 1, admin |-> admin,
                  active |-> accounts[u].active, must |-> must])
    /\ Draws(temporary) /\ tokens' = WithoutTokensOf(u) /\ AfterCommit(q, u)

LEMMA PasswordChanged ==
    ASSUME AccessTypeOK, NEW q \in Requests, ChangePassword(q)
    PROVE  LET u == requests[q].user IN
           /\ UNCHANGED <<logins, credFile, process, crossed>> /\ At(q, "ready", "change")
           /\ \/ /\ HashAsRead(q)
                 /\ Replaces(q, u, accounts[u].must, accounts[u].admin, FALSE)
              \/ Ends(q) /\ UNCHANGED <<accounts, tokens, passwords>>
<1> DEFINE u == requests[q].user
           a == [id |-> accounts[u].id, hash |-> passwords.drawn + 1, admin |-> accounts[u].admin,
                  active |-> accounts[u].active, must |-> accounts[u].must]
<1>1. u \in Users /\ accounts[u] \in Account /\ passwords.drawn + 1 \in Nat
  BY DEF AccessTypeOK, Request
<1>2. CASE HashAsRead(q)
  <2>1. /\ Drawn(FALSE) /\ tokens' = WithoutTokensOf(u) /\ AfterCommit(q, u)
        /\ accounts' = [accounts EXCEPT ![u].hash = NextPassword]
    BY <1>2 DEF ChangePassword
  <2>2. a = [accounts[u] EXCEPT !.hash = NextPassword] /\ a \in Account
    BY <1>1 DEF Account, NextPassword
  <2>3. accounts' = [accounts EXCEPT ![u] = a]
    BY <1>1, <2>1, <2>2 DEF AccessTypeOK
  <2>4. Writes(u, a)
    <3> HIDE DEF a, u
    <3> QED BY <1>1, <2>2, <2>3, WritesAccount
  <2> QED BY <1>2, <2>1, <2>4, DrawnTyped DEF Replaces, Draws, ChangePassword
<1> QED BY <1>2 DEF ChangePassword

LEMMA ChangeCompleted ==
    ASSUME AccessTypeOK, NEW q \in Requests, CompleteRequiredChange(q)
    PROVE  LET u == requests[q].user IN
           /\ UNCHANGED <<logins, credFile, process, crossed>> /\ At(q, "ready", "complete")
           /\ \/ /\ HashAsRead(q)
                 /\ Replaces(q, u, FALSE, accounts[u].admin, FALSE)
              \/ Ends(q) /\ UNCHANGED <<accounts, tokens, passwords>>
<1> DEFINE u == requests[q].user
           a == [id |-> accounts[u].id, hash |-> passwords.drawn + 1, admin |-> accounts[u].admin,
                  active |-> accounts[u].active, must |-> FALSE]
<1>1. u \in Users /\ accounts[u] \in Account /\ passwords.drawn + 1 \in Nat
  BY DEF AccessTypeOK, Request
<1>2. CASE HashAsRead(q)
  <2>1. /\ Drawn(FALSE) /\ tokens' = WithoutTokensOf(u) /\ AfterCommit(q, u)
        /\ accounts' = [accounts EXCEPT ![u].hash = NextPassword, ![u].must = FALSE]
    BY <1>2 DEF CompleteRequiredChange
  <2>2. a = [accounts[u] EXCEPT !.hash = NextPassword, !.must = FALSE] /\ a \in Account
    <3>1. a = [accounts[u] EXCEPT !.hash = NextPassword, !.must = FALSE]
      BY <1>1, AccountFields, ZenonT(60) DEF NextPassword
    <3> QED BY <1>1, <3>1 DEF Account
  <2>3. accounts' = [accounts EXCEPT ![u] = a]
    BY <1>1, <2>1, <2>2 DEF AccessTypeOK
  <2>4. Writes(u, a)
    <3> HIDE DEF a, u
    <3> QED BY <1>1, <2>2, <2>3, WritesAccount
  <2> QED BY <1>2, <2>1, <2>4, DrawnTyped DEF Replaces, Draws, CompleteRequiredChange
<1> QED BY <1>2 DEF CompleteRequiredChange

LEMMA PasswordReset ==
    ASSUME AccessTypeOK, NEW q \in Requests, ResetPassword(q)
    PROVE  LET u == requests[q].target IN
           /\ UNCHANGED <<logins, credFile, process>> /\ At(q, "ready", "reset") /\ Edited(q)
           /\ \/ IsAccount(u) /\ Replaces(q, u, TRUE, requests[q].admin, TRUE)
              \/ Ends(q) /\ UNCHANGED <<accounts, tokens, passwords>>
<1> DEFINE u == requests[q].target
           a == [id |-> accounts[u].id, hash |-> passwords.drawn + 1, admin |-> requests[q].admin,
                  active |-> accounts[u].active, must |-> TRUE]
<1>1. /\ u \in Users /\ accounts[u] \in Account /\ passwords.drawn + 1 \in Nat
      /\ requests[q].admin \in BOOLEAN
  BY DEF AccessTypeOK, Request
<1>2. CASE IsAccount(u)
  <2>1. /\ Drawn(TRUE) /\ tokens' = WithoutTokensOf(u) /\ AfterCommit(q, u)
        /\ accounts' = [accounts EXCEPT ![u].hash = NextPassword, ![u].must = TRUE,
                                        ![u].admin = requests[q].admin]
    BY <1>2 DEF ResetPassword
  <2>2. /\ a = [accounts[u] EXCEPT !.hash = NextPassword, !.must = TRUE,
                                   !.admin = requests[q].admin]
        /\ a \in Account
    <3> DEFINE n == NextPassword
    <3>1. n \in Nat /\ n = passwords.drawn + 1
      BY <1>1 DEF NextPassword
    <3> HIDE DEF n
    <3>2. [accounts[u] EXCEPT !.hash = n, !.must = TRUE, !.admin = requests[q].admin]
            = [id |-> accounts[u].id, hash |-> n, admin |-> requests[q].admin,
               active |-> accounts[u].active, must |-> TRUE]
      <4> DEFINE d == requests[q].admin
      <4>1. d \in BOOLEAN /\ accounts[u] \in Account
        BY <1>1
      <4> HIDE DEF d
      <4>2. [accounts[u] EXCEPT !.hash = n, !.must = TRUE, !.admin = d]
              = [id |-> accounts[u].id, hash |-> n, admin |-> d,
                 active |-> accounts[u].active, must |-> TRUE]
        <5> DEFINE x == accounts[u]
                   y == [x EXCEPT !.hash = n, !.must = TRUE, !.admin = d]
        <5>1. x \in Account
          BY <4>1
        <5> HIDE DEF x
        <5>2. /\ y \in Account /\ y.id = x.id /\ y.hash = n
              /\ y.admin = d /\ y.active = x.active /\ y.must = TRUE
          BY <3>1, <4>1, <5>1 DEF Account
        <5> HIDE DEF y
        <5>3. y = [id |-> y.id, hash |-> y.hash, admin |-> y.admin,
                   active |-> y.active, must |-> y.must]
          BY <5>2, AccountFields, Zenon
        <5> QED BY <5>2, <5>3 DEF x, y
      <4> QED BY <4>2 DEF d
    <3>3. a = [id |-> accounts[u].id, hash |-> n, admin |-> requests[q].admin,
               active |-> accounts[u].active, must |-> TRUE]
      BY <3>1
    <3>4. a \in Account
      BY <1>1, <3>1, <3>3 DEF Account
    <3> QED BY <3>2, <3>3, <3>4 DEF n
  <2>3. accounts' = [accounts EXCEPT ![u] = a]
    BY <1>1, <2>1, <2>2 DEF AccessTypeOK
  <2>4. Writes(u, a)
    <3> HIDE DEF a, u
    <3> QED BY <1>1, <2>2, <2>3, WritesAccount
  <2> QED BY <1>2, <2>1, <2>4, DrawnTyped DEF Replaces, Draws, ResetPassword
<1> QED BY <1>2 DEF ResetPassword

(* The role, the switch and the row itself.                                *)
LEMMA AccountCreated ==
    ASSUME AccessTypeOK, NEW q \in Requests, NEW admin \in BOOLEAN, CreateUser(q, admin)
    PROVE  LET u == requests[q].target IN
           /\ UNCHANGED <<tokens, logins, credFile, process, crossed>> /\ Ends(q)
           /\ At(q, "ready", "create")
           /\ \/ /\ accounts[u].id = "free" /\ Draws(FALSE)
                 /\ Writes(u, [id |-> "used", hash |-> passwords.drawn + 1,
                               admin |-> admin, active |-> TRUE, must |-> FALSE])
              \/ UNCHANGED <<accounts, passwords>>
<1> DEFINE u == requests[q].target
           a == [id |-> "used", hash |-> NextPassword, admin |-> admin, active |-> TRUE,
                 must |-> FALSE]
<1>1. u \in Users /\ a \in Account /\ NextPassword = passwords.drawn + 1
  BY DEF AccessTypeOK, Request, Account, NextPassword
<1>2. CASE accounts[u].id = "free"
  <2>1. Drawn(FALSE) /\ accounts' = [accounts EXCEPT ![u] = a]
    BY <1>2 DEF CreateUser
  <2>2. Writes(u, a)
    <3> HIDE DEF a, u
    <3> QED BY <1>1, <2>1, WritesAccount
  <2> QED BY <1>1, <1>2, <2>1, <2>2, DrawnTyped DEF Draws, CreateUser
<1> QED BY <1>2 DEF CreateUser

LEMMA AccountEdited ==
    ASSUME AccessTypeOK, NEW q \in Requests, UpdateUser(q) \/ SetUserActive(q)
    PROVE  LET u == requests[q].target  r == requests[q]  a == accounts[u] IN
           /\ UNCHANGED <<tokens, logins, credFile, process, passwords>> /\ Edited(q)
           /\ r.pc = "ready" /\ r.op \in {"demote", "promote", "on", "off"}
           /\ Ends(q) \/ Goes(q, "revoking")
           /\ IF IsAccount(u)
              THEN Writes(u, [id |-> a.id, hash |-> a.hash, must |-> a.must,
                     admin |-> IF r.op = "promote" THEN TRUE
                               ELSE IF r.op = "demote" THEN FALSE ELSE a.admin,
                     active |-> IF r.op = "on" THEN TRUE
                                ELSE IF r.op = "off" THEN FALSE ELSE a.active])
              ELSE UNCHANGED accounts
<1> DEFINE u == requests[q].target
           r == requests[q]
           a == accounts[u]
           b == [id |-> a.id, hash |-> a.hash, must |-> a.must,
                     admin |-> IF r.op = "promote" THEN TRUE
                               ELSE IF r.op = "demote" THEN FALSE ELSE a.admin,
                     active |-> IF r.op = "on" THEN TRUE
                                ELSE IF r.op = "off" THEN FALSE ELSE a.active]
<1>1. u \in Users /\ accounts[u] \in Account /\ accounts \in [Users -> Account]
  BY DEF AccessTypeOK, Request
<1>2. b \in Account
  BY <1>1 DEF Account
<1>3. ASSUME IsAccount(u) PROVE Writes(u, b)
  <2>1. CASE UpdateUser(q)
    <3>1. r.op \in {"demote", "promote"}
      BY <2>1 DEF UpdateUser, At
    <3>2. accounts' = [accounts EXCEPT ![u].admin = (r.op = "promote")]
      BY <1>3, <2>1 DEF UpdateUser
    <3>3. b = [a EXCEPT !.admin = (r.op = "promote")]
      <4>1. CASE r.op = "promote"
        <5>1. [a EXCEPT !.admin = TRUE] = [id |-> a.id, hash |-> a.hash, must |-> a.must,
                                  admin |-> TRUE, active |-> a.active]
          BY <1>1, AccountFields, Zenon
        <5>2. b = [id |-> a.id, hash |-> a.hash, must |-> a.must,
                   admin |-> TRUE, active |-> a.active]
          BY <4>1
        <5> HIDE DEF b
        <5> QED BY <4>1, <5>1, <5>2, Zenon
      <4>2. CASE r.op = "demote"
        <5>1. [a EXCEPT !.admin = FALSE] = [id |-> a.id, hash |-> a.hash, must |-> a.must,
                                  admin |-> FALSE, active |-> a.active]
          BY <1>1, AccountFields, Zenon
        <5>2. b = [id |-> a.id, hash |-> a.hash, must |-> a.must,
                   admin |-> FALSE, active |-> a.active] /\ r.op # "promote"
          BY <4>2
        <5> HIDE DEF b
        <5> QED BY <5>1, <5>2, Zenon
      <4> QED BY <3>1, <4>1, <4>2
    <3>4. accounts' = [accounts EXCEPT ![u] = b]
      BY <1>1, <3>2, <3>3
    <3> HIDE DEF b, u
    <3> QED BY <1>1, <1>2, <3>4, WritesAccount
  <2>2. CASE SetUserActive(q)
    <3>1. r.op \in {"on", "off"}
      BY <2>2 DEF SetUserActive, At
    <3>2. accounts' = [accounts EXCEPT ![u].active = (r.op = "on")]
      BY <1>3, <2>2 DEF SetUserActive
    <3>3. b = [a EXCEPT !.active = (r.op = "on")]
      <4>1. CASE r.op = "on"
        <5>1. [a EXCEPT !.active = TRUE] = [id |-> a.id, hash |-> a.hash, must |-> a.must,
                                  active |-> TRUE, admin |-> a.admin]
          BY <1>1, AccountFields, Zenon
        <5>2. b = [id |-> a.id, hash |-> a.hash, must |-> a.must,
                   active |-> TRUE, admin |-> a.admin]
          BY <4>1
        <5> HIDE DEF b
        <5> QED BY <4>1, <5>1, <5>2, Zenon
      <4>2. CASE r.op = "off"
        <5>1. [a EXCEPT !.active = FALSE] = [id |-> a.id, hash |-> a.hash, must |-> a.must,
                                  active |-> FALSE, admin |-> a.admin]
          BY <1>1, AccountFields, Zenon
        <5>2. b = [id |-> a.id, hash |-> a.hash, must |-> a.must,
                   active |-> FALSE, admin |-> a.admin] /\ r.op # "on"
          BY <4>2
        <5> HIDE DEF b
        <5> QED BY <5>1, <5>2, Zenon
      <4> QED BY <3>1, <4>1, <4>2
    <3>4. accounts' = [accounts EXCEPT ![u] = b]
      BY <1>1, <3>2, <3>3
    <3> HIDE DEF b, u
    <3> QED BY <1>1, <1>2, <3>4, WritesAccount
  <2> QED BY <2>1, <2>2
<1> HIDE DEF b
<1>4. /\ UNCHANGED <<tokens, logins, credFile, process, passwords>> /\ Edited(q)
      /\ r.pc = "ready" /\ r.op \in {"demote", "promote", "on", "off"}
      /\ Ends(q) \/ Goes(q, "revoking")
      /\ ~IsAccount(u) => UNCHANGED accounts
  BY DEF UpdateUser, SetUserActive, At
<1> QED BY <1>3, <1>4 DEF b

LEMMA AccountDeleted ==
    ASSUME AccessTypeOK, NEW q \in Requests, DeleteUser(q)
    PROVE  LET u == requests[q].target IN
           /\ UNCHANGED <<logins, credFile, process, passwords>> /\ Edited(q) /\ Ends(q)
           /\ At(q, "ready", "delete") /\ tokens' = WithoutTokensOf(u)
           /\ IF IsAccount(u) THEN Writes(u, [NoAccount EXCEPT !.id = "gone"])
              ELSE UNCHANGED accounts
<1> DEFINE u == requests[q].target
           a == [NoAccount EXCEPT !.id = "gone"]
<1>1. u \in Users /\ a \in Account
  BY DEF AccessTypeOK, Request, Account, NoAccount
<1>2. ASSUME IsAccount(u) PROVE Writes(u, a)
  <2>1. accounts' = [accounts EXCEPT ![u] = a]
    BY <1>2 DEF DeleteUser
  <2> HIDE DEF a, u
  <2> QED BY <1>1, <2>1, WritesAccount
<1> QED BY <1>2 DEF DeleteUser

LEMMA TypesStep ==
    ASSUME AccessTypeOK, [AccessNext]_accessVars
    PROVE  AccessTypeOK'
<1> USE AccessAssumption
<1>t. /\ accounts \in [Users -> Account]
      /\ tokens \subseteq [user : Users, hash : Nat, late : BOOLEAN]
      /\ logins \in [failed : Nat, locked : BOOLEAN] /\ credFile \in Nat
      /\ process \in [state : {"down", "empty", "boot", "up"}, starts : Nat,
                      gate : BOOLEAN, banner : Nat]
      /\ requests \in [Requests -> Request]
      /\ passwords \in [drawn : Nat, temporary : SUBSET Nat, initial : Nat]
      /\ crossed \in BOOLEAN
  BY DEF AccessTypeOK
<1>1. CASE StartFirst \/ CommitRoot \/ StartAgain
  <2>1. CASE StartFirst
    <3>1. /\ passwords' \in [drawn : Nat, temporary : SUBSET Nat, initial : Nat]
          /\ NextPassword \in Nat
      BY <2>1, DrawnTyped DEF StartFirst
    <3>2. process' \in [state : {"down", "empty", "boot", "up"}, starts : Nat,
                        gate : BOOLEAN, banner : Nat]
      <4>1. process.starts \in Nat
        BY <1>t
      <4>2. process' = [process EXCEPT !.state = "boot", !.starts = process.starts + 1,
                                       !.banner = 0]
        BY <2>1 DEF StartFirst
      <4> DEFINE n == process.starts + 1
      <4>4. n \in Nat
        BY <4>1
      <4> HIDE DEF n
      <4>5. process' = [process EXCEPT !.state = "boot", !.starts = n, !.banner = 0]
        BY <4>2 DEF n
      <4>3. process \in [state : {"down", "empty", "boot", "up"}, starts : Nat,
                         gate : BOOLEAN, banner : Nat]
        BY <1>t
      <4> QED BY <4>3, <4>4, <4>5
    <3> QED BY <1>t, <2>1, <3>1, <3>2 DEF StartFirst, AccessTypeOK
  <2>2. CASE CommitRoot
    BY <1>t, <2>2 DEF CommitRoot, AccessTypeOK, Account
  <2>3. CASE StartAgain
    <3>1. process' \in [state : {"down", "empty", "boot", "up"}, starts : Nat,
                        gate : BOOLEAN, banner : Nat]
      <4> DEFINE b == IF Pending THEN credFile ELSE 0
      <4>1. process.starts \in Nat /\ b \in Nat
        BY <1>t
      <4>2. process' = [process EXCEPT !.state = "up", !.starts = process.starts + 1,
                                       !.gate = FALSE, !.banner = b]
        BY <2>3 DEF StartAgain
      <4>3. process \in [state : {"down", "empty", "boot", "up"}, starts : Nat,
                         gate : BOOLEAN, banner : Nat]
        BY <1>t
      <4> DEFINE n == process.starts + 1
      <4>4. n \in Nat
        BY <4>1
      <4> HIDE DEF n, b
      <4>5. process' = [process EXCEPT !.state = "up", !.starts = n, !.gate = FALSE, !.banner = b]
        BY <4>2 DEF n
      <4> QED BY <4>1, <4>3, <4>4, <4>5
    <3> QED BY <1>t, <2>3, <3>1 DEF StartAgain, AccessTypeOK
  <2> QED BY <1>1, <2>1, <2>2, <2>3
<1>2. CASE CrashAccess \/ LockEnds \/ \E t \in tokens : TokenEnds(t)
  <2>1. CASE CrashAccess
    BY <1>t, <2>1, IdleTyped DEF CrashAccess, AccessTypeOK
  <2> QED BY <1>t, <1>2, <2>1 DEF LockEnds, TokenEnds, AccessTypeOK
<1>3. ASSUME NEW q \in Requests, NEW u \in Users, BeginLogin(q, u) \/ ReadTarget(q, u)
      PROVE  AccessTypeOK'
  <2>1. requests' \in [Requests -> Request]
    <3>1. CASE BeginLogin(q, u)
      <4> DEFINE r == [IdleRequest EXCEPT !.pc = IF accounts[u].active THEN "read" ELSE "inactive",
                             !.op = "login", !.user = u, !.hash = accounts[u].hash]
      <4>1. r \in Request
        BY <1>t DEF Request, IdleRequest, Steps, Ops, Account
      <4>2. requests' = [requests EXCEPT ![q] = r]
        BY <3>1 DEF BeginLogin
      <4> HIDE DEF r
      <4> QED BY <4>1, <4>2, RequestTyped
    <3>2. CASE ReadTarget(q, u)
      <4> DEFINE r == [requests[q] EXCEPT !.pc = "ready", !.target = u,
                                          !.admin = accounts[u].admin]
      <4>1. r \in Request
        <5>1. requests[q] \in Request /\ accounts[u].admin \in BOOLEAN
          BY <1>t DEF Account
        <5> QED BY <5>1 DEF Request, Steps
      <4>2. requests' = [requests EXCEPT ![q] = r]
        BY <1>t, <3>2 DEF ReadTarget
      <4> HIDE DEF r
      <4> QED BY <4>1, <4>2, RequestTyped
    <3> QED BY <1>3, <3>1, <3>2
  <2> QED BY <1>t, <1>3, <2>1 DEF BeginLogin, ReadTarget, AccessTypeOK
<1>4. ASSUME NEW q \in Requests, NEW u \in Users, NEW op \in OwnOps \union AdminOps,
             Authenticate(q, u, op)
      PROVE  AccessTypeOK'
  <2> DEFINE r == IF op \in OwnOps
         THEN [IdleRequest EXCEPT !.pc = "ready", !.op = op, !.user = u, !.hash = accounts[u].hash]
         ELSE [IdleRequest EXCEPT !.pc = "authenticated", !.op = op, !.user = u]
  <2>1. r \in Request
    BY <1>t DEF Request, IdleRequest, Steps, Ops, Account
  <2>2. requests' = [requests EXCEPT ![q] = r]
    BY <1>4 DEF Authenticate
  <2>3. requests' \in [Requests -> Request]
    <3> HIDE DEF r
    <3> QED BY <2>1, <2>2, RequestTyped
  <2> QED BY <1>t, <1>4, <2>3 DEF Authenticate, AccessTypeOK
<1>5. ASSUME NEW q \in Requests, FailLogin(q) \/ PassLogin(q) \/ IssueToken(q)
      PROVE  AccessTypeOK'
  <2>1. requests' \in [Requests -> Request] /\ requests[q] \in Request
    BY <1>5, RequestTyped DEF FailLogin, PassLogin, IssueToken, Steps
  <2>2. tokens' \subseteq [user : Users, hash : Nat, late : BOOLEAN]
    <3> DEFINE t == [user |-> requests[q].user, hash |-> requests[q].hash,
                     late |-> accounts[requests[q].user].hash # requests[q].hash]
    <3>1. t \in [user : Users, hash : Nat, late : BOOLEAN]
      BY <2>1 DEF Request
    <3>2. tokens' \subseteq tokens \union {t}
      BY <1>5 DEF FailLogin, PassLogin, IssueToken
    <3> HIDE DEF t
    <3> QED BY <1>t, <3>1, <3>2
  <2>3. logins' \in [failed : Nat, locked : BOOLEAN]
    <3>1. logins.failed \in Nat
      BY <1>t
    <3>2. CASE FailLogin(q)
      BY <3>1, <3>2 DEF FailLogin
    <3>3. CASE PassLogin(q)
      BY <3>3 DEF PassLogin
    <3>4. CASE IssueToken(q)
      BY <1>t, <3>4 DEF IssueToken
    <3> QED BY <1>5, <3>2, <3>3, <3>4
  <2> QED BY <1>t, <1>5, <2>1, <2>2, <2>3 DEF FailLogin, PassLogin, IssueToken, AccessTypeOK
<1>6. ASSUME NEW q \in Requests, UnlinkFile(q) \/ ReleaseGate(q) \/ RevokeSessions(q)
      PROVE  AccessTypeOK'
  <2>1. requests' \in [Requests -> Request]
    BY <1>6, RequestTyped DEF UnlinkFile, ReleaseGate, RevokeSessions, Steps
  <2>2. process' \in [state : {"down", "empty", "boot", "up"}, starts : Nat,
                      gate : BOOLEAN, banner : Nat]
    BY <1>t, <1>6 DEF UnlinkFile, ReleaseGate, RevokeSessions
  <2>3. tokens' \subseteq tokens
    BY <1>6 DEF UnlinkFile, ReleaseGate, RevokeSessions, WithoutTokensOf
  <2> QED BY <1>t, <1>6, <2>1, <2>2, <2>3 DEF UnlinkFile, ReleaseGate, RevokeSessions, AccessTypeOK
<1>7. ASSUME NEW q \in Requests,
             ChangePassword(q) \/ CompleteRequiredChange(q) \/ ResetPassword(q)
      PROVE  AccessTypeOK'
  <2>1. UNCHANGED <<logins, credFile, process>> /\ crossed' \in BOOLEAN
    BY <1>t, <1>7 DEF ChangePassword, CompleteRequiredChange, ResetPassword, Edited
  <2>2. requests[q].user \in Users /\ requests[q].target \in Users
    BY <1>t DEF Request
  <2>3. \/ \E u \in Users, must, admin, temporary \in BOOLEAN :
               Replaces(q, u, must, admin, temporary)
        \/ Ends(q) /\ UNCHANGED <<accounts, tokens, passwords>>
    <3>1. \A u \in Users : accounts[u].must \in BOOLEAN /\ accounts[u].admin \in BOOLEAN
      BY <1>t DEF Account
    <3>2. requests[q].admin \in BOOLEAN
      BY <1>t DEF Request
    <3> QED BY <1>7, <2>2, <3>1, <3>2, PasswordChanged, ChangeCompleted, PasswordReset, ZenonT(60)
  <2>4. CASE \E u \in Users, must, admin, temporary \in BOOLEAN :
               Replaces(q, u, must, admin, temporary)
    <3>1. PICK u \in Users, must \in BOOLEAN, admin \in BOOLEAN, temporary \in BOOLEAN :
               Replaces(q, u, must, admin, temporary)
      BY <2>4
    <3>2. requests' \in [Requests -> Request]
      BY <3>1, RequestTyped DEF Replaces
    <3> QED BY <1>t, <2>1, <3>1, <3>2 DEF Replaces, Writes, Draws, WithoutTokensOf, AccessTypeOK
  <2>5. CASE Ends(q) /\ UNCHANGED <<accounts, tokens, passwords>>
    BY <1>t, <2>1, <2>5, RequestTyped DEF AccessTypeOK
  <2> QED BY <2>3, <2>4, <2>5
<1>8. ASSUME NEW q \in Requests, NEW admin \in BOOLEAN, CreateUser(q, admin)
      PROVE  AccessTypeOK'
  <2>1. requests' \in [Requests -> Request]
    BY <1>8, RequestTyped DEF CreateUser
  <2> QED BY <1>t, <1>8, <2>1, AccountCreated, ZenonT(60) DEF Writes, Draws, AccessTypeOK
<1>9. ASSUME NEW q \in Requests, UpdateUser(q) \/ SetUserActive(q) \/ DeleteUser(q)
      PROVE  AccessTypeOK'
  <2>1. requests' \in [Requests -> Request] /\ crossed' \in BOOLEAN
    BY <1>t, <1>9, RequestTyped DEF UpdateUser, SetUserActive, DeleteUser, Steps, Edited
  <2>2. accounts' \in [Users -> Account]
    BY <1>t, <1>9, AccountEdited, AccountDeleted DEF Writes
  <2> QED BY <1>t, <1>9, <2>1, <2>2 DEF UpdateUser, SetUserActive, DeleteUser, WithoutTokensOf,
          AccessTypeOK
<1>10. CASE UNCHANGED accessVars
  BY <1>t, <1>10 DEF accessVars, AccessTypeOK
<1> QED BY <1>1, <1>2, <1>3, <1>4, <1>5, <1>6, <1>7, <1>8, <1>9, <1>10 DEF AccessNext

-----------------------------------------------------------------------------
(* Steps that leave the accounts alone                                     *)

LEMMA IdleFits == AccessInv => Fits(IdleRequest)
  BY DEF AccessInv, Fits, IdleRequest, AccessTypeOK

LEMMA IdleFitsNext ==
    ASSUME AccessTypeOK', NEW q \in Requests, requests'[q] = IdleRequest
    PROVE  Fits(requests[q])'
<1>1. IdleRequest.pc = "idle" /\ IdleRequest.hash = 0 /\ passwords'.drawn \in Nat
  BY DEF IdleRequest, AccessTypeOK
<1> QED BY <1>1 DEF Fits

LEMMA WorkingIsUp ==
    ASSUME AccessInv, NEW q \in Requests, requests[q].pc # "idle"
    PROVE  process.state = "up"
  BY DEF AccessInv, FirstStart, IdleRequest

LEMMA Rests ==
    ASSUME AccessInv, AccessTypeOK', tokens' \subseteq tokens,
           UNCHANGED <<accounts, credFile, process, requests, passwords, crossed>>
    PROVE  AccessInv'
<1>1. DrawnInOrder' /\ FirstStart' /\ Populated' /\ \A q \in Requests : Fits(requests[q])'
  BY DEF AccessInv, DrawnInOrder, FirstStart, Populated, Fits, Untouched, IsAccount
<1>2. AccessKept'
  BY DEF AccessInv, AccessKept, MustMatchesPassword, FileIsCurrent, GateOpens,
     SessionsAreCurrent, AnAdminRemains, Pending, IsAccount
<1> QED BY <1>1, <1>2 DEF AccessInv

(* A handler that reads, or stops: what it reads it takes along.           *)
LEMMA Reads ==
    ASSUME AccessInv, AccessTypeOK', NEW q \in Requests, NEW r \in Request,
           UNCHANGED <<accounts, credFile, process, passwords, crossed>>,
           requests' = [requests EXCEPT ![q] = r],
           process.state = "up", requests[q].pc \notin {"unlink", "release"}, Fits(r),
           process.gate \/ Untouched => r.op \in {"none", "login", "complete"},
           \A t \in tokens' : \/ t \in tokens
                              \/ /\ IsAccount(t.user)
                                 /\ t.late \/ t.hash = accounts[t.user].hash
    PROVE  AccessInv'
<1>1. /\ requests'[q] = r
      /\ \A p \in Requests : p # q => requests'[p] = requests[p]
  BY DEF AccessInv, AccessTypeOK
<1>2. DrawnInOrder' /\ FirstStart' /\ Populated'
  BY <1>1 DEF AccessInv, DrawnInOrder, FirstStart, Populated, Untouched, IsAccount
<1>3. \A p \in Requests : Fits(requests[p])'
  BY <1>1 DEF AccessInv, Fits
<1>4. MustMatchesPassword' /\ AnAdminRemains' /\ SessionsAreCurrent'
  BY DEF AccessInv, AccessKept, MustMatchesPassword, SessionsAreCurrent, AnAdminRemains, IsAccount
<1>5. FileIsCurrent' /\ GateOpens'
  BY <1>1 DEF AccessInv, AccessKept, FileIsCurrent, GateOpens, Pending, IsAccount
<1> QED BY <1>2, <1>3, <1>4, <1>5 DEF AccessInv, AccessKept

LEMMA AuthenticateKeeps ==
    ASSUME AccessInv, AccessTypeOK', NEW q \in Requests, NEW u \in Users,
           NEW op \in OwnOps \union AdminOps, Authenticate(q, u, op)
    PROVE  AccessInv'
<1> DEFINE r == IF op \in OwnOps
         THEN [IdleRequest EXCEPT !.pc = "ready", !.op = op, !.user = u, !.hash = accounts[u].hash]
         ELSE [IdleRequest EXCEPT !.pc = "authenticated", !.op = op, !.user = u]
<1>1. /\ accounts[u] \in Account /\ IdleRequest \in Request
      /\ UNCHANGED <<accounts, tokens, credFile, process, passwords, crossed>>
      /\ requests' = [requests EXCEPT ![q] = r]
      /\ process.state = "up" /\ requests[q] = IdleRequest /\ IsAccount(u)
      /\ accounts[u].must <=> op = "complete"
      /\ process.gate => op = "complete"
  BY AccessAssumption, IdleTyped DEF Authenticate, AccessInv, AccessTypeOK, Free, Resolves
<1>2. r \in Request
  BY <1>1 DEF Request, Account, Steps, Ops, IdleRequest
<1>3. r.op = op /\ r.hash <= passwords.drawn
      /\ (r.pc = "ready" => op \in OwnOps /\ r.hash = accounts[u].hash)
      /\ (r.pc = "authenticated" => op \in AdminOps)
  BY <1>1 DEF IdleRequest, Request, AccessInv, AccessTypeOK, DrawnInOrder
<1> HIDE DEF r
<1>4. op = "change" => accounts[u].hash \notin passwords.temporary
  BY <1>1 DEF AccessInv, AccessKept, MustMatchesPassword
<1>5. Fits(r)
  BY <1>3, <1>4 DEF Fits, OwnOps
<1>6. process.gate \/ Untouched => op = "complete"
  <2>1. Untouched => u = Root
    BY <1>1 DEF AccessInv, FirstStart
  <2>2. Untouched => passwords.initial \in passwords.temporary
    BY AccessAssumption DEF AccessInv, DrawnInOrder, Untouched
  <2>3. Untouched => accounts[Root].must
    BY <2>2, AccessAssumption DEF AccessInv, AccessKept, MustMatchesPassword, Untouched
  <2>4. (accounts[u].must <=> op = "complete") /\ (process.gate => op = "complete")
    BY <1>1
  <2> QED BY <2>1, <2>3, <2>4, Zenon
<1>7. /\ requests[q].pc \notin {"unlink", "release"}
      /\ process.gate \/ Untouched => r.op \in {"none", "login", "complete"}
      /\ \A t \in tokens' : t \in tokens
  BY <1>1, <1>3, <1>6 DEF IdleRequest
<1>8. /\ UNCHANGED <<accounts, credFile, process, passwords, crossed>>
      /\ requests' = [requests EXCEPT ![q] = r] /\ process.state = "up"
  BY <1>1
<1> QED BY <1>2, <1>5, <1>7, <1>8, Reads

LEMMA ReadTargetKeeps ==
    ASSUME AccessInv, AccessTypeOK', NEW q \in Requests, NEW u \in Users, ReadTarget(q, u)
    PROVE  AccessInv'
<1> DEFINE r == [requests[q] EXCEPT !.pc = "ready", !.target = u, !.admin = accounts[u].admin]
<1>1. /\ accounts[u] \in Account /\ requests[q] \in Request /\ requests[q].pc = "authenticated"
      /\ UNCHANGED <<accounts, tokens, credFile, process, passwords, crossed>>
      /\ requests' = [requests EXCEPT ![q] = r]
      /\ ~Refused(requests[q].user, u, requests[q].op)
  BY DEF ReadTarget, AccessInv, AccessTypeOK
<1>2. /\ r \in Request /\ r.op = requests[q].op /\ r.hash = requests[q].hash
      /\ r.user = requests[q].user /\ r.target = u /\ r.admin = accounts[u].admin
      /\ r.pc = "ready"
  BY <1>1 DEF Request, Account, Steps
<1> HIDE DEF r
<1>3. process.state = "up"
  BY <1>1, WorkingIsUp
<1>4. /\ r.op \in {"off", "on", "delete"} => r.target # r.user
      /\ r.op = "demote" => r.target # r.user \/ ~r.admin
  <2> DEFINE o == requests[q].op
             me == requests[q].user
  <2>1. o = "demote" => ~(u = me /\ accounts[u].admin)
    BY <1>1, Zenon DEF Refused
  <2>2. o = "off" \/ o = "on" \/ o = "delete" => u # me
    BY <1>1 DEF Refused
  <2> QED BY <1>2, <2>1, <2>2
<1>5. r.op # "change" /\ r.pc = "ready"
  BY <1>1, <1>2 DEF AccessInv, Fits, AdminOps
<1>6. Fits(r)
  BY <1>2, <1>4, <1>5 DEF Fits, AccessInv
<1>7. process.gate \/ Untouched => r.op \in {"none", "login", "complete"}
  BY <1>2 DEF AccessInv, FirstStart
<1> QED BY <1>1, <1>2, <1>3, <1>6, <1>7, Reads

LEMMA LoginKeeps ==
    ASSUME AccessInv, AccessTypeOK', NEW q \in Requests,
           \/ \E u \in Users : BeginLogin(q, u)
           \/ FailLogin(q) \/ PassLogin(q) \/ IssueToken(q)
    PROVE  AccessInv'
<1>t. /\ requests[q] \in Request /\ IdleRequest \in Request
      /\ \A u \in Users : accounts[u] \in Account
  BY AccessAssumption, IdleTyped DEF AccessInv, AccessTypeOK
<1>1. ASSUME NEW u \in Users, BeginLogin(q, u) PROVE AccessInv'
  <2> DEFINE r == [IdleRequest EXCEPT !.pc = IF accounts[u].active THEN "read" ELSE "inactive",
                             !.op = "login", !.user = u, !.hash = accounts[u].hash]
  <2>1. /\ UNCHANGED <<accounts, tokens, credFile, process, passwords, crossed>>
        /\ requests' = [requests EXCEPT ![q] = r]
        /\ process.state = "up" /\ requests[q] = IdleRequest
    BY <1>1, Zenon DEF BeginLogin, Free
  <2>2. r \in Request /\ r.op = "login" /\ r.pc \in {"read", "inactive"}
        /\ r.hash = accounts[u].hash
    BY <1>t DEF Request, Account, Steps, Ops, IdleRequest
  <2> HIDE DEF r
  <2>3. Fits(r)
    BY <2>2 DEF Fits, AccessInv, DrawnInOrder
  <2>4. /\ requests[q].pc \notin {"unlink", "release"}
        /\ r.op \in {"none", "login", "complete"} /\ \A t \in tokens' : t \in tokens
    BY <2>1, <2>2 DEF IdleRequest
  <2> QED BY <2>1, <2>2, <2>3, <2>4, Reads
<1>2. CASE FailLogin(q)
  <2>1. /\ UNCHANGED <<accounts, tokens, credFile, process, passwords, crossed>>
        /\ requests' = [requests EXCEPT ![q] = IdleRequest]
        /\ requests[q].pc \in {"read", "inactive"} \/ Free(q)
    BY <1>2 DEF FailLogin, Ends
  <2>2. process.state = "up" /\ requests[q].pc \notin {"unlink", "release"}
    BY <2>1, WorkingIsUp DEF Free, IdleRequest
  <2>3. IdleRequest.op \in {"none", "login", "complete"} /\ \A t \in tokens' : t \in tokens
    BY <2>1 DEF IdleRequest
  <2> QED BY <1>t, <2>1, <2>2, <2>3, IdleFits, Reads
<1>3. CASE PassLogin(q)
  <2> DEFINE r == [requests[q] EXCEPT !.pc = "verified"]
  <2>1. /\ UNCHANGED <<accounts, tokens, credFile, process, passwords, crossed>>
        /\ requests' = [requests EXCEPT ![q] = r] /\ requests[q].pc = "read"
    BY <1>3 DEF PassLogin, Goes, AccessInv, AccessTypeOK
  <2>2. r \in Request /\ r.op = requests[q].op /\ r.pc = "verified" /\ r.hash = requests[q].hash
    BY <1>t DEF Request, Steps
  <2> HIDE DEF r
  <2>3. Fits(r) /\ (process.gate \/ Untouched => r.op \in {"none", "login", "complete"})
    BY <2>2 DEF Fits, AccessInv, FirstStart
  <2>4. process.state = "up" /\ \A t \in tokens' : t \in tokens
    BY <2>1, WorkingIsUp
  <2> QED BY <2>1, <2>2, <2>3, <2>4, Reads
<1>4. CASE IssueToken(q)
  <2>1. /\ UNCHANGED <<accounts, credFile, process, passwords, crossed>>
        /\ requests' = [requests EXCEPT ![q] = IdleRequest] /\ requests[q].pc = "verified"
    BY <1>4 DEF IssueToken, Ends
  <2>2. \A t \in tokens' : \/ t \in tokens
                           \/ /\ IsAccount(t.user)
                              /\ t.late \/ t.hash = accounts[t.user].hash
    <3> DEFINE u == requests[q].user
               n == [user |-> u, hash |-> requests[q].hash,
                     late |-> accounts[u].hash # requests[q].hash]
    <3>1. tokens' = IF IsAccount(u) THEN tokens \union {n} ELSE tokens
      BY <1>4 DEF IssueToken
    <3>2. n.user = u /\ (n.late \/ n.hash = accounts[u].hash)
      OBVIOUS
    <3> HIDE DEF n, u
    <3> QED BY <3>1, <3>2
  <2>3. process.state = "up" /\ IdleRequest.op \in {"none", "login", "complete"}
    BY <2>1, WorkingIsUp DEF IdleRequest
  <2> QED BY <1>t, <2>1, <2>2, <2>3, IdleFits, Reads
<1> QED BY <1>1, <1>2, <1>3, <1>4

LEMMA RevokeKeeps ==
    ASSUME AccessInv, AccessTypeOK', NEW q \in Requests, RevokeSessions(q)
    PROVE  AccessInv'
<1>1. /\ UNCHANGED <<accounts, credFile, process, passwords, crossed>>
      /\ requests' = [requests EXCEPT ![q] = IdleRequest]
      /\ requests[q].pc \in {"revoking", "ready"}
      /\ \A t \in tokens' : t \in tokens
  BY DEF RevokeSessions, Ends, At, WithoutTokensOf
<1>2. process.state = "up" /\ IdleRequest.op \in {"none", "login", "complete"}
  BY <1>1, WorkingIsUp DEF IdleRequest
<1> QED BY <1>1, <1>2, AccessAssumption, IdleTyped, IdleFits, Reads

-----------------------------------------------------------------------------
(* The start, the file and the gate                                        *)

LEMMA StartKeeps ==
    ASSUME AccessInv, AccessTypeOK', StartFirst \/ CommitRoot \/ StartAgain
    PROVE  AccessInv'
<1>t. /\ process \in [state : {"down", "empty", "boot", "up"}, starts : Nat,
                      gate : BOOLEAN, banner : Nat]
      /\ passwords \in [drawn : Nat, temporary : SUBSET Nat, initial : Nat]
      /\ accounts \in [Users -> Account] /\ credFile \in Nat /\ Root \in Users
  BY AccessAssumption DEF AccessInv, AccessTypeOK
<1>1. ASSUME StartFirst PROVE AccessInv'
  <2>1. /\ process.state = "down" /\ \A u \in Users : ~IsAccount(u)
        /\ Draws(TRUE) /\ credFile' \in {passwords.drawn + 1, credFile}
        /\ UNCHANGED <<accounts, tokens, logins, requests, crossed>>
    BY <1>1, DrawnTyped DEF StartFirst, Draws, AccessInv, NextPassword
  <2>2. process'.state = "boot" /\ process'.gate = process.gate /\ process'.banner = 0
    BY <1>t, <1>1 DEF StartFirst
  <2>3. DrawnInOrder'
    <3>1. /\ passwords.drawn \in Nat /\ passwords.initial \in Nat /\ credFile' \in Nat
          /\ passwords.temporary \subseteq Nat /\ \A u \in Users : accounts[u].hash \in Nat
          /\ \A u \in Users : ~IsAccount(u)'
      BY <1>t, <2>1 DEF Account, IsAccount
    <3>2. /\ passwords'.drawn = passwords.drawn + 1 /\ passwords'.initial = passwords.initial
          /\ passwords'.temporary = passwords.temporary \union {passwords.drawn + 1}
      BY <2>1 DEF Draws
    <3>3. DrawnInOrder
      BY DEF AccessInv
    <3> QED BY <2>1, <3>1, <3>2, <3>3 DEF DrawnInOrder
  <2>4. FirstStart' /\ \A q \in Requests : Fits(requests[q])'
    <3>1. \A q \in Requests : requests[q] = IdleRequest
      BY <2>1 DEF AccessInv, FirstStart
    <3>2. \A q \in Requests : requests'[q] = IdleRequest
      BY <2>1, <3>1
    <3>3. passwords'.drawn \in passwords'.temporary /\ passwords'.drawn # 0
      BY <1>t, <2>1 DEF Draws
    <3>4. \A u \in Users : ~IsAccount(u)'
      BY <2>1 DEF IsAccount
    <3>5. ~Untouched' /\ IdleRequest.op = "none"
      BY <1>t, <3>4 DEF Untouched, IdleRequest
    <3>6. FirstStart'
      BY <2>2, <3>2, <3>3, <3>4, <3>5 DEF FirstStart
    <3> QED BY <3>2, <3>6, IdleFitsNext
  <2>5. AccessKept'
    BY <1>t, <2>1, <2>2 DEF AccessInv, AccessKept, MustMatchesPassword, FileIsCurrent, GateOpens,
       SessionsAreCurrent, AnAdminRemains, Draws, IsAccount
  <2>6. Populated'
    BY <2>2 DEF Populated
  <2> QED BY <2>3, <2>4, <2>5, <2>6 DEF AccessInv
<1>2. ASSUME CommitRoot PROVE AccessInv'
  <2>1. /\ process.state = "boot" /\ \A u \in Users : ~IsAccount(u)
        /\ passwords.drawn \in passwords.temporary /\ passwords.drawn # 0
        /\ \A q \in Requests : requests[q] = IdleRequest
    BY <1>2 DEF CommitRoot, AccessInv, FirstStart
  <2>2. /\ passwords'.drawn = passwords.drawn /\ passwords'.temporary = passwords.temporary
        /\ passwords'.initial = passwords.drawn
        /\ process'.state = "up" /\ process'.gate /\ process'.banner = passwords.drawn
        /\ UNCHANGED <<tokens, logins, credFile, requests, crossed>>
    BY <1>t, <1>2 DEF CommitRoot
  <2>3. /\ accounts'[Root] = [id |-> "used", hash |-> passwords.drawn, admin |-> TRUE,
                              active |-> TRUE, must |-> TRUE]
        /\ \A u \in Users : u # Root => accounts'[u] = accounts[u]
    BY <1>t, <1>2 DEF CommitRoot
  <2>4. DrawnInOrder'
    BY <1>t, <2>1, <2>2, <2>3 DEF AccessInv, DrawnInOrder, IsAccount
  <2>5. FirstStart' /\ \A q \in Requests : Fits(requests[q])'
    <3>1. \A q \in Requests : requests'[q] = IdleRequest
      BY <2>1, <2>2
    <3>2. FirstStart'
      BY <1>t, <2>1, <2>2, <2>3, <3>1 DEF FirstStart, IdleRequest, Untouched, IsAccount
    <3> QED BY <3>1, <3>2, IdleFitsNext
  <2>6. AccessKept'
    <3>1. MustMatchesPassword'
      BY <1>t, <2>1, <2>2, <2>3 DEF MustMatchesPassword, IsAccount
    <3>2. FileIsCurrent' /\ GateOpens'
      BY <1>t, <2>2, <2>3 DEF FileIsCurrent, GateOpens, Pending, IsAccount
    <3>3. SessionsAreCurrent'
      <4>1. tokens = {}
        BY <2>1 DEF AccessInv, AccessTypeOK, AccessKept, SessionsAreCurrent
      <4> QED BY <2>2, <4>1 DEF SessionsAreCurrent
    <3>4. AnAdminRemains'
      BY <1>t, <2>3 DEF AnAdminRemains, IsAccount
    <3> QED BY <3>1, <3>2, <3>3, <3>4 DEF AccessKept
  <2>7. Populated'
    BY <1>t, <2>3 DEF Populated, IsAccount
  <2> QED BY <2>4, <2>5, <2>6, <2>7 DEF AccessInv
<1>3. ASSUME StartAgain PROVE AccessInv'
  <2>1. /\ process.state = "down" /\ UNCHANGED <<accounts, tokens, logins, requests, passwords, crossed>>
        /\ credFile' = IF Pending THEN credFile ELSE 0
    BY <1>3 DEF StartAgain
  <2>2. /\ process'.state = "up" /\ ~process'.gate
        /\ process'.banner = IF Pending THEN credFile ELSE 0
    BY <1>t, <1>3 DEF StartAgain
  <2>3. DrawnInOrder' /\ (Pending => credFile = passwords.initial)
    BY <1>t, <2>1 DEF AccessInv, DrawnInOrder, IsAccount, Pending
  <2>4. FirstStart' /\ \A q \in Requests : Fits(requests[q])'
    BY <1>t, <2>1, <2>2 DEF AccessInv, FirstStart, Fits, IdleRequest, Untouched, IsAccount
  <2>5. AccessKept'
    BY <1>t, <2>1, <2>2, <2>3 DEF AccessInv, AccessKept, MustMatchesPassword, FileIsCurrent,
       GateOpens, SessionsAreCurrent, AnAdminRemains, Pending, IsAccount
  <2>6. Populated'
    BY <1>3, <2>1 DEF Populated, IsAccount, StartAgain
  <2> QED BY <2>3, <2>4, <2>5, <2>6 DEF AccessInv
<1> QED BY <1>1, <1>2, <1>3

LEMMA CrashKeeps ==
    ASSUME AccessInv, AccessTypeOK', CrashAccess
    PROVE  AccessInv'
<1>1. /\ process \in [state : {"down", "empty", "boot", "up"}, starts : Nat,
                      gate : BOOLEAN, banner : Nat]
      /\ UNCHANGED <<accounts, tokens, logins, credFile, passwords, crossed>>
      /\ \A q \in Requests : requests'[q] = IdleRequest
  BY DEF CrashAccess, AccessInv, AccessTypeOK
<1>2. process'.state = "down" /\ ~process'.gate /\ process'.banner = 0
  BY <1>1 DEF CrashAccess
<1>3. DrawnInOrder' /\ FirstStart' /\ \A q \in Requests : Fits(requests[q])'
  <2>1. DrawnInOrder'
    BY <1>1 DEF AccessInv, DrawnInOrder, IsAccount
  <2>2. FirstStart'
    <3>1. IdleRequest.op = "none" /\ (Untouched' <=> Untouched)
      BY <1>1 DEF Untouched, IsAccount, IdleRequest
    <3> QED BY <1>1, <1>2, <3>1 DEF AccessInv, FirstStart, IsAccount
  <2> QED BY <1>1, <2>1, <2>2, IdleFitsNext
<1>4. AccessKept'
  BY <1>1, <1>2 DEF AccessInv, AccessKept, MustMatchesPassword, FileIsCurrent,
     GateOpens, SessionsAreCurrent, AnAdminRemains, Pending, IsAccount
<1> QED BY <1>2, <1>3, <1>4 DEF AccessInv, Populated

LEMMA ReleaseKeeps ==
    ASSUME AccessInv, AccessTypeOK', NEW q \in Requests, UnlinkFile(q) \/ ReleaseGate(q)
    PROVE  AccessInv'
<1>t. /\ process \in [state : {"down", "empty", "boot", "up"}, starts : Nat,
                      gate : BOOLEAN, banner : Nat]
      /\ requests \in [Requests -> Request] /\ IdleRequest \in Request
      /\ accounts \in [Users -> Account] /\ credFile \in Nat /\ Root \in Users
      /\ passwords \in [drawn : Nat, temporary : SUBSET Nat, initial : Nat]
  BY AccessAssumption, IdleTyped DEF AccessInv, AccessTypeOK
<1>1. UNCHANGED <<accounts, tokens, logins, passwords, crossed>> /\ credFile' \in {0, credFile}
  BY DEF UnlinkFile, ReleaseGate
<1>2. DrawnInOrder'
  BY <1>t, <1>1 DEF AccessInv, DrawnInOrder, IsAccount
<1>3. MustMatchesPassword' /\ AnAdminRemains' /\ SessionsAreCurrent'
  BY <1>1 DEF AccessInv, AccessKept, MustMatchesPassword, SessionsAreCurrent, AnAdminRemains, IsAccount
<1>4. process.state = "up" /\ Populated'
  BY <1>1, WorkingIsUp DEF UnlinkFile, ReleaseGate, AccessInv, Populated, IsAccount
<1>5. CASE UnlinkFile(q)
  <2>1. credFile' = 0 /\ process' = process /\ requests[q].pc = "unlink"
    BY <1>5 DEF UnlinkFile
  <2>2. \A p \in Requests : p # q => requests'[p] = requests[p]
    BY <1>t, <1>5 DEF UnlinkFile, Goes, Ends
  <2>3. \/ /\ requests'[q].op = "complete" /\ requests'[q].pc = "release"
           /\ requests[q].op = "complete" /\ requests'[q].hash = requests[q].hash
        \/ requests'[q] = IdleRequest /\ requests[q].op # "complete"
    BY <1>t, <1>5 DEF UnlinkFile, Goes, Ends, Request
  <2>4. \A p \in Requests : Fits(requests[p])'
    <3>1. Fits(requests[q])'
      BY <1>1, <2>3, IdleFitsNext DEF AccessInv, Fits
    <3> QED BY <1>1, <2>2, <3>1 DEF AccessInv, Fits
  <2>5. FirstStart'
    BY <1>1, <1>4, <2>1, <2>2, <2>3 DEF AccessInv, FirstStart, Untouched, IsAccount, IdleRequest
  <2>6. FileIsCurrent'
    BY <1>1, <2>1 DEF AccessInv, AccessKept, FileIsCurrent
  <2>7. GateOpens'
    BY <1>1, <2>1, <2>2, <2>3 DEF AccessInv, AccessKept, GateOpens
  <2> QED BY <1>2, <1>3, <1>4, <2>4, <2>5, <2>6, <2>7 DEF AccessInv, AccessKept
<1>6. CASE ReleaseGate(q)
  <2>1. /\ credFile' = credFile /\ requests[q].pc = "release"
        /\ requests' = [requests EXCEPT ![q] = IdleRequest]
        /\ process'.state = process.state /\ process'.banner = process.banner /\ ~process'.gate
    BY <1>t, <1>6 DEF ReleaseGate, Ends
  <2>2. requests'[q] = IdleRequest /\ \A p \in Requests : p # q => requests'[p] = requests[p]
    BY <1>t, <2>1
  <2>3. \A p \in Requests : Fits(requests[p])'
    BY <1>1, <2>2, IdleFitsNext DEF AccessInv, Fits
  <2>4. FirstStart'
    BY <1>1, <1>4, <2>1, <2>2 DEF AccessInv, FirstStart, Untouched, IsAccount, IdleRequest
  <2>5. FileIsCurrent' /\ GateOpens'
    BY <1>1, <2>1, <2>2 DEF AccessInv, AccessKept, FileIsCurrent, GateOpens, Pending, IsAccount
  <2> QED BY <1>2, <1>3, <1>4, <2>3, <2>4, <2>5 DEF AccessInv, AccessKept
<1> QED BY <1>5, <1>6

-----------------------------------------------------------------------------
(* Passwords                                                               *)

(* A password that is set is in nobody's hands; the sessions of the        *)
(* account end, and its file is about to go if it was the initial one.     *)
LEMMA ReplaceKeeps ==
    ASSUME AccessInv, AccessTypeOK', NEW q \in Requests, NEW u \in Users,
           NEW must \in BOOLEAN, NEW admin \in BOOLEAN, NEW temporary \in BOOLEAN,
           Replaces(q, u, must, admin, temporary), must <=> temporary, IsAccount(u),
           UNCHANGED <<credFile, process>>, requests[q].pc = "ready",
           crossed => crossed', crossed' \/ admin = accounts[u].admin,
           must \/ requests[q].op = "complete" \/ (u = Root => ~accounts[Root].must)
    PROVE  AccessInv'
<1>t. /\ requests \in [Requests -> Request] /\ IdleRequest \in Request
      /\ accounts \in [Users -> Account] /\ credFile \in Nat /\ Root \in Users
      /\ passwords \in [drawn : Nat, temporary : SUBSET Nat, initial : Nat]
  BY AccessAssumption, IdleTyped DEF AccessInv, AccessTypeOK
<1> DEFINE n == passwords.drawn + 1
           a == [id |-> accounts[u].id, hash |-> n, admin |-> admin,
                 active |-> accounts[u].active, must |-> must]
<1>1. /\ accounts'[u] = a /\ \A v \in Users : v # u => accounts'[v] = accounts[v]
      /\ passwords'.drawn = n /\ passwords'.initial = passwords.initial
      /\ passwords'.temporary = passwords.temporary \union (IF temporary THEN {n} ELSE {})
      /\ tokens' = WithoutTokensOf(u) /\ AfterCommit(q, u)
  BY DEF Replaces, Writes, Draws
<1>2. /\ \A v \in Users : accounts[v].hash \in Nat /\ accounts[v].hash < n
      /\ passwords.initial \in Nat /\ passwords.initial < n /\ credFile < n /\ n \in Nat
      /\ passwords.drawn \in Nat /\ n # 0 /\ passwords.drawn < n
      /\ \A m \in passwords.temporary : m \in Nat /\ m < n
      /\ \A p \in Requests : requests[p].hash \in Nat /\ requests[p].hash < n
  BY <1>t DEF AccessInv, DrawnInOrder, Fits, Account, Request
<1> HIDE DEF n
<1>3. a.id = "used" /\ a.hash = n /\ a.admin = admin /\ a.active = accounts[u].active /\ a.must = must
  BY DEF IsAccount
<1> HIDE DEF a
<1>4. process.state = "up"
  BY WorkingIsUp
<1>5. \A p \in Requests : p # q => requests'[p] = requests[p]
  BY <1>t, <1>1 DEF AfterCommit
<1>6. /\ requests'[q].hash = 0 /\ requests'[q].pc \in {"idle", "unlink", "release"}
      /\ requests'[q].op \in {"none", "complete", requests[q].op}
      /\ u = Root /\ credFile # 0 => requests'[q].pc = "unlink"
      /\ requests[q].op = "complete" => /\ requests'[q].op = "complete"
                                        /\ requests'[q].pc \in {"unlink", "release"}
  BY <1>t, <1>1 DEF AfterCommit, IdleRequest
<1>7. DrawnInOrder'
  <2>1. \A m \in passwords'.temporary : m <= passwords'.drawn
    BY <1>1, <1>2
  <2>2. /\ passwords'.initial <= passwords'.drawn /\ credFile' <= passwords'.drawn
        /\ passwords'.initial # 0 => passwords'.initial \in passwords'.temporary
    BY <1>t, <1>1, <1>2 DEF AccessInv, DrawnInOrder
  <2>3. ASSUME NEW v \in Users
        PROVE  /\ accounts'[v].hash <= passwords'.drawn
               /\ IsAccount(v)' => accounts'[v].hash # 0
               /\ IsAccount(v)' /\ accounts'[v].hash = credFile'
                     => credFile' = passwords'.initial
    <3>1. CASE v = u
      BY <1>t, <1>1, <1>2, <1>3, <3>1
    <3>2. CASE v # u
      BY <1>1, <1>2, <3>2 DEF AccessInv, DrawnInOrder, IsAccount
    <3> QED BY <3>1, <3>2
  <2> QED BY <2>1, <2>2, <2>3 DEF DrawnInOrder
<1>8. \A p \in Requests : Fits(requests[p])'
  <2>1. Fits(requests[q])'
    BY <1>1, <1>2, <1>6 DEF Fits
  <2>2. ASSUME NEW p \in Requests, p # q PROVE Fits(requests[p])'
    BY <1>1, <1>2, <1>5, <2>2 DEF AccessInv, Fits
  <2> QED BY <2>1, <2>2
<1>9. ~Untouched'
  <2>1. CASE u = Root
    BY <1>1, <1>2, <1>3, <2>1 DEF Untouched
  <2>2. CASE u # Root
    BY <1>t, <1>1, <2>2 DEF AccessInv, FirstStart, Untouched, IsAccount
  <2> QED BY <2>1, <2>2
<1>10. FirstStart'
  BY <1>4, <1>5, <1>6, <1>9 DEF AccessInv, FirstStart
<1>11. MustMatchesPassword'
  BY <1>1, <1>2, <1>3 DEF AccessInv, AccessKept, MustMatchesPassword, IsAccount
<1>12. FileIsCurrent'
  <2>1. process'.banner \in {0, passwords'.initial}
    BY <1>1 DEF AccessInv, AccessKept, FileIsCurrent
  <2>2. ASSUME credFile' = passwords'.initial, \A p \in Requests : requests'[p].pc # "unlink",
               credFile # 0
        PROVE  Pending'
    <3>1. u # Root
      BY <1>6, <2>2
    <3>2. Pending
      BY <1>1, <1>4, <1>5, <2>2 DEF AccessInv, AccessKept, FileIsCurrent
    <3> QED BY <1>t, <1>1, <3>1, <3>2 DEF Pending, IsAccount
  <2> QED BY <2>1, <2>2 DEF FileIsCurrent
<1>13. GateOpens'
  <2> SUFFICES ASSUME process.gate
               PROVE  \/ accounts'[Root].must
                      \/ \E p \in Requests : /\ requests'[p].op = "complete"
                                             /\ requests'[p].pc \in {"unlink", "release"}
    BY DEF GateOpens
  <2>1. CASE requests[q].op = "complete"
    BY <1>6, <2>1
  <2>2. CASE must /\ u = Root
    BY <1>1, <1>3, <2>2
  <2>3. CASE u # Root \/ ~accounts[Root].must
    BY <1>t, <1>1, <1>5, <2>3 DEF AccessInv, AccessKept, GateOpens
  <2> QED BY <2>1, <2>2, <2>3
<1>14. SessionsAreCurrent'
  BY <1>1 DEF AccessInv, AccessKept, SessionsAreCurrent, WithoutTokensOf, AccessTypeOK, IsAccount
<1>15. AnAdminRemains'
  BY <1>1, <1>3 DEF AccessInv, AccessKept, AnAdminRemains, IsAccount
<1>16. Populated'
  BY <1>1, <1>3 DEF Populated, IsAccount
<1> QED BY <1>7, <1>8, <1>10, <1>11, <1>12, <1>13, <1>14, <1>15, <1>16 DEF AccessInv, AccessKept

LEMMA PasswordsKeep ==
    ASSUME AccessInv, AccessTypeOK', NEW q \in Requests,
           ChangePassword(q) \/ CompleteRequiredChange(q) \/ ResetPassword(q)
    PROVE  AccessInv'
<1>t. /\ requests[q] \in Request /\ IdleRequest \in Request /\ AccessTypeOK
      /\ \A u \in Users : accounts[u] \in Account
  BY AccessAssumption, IdleTyped DEF AccessInv, AccessTypeOK
<1>u. requests[q].user \in Users /\ requests[q].target \in Users /\ requests[q].admin \in BOOLEAN
  BY <1>t DEF Request
<1>1. ASSUME Ends(q) /\ UNCHANGED <<accounts, tokens, passwords, credFile, process>>,
             requests[q].pc = "ready", crossed => crossed', crossed' \in BOOLEAN
      PROVE  AccessInv'
  <2>1. /\ requests' = [requests EXCEPT ![q] = IdleRequest]
        /\ process.state = "up" /\ IdleRequest.op = "none"
    BY <1>1, WorkingIsUp DEF Ends, IdleRequest
  <2>2. /\ requests'[q] = IdleRequest
        /\ \A p \in Requests : p # q => requests'[p] = requests[p]
    BY <2>1 DEF AccessInv, AccessTypeOK
  <2>3. DrawnInOrder' /\ FirstStart' /\ Populated'
    BY <1>1, <2>1, <2>2 DEF AccessInv, DrawnInOrder, FirstStart, Populated, Untouched, IsAccount
  <2>4. \A p \in Requests : Fits(requests[p])'
    BY <1>1, <2>2, IdleFitsNext DEF AccessInv, Fits
  <2>5. MustMatchesPassword' /\ AnAdminRemains' /\ SessionsAreCurrent'
    BY <1>1 DEF AccessInv, AccessKept, MustMatchesPassword, SessionsAreCurrent, AnAdminRemains,
       IsAccount
  <2>6. FileIsCurrent' /\ GateOpens'
    BY <1>1, <2>2 DEF AccessInv, AccessKept, FileIsCurrent, GateOpens, Pending, IsAccount
  <2> QED BY <2>3, <2>4, <2>5, <2>6 DEF AccessInv, AccessKept
<1>2. CASE ChangePassword(q)
  <2> DEFINE u == requests[q].user
  <2>1. /\ UNCHANGED <<logins, credFile, process, crossed>> /\ At(q, "ready", "change")
        /\ \/ /\ HashAsRead(q)
              /\ Replaces(q, u, accounts[u].must, accounts[u].admin, FALSE)
           \/ Ends(q) /\ UNCHANGED <<accounts, tokens, passwords>>
    BY <1>t, <1>2, PasswordChanged
  <2>2. CASE HashAsRead(q) /\ Replaces(q, u, accounts[u].must, accounts[u].admin, FALSE)
    <3>1. IsAccount(u) /\ accounts[u].hash \notin passwords.temporary
      BY <2>1, <2>2 DEF HashAsRead, AccessInv, Fits, At
    <3>2. accounts[u].must = FALSE
      BY <1>t, <1>u, <3>1 DEF AccessInv, AccessKept, MustMatchesPassword, Account
    <3>3. accounts[u].admin \in BOOLEAN /\ (u = Root => ~accounts[Root].must)
      BY <1>t, <1>u, <3>2 DEF Account
    <3>4. Replaces(q, u, FALSE, accounts[u].admin, FALSE)
      BY <2>2, <3>2
    <3> HIDE DEF u
    <3>5. u \in Users
      BY <1>u DEF u
    <3>6. requests[q].pc = "ready" /\ UNCHANGED <<credFile, process>> /\ (crossed => crossed')
      BY <2>1 DEF At
    <3> QED BY <3>1, <3>3, <3>4, <3>5, <3>6, ReplaceKeeps
  <2> QED BY <1>1, <2>1, <2>2 DEF At, AccessTypeOK
<1>3. CASE CompleteRequiredChange(q)
  <2> DEFINE u == requests[q].user
  <2>1. /\ UNCHANGED <<logins, credFile, process, crossed>> /\ At(q, "ready", "complete")
        /\ \/ /\ HashAsRead(q)
              /\ Replaces(q, u, FALSE, accounts[u].admin, FALSE)
           \/ Ends(q) /\ UNCHANGED <<accounts, tokens, passwords>>
    BY <1>t, <1>3, ChangeCompleted
  <2>2. CASE HashAsRead(q) /\ Replaces(q, u, FALSE, accounts[u].admin, FALSE)
    <3>1. IsAccount(u)
      BY <2>2 DEF HashAsRead
    <3>2. accounts[u].admin \in BOOLEAN
      BY <1>t, <1>u DEF Account
    <3> HIDE DEF u
    <3>3. u \in Users
      BY <1>u DEF u
    <3>4. /\ requests[q].pc = "ready" /\ requests[q].op = "complete"
          /\ UNCHANGED <<credFile, process>> /\ (crossed => crossed')
      BY <2>1 DEF At
    <3> QED BY <2>2, <3>1, <3>2, <3>3, <3>4, ReplaceKeeps
  <2> QED BY <1>1, <2>1, <2>2 DEF At, AccessTypeOK
<1>4. CASE ResetPassword(q)
  <2> DEFINE u == requests[q].target
             admin == requests[q].admin
  <2>1. /\ UNCHANGED <<logins, credFile, process>> /\ At(q, "ready", "reset") /\ Edited(q)
        /\ \/ IsAccount(u) /\ Replaces(q, u, TRUE, admin, TRUE)
           \/ Ends(q) /\ UNCHANGED <<accounts, tokens, passwords>>
    BY <1>t, <1>4, PasswordReset
  <2>2. (crossed => crossed') /\ (crossed' \/ admin = accounts[u].admin) /\ crossed' \in BOOLEAN
    BY <2>1 DEF Edited, AccessTypeOK
  <2>3. CASE IsAccount(u) /\ Replaces(q, u, TRUE, admin, TRUE)
    <3> HIDE DEF u, admin
    <3>1. u \in Users /\ admin \in BOOLEAN
      BY <1>u DEF u, admin
    <3>2. requests[q].pc = "ready" /\ UNCHANGED <<credFile, process>>
      BY <2>1 DEF At
    <3> QED BY <2>2, <2>3, <3>1, <3>2, ReplaceKeeps
  <2> QED BY <1>1, <2>1, <2>2, <2>3 DEF At
<1> QED BY <1>2, <1>3, <1>4

-----------------------------------------------------------------------------
(* What administrators do                                                  *)

LEMMA CreateKeeps ==
    ASSUME AccessInv, AccessTypeOK', NEW q \in Requests, NEW admin \in BOOLEAN,
           CreateUser(q, admin)
    PROVE  AccessInv'
<1> DEFINE u == requests[q].target
           n == passwords.drawn + 1
           a == [id |-> "used", hash |-> n, admin |-> admin, active |-> TRUE, must |-> FALSE]
<1>t. /\ requests \in [Requests -> Request] /\ u \in Users /\ AccessTypeOK /\ Root \in Users
      /\ \A v \in Users : accounts[v] \in Account
  BY AccessAssumption DEF AccessInv, AccessTypeOK, Request
<1>1. /\ UNCHANGED <<tokens, logins, credFile, process, crossed>> /\ Ends(q)
      /\ At(q, "ready", "create")
      /\ \/ accounts[u].id = "free" /\ Draws(FALSE) /\ Writes(u, a)
         \/ UNCHANGED <<accounts, passwords>>
  BY <1>t, AccountCreated
<1>2. /\ requests'[q] = IdleRequest /\ IdleRequest.op = "none" /\ IdleRequest.pc = "idle"
      /\ \A p \in Requests : p # q => requests'[p] = requests[p]
  BY <1>t, <1>1 DEF Ends, IdleRequest
<1>3. process.state = "up" /\ ~process.gate /\ ~Untouched /\ requests[q].pc = "ready"
  BY <1>1, WorkingIsUp DEF At, AccessInv, FirstStart
<1>4. CASE accounts[u].id = "free" /\ Draws(FALSE) /\ Writes(u, a)
  <2>1. /\ accounts'[u] = a /\ \A v \in Users : v # u => accounts'[v] = accounts[v]
        /\ passwords'.drawn = n /\ passwords'.initial = passwords.initial
        /\ passwords'.temporary = passwords.temporary
    BY <1>4 DEF Writes, Draws
  <2>2. /\ \A v \in Users : accounts[v].hash \in Nat /\ accounts[v].hash < n
        /\ passwords.initial \in Nat /\ passwords.initial < n /\ credFile < n /\ n \in Nat
        /\ passwords.drawn \in Nat /\ n # 0 /\ passwords.drawn < n
        /\ \A m \in passwords.temporary : m \in Nat /\ m < n
        /\ \A p \in Requests : requests[p].hash \in Nat /\ requests[p].hash < n
    BY <1>t DEF AccessInv, AccessTypeOK, DrawnInOrder, Fits, Account, Request
  <2> HIDE DEF n
  <2>3. a.id = "used" /\ a.hash = n /\ a.admin = admin /\ a.active /\ ~a.must
    OBVIOUS
  <2> HIDE DEF a, u
  <2>4. DrawnInOrder'
    <3>1. ASSUME NEW v \in Users
          PROVE  /\ accounts'[v].hash <= passwords'.drawn
                 /\ IsAccount(v)' => accounts'[v].hash # 0
                 /\ IsAccount(v)' /\ accounts'[v].hash = credFile'
                       => credFile' = passwords'.initial
      <4>1. CASE v = u
        BY <1>t, <1>1, <2>1, <2>2, <2>3, <4>1 DEF AccessTypeOK
      <4>2. CASE v # u
        BY <1>1, <2>1, <2>2, <4>2 DEF AccessInv, DrawnInOrder, IsAccount
      <4> QED BY <4>1, <4>2
    <3>2. /\ \A m \in passwords'.temporary : m <= passwords'.drawn
          /\ passwords'.initial <= passwords'.drawn /\ credFile' <= passwords'.drawn
          /\ passwords'.initial # 0 => passwords'.initial \in passwords'.temporary
      BY <1>t, <1>1, <2>1, <2>2 DEF AccessInv, DrawnInOrder, AccessTypeOK
    <3> QED BY <3>1, <3>2 DEF DrawnInOrder
  <2>5. \A p \in Requests : Fits(requests[p])'
    <3>1. ASSUME NEW p \in Requests, p # q PROVE Fits(requests[p])'
      BY <1>2, <2>1, <2>2, <3>1 DEF AccessInv, Fits
    <3> QED BY <1>2, <3>1, IdleFitsNext
  <2>6. ~Untouched'
    BY <1>t, <1>3, <2>1, <2>2, <2>3 DEF Untouched, IsAccount
  <2>7. FirstStart'
    BY <1>1, <1>3, <2>6 DEF FirstStart
  <2>8. MustMatchesPassword'
    <3>1. n \notin passwords.temporary
      BY <2>2
    <3> QED BY <1>t, <2>1, <2>3, <3>1 DEF AccessInv, AccessKept, MustMatchesPassword, IsAccount
  <2>9. FileIsCurrent' /\ GateOpens'
    <3>1. Pending => Pending'
      BY <1>t, <1>1, <1>4, <2>1 DEF Pending, IsAccount, u
    <3>2. \A p \in Requests : requests[p].pc = "unlink" => requests'[p].pc = "unlink"
      BY <1>2, <1>3
    <3> QED BY <1>1, <1>3, <2>1, <3>1, <3>2 DEF AccessInv, AccessKept, FileIsCurrent, GateOpens
  <2>10. SessionsAreCurrent'
    <3>1. \A v \in Users : IsAccount(v) => v # u
      BY <1>4 DEF IsAccount, u
    <3> QED BY <1>t, <1>1, <2>1, <3>1 DEF AccessInv, AccessKept, SessionsAreCurrent, IsAccount,
            AccessTypeOK
  <2>11. AnAdminRemains'
    <3>1. CASE \E v \in Users : IsAccount(v)
      BY <1>1, <1>4, <2>1, <3>1 DEF AccessInv, AccessKept, AnAdminRemains, IsAccount, u
    <3>2. CASE ~\E v \in Users : IsAccount(v)
      BY <1>1, <1>3, <3>2 DEF AccessInv, Populated, AnAdminRemains
    <3> QED BY <3>1, <3>2
  <2>12. Populated'
    BY <1>t, <2>1, <2>3 DEF Populated, IsAccount
  <2> QED BY <2>4, <2>5, <2>7, <2>8, <2>9, <2>10, <2>11, <2>12 DEF AccessInv, AccessKept
<1>5. CASE UNCHANGED <<accounts, passwords>>
  <2>1. requests' = [requests EXCEPT ![q] = IdleRequest]
    BY <1>1 DEF Ends
  <2> QED BY <1>1, <1>2, <1>3, <1>5, <2>1, AccessAssumption, IdleTyped, IdleFits, Reads
<1> QED BY <1>1, <1>4, <1>5

LEMMA EditKeeps ==
    ASSUME AccessInv, AccessTypeOK', NEW q \in Requests, UpdateUser(q) \/ SetUserActive(q)
    PROVE  AccessInv'
<1> DEFINE r == requests[q]
           u == r.target
<1>t. /\ requests \in [Requests -> Request] /\ u \in Users /\ r.user \in Users
      /\ accounts \in [Users -> Account] /\ Root \in Users /\ AccessTypeOK
  BY AccessAssumption DEF AccessInv, AccessTypeOK, Request
<1>1. /\ UNCHANGED <<tokens, logins, credFile, process, passwords>> /\ Edited(q)
      /\ r.pc = "ready" /\ r.op \in {"demote", "promote", "on", "off"}
      /\ Ends(q) \/ Goes(q, "revoking")
  BY <1>t, AccountEdited
<1>2. /\ \A v \in Users : /\ accounts'[v].id = accounts[v].id
                          /\ accounts'[v].hash = accounts[v].hash
                          /\ accounts'[v].must = accounts[v].must
      /\ \A v \in Users : v # u => accounts'[v] = accounts[v]
      /\ /\ IsAccount(u) /\ r.op \in {"promote", "on"}
         => /\ accounts[u].admin => accounts'[u].admin
            /\ accounts[u].active => accounts'[u].active
  <2> DEFINE a == accounts[u]
             d == IF r.op = "promote" THEN TRUE ELSE IF r.op = "demote" THEN FALSE ELSE a.admin
             e == IF r.op = "on" THEN TRUE ELSE IF r.op = "off" THEN FALSE ELSE a.active
             b == [id |-> a.id, hash |-> a.hash, must |-> a.must, admin |-> d, active |-> e]
  <2>1. IF IsAccount(u) THEN Writes(u, b) ELSE UNCHANGED accounts
    BY <1>t, AccountEdited
  <2>2. r.op \in {"promote", "on"} => (a.admin => d) /\ (a.active => e)
    OBVIOUS
  <2> HIDE DEF d, e
  <2>3. b.id = a.id /\ b.hash = a.hash /\ b.must = a.must /\ b.admin = d /\ b.active = e
    OBVIOUS
  <2> HIDE DEF b
  <2>4. CASE IsAccount(u)
    BY <2>1, <2>2, <2>3, <2>4 DEF Writes
  <2>5. CASE ~IsAccount(u)
    BY <2>1, <2>5
  <2> QED BY <2>4, <2>5
<1>3. /\ requests'[q] = IdleRequest \/ /\ requests'[q].pc = "revoking" /\ requests'[q].op = r.op
                                       /\ requests'[q].hash = r.hash
      /\ \A p \in Requests : p # q => requests'[p] = requests[p]
  BY <1>t, <1>1 DEF Ends, Goes, Request
<1>4. process.state = "up" /\ ~process.gate /\ ~Untouched
  BY <1>1, WorkingIsUp DEF AccessInv, FirstStart
<1>5. DrawnInOrder' /\ MustMatchesPassword' /\ SessionsAreCurrent' /\ ~Untouched'
  BY <1>t, <1>1, <1>2, <1>4 DEF AccessInv, DrawnInOrder, AccessKept, MustMatchesPassword,
     SessionsAreCurrent, Untouched, IsAccount, AccessTypeOK
<1>6. FirstStart'
  BY <1>1, <1>4, <1>5 DEF FirstStart
<1>7. \A p \in Requests : Fits(requests[p])'
  <2>1. Fits(requests[q])'
    BY <1>1, <1>3, IdleFitsNext DEF AccessInv, Fits
  <2> QED BY <1>1, <1>3, <2>1 DEF AccessInv, Fits
<1>8. FileIsCurrent' /\ GateOpens'
  <2>1. Pending => Pending'
    BY <1>t, <1>1, <1>2 DEF Pending, IsAccount
  <2>2. \A p \in Requests : requests[p].pc = "unlink" => requests'[p].pc = "unlink"
    BY <1>1, <1>3
  <2> QED BY <1>1, <1>4, <2>1, <2>2 DEF AccessInv, AccessKept, FileIsCurrent, GateOpens
<1>9. AnAdminRemains'
  <2> SUFFICES ASSUME ~crossed'
               PROVE  \E v \in Users : IsAccount(v)' /\ accounts'[v].admin /\ accounts'[v].active
    BY DEF AnAdminRemains
  <2> DEFINE me == r.user
  <2>1. /\ IsAccount(me) /\ accounts[me].admin /\ accounts[me].active
        /\ accounts[u].admin = r.admin
    BY <1>1 DEF Edited, IsAccount
  <2>2. CASE u # me
    BY <1>t, <1>2, <2>1, <2>2 DEF IsAccount
  <2>3. CASE u = me
    <3>1. r.op \in {"promote", "on"}
      <4>1. r.op # "off"
        BY <1>1, <2>3 DEF AccessInv, Fits
      <4>2. r.op # "demote"
        BY <1>1, <2>1, <2>3 DEF AccessInv, Fits
      <4> QED BY <1>1, <4>1, <4>2
    <3>2. accounts'[me].admin /\ accounts'[me].active
      BY <1>2, <2>1, <2>3, <3>1
    <3> QED BY <1>t, <1>2, <2>1, <3>2 DEF IsAccount
  <2> QED BY <2>2, <2>3
<1>10. Populated'
  BY <1>1, <1>2, ZenonT(60) DEF AccessInv, Populated, Edited, IsAccount
<1> QED BY <1>5, <1>6, <1>7, <1>8, <1>9, <1>10 DEF AccessInv, AccessKept

LEMMA DeleteKeeps ==
    ASSUME AccessInv, AccessTypeOK', NEW q \in Requests, DeleteUser(q)
    PROVE  AccessInv'
<1> DEFINE r == requests[q]
           u == r.target
<1>t. /\ requests \in [Requests -> Request] /\ u \in Users /\ r.user \in Users
      /\ accounts \in [Users -> Account] /\ Root \in Users /\ AccessTypeOK
      /\ passwords.drawn \in Nat
  BY AccessAssumption DEF AccessInv, AccessTypeOK, Request
<1>1. /\ UNCHANGED <<logins, credFile, process, passwords>> /\ Edited(q) /\ Ends(q)
      /\ At(q, "ready", "delete") /\ tokens' = WithoutTokensOf(u)
  BY <1>t, AccountDeleted
<1>2. /\ \A v \in Users : v # u => accounts'[v] = accounts[v]
      /\ accounts'[u].id # "used" /\ (accounts'[u].hash = 0 \/ accounts'[u] = accounts[u])
  <2> DEFINE a == [NoAccount EXCEPT !.id = "gone"]
  <2>1. IF IsAccount(u) THEN Writes(u, a) ELSE UNCHANGED accounts
    BY <1>t, AccountDeleted
  <2>2. a.id = "gone" /\ a.hash = 0
    BY DEF NoAccount
  <2> HIDE DEF a
  <2> QED BY <2>1, <2>2 DEF Writes, IsAccount
<1>3. /\ requests'[q] = IdleRequest
      /\ \A p \in Requests : p # q => requests'[p] = requests[p]
  BY <1>t, <1>1 DEF Ends
<1>4. process.state = "up" /\ ~process.gate /\ ~Untouched /\ r.pc = "ready"
  BY <1>1, WorkingIsUp DEF AccessInv, FirstStart, At
<1>5. DrawnInOrder'
  <2>1. ASSUME NEW v \in Users
        PROVE  /\ accounts'[v].hash <= passwords.drawn
               /\ IsAccount(v)' => IsAccount(v) /\ accounts'[v] = accounts[v]
    BY <1>t, <1>2, <2>1 DEF AccessInv, DrawnInOrder, IsAccount
  <2> QED BY <1>1, <2>1 DEF AccessInv, DrawnInOrder, IsAccount
<1>6. ~Untouched'
  <2>1. CASE u = Root
    BY <1>2, <2>1 DEF Untouched, IsAccount
  <2>2. CASE u # Root
    BY <1>t, <1>1, <1>2, <1>4, <2>2 DEF Untouched, IsAccount
  <2> QED BY <2>1, <2>2
<1>7. FirstStart'
  BY <1>1, <1>4, <1>6 DEF FirstStart
<1>8. \A p \in Requests : Fits(requests[p])'
  BY <1>1, <1>3, IdleFitsNext DEF AccessInv, Fits
<1>9. MustMatchesPassword'
  <2> SUFFICES ASSUME NEW v \in Users, IsAccount(v)'
               PROVE  accounts'[v].must <=> accounts'[v].hash \in passwords'.temporary
    BY DEF MustMatchesPassword
  <2>1. v # u /\ accounts'[v] = accounts[v] /\ IsAccount(v)
    <3>1. accounts'[v].id = "used"
      BY DEF IsAccount
    <3>2. v # u
      BY <1>2, <3>1
    <3> QED BY <1>2, <3>1, <3>2 DEF IsAccount
  <2> QED BY <1>1, <2>1 DEF AccessInv, AccessKept, MustMatchesPassword
<1>10. SessionsAreCurrent'
  BY <1>t, <1>1, <1>2 DEF AccessInv, AccessKept, SessionsAreCurrent, WithoutTokensOf,
     IsAccount, AccessTypeOK
<1>11. FileIsCurrent' /\ GateOpens'
  <2>1. \A p \in Requests : requests[p].pc = "unlink" => requests'[p].pc = "unlink"
    BY <1>3, <1>4
  <2>2. credFile = passwords.initial => credFile = 0 \/ ~Pending
    BY <1>4 DEF Pending, Untouched
  <2> QED BY <1>1, <1>4, <2>1, <2>2 DEF AccessInv, AccessKept, FileIsCurrent, GateOpens
<1>12. AnAdminRemains'
  <2> DEFINE me == r.user
  <2>1. u # me
    BY <1>1 DEF At, AccessInv, Fits
  <2>2. crossed' \/ (IsAccount(me) /\ accounts[me].admin /\ accounts[me].active)
    BY <1>1 DEF Edited, IsAccount
  <2> QED BY <1>t, <1>2, <2>1, <2>2 DEF AnAdminRemains, IsAccount
<1>13. Populated'
  <2>1. r.user # u /\ (crossed' \/ IsAccount(r.user))
    BY <1>1 DEF At, AccessInv, Fits, Edited, IsAccount
  <2> QED BY <1>t, <1>2, <2>1 DEF Populated, IsAccount
<1> QED BY <1>5, <1>7, <1>8, <1>9, <1>10, <1>11, <1>12, <1>13 DEF AccessInv, AccessKept

-----------------------------------------------------------------------------
LEMMA AccessStep ==
    ASSUME AccessInv, [AccessNext]_accessVars
    PROVE  AccessInv'
<1>1. AccessTypeOK'
  BY TypesStep DEF AccessInv
<1>2. CASE LockEnds \/ (\E t \in tokens : TokenEnds(t)) \/ UNCHANGED accessVars
  BY <1>1, <1>2, Rests DEF LockEnds, TokenEnds, accessVars
<1> QED BY <1>1, <1>2, StartKeeps, CrashKeeps, AuthenticateKeeps, ReadTargetKeeps, LoginKeeps,
        RevokeKeeps, ReleaseKeeps, PasswordsKeep, CreateKeeps, EditKeeps, DeleteKeeps
        DEF AccessNext

LEMMA AccessStart == AccessInit => AccessInv
<1> SUFFICES ASSUME AccessInit PROVE AccessInv
  OBVIOUS
<1>1. AccessTypeOK
  BY TypesStart
<1>2. \A q \in Requests : requests[q] = IdleRequest /\ Fits(requests[q])
  BY DEF AccessInit, IdleRequest, Fits
<1>3. \A u \in Users : ~IsAccount(u) /\ accounts[u].hash = 0
  BY DEF AccessInit, IsAccount, NoAccount
<1>4. DrawnInOrder
  BY <1>3 DEF AccessInit, DrawnInOrder
<1>5. FirstStart
  BY <1>2, <1>3, AccessAssumption DEF AccessInit, FirstStart, Untouched
<1>6. AccessKept
  BY <1>3 DEF AccessInit, AccessKept, MustMatchesPassword, FileIsCurrent, GateOpens,
     SessionsAreCurrent, AnAdminRemains
<1>7. Populated
  BY DEF AccessInit, Populated
<1> QED BY <1>1, <1>2, <1>4, <1>5, <1>6, <1>7 DEF AccessInv

(* For every number of accounts, requests, passwords and starts: a          *)
(* temporary password must be changed and only that; the initial one is on *)
(* disk no longer than it stands; the gate opens; sessions end with the    *)
(* password they rest on; and admins that see each other's edits always    *)
(* leave one of them.                                                      *)
THEOREM AccessIsKept == AccessSpec => []AccessKept
<1>1. AccessInit => AccessInv
  BY AccessStart
<1>2. AccessInv /\ [AccessNext]_accessVars => AccessInv'
  BY AccessStep
<1>3. AccessInv => AccessKept
  BY DEF AccessInv
<1> QED BY <1>1, <1>2, <1>3, PTL DEF AccessSpec

-----------------------------------------------------------------------------
(* Numbers and buckets                                                     *)

Multiple(n, ticks) == \E m \in Nat : n = m * ticks

(* A least number of a set of numbers, from the library's theorem that <   *)
(* is well-founded on them; and so a greatest one of a bounded set.        *)
Below == {p \in Nat \X Nat : p[1] < p[2]}

LEMMA BelowIsWellFounded == IsWellFoundedOn(Below, Nat)
<1>1. OpToRel(<, Nat) = Below
  BY Zenon DEF OpToRel, Below
<1> QED BY <1>1, NatLessThanWellFounded, Zenon

LEMMA GreatestNumber ==
    ASSUME NEW some, some \subseteq Nat, some # {}, NEW n \in Nat, \A x \in some : x <= n
    PROVE  Max(some) \in some /\ \A x \in some : Max(some) >= x
<1> DEFINE gaps == {n - x : x \in some}
<1>1. gaps \subseteq Nat /\ gaps # {}
  <2>1. \A x \in some : x \in Nat /\ n - x \in Nat
    OBVIOUS
  <2> QED BY <2>1
<1>2. PICK g \in gaps : \A h \in gaps : ~(<<h, g>> \in Below)
  <2> HIDE DEF gaps
  <2> QED BY <1>1, WFMin, BelowIsWellFounded
<1>3. PICK m \in some : g = n - m
  BY <1>2
<1>4. \A x \in some : m >= x
  <2> SUFFICES ASSUME NEW x \in some PROVE m >= x
    OBVIOUS
  <2>1. n - x \in gaps /\ n - x \in Nat /\ g \in Nat
    BY <1>1, <1>2
  <2>2. ~(n - x < g)
    BY <1>2, <2>1 DEF Below
  <2> QED BY <1>3, <2>2
<1>5. Max(some) = CHOOSE x \in some : \A y \in some : x >= y
  BY DEF Max
<1> QED BY <1>4, <1>5

(* A number that is not before a multiple is not before the next one only  *)
(* if it lies in its bucket.                                               *)
LEMMA Multiples ==
    ASSUME NEW ticks \in Nat \ {0}, NEW a, NEW b, Multiple(a, ticks), Multiple(b, ticks)
    PROVE  /\ a \in Nat /\ b \in Nat
           /\ a < b => a + ticks <= b
<1>1. PICK m \in Nat : a = m * ticks
  BY DEF Multiple
<1>2. PICK n \in Nat : b = n * ticks
  BY DEF Multiple
<1>3. m * ticks \in Nat /\ n * ticks \in Nat
  OBVIOUS
<1>4. n <= m => n * ticks <= m * ticks
  OBVIOUS
<1>5. m + 1 <= n => (m + 1) * ticks <= n * ticks
  OBVIOUS
<1>6. (m + 1) * ticks = m * ticks + ticks
  OBVIOUS
<1>7. n <= m \/ m + 1 <= n
  OBVIOUS
<1> QED BY <1>1, <1>2, <1>3, <1>4, <1>5, <1>6, <1>7

LEMMA Bucketing ==
    ASSUME NEW ticks \in Nat \ {0}, NEW t \in Nat
    PROVE  /\ BucketOf(t, ticks) \in Nat /\ Multiple(BucketOf(t, ticks), ticks)
           /\ BucketOf(t, ticks) <= t /\ t < BucketOf(t, ticks) + ticks
<1> DEFINE q == t \div ticks
           r == t % ticks
<1>1. q \in Nat /\ r \in 0 .. ticks - 1 /\ t = ticks * q + r
  OBVIOUS
<1>2. BucketOf(t, ticks) = q * ticks
  BY DEF BucketOf
<1> HIDE DEF q, r
<1>3. q * ticks \in Nat /\ q * ticks <= t /\ t < q * ticks + ticks
  BY <1>1
<1>4. Multiple(q * ticks, ticks)
  BY <1>1 DEF Multiple
<1> QED BY <1>2, <1>3, <1>4

LEMMA BucketIs ==
    ASSUME NEW ticks \in Nat \ {0}, NEW t \in Nat, NEW b, Multiple(b, ticks), b <= t, t < b + ticks
    PROVE  BucketOf(t, ticks) = b
<1>1. /\ BucketOf(t, ticks) \in Nat /\ Multiple(BucketOf(t, ticks), ticks)
      /\ BucketOf(t, ticks) <= t /\ t < BucketOf(t, ticks) + ticks
  BY Bucketing
<1> DEFINE c == BucketOf(t, ticks)
<1> HIDE DEF c
<1>2. Multiple(c, ticks) /\ c \in Nat /\ c <= t /\ t < c + ticks
  BY <1>1 DEF c
<1>3. b \in Nat /\ (b < c => b + ticks <= c) /\ (c < b => c + ticks <= b)
  BY <1>2, Multiples
<1>4. c = b
  BY <1>2, <1>3
<1> QED BY <1>4 DEF c

(* A bucket ends before a multiple that it begins before.                  *)
LEMMA BucketEnds ==
    ASSUME NEW ticks \in Nat \ {0}, NEW t \in Nat, NEW b, Multiple(b, ticks)
    PROVE  /\ t < b <=> BucketOf(t, ticks) < b
           /\ t < b => BucketOf(t, ticks) + ticks <= b
<1> DEFINE c == BucketOf(t, ticks)
<1>1. Multiple(c, ticks) /\ c \in Nat /\ c <= t /\ t < c + ticks
  BY Bucketing
<1> HIDE DEF c
<1>2. b \in Nat /\ (c < b => c + ticks <= b)
  BY <1>1, Multiples
<1> QED BY <1>1, <1>2 DEF c

LEMMA CoarserMultiple ==
    ASSUME NEW b, Multiple(b, CoarseTicks)
    PROVE  Multiple(b, FineTicks)
<1>1. FineTicks \in Nat \ {0} /\ CoarseTicks \in Nat \ {0} /\ CoarseTicks % FineTicks = 0
  BY RollupAssumption
<1>2. PICK m \in Nat : b = m * CoarseTicks
  BY DEF Multiple
<1> DEFINE q == CoarseTicks \div FineTicks
<1>3. CoarseTicks = FineTicks * q + (CoarseTicks % FineTicks) /\ q \in Nat
  BY <1>1
<1>4. CoarseTicks = q * FineTicks
  BY <1>1, <1>3
<1> HIDE DEF q
<1>5. b = (m * q) * FineTicks /\ m * q \in Nat
  BY <1>1, <1>2, <1>3, <1>4
<1> QED BY <1>5 DEF Multiple

LEMMA FineInCoarse ==
    /\ FineTicks \in Nat \ {0} /\ CoarseTicks \in Nat \ {0} /\ FineTicks <= CoarseTicks
    /\ \A t \in Nat : BucketOf(BucketOf(t, FineTicks), CoarseTicks) = BucketOf(t, CoarseTicks)
<1>1. FineTicks \in Nat \ {0} /\ CoarseTicks \in Nat \ {0} /\ CoarseTicks % FineTicks = 0
  BY RollupAssumption
<1>2. FineTicks <= CoarseTicks
  <2>1. CoarseTicks < FineTicks => CoarseTicks % FineTicks = CoarseTicks
    BY <1>1
  <2> QED BY <1>1, <2>1
<1>3. ASSUME NEW t \in Nat
      PROVE  BucketOf(BucketOf(t, FineTicks), CoarseTicks) = BucketOf(t, CoarseTicks)
  <2> DEFINE f == BucketOf(t, FineTicks)
             c == BucketOf(t, CoarseTicks)
  <2>1. f \in Nat /\ f <= t /\ Multiple(f, FineTicks) /\ t < f + FineTicks
    BY <1>1, Bucketing
  <2>2. c \in Nat /\ c <= t /\ Multiple(c, CoarseTicks) /\ t < c + CoarseTicks
    BY <1>1, Bucketing
  <2> HIDE DEF f, c
  <2>3. Multiple(c, FineTicks)
    BY <2>2, CoarserMultiple
  <2>4. f < c => f + FineTicks <= c
    BY <1>1, <2>1, <2>3, Multiples
  <2>5. c <= f /\ f < c + CoarseTicks
    BY <1>1, <2>1, <2>2, <2>4
  <2>6. BucketOf(f, CoarseTicks) = c
    BY <1>1, <2>1, <2>2, <2>5, BucketIs
  <2> QED BY <2>6 DEF f, c
<1> QED BY <1>1, <1>2, <1>3

LEMMA BucketOfOne == \A t \in Nat : BucketOf(t, 1) = t
BY DEF BucketOf

-----------------------------------------------------------------------------
(* What the three series hold                                              *)

FineOf(t) == BucketOf(t, FineTicks)
CoarseOf(t) == BucketOf(t, CoarseTicks)
InRaw(t) == \E p \in raw : p.ts = t
InFine(t) == \E p \in fine : p.ts = FineOf(t)
InCoarse(t) == \E p \in coarse : p.ts = CoarseOf(t)
RolledUp(t) == InFine(t) \/ InCoarse(t)

(* What a run that began at `now` rolls up, with that retention.           *)
Until(cap, now, days) == now - Greater(0, Lesser(cap, days) - 1) * DayTicks
FineEnd(now, days) == BucketOf(Greater(Until(RawDays, now, days), 0), FineTicks)
CoarseEnd(now, days) == BucketOf(Greater(Until(FineDays, now, days), 0), CoarseTicks)

Row == [ts : Nat, down : BOOLEAN]

RollupTyped ==
    /\ clock \in Nat /\ keep \in Nat \ {0}
    /\ raw \subseteq Row /\ fine \subseteq Row /\ coarse \subseteq Row
    /\ job \in [step : 0 .. 5, now : Nat, keep : Nat \ {0}, due : Nat]
    /\ record \in [gaps : SUBSET Nat, downs : SUBSET Nat, expired : Int,
                   rolled : Nat, late : Int, troubles : Int]

(* Points are of complete buckets, and nothing is kept for longer than the *)
(* retention that is in force, or was when the run began.                  *)
RollupTimes ==
    /\ \A p \in raw : p.ts < clock
    /\ \A p \in fine : Multiple(p.ts, FineTicks) /\ p.ts + FineTicks <= clock
    /\ \A p \in coarse : Multiple(p.ts, CoarseTicks) /\ p.ts + CoarseTicks <= clock
    /\ \A t \in record.downs : t < clock
    /\ record.rolled <= clock
    /\ record.expired >= clock - keep * DayTicks
    /\ job.step # 0 => /\ job.now <= clock /\ clock <= job.now + 1
                       /\ record.expired >= job.now - job.keep * DayTicks
    /\ job.step \in {4, 5} => \A p \in raw : p.ts >= job.now - Lesser(RawDays, job.keep) * DayTicks

(* It is in a series, and what shows it shows it down.                     *)
OnShow(t) ==
    /\ InRaw(t) \/ RolledUp(t)
    /\ t \in record.downs =>
         /\ \A p \in raw : p.ts = t => p.down
         /\ \A p \in fine : p.ts = FineOf(t) => p.down
         /\ \A p \in coarse : p.ts = CoarseOf(t) => p.down

(* No later roll-up goes back to what is before the newest point, nor has  *)
(* it any reason to: what lost its 5-minute point left no sample behind.   *)
NotRevisited(t) ==
    /\ (\E p \in fine : t < p.ts + FineTicks) => RolledUp(t)
    /\ (\E p \in coarse : t < p.ts + CoarseTicks) => InCoarse(t)
    /\ InCoarse(t) /\ ~InFine(t) =>
         /\ FineOf(t) < clock - FineDays * DayTicks
         /\ \A p \in raw : FineOf(p.ts) # FineOf(t)

(* What the run under way, and the last one that rolled up, have covered.  *)
OnTime(t) ==
    /\ t >= clock - RawDays * DayTicks => InRaw(t)
    /\ job.step \in 2 .. 5 /\ t < FineEnd(job.now, job.keep) => RolledUp(t)
    /\ job.step \in 3 .. 5 /\ t < CoarseEnd(job.now, job.keep) => InCoarse(t)
    /\ t < FineEnd(record.rolled, RawDays) => RolledUp(t)
    /\ t < CoarseEnd(record.rolled, FineDays) => InCoarse(t)

OnRecord(t) == OnShow(t) /\ NotRevisited(t) /\ OnTime(t)

RollupInv == RollupTyped /\ RollupTimes /\ \A t \in Kept : OnRecord(t)

-----------------------------------------------------------------------------
(* How far a run rolls up                                                  *)

LEMMA RollupConstants ==
    /\ DayTicks \in Nat \ {0} /\ RawDays \in Nat \ {0} /\ FineDays \in Nat \ {0}
    /\ FineTicks \in Nat \ {0} /\ CoarseTicks \in Nat \ {0}
    /\ FineTicks <= CoarseTicks /\ CoarseTicks <= DayTicks
    /\ RawDays * DayTicks \in Nat /\ FineDays * DayTicks \in Nat
    /\ RawDays * DayTicks + DayTicks <= FineDays * DayTicks
<1>1. /\ DayTicks \in Nat \ {0} /\ RawDays \in Nat \ {0} /\ FineDays \in Nat \ {0}
      /\ FineTicks \in Nat \ {0} /\ CoarseTicks \in Nat \ {0}
      /\ CoarseTicks <= DayTicks /\ RawDays + 1 <= FineDays
  BY RollupAssumption
<1>2. (RawDays + 1) * DayTicks <= FineDays * DayTicks
  BY <1>1
<1>3. (RawDays + 1) * DayTicks = RawDays * DayTicks + DayTicks
  BY <1>1
<1>4. RawDays * DayTicks \in Nat /\ FineDays * DayTicks \in Nat
  BY <1>1
<1> QED BY <1>1, <1>2, <1>3, <1>4, FineInCoarse

LEMMA LesserDays ==
    ASSUME NEW cap \in Nat \ {0}, NEW days \in Nat \ {0}
    PROVE  /\ Lesser(cap, days) \in Nat \ {0}
           /\ Lesser(cap, days) = cap \/ Lesser(cap, days) = days
           /\ Lesser(cap, days) * DayTicks \in Nat
           /\ Lesser(cap, days) * DayTicks <= cap * DayTicks
           /\ Lesser(cap, days) * DayTicks <= days * DayTicks
           /\ \A now \in Int : Until(cap, now, days) = now - Lesser(cap, days) * DayTicks + DayTicks
<1> DEFINE l == Lesser(cap, days)
<1>1. l \in Nat \ {0} /\ (l = cap \/ l = days) /\ l <= cap /\ l <= days
  BY DEF Lesser
<1> HIDE DEF l
<1>2. DayTicks \in Nat \ {0}
  BY RollupConstants
<1>3. l * DayTicks \in Nat
  BY <1>1, <1>2
<1>4. l * DayTicks <= cap * DayTicks
  BY <1>1, <1>2
<1>5. l * DayTicks <= days * DayTicks
  BY <1>1, <1>2
<1>6. Greater(0, l - 1) = l - 1
  BY <1>1 DEF Greater
<1>7. (l - 1) * DayTicks = l * DayTicks - DayTicks
  BY <1>1, <1>2
<1>8. \A now \in Int : Until(cap, now, days) = now - (l - 1) * DayTicks
  BY <1>6 DEF Until, l
<1>9. \A now \in Int : Until(cap, now, days) = now - l * DayTicks + DayTicks
  BY <1>2, <1>3, <1>7, <1>8
<1> QED BY <1>1, <1>3, <1>4, <1>5, <1>9 DEF l

(* The day a handoff runs up to is a whole number of ticks.                *)
LEMMA UntilIsWhole ==
    ASSUME NEW cap \in Nat \ {0}, NEW days \in Nat \ {0}, NEW now \in Int
    PROVE  Until(cap, now, days) \in Int
<1> DEFINE l == Lesser(cap, days) * DayTicks
           u == Until(cap, now, days)
<1>1. l \in Nat /\ \A t \in Int : Until(cap, t, days) = t - l + DayTicks
  BY LesserDays
<1> HIDE DEF l
<1>2. u = now - l + DayTicks
  BY <1>1
<1> HIDE DEF u
<1>3. u \in Int
  BY <1>1, <1>2, RollupConstants
<1> QED BY <1>3 DEF u

(* The end of what is rolled up is a whole bucket before the hand-off.     *)
LEMMA RolledUpTo ==
    ASSUME NEW cap \in Nat \ {0}, NEW ticks \in Nat \ {0}, NEW now \in Nat, NEW days \in Nat \ {0}
    PROVE  LET e == BucketOf(Greater(Until(cap, now, days), 0), ticks) IN
           /\ e \in Nat /\ Multiple(e, ticks)
           /\ e <= now \/ Lesser(cap, days) * DayTicks < DayTicks
           /\ e <= Greater(Until(cap, now, days), 0)
           /\ e + ticks > now - Lesser(cap, days) * DayTicks + DayTicks
<1> DEFINE u == Until(cap, now, days)
           g == Greater(u, 0)
           l == Lesser(cap, days) * DayTicks
           e == BucketOf(g, ticks)
<1>1. l \in Nat /\ u = now - l + DayTicks /\ DayTicks \in Nat
  BY LesserDays, RollupConstants
<1> HIDE DEF u, l
<1>2. g \in Nat /\ g >= u /\ (g = u \/ g = 0)
  BY <1>1 DEF Greater
<1> HIDE DEF g
<1>3. e \in Nat /\ Multiple(e, ticks) /\ e <= g /\ g < e + ticks
  BY <1>2, Bucketing
<1> HIDE DEF e
<1>4. e <= now \/ l < DayTicks
  BY <1>1, <1>2, <1>3
<1>5. e + ticks > now - l + DayTicks
  BY <1>1, <1>2, <1>3
<1>6. /\ e \in Nat /\ Multiple(e, ticks) /\ (e <= now \/ l < DayTicks)
      /\ e <= g /\ e + ticks > now - l + DayTicks
  BY <1>3, <1>4, <1>5
<1> QED BY <1>6 DEF e, g, u, l

LEMMA WholeDays ==
    ASSUME NEW n \in Nat \ {0}
    PROVE  n * DayTicks >= DayTicks
<1>1. DayTicks \in Nat \ {0}
  BY RollupConstants
<1>2. 1 * DayTicks <= n * DayTicks
  BY <1>1
<1> QED BY <1>1, <1>2

LEMMA FineEnds ==
    ASSUME NEW now \in Nat, NEW days \in Nat \ {0}
    PROVE  /\ FineEnd(now, days) \in Nat /\ Multiple(FineEnd(now, days), FineTicks)
           /\ FineEnd(now, days) <= now
           /\ FineEnd(now, days) + FineTicks > now - Lesser(RawDays, days) * DayTicks + DayTicks
<1>1. Lesser(RawDays, days) \in Nat \ {0} /\ RawDays \in Nat \ {0} /\ FineTicks \in Nat \ {0}
      /\ DayTicks \in Nat
  BY LesserDays, RollupConstants
<1>2. Lesser(RawDays, days) * DayTicks >= DayTicks /\ Lesser(RawDays, days) * DayTicks \in Nat
  BY <1>1, WholeDays, LesserDays
<1> DEFINE l == Lesser(RawDays, days) * DayTicks
           e == FineEnd(now, days)
<1>3. /\ e \in Nat /\ Multiple(e, FineTicks) /\ (e <= now \/ l < DayTicks)
      /\ e + FineTicks > now - l + DayTicks
  BY <1>1, RolledUpTo DEF FineEnd
<1>4. l >= DayTicks /\ l \in Nat
  BY <1>2
<1> HIDE DEF l, e
<1>5. e <= now
  BY <1>1, <1>3, <1>4
<1> QED BY <1>3, <1>5 DEF l, e

LEMMA CoarseEnds ==
    ASSUME NEW now \in Nat, NEW days \in Nat \ {0}
    PROVE  /\ CoarseEnd(now, days) \in Nat /\ Multiple(CoarseEnd(now, days), CoarseTicks)
           /\ Multiple(CoarseEnd(now, days), FineTicks)
           /\ CoarseEnd(now, days) <= now
           /\ CoarseEnd(now, days) + CoarseTicks > now - Lesser(FineDays, days) * DayTicks + DayTicks
<1>1. Lesser(FineDays, days) \in Nat \ {0} /\ FineDays \in Nat \ {0} /\ CoarseTicks \in Nat \ {0}
      /\ DayTicks \in Nat
  BY LesserDays, RollupConstants
<1>2. Lesser(FineDays, days) * DayTicks >= DayTicks /\ Lesser(FineDays, days) * DayTicks \in Nat
  BY <1>1, WholeDays, LesserDays
<1> DEFINE l == Lesser(FineDays, days) * DayTicks
           e == CoarseEnd(now, days)
<1>3. /\ e \in Nat /\ Multiple(e, CoarseTicks) /\ (e <= now \/ l < DayTicks)
      /\ e + CoarseTicks > now - l + DayTicks
  BY <1>1, RolledUpTo DEF CoarseEnd
<1>4. l >= DayTicks /\ l \in Nat
  BY <1>2
<1> HIDE DEF l, e
<1>5. e <= now /\ Multiple(e, FineTicks)
  BY <1>1, <1>3, <1>4, CoarserMultiple
<1> QED BY <1>3, <1>5 DEF l, e

(* What starts later ends later; hours end before 5 minutes.               *)
LEMMA LaterEnds ==
    ASSUME NEW ticks \in Nat \ {0}, NEW more \in Nat \ {0}, NEW x \in Nat, NEW y \in Nat, x <= y,
           Multiple(BucketOf(x, more), ticks)
    PROVE  BucketOf(x, more) <= BucketOf(y, ticks)
<1> DEFINE a == BucketOf(x, more)
           b == BucketOf(y, ticks)
<1>1. a \in Nat /\ a <= x /\ b \in Nat /\ Multiple(b, ticks) /\ y < b + ticks /\ Multiple(a, ticks)
  BY Bucketing
<1> HIDE DEF a, b
<1>2. b < a => b + ticks <= a
  BY <1>1, Multiples
<1>3. a <= b
  BY <1>1, <1>2
<1> QED BY <1>3 DEF a, b

LEMMA EndsAreOrdered ==
    ASSUME NEW now \in Nat, NEW days \in Nat \ {0}
    PROVE  /\ CoarseEnd(now, days) <= FineEnd(now, days)
           /\ FineEnd(now, RawDays) <= FineEnd(now, days)
           /\ CoarseEnd(now, FineDays) <= CoarseEnd(now, days)
<1>1. /\ RawDays \in Nat \ {0} /\ FineDays \in Nat \ {0} /\ DayTicks \in Nat
      /\ FineTicks \in Nat \ {0} /\ CoarseTicks \in Nat \ {0} /\ RawDays < FineDays
  BY RollupConstants, RollupAssumption
<1>2. \A cap, d \in Nat \ {0} : Lesser(cap, d) * DayTicks \in Nat
                                /\ Until(cap, now, d) = now - Lesser(cap, d) * DayTicks + DayTicks
  BY LesserDays
<1>3. Lesser(RawDays, days) \in Nat /\ Lesser(FineDays, days) \in Nat
      /\ Lesser(RawDays, days) <= Lesser(FineDays, days)
      /\ Lesser(RawDays, RawDays) = RawDays /\ Lesser(FineDays, FineDays) = FineDays
  BY <1>1 DEF Lesser
<1>4. /\ Lesser(RawDays, days) * DayTicks <= Lesser(FineDays, days) * DayTicks
  BY <1>1, <1>3
<1>5. /\ Lesser(RawDays, days) * DayTicks <= Lesser(RawDays, RawDays) * DayTicks
      /\ Lesser(FineDays, days) * DayTicks <= Lesser(FineDays, FineDays) * DayTicks
  BY <1>1, <1>3, LesserDays
<1> DEFINE a == Greater(Until(RawDays, now, days), 0)
           b == Greater(Until(FineDays, now, days), 0)
           c == Greater(Until(RawDays, now, RawDays), 0)
           e == Greater(Until(FineDays, now, FineDays), 0)
           p == Lesser(RawDays, days) * DayTicks
           q == Lesser(FineDays, days) * DayTicks
           r == Lesser(RawDays, RawDays) * DayTicks
           s == Lesser(FineDays, FineDays) * DayTicks
<1>6. /\ p \in Nat /\ q \in Nat /\ r \in Nat /\ s \in Nat /\ p <= q /\ p <= r /\ q <= s
      /\ a = Greater(now - p + DayTicks, 0) /\ b = Greater(now - q + DayTicks, 0)
      /\ c = Greater(now - r + DayTicks, 0) /\ e = Greater(now - s + DayTicks, 0)
  BY <1>1, <1>2, <1>4, <1>5
<1> HIDE DEF a, b, c, e, p, q, r, s
<1>7. a \in Nat /\ b \in Nat /\ c \in Nat /\ e \in Nat /\ b <= a /\ c <= a /\ e <= b
  BY <1>1, <1>6 DEF Greater
<1>8. Multiple(BucketOf(b, CoarseTicks), FineTicks)
  BY <1>1, <1>7, Bucketing, CoarserMultiple
<1>9. BucketOf(b, CoarseTicks) <= BucketOf(a, FineTicks)
  BY <1>1, <1>7, <1>8, LaterEnds
<1>10. BucketOf(c, FineTicks) <= BucketOf(a, FineTicks)
  BY <1>1, <1>7, LaterEnds, Bucketing
<1>11. BucketOf(e, CoarseTicks) <= BucketOf(b, CoarseTicks)
  BY <1>1, <1>7, LaterEnds, Bucketing
<1> QED BY <1>9, <1>10, <1>11 DEF FineEnd, CoarseEnd, a, b, c, e

-----------------------------------------------------------------------------
(* What the invariant gives                                                *)

LEMMA KeptFacts ==
    ASSUME RollupTyped, NEW t \in Kept
    PROVE  /\ t \in Nat /\ t < clock /\ t \notin record.gaps /\ t >= record.expired + CoarseTicks
           /\ FineOf(t) \in Nat /\ Multiple(FineOf(t), FineTicks)
           /\ FineOf(t) <= t /\ t < FineOf(t) + FineTicks
           /\ CoarseOf(t) \in Nat /\ Multiple(CoarseOf(t), CoarseTicks)
           /\ CoarseOf(t) <= t /\ t < CoarseOf(t) + CoarseTicks
<1>1. t \in Nat /\ t < clock /\ t \notin record.gaps /\ t >= record.expired + CoarseTicks
  BY DEF RollupTyped, Kept, Measured
<1> QED BY <1>1, Bucketing, RollupConstants DEF FineOf, CoarseOf

LEMMA OutagesStay == RollupInv => OutagesStayOnRecord
<1> SUFFICES ASSUME RollupInv, NEW t \in Kept
             PROVE  /\ Answers(raw, fine, coarse, t) # {}
                    /\ \A p \in Answers(raw, fine, coarse, t) : t \in record.downs => p.down
  BY DEF OutagesStayOnRecord
<1>1. OnShow(t)
  BY DEF RollupInv, OnRecord
<1>2. BucketOf(t, 1) = t
  BY KeptFacts, BucketOfOne DEF RollupInv
<1>3. \A p : p \in Answers(raw, fine, coarse, t) <=>
             \/ p \in raw /\ p.ts = t
             \/ p \in fine /\ p.ts = FineOf(t)
             \/ p \in coarse /\ p.ts = CoarseOf(t)
  BY <1>2 DEF Answers, Covering, FineOf, CoarseOf
<1>4. \E p : p \in Answers(raw, fine, coarse, t)
  BY <1>1, <1>3 DEF OnShow, InRaw, RolledUp, InFine, InCoarse
<1> QED BY <1>1, <1>3, <1>4 DEF OnShow

LEMMA NoHole == RollupInv => NoHoleWhenOnTime
<1> SUFFICES ASSUME RollupInv, clock - record.rolled <= DayTicks - CoarseTicks, NEW t \in Kept
             PROVE  Displayed(t) # {}
  BY DEF NoHoleWhenOnTime
<1> DEFINE rawCut == clock - RawDays * DayTicks
           fineCut == clock - FineDays * DayTicks
           r == RawDays * DayTicks
           d == FineDays * DayTicks
           b == FineOf(t)
           e == FineEnd(record.rolled, RawDays)
           g == CoarseEnd(record.rolled, FineDays)
           now == record.rolled
<1>1. /\ t \in Nat /\ b \in Nat /\ Multiple(b, FineTicks) /\ b <= t /\ t < b + FineTicks
      /\ BucketOf(t, 1) = t
  BY KeptFacts, BucketOfOne DEF RollupInv
<1>2. /\ clock \in Nat /\ now \in Nat /\ now <= clock /\ clock - now <= DayTicks - CoarseTicks
      /\ r \in Nat /\ d \in Nat /\ r + DayTicks <= d
      /\ DayTicks \in Nat /\ FineTicks \in Nat \ {0} /\ CoarseTicks \in Nat \ {0}
      /\ FineTicks <= CoarseTicks
  BY RollupConstants DEF RollupInv, RollupTyped, RollupTimes
<1>3. /\ e \in Nat /\ e + FineTicks > now - r + DayTicks
      /\ g \in Nat /\ Multiple(g, FineTicks) /\ g + CoarseTicks > now - d + DayTicks
  <2>1. Lesser(RawDays, RawDays) = RawDays /\ Lesser(FineDays, FineDays) = FineDays
    BY DEF Lesser
  <2> QED BY <1>2, <2>1, FineEnds, CoarseEnds, RollupConstants
<1>4. /\ t >= rawCut => InRaw(t)
      /\ t < e => RolledUp(t)
      /\ t < g => InCoarse(t)
      /\ InCoarse(t) /\ ~InFine(t) => b < fineCut
  BY DEF RollupInv, OnRecord, OnTime, NotRevisited
<1>5. rawCut = clock - r /\ fineCut = clock - d
  OBVIOUS
<1>6. \A p : p \in Displayed(t) <=>
             \/ p \in raw /\ p.ts >= rawCut /\ p.ts = t
             \/ p \in fine /\ p.ts >= fineCut /\ p.ts < rawCut /\ p.ts = b
             \/ p \in coarse /\ p.ts < fineCut /\ p.ts = CoarseOf(t)
  BY <1>1 DEF Displayed, Answers, Covering, Since, FineOf, CoarseOf
<1>7. CoarseOf(t) \in Nat /\ CoarseOf(t) <= b
  <2>1. CoarseOf(t) = BucketOf(b, CoarseTicks)
    BY <1>1, FineInCoarse DEF CoarseOf, FineOf
  <2> HIDE DEF b
  <2> QED BY <1>1, <1>2, <2>1, Bucketing
<1>8. g \in Nat /\ (b < g => b + FineTicks <= g)
  BY <1>1, <1>2, <1>3, Multiples
<1> HIDE DEF rawCut, fineCut, r, d, b, e, g, now
<1>9. CASE t >= rawCut
  BY <1>4, <1>6, <1>9 DEF InRaw
<1>10. CASE t < rawCut /\ b >= fineCut
  <2>1. t < e
    BY <1>1, <1>2, <1>3, <1>5, <1>10
  <2>2. InFine(t)
    BY <1>1, <1>2, <1>4, <1>5, <1>10, <2>1 DEF RolledUp
  <2>3. b < rawCut
    BY <1>1, <1>2, <1>5, <1>10
  <2> QED BY <1>6, <1>10, <2>2, <2>3 DEF InFine, b
<1>11. CASE t < rawCut /\ b < fineCut
  <2>1. b < g
    BY <1>1, <1>2, <1>3, <1>5, <1>11
  <2>2. t < g
    BY <1>1, <1>2, <1>8, <2>1
  <2>3. InCoarse(t) /\ CoarseOf(t) < fineCut
    BY <1>1, <1>2, <1>4, <1>5, <1>7, <1>11, <2>2
  <2> QED BY <1>6, <2>3 DEF InCoarse
<1> QED BY <1>1, <1>2, <1>5, <1>9, <1>10, <1>11

LEMMA RollupStart == RollupInit => RollupInv
<1> SUFFICES ASSUME RollupInit PROVE RollupInv
  OBVIOUS
<1> DEFINE z == 0
           x == z - DayTicks
           one == 1
<1>1. /\ clock = z /\ raw = {} /\ fine = {} /\ coarse = {} /\ keep \in KeepDays
      /\ job = [step |-> z, now |-> z, keep |-> one, due |-> z]
      /\ record = [gaps |-> {}, downs |-> {}, expired |-> x, rolled |-> z, late |-> z, troubles |-> z]
  BY DEF RollupInit, NoJob
<1>2. z = 0 /\ one \in Nat \ {0} /\ x \in Int /\ x = 0 - DayTicks /\ z \in 0 .. 5 /\ z \in Nat /\ z \in Int
  BY RollupConstants
<1> HIDE DEF z, x, one
<1>3. /\ job \in [step : 0 .. 5, now : Nat, keep : Nat \ {0}, due : Nat] /\ job.step = 0
      /\ record \in [gaps : SUBSET Nat, downs : SUBSET Nat, expired : Int,
                     rolled : Nat, late : Int, troubles : Int]
      /\ record.expired = 0 - DayTicks /\ record.downs = {} /\ record.rolled = 0
  BY <1>1, <1>2
<1>4. keep \in Nat \ {0} /\ keep * DayTicks >= DayTicks /\ keep * DayTicks \in Nat
  <2>1. keep \in Nat \ {0} /\ DayTicks \in Nat
    BY <1>1, RollupAssumption
  <2> QED BY <2>1, WholeDays
<1>5. RollupTyped /\ clock = 0
  BY <1>1, <1>2, <1>3, <1>4 DEF RollupTyped
<1>6. RollupTimes
  BY <1>1, <1>3, <1>4, <1>5, RollupConstants DEF RollupTimes
<1>7. Kept = {}
  BY <1>5, KeptFacts
<1> QED BY <1>5, <1>6, <1>7 DEF RollupInv

-----------------------------------------------------------------------------
(* Rolling up: the buckets behind the newest point, up to the hand-off     *)

(* What rolling `source` up into `target` gives, from the bucket at `lo`.   *)
RolledFrom(lo, source, target, rolled, ticks, hi) ==
    /\ Multiple(lo, ticks)
    /\ target = {} => lo = 0
    /\ target # {} => \E p \in target : lo = p.ts + ticks
    /\ \A p \in target : p.ts + ticks <= lo
    /\ target \subseteq rolled /\ rolled \subseteq Row
    /\ \A p \in rolled \ target :
         /\ Multiple(p.ts, ticks) /\ lo <= p.ts /\ p.ts + ticks <= hi
         /\ \E s \in source : BucketOf(s.ts, ticks) = p.ts
         /\ \A s \in source : BucketOf(s.ts, ticks) = p.ts /\ s.down => p.down
    /\ \A s \in source : lo <= s.ts /\ s.ts < hi =>
         \E p \in rolled : p.ts = BucketOf(s.ts, ticks)

LEMMA RollsUp ==
    ASSUME NEW source, NEW target, NEW ticks \in Nat \ {0}, NEW until \in Int, NEW n \in Nat,
           source \subseteq Row, target \subseteq Row,
           \A p \in target : Multiple(p.ts, ticks) /\ p.ts <= n
    PROVE  \E lo \in Nat :
             RolledFrom(lo, source, target, Downsampled(source, target, ticks, until),
                        ticks, BucketOf(Greater(until, 0), ticks))
<1> DEFINE times == {p.ts : p \in target}
           watermark == Max(times)
           lo == IF target = {} THEN 0 ELSE BucketOf(watermark, ticks) + ticks
           hi == BucketOf(Greater(until, 0), ticks)
           inside == {p \in source : p.ts >= lo /\ p.ts < hi}
           Made(b) == [ts |-> b, down |-> \E p \in inside : BucketOf(p.ts, ticks) = b /\ p.down]
           buckets == {BucketOf(p.ts, ticks) : p \in inside}
           rolled == Downsampled(source, target, ticks, until)
<1>1. rolled = target \union {Made(b) : b \in buckets}
  BY DEF Downsampled
<1>2. /\ \A p \in source : p.ts \in Nat /\ p.down \in BOOLEAN
      /\ \A p \in target : p.ts \in Nat /\ Multiple(p.ts, ticks) /\ p.ts <= n
  BY DEF Row
<1>3. hi \in Nat /\ Multiple(hi, ticks)
  <2>1. Greater(until, 0) \in Nat
    BY DEF Greater
  <2> QED BY <2>1, Bucketing
<1>4. /\ lo \in Nat /\ Multiple(lo, ticks)
      /\ target = {} => lo = 0
      /\ target # {} => \E p \in target : lo = p.ts + ticks
      /\ \A p \in target : p.ts + ticks <= lo
  <2>1. CASE target = {}
    <3>1. lo = 0
      BY <2>1
    <3>2. Multiple(0, ticks)
      <4>1. 0 = 0 * ticks /\ 0 \in Nat
        OBVIOUS
      <4> QED BY <4>1 DEF Multiple
    <3> QED BY <2>1, <3>1, <3>2
  <2>2. CASE target # {}
    <3>1. times \subseteq Nat /\ times # {} /\ \A x \in times : x <= n
      BY <1>2, <2>2
    <3>2. watermark \in times /\ \A x \in times : watermark >= x
      <4> HIDE DEF times
      <4> QED BY <3>1, GreatestNumber
    <3>3. PICK p \in target : watermark = p.ts
      BY <3>2
    <3>4. watermark \in Nat /\ Multiple(watermark, ticks)
      BY <1>2, <3>3
    <3>5. \A q \in target : q.ts <= watermark /\ q.ts \in Nat
      BY <1>2, <3>2
    <3> HIDE DEF watermark
    <3>6. BucketOf(watermark, ticks) = watermark
      BY <3>4, BucketIs
    <3>7. lo = watermark + ticks
      BY <2>2, <3>6
    <3>8. Multiple(watermark + ticks, ticks)
      <4>1. PICK m \in Nat : watermark = m * ticks
        BY <3>4 DEF Multiple
      <4>2. (m + 1) * ticks = m * ticks + ticks
        OBVIOUS
      <4>3. m + 1 \in Nat /\ watermark + ticks = (m + 1) * ticks
        BY <4>1, <4>2
      <4> QED BY <4>3 DEF Multiple
    <3> HIDE DEF lo
    <3> QED BY <2>2, <3>3, <3>4, <3>5, <3>7, <3>8
  <2> HIDE DEF lo
  <2> QED BY <2>1, <2>2
<1> HIDE DEF lo, hi, watermark, times
<1>5. \A p \in inside : /\ p \in source /\ p.ts \in Nat /\ lo <= p.ts /\ p.ts < hi
                        /\ BucketOf(p.ts, ticks) \in Nat /\ Multiple(BucketOf(p.ts, ticks), ticks)
                        /\ lo <= BucketOf(p.ts, ticks) /\ BucketOf(p.ts, ticks) + ticks <= hi
  <2> SUFFICES ASSUME NEW p \in inside
               PROVE  /\ p \in source /\ p.ts \in Nat /\ lo <= p.ts /\ p.ts < hi
                      /\ BucketOf(p.ts, ticks) \in Nat /\ Multiple(BucketOf(p.ts, ticks), ticks)
                      /\ lo <= BucketOf(p.ts, ticks) /\ BucketOf(p.ts, ticks) + ticks <= hi
    OBVIOUS
  <2>1. p \in source /\ p.ts \in Nat /\ lo <= p.ts /\ p.ts < hi
    BY <1>2, <1>4
  <2>2. BucketOf(p.ts, ticks) \in Nat /\ Multiple(BucketOf(p.ts, ticks), ticks)
    BY <2>1, Bucketing
  <2>3. BucketOf(p.ts, ticks) + ticks <= hi
    BY <1>3, <2>1, BucketEnds
  <2>4. ~(BucketOf(p.ts, ticks) < lo)
    <3>1. p.ts < lo <=> BucketOf(p.ts, ticks) < lo
      BY <1>4, <2>1, BucketEnds
    <3> QED BY <1>4, <2>1, <3>1
  <2> QED BY <1>4, <2>1, <2>2, <2>3, <2>4
<1>6. \A b : Made(b).ts = b /\ Made(b).down \in BOOLEAN
             /\ (Made(b).down <=> \E p \in inside : BucketOf(p.ts, ticks) = b /\ p.down)
  <2> SUFFICES ASSUME NEW b
               PROVE  Made(b).ts = b /\ Made(b).down \in BOOLEAN
                      /\ (Made(b).down <=> \E p \in inside : BucketOf(p.ts, ticks) = b /\ p.down)
    OBVIOUS
  <2> DEFINE d == \E p \in inside : BucketOf(p.ts, ticks) = b /\ p.down
  <2>1. d \in BOOLEAN
    OBVIOUS
  <2>2. Made(b) = [ts |-> b, down |-> d]
    OBVIOUS
  <2> HIDE DEF d
  <2>3. Made(b).ts = b /\ Made(b).down = d
    BY <2>2
  <2> HIDE DEF Made
  <2> QED BY <2>1, <2>3 DEF d
<1>7. \A b \in buckets : Made(b) \in Row
  <2> SUFFICES ASSUME NEW b \in buckets PROVE Made(b) \in Row
    OBVIOUS
  <2> DEFINE d == \E p \in inside : BucketOf(p.ts, ticks) = b /\ p.down
  <2>1. d \in BOOLEAN /\ b \in Nat /\ Made(b) = [ts |-> b, down |-> d]
    BY <1>5
  <2> HIDE DEF d, Made
  <2> QED BY <2>1 DEF Row
<1> HIDE DEF Made, rolled
<1>8. ASSUME NEW p \in rolled \ target
      PROVE  /\ Multiple(p.ts, ticks) /\ lo <= p.ts /\ p.ts + ticks <= hi
             /\ \E s \in source : BucketOf(s.ts, ticks) = p.ts
             /\ \A s \in source : BucketOf(s.ts, ticks) = p.ts /\ s.down => p.down
  <2>1. PICK b \in buckets : p = Made(b)
    BY <1>1
  <2>2. PICK x \in inside : b = BucketOf(x.ts, ticks)
    BY <2>1
  <2>3. p.ts = b /\ (p.down <=> \E q \in inside : BucketOf(q.ts, ticks) = b /\ q.down)
    BY <1>6, <2>1
  <2>4. Multiple(b, ticks) /\ b \in Nat /\ lo <= b /\ b + ticks <= hi /\ x \in source
    BY <1>5, <2>2
  <2>5. ASSUME NEW s \in source, BucketOf(s.ts, ticks) = b, s.down PROVE p.down
    <3>1. s.ts \in Nat /\ b <= s.ts /\ s.ts < b + ticks
      BY <1>2, <2>5, Bucketing
    <3>2. s \in inside
      BY <1>3, <1>4, <2>4, <2>5, <3>1
    <3> QED BY <2>3, <2>5, <3>2
  <2> QED BY <2>2, <2>3, <2>4, <2>5
<1>9. ASSUME NEW s \in source, lo <= s.ts, s.ts < hi
      PROVE  \E p \in rolled : p.ts = BucketOf(s.ts, ticks)
  <2>1. s \in inside
    BY <1>2, <1>4, <1>9
  <2>2. BucketOf(s.ts, ticks) \in buckets
    BY <2>1
  <2>3. Made(BucketOf(s.ts, ticks)) \in rolled
    BY <1>1, <2>2
  <2> QED BY <1>6, <2>3
<1>10. target \subseteq rolled /\ rolled \subseteq Row
  BY <1>1, <1>7
<1> HIDE DEF inside, buckets
<1>11. \A s \in source : lo <= s.ts /\ s.ts < hi => \E p \in rolled : p.ts = BucketOf(s.ts, ticks)
  BY <1>9
<1>12. \A p \in rolled \ target :
         /\ Multiple(p.ts, ticks) /\ lo <= p.ts /\ p.ts + ticks <= hi
         /\ \E s \in source : BucketOf(s.ts, ticks) = p.ts
         /\ \A s \in source : BucketOf(s.ts, ticks) = p.ts /\ s.down => p.down
  BY <1>8
<1>13. RolledFrom(lo, source, target, rolled, ticks, hi)
  BY <1>4, <1>10, <1>11, <1>12, Zenon DEF RolledFrom
<1> QED BY <1>4, <1>13, Zenon DEF hi, rolled

-----------------------------------------------------------------------------
(* Each step keeps it                                                      *)

LEMMA KeptLess ==
    ASSUME RollupTyped, clock' = clock, record'.gaps = record.gaps,
           record'.expired \in Int, record'.expired >= record.expired
    PROVE  Kept' \subseteq Kept
BY RollupConstants DEF RollupTyped, Kept, Measured

(* What no series is part of.                                              *)
LEMMA SeriesAlone ==
    ASSUME RollupInv, clock' = clock, raw' = raw, fine' = fine, coarse' = coarse,
           record'.gaps = record.gaps, record'.downs = record.downs,
           record'.rolled = record.rolled,
           record'.expired \in Int, record'.expired >= record.expired,
           job' = job \/ job'.step \notin 2 .. 5
    PROVE  \A t \in Kept' : OnRecord(t)'
<1> SUFFICES ASSUME NEW t \in Kept' PROVE OnRecord(t)'
  OBVIOUS
<1>1. t \in Kept
  BY KeptLess DEF RollupInv
<1>2. OnShow(t) /\ NotRevisited(t) /\ OnTime(t)
  BY <1>1 DEF RollupInv, OnRecord
<1>3. OnShow(t)'
  BY <1>2 DEF OnShow, InRaw, RolledUp, InFine, InCoarse
<1>4. NotRevisited(t)'
  BY <1>2 DEF NotRevisited, RolledUp, InFine, InCoarse
<1>5. OnTime(t)'
  BY <1>2 DEF OnTime, InRaw, RolledUp, InFine, InCoarse
<1> QED BY <1>3, <1>4, <1>5 DEF OnRecord

LEMMA StartingKeeps == RollupInv /\ StartHousekeeping => RollupInv'
<1> SUFFICES ASSUME RollupInv, StartHousekeeping PROVE RollupInv'
  OBVIOUS
<1> DEFINE one == 1
<1>1. /\ job' = [step |-> one, now |-> clock, keep |-> keep, due |-> clock + DayTicks]
      /\ clock' = clock /\ raw' = raw /\ fine' = fine /\ coarse' = coarse /\ keep' = keep
      /\ record' = record
  BY DEF StartHousekeeping
<1>2. one \in 0 .. 5 /\ one \notin 2 .. 5 /\ one \notin {4, 5} /\ clock + DayTicks \in Nat
  BY RollupConstants DEF RollupInv, RollupTyped
<1> HIDE DEF one
<1>3. /\ job' \in [step : 0 .. 5, now : Nat, keep : Nat \ {0}, due : Nat]
      /\ job'.step = one /\ job'.now = clock /\ job'.keep = keep
  BY <1>1, <1>2 DEF RollupInv, RollupTyped
<1>4. RollupTyped'
  BY <1>1, <1>3 DEF RollupInv, RollupTyped
<1>5. RollupTimes'
  BY <1>1, <1>2, <1>3 DEF RollupInv, RollupTyped, RollupTimes
<1>6. record.expired \in Int /\ record.expired >= record.expired
  BY DEF RollupInv, RollupTyped
<1>7. \A t \in Kept' : OnRecord(t)'
  BY <1>1, <1>2, <1>3, <1>6, SeriesAlone
<1> QED BY <1>4, <1>5, <1>7 DEF RollupInv

LEMMA StoppingKeeps == RollupInv /\ StopHousekeeping => RollupInv'
<1> SUFFICES ASSUME RollupInv, StopHousekeeping PROVE RollupInv'
  OBVIOUS
<1> DEFINE z == 0
           one == 1
           more == record.troubles + 1
<1>1. /\ job' = [step |-> z, now |-> z, keep |-> one, due |-> clock + 1]
      /\ clock' = clock /\ raw' = raw /\ fine' = fine /\ coarse' = coarse /\ keep' = keep
      /\ record' = [record EXCEPT !.troubles = more]
  BY DEF StopHousekeeping, NoJob
<1>2. /\ z = 0 /\ z \in 0 .. 5 /\ z \notin 2 .. 5 /\ z \in Nat /\ one \in Nat \ {0} /\ clock + 1 \in Nat
      /\ more \in Int
  BY RollupConstants DEF RollupInv, RollupTyped
<1> HIDE DEF z, one, more
<1>3. /\ job' \in [step : 0 .. 5, now : Nat, keep : Nat \ {0}, due : Nat]
      /\ job'.step = z
  BY <1>1, <1>2 DEF RollupInv, RollupTyped
<1>4. /\ record' \in [gaps : SUBSET Nat, downs : SUBSET Nat, expired : Int,
                      rolled : Nat, late : Int, troubles : Int]
      /\ record'.gaps = record.gaps /\ record'.downs = record.downs
      /\ record'.rolled = record.rolled /\ record'.expired = record.expired
  BY <1>1, <1>2 DEF RollupInv, RollupTyped
<1>5. RollupTyped'
  BY <1>1, <1>3, <1>4 DEF RollupInv, RollupTyped
<1>6. RollupTimes'
  BY <1>1, <1>2, <1>3, <1>4 DEF RollupInv, RollupTyped, RollupTimes
<1>7. record'.expired \in Int /\ record'.expired >= record.expired
  BY <1>4 DEF RollupInv, RollupTyped
<1>8. \A t \in Kept' : OnRecord(t)'
  BY <1>1, <1>2, <1>3, <1>4, <1>7, SeriesAlone
<1> QED BY <1>5, <1>6, <1>8 DEF RollupInv

LEMMA RetentionKeeps ==
    ASSUME RollupInv, NEW days \in KeepDays, EditRetention(days)
    PROVE  RollupInv'
<1> DEFINE more == record.troubles + 1
           x == Expired(clock, days)
<1>1. /\ clock' = clock /\ raw' = raw /\ fine' = fine /\ coarse' = coarse /\ job' = job
      /\ keep' = days /\ record' = [record EXCEPT !.troubles = more, !.expired = x]
  BY DEF EditRetention
<1>2. days \in Nat \ {0} /\ days * DayTicks \in Nat
  <2>1. days \in Nat \ {0} /\ DayTicks \in Nat
    BY RollupAssumption
  <2> QED BY <2>1
<1>3. x \in Int /\ x >= record.expired /\ x >= clock - days * DayTicks /\ more \in Int
  BY <1>2 DEF RollupInv, RollupTyped, Expired, Greater
<1> HIDE DEF more, x
<1>4. /\ record' \in [gaps : SUBSET Nat, downs : SUBSET Nat, expired : Int,
                      rolled : Nat, late : Int, troubles : Int]
      /\ record'.gaps = record.gaps /\ record'.downs = record.downs
      /\ record'.rolled = record.rolled /\ record'.expired = x
  BY <1>1, <1>3 DEF RollupInv, RollupTyped
<1>5. RollupTyped'
  BY <1>1, <1>2, <1>4 DEF RollupInv, RollupTyped
<1>6. RollupTimes'
  <2>1. job.step # 0 => x >= job.now - job.keep * DayTicks
    <3>1. job.keep * DayTicks \in Nat
      BY RollupConstants DEF RollupInv, RollupTyped
    <3> QED BY <1>3, <3>1 DEF RollupInv, RollupTyped, RollupTimes
  <2> QED BY <1>1, <1>3, <1>4, <2>1 DEF RollupInv, RollupTyped, RollupTimes
<1>7. \A t \in Kept' : OnRecord(t)'
  BY <1>1, <1>3, <1>4, SeriesAlone
<1> QED BY <1>5, <1>6, <1>7 DEF RollupInv

(* The retention the run pruned raw samples and points by, in ticks.       *)
LEMMA JobFacts ==
    ASSUME RollupInv
    PROVE  /\ clock \in Nat /\ job.now \in Nat /\ job.keep \in Nat \ {0} /\ record.expired \in Int
           /\ job.keep * DayTicks \in Nat /\ keep * DayTicks \in Nat
           /\ job.step # 0 => /\ job.now <= clock /\ clock <= job.now + 1
                              /\ record.expired >= job.now - job.keep * DayTicks
<1>1. job.keep \in Nat \ {0} /\ keep \in Nat \ {0} /\ DayTicks \in Nat
  BY RollupConstants DEF RollupInv, RollupTyped
<1> QED BY <1>1 DEF RollupInv, RollupTyped, RollupTimes

LEMMA FineRolls ==
    ASSUME RollupInv, RollUpFine
    PROVE  /\ \E lo \in Nat : RolledFrom(lo, raw, fine, fine', FineTicks, FineEnd(job.now, job.keep))
           /\ job'.step = 2 /\ job' \in [step : 0 .. 5, now : Nat, keep : Nat \ {0}, due : Nat]
           /\ job'.now = job.now /\ job'.keep = job.keep
<1> DEFINE two == 2
           until == Handoff(RawDays)
<1>1. /\ fine' = Downsampled(raw, fine, FineTicks, until)
      /\ job' = [job EXCEPT !.step = two]
  BY DEF RollUpFine
<1>2. two = 2 /\ two \in 0 .. 5
  OBVIOUS
<1> HIDE DEF two
<1>3. /\ job'.step = 2 /\ job' \in [step : 0 .. 5, now : Nat, keep : Nat \ {0}, due : Nat]
      /\ job'.now = job.now /\ job'.keep = job.keep
  BY <1>1, <1>2 DEF RollupInv, RollupTyped
<1>4. until = Until(RawDays, job.now, job.keep)
  BY DEF Handoff, Until
<1>5. until \in Int
  <2> DEFINE c == RawDays
             d == job.keep
             t == job.now
  <2>1. c \in Nat \ {0} /\ d \in Nat \ {0} /\ t \in Int
    BY JobFacts, RollupConstants
  <2> HIDE DEF c, d, t
  <2>2. Until(c, t, d) \in Int
    BY <2>1, UntilIsWhole
  <2> QED BY <1>4, <2>2 DEF c, d, t
<1>6. BucketOf(Greater(until, 0), FineTicks) = FineEnd(job.now, job.keep)
  BY <1>4 DEF FineEnd
<1> HIDE DEF until
<1>7. /\ raw \subseteq Row /\ fine \subseteq Row /\ clock \in Nat
      /\ \A p \in fine : Multiple(p.ts, FineTicks) /\ p.ts <= clock
  BY RollupConstants DEF RollupInv, RollupTyped, RollupTimes, Row
<1>8. \E lo \in Nat :
        RolledFrom(lo, raw, fine, Downsampled(raw, fine, FineTicks, until),
                   FineTicks, BucketOf(Greater(until, 0), FineTicks))
  BY <1>5, <1>7, RollupConstants, RollsUp
<1> QED BY <1>1, <1>3, <1>6, <1>8

LEMMA FineKeeps == RollupInv /\ RollUpFine => RollupInv'
<1> SUFFICES ASSUME RollupInv, RollUpFine PROVE RollupInv'
  OBVIOUS
<1> DEFINE hi == FineEnd(job.now, job.keep)
<1>1. /\ job.step = 1 /\ job'.step = 2 /\ job'.now = job.now /\ job'.keep = job.keep
      /\ job' \in [step : 0 .. 5, now : Nat, keep : Nat \ {0}, due : Nat]
      /\ clock' = clock /\ raw' = raw /\ coarse' = coarse /\ keep' = keep /\ record' = record
  BY FineRolls DEF RollUpFine
<1>2. PICK lo \in Nat : RolledFrom(lo, raw, fine, fine', FineTicks, hi)
  BY FineRolls
<1>3. hi \in Nat /\ hi <= job.now /\ FineEnd(job'.now, job'.keep) = hi
  BY <1>1, JobFacts, FineEnds
<1>4. /\ fine \subseteq fine' /\ fine' \subseteq Row
      /\ \A p \in fine' \ fine :
           /\ Multiple(p.ts, FineTicks) /\ lo <= p.ts /\ p.ts + FineTicks <= hi
           /\ \E s \in raw : FineOf(s.ts) = p.ts
           /\ \A s \in raw : FineOf(s.ts) = p.ts /\ s.down => p.down
      /\ \A s \in raw : lo <= s.ts /\ s.ts < hi => \E p \in fine' : p.ts = FineOf(s.ts)
      /\ \A p \in fine : p.ts + FineTicks <= lo
      /\ fine = {} => lo = 0
      /\ fine # {} => \E p \in fine : lo = p.ts + FineTicks
  BY <1>2 DEF RolledFrom, FineOf
<1> HIDE DEF hi
<1>5. RollupTyped'
  BY <1>1, <1>4 DEF RollupInv, RollupTyped
<1>6. RollupTimes'
  <2>1. \A p \in fine' : Multiple(p.ts, FineTicks) /\ p.ts + FineTicks <= clock
    <3> SUFFICES ASSUME NEW p \in fine' PROVE Multiple(p.ts, FineTicks) /\ p.ts + FineTicks <= clock
      OBVIOUS
    <3>1. CASE p \in fine
      BY <3>1 DEF RollupInv, RollupTimes
    <3>2. CASE p \notin fine
      <4>1. Multiple(p.ts, FineTicks) /\ p.ts + FineTicks <= hi /\ p.ts \in Nat
        BY <1>4, <3>2 DEF Row
      <4> QED BY <1>1, <1>3, <4>1, JobFacts, RollupConstants
    <3> QED BY <3>1, <3>2
  <2> QED BY <1>1, <2>1 DEF RollupInv, RollupTyped, RollupTimes
<1>7. ASSUME NEW t \in Kept' PROVE OnRecord(t)'
  <2>1. t \in Kept
    BY <1>1, <1>5 DEF Kept, Measured
  <2>2. OnShow(t) /\ NotRevisited(t) /\ OnTime(t)
    BY <2>1 DEF RollupInv, OnRecord
  <2>3. t \in Nat /\ FineOf(t) \in Nat /\ FineOf(t) <= t /\ t < FineOf(t) + FineTicks
        /\ FineTicks \in Nat \ {0}
    BY <2>1, KeptFacts, RollupConstants DEF RollupInv
  <2>4. /\ InFine(t) => InFine(t)'
        /\ InRaw(t) = InRaw(t)' /\ InCoarse(t) = InCoarse(t)'
    BY <1>1, <1>4 DEF InFine, InRaw, InCoarse
  <2>5. RolledUp(t) => RolledUp(t)'
    BY <2>4 DEF RolledUp
  <2>6. t < hi => RolledUp(t)'
    <3> SUFFICES ASSUME t < hi, ~RolledUp(t) PROVE InFine(t)'
      BY <2>5 DEF RolledUp
    <3>1. PICK s \in raw : s.ts = t
      BY <2>2 DEF OnShow, InRaw
    <3>2. ~(t < lo)
      <4> SUFFICES ASSUME t < lo PROVE FALSE
        OBVIOUS
      <4>1. \E p \in fine : t < p.ts + FineTicks
        BY <1>4, <2>3
      <4> QED BY <2>2, <4>1 DEF NotRevisited
    <3>3. \E p \in fine' : p.ts = FineOf(t)
      BY <1>4, <2>3, <3>1, <3>2
    <3> QED BY <3>3 DEF InFine
  <2>7. ASSUME NEW p \in fine', p \notin fine, p.ts = FineOf(t)
        PROVE  t \in record.downs => p.down
    <3>1. ~InFine(t)
      <4> SUFFICES ASSUME NEW f \in fine, f.ts = FineOf(t) PROVE FALSE
        BY DEF InFine
      <4> QED BY <1>4, <2>3, <2>7
    <3>2. PICK s \in raw : FineOf(s.ts) = FineOf(t)
      BY <1>4, <2>7
    <3>3. ~InCoarse(t)
      BY <2>2, <3>1, <3>2 DEF NotRevisited
    <3>4. PICK q \in raw : q.ts = t
      BY <2>2, <3>1, <3>3 DEF OnShow, InRaw, RolledUp
    <3>5. t \in record.downs => q.down
      BY <2>2, <3>4 DEF OnShow
    <3> QED BY <1>4, <2>7, <3>4, <3>5
  <2>8. OnShow(t)'
    <3>1. InRaw(t)' \/ RolledUp(t)'
      BY <2>2, <2>4, <2>5 DEF OnShow
    <3>2. t \in record.downs => \A p \in fine' : p.ts = FineOf(t) => p.down
      BY <2>2, <2>7 DEF OnShow
    <3> QED BY <1>1, <2>2, <3>1, <3>2 DEF OnShow
  <2>9. NotRevisited(t)'
    <3>1. (\E p \in fine' : t < p.ts + FineTicks) => RolledUp(t)'
      <4> SUFFICES ASSUME NEW p \in fine', t < p.ts + FineTicks PROVE RolledUp(t)'
        OBVIOUS
      <4>1. CASE p \in fine
        BY <2>2, <2>5, <4>1 DEF NotRevisited
      <4>2. CASE p \notin fine
        <5>1. p.ts \in Nat /\ p.ts + FineTicks <= hi
          BY <1>4, <4>2 DEF Row
        <5> QED BY <1>3, <2>3, <2>6, <5>1
      <4> QED BY <4>1, <4>2
    <3>2. (\E p \in coarse : t < p.ts + CoarseTicks) => InCoarse(t)'
      BY <2>2, <2>4 DEF NotRevisited
    <3>3. InCoarse(t)' /\ ~InFine(t)' =>
            /\ FineOf(t) < clock - FineDays * DayTicks
            /\ \A p \in raw : FineOf(p.ts) # FineOf(t)
      BY <2>2, <2>4 DEF NotRevisited
    <3> QED BY <1>1, <3>1, <3>2, <3>3 DEF NotRevisited
  <2>10. OnTime(t)'
    <3>1. t >= clock - RawDays * DayTicks => InRaw(t)'
      BY <2>2, <2>4 DEF OnTime
    <3>2. /\ t < FineEnd(record.rolled, RawDays) => RolledUp(t)'
          /\ t < CoarseEnd(record.rolled, FineDays) => InCoarse(t)'
      BY <2>2, <2>4, <2>5 DEF OnTime
    <3>3. t < FineEnd(job'.now, job'.keep) => RolledUp(t)'
      BY <1>3, <2>6
    <3> QED BY <1>1, <3>1, <3>2, <3>3 DEF OnTime
  <2> QED BY <2>8, <2>9, <2>10 DEF OnRecord
<1> QED BY <1>5, <1>6, <1>7 DEF RollupInv

LEMMA CoarseRolls ==
    ASSUME RollupInv, RollUpCoarse
    PROVE  /\ \E lo \in Nat :
                RolledFrom(lo, fine, coarse, coarse', CoarseTicks, CoarseEnd(job.now, job.keep))
           /\ job'.step = 3 /\ job' \in [step : 0 .. 5, now : Nat, keep : Nat \ {0}, due : Nat]
           /\ job'.now = job.now /\ job'.keep = job.keep
<1> DEFINE three == 3
           until == Handoff(FineDays)
<1>1. /\ coarse' = Downsampled(fine, coarse, CoarseTicks, until)
      /\ job' = [job EXCEPT !.step = three]
  BY DEF RollUpCoarse
<1>2. three = 3 /\ three \in 0 .. 5
  OBVIOUS
<1> HIDE DEF three
<1>3. /\ job'.step = 3 /\ job' \in [step : 0 .. 5, now : Nat, keep : Nat \ {0}, due : Nat]
      /\ job'.now = job.now /\ job'.keep = job.keep
  BY <1>1, <1>2 DEF RollupInv, RollupTyped
<1>4. until = Until(FineDays, job.now, job.keep)
  BY DEF Handoff, Until
<1>5. until \in Int
  <2> DEFINE c == FineDays
             d == job.keep
             t == job.now
  <2>1. c \in Nat \ {0} /\ d \in Nat \ {0} /\ t \in Int
    BY JobFacts, RollupConstants
  <2> HIDE DEF c, d, t
  <2>2. Until(c, t, d) \in Int
    BY <2>1, UntilIsWhole
  <2> QED BY <1>4, <2>2 DEF c, d, t
<1>6. BucketOf(Greater(until, 0), CoarseTicks) = CoarseEnd(job.now, job.keep)
  BY <1>4 DEF CoarseEnd
<1> HIDE DEF until
<1>7. /\ fine \subseteq Row /\ coarse \subseteq Row /\ clock \in Nat
      /\ \A p \in coarse : Multiple(p.ts, CoarseTicks) /\ p.ts <= clock
  BY RollupConstants DEF RollupInv, RollupTyped, RollupTimes, Row
<1>8. \E lo \in Nat :
        RolledFrom(lo, fine, coarse, Downsampled(fine, coarse, CoarseTicks, until),
                   CoarseTicks, BucketOf(Greater(until, 0), CoarseTicks))
  BY <1>5, <1>7, RollupConstants, RollsUp
<1> QED BY <1>1, <1>3, <1>6, <1>8

LEMMA CoarseKeeps == RollupInv /\ RollUpCoarse => RollupInv'
<1> SUFFICES ASSUME RollupInv, RollUpCoarse PROVE RollupInv'
  OBVIOUS
<1> DEFINE hi == CoarseEnd(job.now, job.keep)
           now == job.now
<1>1. /\ job.step = 2 /\ job'.step = 3 /\ job'.now = now /\ job'.keep = job.keep
      /\ job' \in [step : 0 .. 5, now : Nat, keep : Nat \ {0}, due : Nat]
      /\ clock' = clock /\ raw' = raw /\ fine' = fine /\ keep' = keep
      /\ record' = [record EXCEPT !.rolled = now]
  BY CoarseRolls DEF RollUpCoarse
<1>2. PICK lo \in Nat : RolledFrom(lo, fine, coarse, coarse', CoarseTicks, hi)
  BY CoarseRolls
<1>3. /\ hi \in Nat /\ hi <= now /\ CoarseEnd(job'.now, job'.keep) = hi
      /\ hi <= FineEnd(now, job.keep) /\ FineEnd(now, job.keep) \in Nat
      /\ FineEnd(now, RawDays) <= FineEnd(now, job.keep) /\ FineEnd(now, RawDays) \in Nat
      /\ CoarseEnd(now, FineDays) <= hi /\ CoarseEnd(now, FineDays) \in Nat
      /\ now \in Nat /\ now <= clock
  <2>1. /\ now \in Nat /\ now <= clock /\ job.keep \in Nat \ {0}
        /\ RawDays \in Nat \ {0} /\ FineDays \in Nat \ {0}
    BY <1>1, JobFacts, RollupConstants
  <2>2. CoarseEnd(job'.now, job'.keep) = hi
    BY <1>1
  <2> HIDE DEF now
  <2> DEFINE k == job.keep
  <2> HIDE DEF k
  <2>3. k \in Nat \ {0} /\ hi = CoarseEnd(now, k)
    BY <2>1 DEF k, now
  <2>4. /\ CoarseEnd(now, k) \in Nat /\ CoarseEnd(now, k) <= now /\ FineEnd(now, k) \in Nat
        /\ CoarseEnd(now, FineDays) \in Nat /\ FineEnd(now, RawDays) \in Nat
    BY <2>1, <2>3, CoarseEnds, FineEnds
  <2>5. /\ CoarseEnd(now, k) <= FineEnd(now, k)
        /\ FineEnd(now, RawDays) <= FineEnd(now, k)
        /\ CoarseEnd(now, FineDays) <= CoarseEnd(now, k)
    BY <2>1, <2>3, EndsAreOrdered
  <2> QED BY <2>1, <2>2, <2>3, <2>4, <2>5 DEF k
<1>4. /\ coarse \subseteq coarse' /\ coarse' \subseteq Row
      /\ \A p \in coarse' \ coarse :
           /\ Multiple(p.ts, CoarseTicks) /\ lo <= p.ts /\ p.ts + CoarseTicks <= hi
           /\ \A s \in fine : BucketOf(s.ts, CoarseTicks) = p.ts /\ s.down => p.down
      /\ \A s \in fine : lo <= s.ts /\ s.ts < hi =>
           \E p \in coarse' : p.ts = BucketOf(s.ts, CoarseTicks)
      /\ \A p \in coarse : p.ts + CoarseTicks <= lo
      /\ coarse = {} => lo = 0
      /\ coarse # {} => \E p \in coarse : lo = p.ts + CoarseTicks
      /\ Multiple(lo, FineTicks)
  BY <1>2, CoarserMultiple DEF RolledFrom
<1>5. /\ record' \in [gaps : SUBSET Nat, downs : SUBSET Nat, expired : Int,
                      rolled : Nat, late : Int, troubles : Int]
      /\ record'.gaps = record.gaps /\ record'.downs = record.downs
      /\ record'.rolled = now /\ record'.expired = record.expired
  BY <1>1, <1>3 DEF RollupInv, RollupTyped
<1> HIDE DEF hi, now
<1>6. RollupTyped'
  BY <1>1, <1>4, <1>5 DEF RollupInv, RollupTyped
<1>7. RollupTimes'
  <2>1. \A p \in coarse' : Multiple(p.ts, CoarseTicks) /\ p.ts + CoarseTicks <= clock
    <3> SUFFICES ASSUME NEW p \in coarse' PROVE Multiple(p.ts, CoarseTicks) /\ p.ts + CoarseTicks <= clock
      OBVIOUS
    <3>1. CASE p \in coarse
      BY <3>1 DEF RollupInv, RollupTimes
    <3>2. CASE p \notin coarse
      <4>1. Multiple(p.ts, CoarseTicks) /\ p.ts + CoarseTicks <= hi /\ p.ts \in Nat
        BY <1>4, <3>2 DEF Row
      <4> QED BY <1>1, <1>3, <4>1, JobFacts, RollupConstants
    <3> QED BY <3>1, <3>2
  <2> QED BY <1>1, <1>3, <1>5, <2>1 DEF RollupInv, RollupTyped, RollupTimes, now
<1>8. ASSUME NEW t \in Kept' PROVE OnRecord(t)'
  <2>1. t \in Kept
    BY <1>1, <1>5 DEF Kept, Measured
  <2>2. OnShow(t) /\ NotRevisited(t) /\ OnTime(t)
    BY <2>1 DEF RollupInv, OnRecord
  <2>3. /\ t \in Nat /\ FineOf(t) \in Nat /\ FineOf(t) <= t /\ t < FineOf(t) + FineTicks
        /\ Multiple(FineOf(t), FineTicks)
        /\ CoarseOf(t) \in Nat /\ CoarseOf(t) <= t /\ t < CoarseOf(t) + CoarseTicks
        /\ FineTicks \in Nat \ {0} /\ CoarseTicks \in Nat \ {0}
    BY <2>1, KeptFacts, RollupConstants DEF RollupInv
  <2>4. BucketOf(FineOf(t), CoarseTicks) = CoarseOf(t)
    BY <2>3, FineInCoarse DEF FineOf, CoarseOf
  <2>5. /\ InCoarse(t) => InCoarse(t)'
        /\ InRaw(t) = InRaw(t)' /\ InFine(t) = InFine(t)'
    BY <1>1, <1>4 DEF InFine, InRaw, InCoarse
  <2>6. RolledUp(t) => RolledUp(t)'
    BY <2>5 DEF RolledUp
  <2>7. t < FineEnd(now, job.keep) => RolledUp(t)
    BY <1>1, <2>2 DEF OnTime, now
  <2>8. t < hi => InCoarse(t)'
    <3> SUFFICES ASSUME t < hi, ~InCoarse(t) PROVE InCoarse(t)'
      BY <2>5
    <3>1. PICK f \in fine : f.ts = FineOf(t)
      BY <1>3, <2>3, <2>7 DEF RolledUp, InFine
    <3>2. ~(f.ts < lo)
      <4> SUFFICES ASSUME f.ts < lo PROVE FALSE
        OBVIOUS
      <4>1. FineOf(t) + FineTicks <= lo
        BY <1>4, <2>3, <3>1, Multiples
      <4>2. \E p \in coarse : t < p.ts + CoarseTicks
        BY <1>4, <2>3, <4>1
      <4> QED BY <2>2, <4>2 DEF NotRevisited
    <3>3. \E p \in coarse' : p.ts = BucketOf(f.ts, CoarseTicks)
      BY <1>3, <1>4, <2>3, <3>1, <3>2
    <3> QED BY <2>4, <3>1, <3>3 DEF InCoarse
  <2>9. ASSUME NEW p \in coarse', p \notin coarse, p.ts = CoarseOf(t)
        PROVE  InFine(t) /\ (t \in record.downs => p.down)
    <3>1. ~InCoarse(t)
      <4> SUFFICES ASSUME NEW c \in coarse, c.ts = CoarseOf(t) PROVE FALSE
        BY DEF InCoarse
      <4> QED BY <1>4, <2>3, <2>9
    <3>2. t < FineEnd(now, job.keep)
      <4>1. CoarseOf(t) + CoarseTicks <= hi
        BY <1>4, <2>9
      <4> QED BY <1>3, <2>3, <4>1
    <3>3. PICK f \in fine : f.ts = FineOf(t)
      BY <2>7, <3>1, <3>2 DEF RolledUp, InFine
    <3>4. t \in record.downs => f.down
      BY <2>2, <3>3 DEF OnShow
    <3>5. f.down => p.down
      BY <1>4, <2>4, <2>9, <3>3
    <3> QED BY <3>3, <3>4, <3>5 DEF InFine
  <2>10. OnShow(t)'
    <3>1. InRaw(t)' \/ RolledUp(t)'
      BY <2>2, <2>5, <2>6 DEF OnShow
    <3>2. t \in record.downs => \A p \in coarse' : p.ts = CoarseOf(t) => p.down
      BY <2>2, <2>9 DEF OnShow
    <3> QED BY <1>1, <1>5, <2>2, <3>1, <3>2 DEF OnShow
  <2>11. NotRevisited(t)'
    <3>1. (\E p \in fine : t < p.ts + FineTicks) => RolledUp(t)'
      BY <2>2, <2>6 DEF NotRevisited
    <3>2. (\E p \in coarse' : t < p.ts + CoarseTicks) => InCoarse(t)'
      <4> SUFFICES ASSUME NEW p \in coarse', t < p.ts + CoarseTicks PROVE InCoarse(t)'
        OBVIOUS
      <4>1. CASE p \in coarse
        BY <2>2, <2>5, <4>1 DEF NotRevisited
      <4>2. CASE p \notin coarse
        <5>1. p.ts \in Nat /\ p.ts + CoarseTicks <= hi
          BY <1>4, <4>2 DEF Row
        <5> QED BY <1>3, <2>3, <2>8, <5>1
      <4> QED BY <4>1, <4>2
    <3>3. InCoarse(t)' /\ ~InFine(t)' => InCoarse(t) /\ ~InFine(t)
      BY <2>5, <2>9 DEF InCoarse
    <3>4. InCoarse(t)' /\ ~InFine(t)' =>
            /\ FineOf(t) < clock - FineDays * DayTicks
            /\ \A p \in raw : FineOf(p.ts) # FineOf(t)
      BY <2>2, <3>3 DEF NotRevisited
    <3> QED BY <1>1, <3>1, <3>2, <3>4 DEF NotRevisited
  <2>12. OnTime(t)'
    <3>1. t >= clock - RawDays * DayTicks => InRaw(t)'
      BY <2>2, <2>5 DEF OnTime
    <3>2. t < FineEnd(job'.now, job'.keep) => RolledUp(t)'
      BY <1>1, <2>6, <2>7
    <3>3. t < CoarseEnd(job'.now, job'.keep) => InCoarse(t)'
      BY <1>3, <2>8
    <3>4. /\ t < FineEnd(now, RawDays) => RolledUp(t)'
          /\ t < CoarseEnd(now, FineDays) => InCoarse(t)'
      BY <1>3, <2>3, <2>6, <2>7, <2>8
    <3> QED BY <1>1, <1>5, <3>1, <3>2, <3>3, <3>4 DEF OnTime
  <2> QED BY <2>10, <2>11, <2>12 DEF OnRecord
<1> QED BY <1>6, <1>7, <1>8 DEF RollupInv

(* What a cutoff of the pruning forgets.                                   *)
LEMMA PrunedDays ==
    ASSUME RollupInv, job.step # 0, NEW cap \in Nat \ {0}
    PROVE  LET l == Lesser(cap, job.keep) * DayTicks IN
           /\ l \in Nat /\ cap * DayTicks \in Nat /\ l <= cap * DayTicks
           /\ \/ l = cap * DayTicks
              \/ clock - l <= record.expired + 1
<1>1. job.keep \in Nat \ {0} /\ DayTicks \in Nat
  BY JobFacts, RollupConstants
<1>2. /\ Lesser(cap, job.keep) = cap \/ Lesser(cap, job.keep) = job.keep
      /\ Lesser(cap, job.keep) * DayTicks \in Nat
      /\ Lesser(cap, job.keep) * DayTicks <= cap * DayTicks
  BY <1>1, LesserDays
<1>3. cap * DayTicks \in Nat
  BY <1>1
<1>4. /\ job.keep * DayTicks \in Nat /\ job.now \in Nat /\ clock \in Nat /\ record.expired \in Int
      /\ clock <= job.now + 1 /\ record.expired >= job.now - job.keep * DayTicks
  BY JobFacts
<1>5. clock - job.keep * DayTicks <= record.expired + 1
  BY <1>4
<1> QED BY <1>2, <1>3, <1>5

LEMMA PruneRawKeeps == RollupInv /\ PruneRaw => RollupInv'
<1> SUFFICES ASSUME RollupInv, PruneRaw PROVE RollupInv'
  OBVIOUS
<1> DEFINE four == 4
           l == Lesser(RawDays, job.keep) * DayTicks
           r == RawDays * DayTicks
           now == job.now
           hi == FineEnd(now, job.keep)
           cut == clock - l
<1>1. /\ job.step = 3 /\ job' = [job EXCEPT !.step = four] /\ raw' = Since(raw, cut)
      /\ clock' = clock /\ fine' = fine /\ coarse' = coarse /\ keep' = keep /\ record' = record
  BY DEF PruneRaw
<1>2. four = 4 /\ four \in 0 .. 5
  OBVIOUS
<1> HIDE DEF four
<1>3. /\ job'.step = 4 /\ job' \in [step : 0 .. 5, now : Nat, keep : Nat \ {0}, due : Nat]
      /\ job'.now = now /\ job'.keep = job.keep
  BY <1>1, <1>2 DEF RollupInv, RollupTyped
<1>4. /\ now \in Nat /\ job.keep \in Nat \ {0} /\ clock \in Nat /\ record.expired \in Int
      /\ now <= clock /\ clock <= now + 1 /\ RawDays \in Nat \ {0} /\ DayTicks \in Nat
      /\ FineTicks \in Nat \ {0} /\ CoarseTicks \in Nat \ {0} /\ FineTicks <= DayTicks
  BY <1>1, JobFacts, RollupConstants
<1>5. l \in Nat /\ r \in Nat /\ l <= r /\ (l = r \/ clock - l <= record.expired + 1)
  BY <1>1, <1>4, PrunedDays
<1>6. hi \in Nat /\ hi + FineTicks > now - l + DayTicks
  BY <1>4, FineEnds
<1>7. raw' \subseteq raw /\ \A p \in raw' : p.ts >= cut
  BY <1>1 DEF Since
<1>8. \A p \in raw : p.ts >= cut => p \in raw'
  BY <1>1 DEF Since
<1>9. job'.now - Lesser(RawDays, job'.keep) * DayTicks = now - l
  BY <1>3
<1> HIDE DEF l, r, now, hi
<1>10. RollupTyped'
  BY <1>1, <1>3, <1>7 DEF RollupInv, RollupTyped
<1>11. RollupTimes'
  <2>1. \A p \in raw' : p.ts < clock /\ p.ts >= now - l
    BY <1>4, <1>5, <1>7 DEF RollupInv, RollupTimes, RollupTyped, Row
  <2> QED BY <1>1, <1>3, <1>9, <2>1 DEF RollupInv, RollupTimes, now
<1>12. ASSUME NEW t \in Kept' PROVE OnRecord(t)'
  <2>1. t \in Kept
    BY <1>1, <1>10 DEF Kept, Measured
  <2>2. OnShow(t) /\ NotRevisited(t) /\ OnTime(t)
    BY <2>1 DEF RollupInv, OnRecord
  <2>3. t \in Nat /\ t >= record.expired + CoarseTicks
    BY <2>1, KeptFacts DEF RollupInv
  <2>4. InFine(t) = InFine(t)' /\ InCoarse(t) = InCoarse(t)' /\ RolledUp(t) = RolledUp(t)'
    BY <1>1 DEF InFine, InCoarse, RolledUp
  <2>5. InRaw(t) /\ t >= cut => InRaw(t)'
    BY <1>8 DEF InRaw
  <2>6. t < hi => RolledUp(t)
    BY <1>1, <2>2 DEF OnTime, hi, now
  <2>7. t < cut => RolledUp(t)
    BY <1>4, <1>5, <1>6, <2>3, <2>6
  <2>8. OnShow(t)'
    <3>1. InRaw(t)' \/ RolledUp(t)'
      <4>1. t < cut \/ t >= cut
        BY <1>4, <1>5, <2>3
      <4> QED BY <2>2, <2>4, <2>5, <2>7, <4>1 DEF OnShow
    <3>2. t \in record.downs => \A p \in raw' : p.ts = t => p.down
      BY <1>7, <2>2 DEF OnShow
    <3> QED BY <1>1, <2>2, <3>1, <3>2 DEF OnShow
  <2>9. NotRevisited(t)'
    BY <1>1, <1>7, <2>2, <2>4 DEF NotRevisited
  <2>10. OnTime(t)'
    <3>1. t >= clock - r => InRaw(t)'
      <4> SUFFICES ASSUME t >= clock - r PROVE InRaw(t)'
        OBVIOUS
      <4>1. InRaw(t)
        BY <2>2 DEF OnTime, r
      <4>2. t >= cut
        BY <1>4, <1>5, <2>3
      <4> QED BY <2>5, <4>1, <4>2
    <3>2. /\ t < FineEnd(job'.now, job'.keep) => RolledUp(t)'
          /\ t < CoarseEnd(job'.now, job'.keep) => InCoarse(t)'
          /\ t < FineEnd(record.rolled, RawDays) => RolledUp(t)'
          /\ t < CoarseEnd(record.rolled, FineDays) => InCoarse(t)'
      BY <1>1, <1>3, <2>2, <2>4 DEF OnTime, now
    <3> QED BY <1>1, <3>1, <3>2 DEF OnTime, r
  <2> QED BY <2>8, <2>9, <2>10 DEF OnRecord
<1> QED BY <1>10, <1>11, <1>12 DEF RollupInv

LEMMA PruneCoarseKeeps == RollupInv /\ PruneCoarse => RollupInv'
<1> SUFFICES ASSUME RollupInv, PruneCoarse PROVE RollupInv'
  OBVIOUS
<1> DEFINE five == 5
           k == job.keep * DayTicks
           cut == clock - k
           x == Expired(clock, job.keep)
<1>1. /\ job.step = 4 /\ job' = [job EXCEPT !.step = five] /\ coarse' = Since(coarse, cut)
      /\ record' = [record EXCEPT !.expired = x]
      /\ clock' = clock /\ fine' = fine /\ raw' = raw /\ keep' = keep
  BY DEF PruneCoarse
<1>2. five = 5 /\ five \in 0 .. 5
  OBVIOUS
<1> HIDE DEF five
<1>3. /\ job'.step = 5 /\ job' \in [step : 0 .. 5, now : Nat, keep : Nat \ {0}, due : Nat]
      /\ job'.now = job.now /\ job'.keep = job.keep
  BY <1>1, <1>2 DEF RollupInv, RollupTyped
<1>4. /\ k \in Nat /\ clock \in Nat /\ record.expired \in Int /\ CoarseTicks \in Nat \ {0}
  BY JobFacts, RollupConstants
<1>5. x \in Int /\ x >= record.expired /\ x >= cut
  BY <1>4 DEF Expired, Greater
<1> HIDE DEF k, x
<1>6. /\ record' \in [gaps : SUBSET Nat, downs : SUBSET Nat, expired : Int,
                      rolled : Nat, late : Int, troubles : Int]
      /\ record'.gaps = record.gaps /\ record'.downs = record.downs
      /\ record'.rolled = record.rolled /\ record'.expired = x
  BY <1>1, <1>5 DEF RollupInv, RollupTyped
<1>7. coarse' \subseteq coarse /\ \A p \in coarse : p.ts >= cut => p \in coarse'
  BY <1>1 DEF Since
<1>8. RollupTyped'
  BY <1>1, <1>3, <1>6, <1>7 DEF RollupInv, RollupTyped
<1>9. RollupTimes'
  <2>1. x >= clock - keep * DayTicks /\ x >= job.now - job.keep * DayTicks
    <3>1. /\ record.expired >= clock - keep * DayTicks /\ record.expired >= job.now - job.keep * DayTicks
      BY <1>1, JobFacts DEF RollupInv, RollupTimes
    <3> QED BY <1>4, <1>5, <3>1, JobFacts
  <2> QED BY <1>1, <1>3, <1>6, <1>7, <2>1 DEF RollupInv, RollupTimes
<1>10. ASSUME NEW t \in Kept' PROVE OnRecord(t)'
  <2>1. t \in Kept
    BY <1>1, <1>5, <1>6, KeptLess DEF RollupInv
  <2>2. OnShow(t) /\ NotRevisited(t) /\ OnTime(t)
    BY <2>1 DEF RollupInv, OnRecord
  <2>3. t \in Nat /\ CoarseOf(t) \in Nat /\ t < CoarseOf(t) + CoarseTicks
    BY <2>1, KeptFacts DEF RollupInv
  <2>4. t >= x + CoarseTicks
    BY <1>6 DEF Kept
  <2>5. CoarseOf(t) >= cut
    BY <1>4, <1>5, <2>3, <2>4
  <2>6. InCoarse(t) = InCoarse(t)' /\ InFine(t) = InFine(t)' /\ InRaw(t) = InRaw(t)'
    <3>1. (\E p \in coarse : p.ts = CoarseOf(t)) = (\E p \in coarse' : p.ts = CoarseOf(t))
      BY <1>7, <2>5
    <3> QED BY <1>1, <3>1 DEF InFine, InCoarse, InRaw
  <2>7. RolledUp(t) = RolledUp(t)'
    BY <2>6 DEF RolledUp
  <2>8. OnShow(t)'
    BY <1>1, <1>6, <1>7, <2>2, <2>6, <2>7 DEF OnShow
  <2>9. NotRevisited(t)'
    BY <1>1, <1>7, <2>2, <2>6, <2>7 DEF NotRevisited
  <2>10. OnTime(t)'
    BY <1>1, <1>3, <1>6, <2>2, <2>6, <2>7 DEF OnTime
  <2> QED BY <2>8, <2>9, <2>10 DEF OnRecord
<1> QED BY <1>8, <1>9, <1>10 DEF RollupInv

LEMMA PruneFineKeeps == RollupInv /\ PruneFine => RollupInv'
<1> SUFFICES ASSUME RollupInv, PruneFine PROVE RollupInv'
  OBVIOUS
<1> DEFINE z == 0
           one == 1
           l == Lesser(FineDays, job.keep) * DayTicks
           d == FineDays * DayTicks
           r == RawDays * DayTicks
           m == Lesser(RawDays, job.keep) * DayTicks
           now == job.now
           hi == CoarseEnd(now, job.keep)
           cut == clock - l
<1>1. /\ job.step = 5 /\ job' = [step |-> z, now |-> z, keep |-> one, due |-> job.due]
      /\ fine' = Since(fine, cut)
      /\ clock' = clock /\ raw' = raw /\ coarse' = coarse /\ keep' = keep /\ record' = record
  BY DEF PruneFine, NoJob
<1>2. z = 0 /\ z \in 0 .. 5 /\ z \in Nat /\ one \in Nat \ {0} /\ job.due \in Nat
  BY DEF RollupInv, RollupTyped
<1> HIDE DEF z, one
<1>3. /\ job'.step = 0 /\ job' \in [step : 0 .. 5, now : Nat, keep : Nat \ {0}, due : Nat]
  BY <1>1, <1>2
<1>4. /\ now \in Nat /\ job.keep \in Nat \ {0} /\ clock \in Nat /\ record.expired \in Int
      /\ now <= clock /\ clock <= now + 1 /\ RawDays \in Nat \ {0} /\ FineDays \in Nat \ {0}
      /\ DayTicks \in Nat /\ FineTicks \in Nat \ {0} /\ CoarseTicks \in Nat \ {0}
      /\ FineTicks <= CoarseTicks /\ CoarseTicks <= DayTicks
      /\ r \in Nat /\ d \in Nat /\ r + DayTicks <= d
  BY <1>1, JobFacts, RollupConstants
<1>5. l \in Nat /\ l <= d /\ (l = d \/ clock - l <= record.expired + 1)
  BY <1>1, <1>4, PrunedDays
<1>6. m \in Nat /\ m <= r
  BY <1>1, <1>4, PrunedDays
<1>7. hi \in Nat /\ Multiple(hi, FineTicks) /\ hi + CoarseTicks > now - l + DayTicks
  BY <1>4, CoarseEnds
<1>8. fine' \subseteq fine /\ \A p \in fine : p.ts >= cut => p \in fine'
  BY <1>1 DEF Since
<1>9. \A p \in raw : p.ts \in Nat /\ p.ts >= now - m
  BY <1>1 DEF RollupInv, RollupTimes, RollupTyped, Row
<1> HIDE DEF l, d, r, m, now, hi
<1>10. RollupTyped'
  BY <1>1, <1>3, <1>8 DEF RollupInv, RollupTyped
<1>11. RollupTimes'
  BY <1>1, <1>3, <1>8 DEF RollupInv, RollupTimes
<1>12. ASSUME NEW t \in Kept' PROVE OnRecord(t)'
  <2>1. t \in Kept
    BY <1>1, <1>10 DEF Kept, Measured
  <2>2. OnShow(t) /\ NotRevisited(t) /\ OnTime(t)
    BY <2>1 DEF RollupInv, OnRecord
  <2> DEFINE b == FineOf(t)
  <2>3. /\ t \in Nat /\ t >= record.expired + CoarseTicks
        /\ b \in Nat /\ b <= t /\ t < b + FineTicks /\ Multiple(b, FineTicks)
    BY <2>1, KeptFacts DEF RollupInv
  <2>4. InRaw(t) = InRaw(t)' /\ InCoarse(t) = InCoarse(t)'
    BY <1>1 DEF InRaw, InCoarse
  <2>5. InFine(t)' => InFine(t)
    BY <1>8 DEF InFine
  <2>6. ASSUME InFine(t), ~InFine(t)'
        PROVE  InCoarse(t) /\ b < clock - d /\ \A p \in raw : FineOf(p.ts) # b
    <3>1. b < cut
      <4>1. PICK f \in fine : f.ts = b
        BY <2>6 DEF InFine
      <4>2. f \notin fine'
        BY <2>6, <4>1 DEF InFine
      <4>3. ~(b >= cut)
        BY <1>8, <4>1, <4>2
      <4> QED BY <1>4, <1>5, <2>3, <4>3
    <3> HIDE DEF b
    <3>2. l = d
      BY <1>4, <1>5, <2>3, <3>1
    <3>3. b < hi
      BY <1>4, <1>5, <1>7, <2>3, <3>1
    <3>4. b + FineTicks <= hi
      BY <1>4, <1>7, <2>3, <3>3, Multiples
    <3>5. InCoarse(t)
      <4>1. t < hi
        BY <1>4, <1>7, <2>3, <3>4
      <4> QED BY <1>1, <2>2, <4>1 DEF OnTime, hi, now
    <3>6. ASSUME NEW p \in raw, FineOf(p.ts) = b PROVE FALSE
      <4>1. p.ts \in Nat /\ p.ts >= now - m
        BY <1>9
      <4>2. p.ts < b + FineTicks
        BY <1>4, <3>6, <4>1, Bucketing DEF FineOf
      <4> QED BY <1>4, <1>5, <1>6, <2>3, <3>1, <3>2, <4>1, <4>2
    <3> QED BY <3>1, <3>2, <3>5, <3>6
  <2>7. RolledUp(t) => RolledUp(t)'
    BY <2>4, <2>6 DEF RolledUp
  <2>8. OnShow(t)'
    <3>1. InRaw(t)' \/ RolledUp(t)'
      BY <2>2, <2>4, <2>7 DEF OnShow
    <3> QED BY <1>1, <1>8, <2>2, <3>1 DEF OnShow
  <2>9. NotRevisited(t)'
    <3>1. (\E p \in fine' : t < p.ts + FineTicks) => RolledUp(t)'
      BY <1>8, <2>2, <2>7 DEF NotRevisited
    <3>2. (\E p \in coarse : t < p.ts + CoarseTicks) => InCoarse(t)'
      BY <2>2, <2>4 DEF NotRevisited
    <3>3. InCoarse(t)' /\ ~InFine(t)' =>
            b < clock - d /\ \A p \in raw : FineOf(p.ts) # b
      BY <2>2, <2>4, <2>6 DEF NotRevisited, d
    <3> QED BY <1>1, <3>1, <3>2, <3>3 DEF NotRevisited, d
  <2>10. OnTime(t)'
    BY <1>1, <1>3, <2>2, <2>4, <2>7 DEF OnTime
  <2> QED BY <2>8, <2>9, <2>10 DEF OnRecord
<1> QED BY <1>10, <1>11, <1>12 DEF RollupInv

LEMMA MeasureKeeps ==
    ASSUME RollupInv, NEW measured \in BOOLEAN, NEW down \in BOOLEAN, NEW prune \in BOOLEAN,
           Measure(measured, down, prune)
    PROVE  RollupInv'
<1> DEFINE new == [ts |-> clock, down |-> down]
           k == keep * DayTicks
           cut == clock - k
           grown == raw \union {new}
           gaps == Recent(IF measured THEN record.gaps ELSE record.gaps \union {clock})
           downs == Recent(IF down THEN record.downs \union {clock} ELSE record.downs)
           late == IF clock >= job.due THEN record.late + 1 ELSE record.late
           x == Expired(clock + 1, keep)
           r == RawDays * DayTicks
<1>1. /\ clock' = clock + 1 /\ fine' = fine /\ coarse' = coarse /\ keep' = keep /\ job' = job
      /\ raw' = IF ~measured THEN raw ELSE IF prune THEN Since(grown, cut) ELSE grown
      /\ record' = [record EXCEPT !.gaps = gaps, !.downs = downs, !.late = late, !.expired = x]
      /\ down => measured
      /\ job.step = 0 \/ clock <= job.now
  BY DEF Measure
<1>2. /\ clock \in Nat /\ record.expired \in Int /\ k \in Nat /\ r \in Nat
      /\ record.gaps \subseteq Nat /\ record.downs \subseteq Nat /\ record.late \in Int
      /\ \A t \in record.downs : t < clock
      /\ record.rolled \in Nat /\ record.rolled <= clock
      /\ FineTicks \in Nat \ {0} /\ CoarseTicks \in Nat \ {0}
  BY JobFacts, RollupConstants DEF RollupInv, RollupTyped, RollupTimes
<1>3. new \in Row /\ new.ts = clock /\ new.down = down
  BY <1>2 DEF Row
<1> HIDE DEF new
<1>4. /\ raw' \subseteq grown
      /\ measured => new \in raw'
      /\ \A p \in raw : p.ts >= cut => p \in raw'
      /\ ~measured => raw' = raw
  <2>1. clock >= cut
    BY <1>2
  <2> QED BY <1>1, <1>3, <2>1 DEF Since
<1>5. x \in Int /\ x >= record.expired /\ x >= clock + 1 - k
  BY <1>2 DEF Expired, Greater
<1>6. /\ gaps \subseteq Nat /\ downs \subseteq Nat /\ late \in Int
      /\ \A t \in record.gaps : t >= record.expired => t \in gaps
      /\ ~measured /\ clock >= record.expired => clock \in gaps
      /\ \A t \in downs : t \in record.downs \/ (t = clock /\ down)
  BY <1>2 DEF Recent
<1> HIDE DEF gaps, downs, late, x, k, r
<1>7. /\ record' \in [gaps : SUBSET Nat, downs : SUBSET Nat, expired : Int,
                      rolled : Nat, late : Int, troubles : Int]
      /\ record'.gaps = gaps /\ record'.downs = downs
      /\ record'.rolled = record.rolled /\ record'.expired = x
  BY <1>1, <1>5, <1>6 DEF RollupInv, RollupTyped
<1>8. RollupTyped'
  <2>1. clock + 1 \in Nat /\ raw' \subseteq Row
    BY <1>2, <1>3, <1>4 DEF RollupInv, RollupTyped
  <2> QED BY <1>1, <1>7, <2>1 DEF RollupInv, RollupTyped
<1>9. RollupTimes'
  <2>1. \A p \in raw' : p.ts < clock + 1
    <3> SUFFICES ASSUME NEW p \in raw' PROVE p.ts < clock + 1
      OBVIOUS
    <3>1. CASE p \in raw
      <4>1. p.ts < clock /\ p.ts \in Nat
        BY <3>1 DEF RollupInv, RollupTimes, RollupTyped, Row
      <4> QED BY <1>2, <4>1
    <3>2. CASE p = new
      BY <1>2, <1>3, <3>2
    <3> QED BY <1>4, <3>1, <3>2
  <2>2. \A p \in fine : Multiple(p.ts, FineTicks) /\ p.ts + FineTicks <= clock + 1
    <3> SUFFICES ASSUME NEW p \in fine
                 PROVE  Multiple(p.ts, FineTicks) /\ p.ts + FineTicks <= clock + 1
      OBVIOUS
    <3>1. Multiple(p.ts, FineTicks) /\ p.ts + FineTicks <= clock /\ p.ts \in Nat
      BY DEF RollupInv, RollupTimes, RollupTyped, Row
    <3> QED BY <1>2, <3>1
  <2>3. \A p \in coarse : Multiple(p.ts, CoarseTicks) /\ p.ts + CoarseTicks <= clock + 1
    <3> SUFFICES ASSUME NEW p \in coarse
                 PROVE  Multiple(p.ts, CoarseTicks) /\ p.ts + CoarseTicks <= clock + 1
      OBVIOUS
    <3>1. Multiple(p.ts, CoarseTicks) /\ p.ts + CoarseTicks <= clock /\ p.ts \in Nat
      BY DEF RollupInv, RollupTimes, RollupTyped, Row
    <3> QED BY <1>2, <3>1
  <2>4. \A t \in downs : t < clock + 1
    BY <1>2, <1>6
  <2>5. record.rolled <= clock + 1
    BY <1>2
  <2>6. x >= (clock + 1) - keep * DayTicks
    <3>1. x >= (clock + 1) - k
      BY <1>2, <1>5
    <3> QED BY <3>1 DEF k
  <2>7. job.step # 0 => /\ job.now <= clock + 1 /\ clock + 1 <= job.now + 1
                        /\ x >= job.now - job.keep * DayTicks
    <3> SUFFICES ASSUME job.step # 0
                 PROVE  /\ job.now <= clock + 1 /\ clock + 1 <= job.now + 1
                        /\ x >= job.now - job.keep * DayTicks
      OBVIOUS
    <3>1. /\ clock <= job.now /\ job.now <= clock /\ job.now \in Nat /\ job.keep * DayTicks \in Nat
          /\ record.expired >= job.now - job.keep * DayTicks
      BY <1>1, JobFacts
    <3> QED BY <1>2, <1>5, <3>1
  <2>8. job.step \in {4, 5} =>
          \A p \in raw' : p.ts >= job.now - Lesser(RawDays, job.keep) * DayTicks
    <3> SUFFICES ASSUME job.step \in {4, 5}, NEW p \in raw'
                 PROVE  p.ts >= job.now - Lesser(RawDays, job.keep) * DayTicks
      OBVIOUS
    <3>1. CASE p \in raw
      BY <3>1 DEF RollupInv, RollupTimes
    <3>2. CASE p = new
      <4>1. RawDays \in Nat \ {0} /\ job.step # 0
        BY RollupConstants
      <4>2. Lesser(RawDays, job.keep) * DayTicks \in Nat
        BY <4>1, PrunedDays
      <4>3. job.now <= clock /\ job.now \in Nat
        BY <4>1, JobFacts
      <4> QED BY <1>2, <1>3, <3>2, <4>2, <4>3
    <3> QED BY <1>4, <3>1, <3>2
  <2>9. /\ \A p \in raw' : p.ts < clock'
        /\ \A p \in fine' : Multiple(p.ts, FineTicks) /\ p.ts + FineTicks <= clock'
        /\ \A p \in coarse' : Multiple(p.ts, CoarseTicks) /\ p.ts + CoarseTicks <= clock'
    BY <1>1, <2>1, <2>2, <2>3
  <2>10. /\ \A t \in record'.downs : t < clock'
         /\ record'.rolled <= clock'
         /\ record'.expired >= clock' - keep' * DayTicks
    <3> DEFINE n == clock + 1
    <3>1. \A t \in downs : t < n
      BY <2>4
    <3>2. record.rolled <= n
      BY <2>5
    <3>3. x >= n - keep * DayTicks
      BY <2>6
    <3>4. /\ clock' = n /\ keep' = keep /\ record'.downs = downs
          /\ record'.rolled = record.rolled /\ record'.expired = x
      BY <1>1, <1>7
    <3> HIDE DEF n
    <3> QED BY <3>1, <3>2, <3>3, <3>4
  <2>11. job'.step # 0 => /\ job'.now <= clock' /\ clock' <= job'.now + 1
                          /\ record'.expired >= job'.now - job'.keep * DayTicks
    <3> DEFINE n == clock + 1
    <3>1. job.step # 0 => job.now <= n /\ n <= job.now + 1 /\ x >= job.now - job.keep * DayTicks
      BY <2>7
    <3>2. clock' = n /\ job' = job /\ record'.expired = x
      BY <1>1, <1>7
    <3> HIDE DEF n
    <3> QED BY <3>1, <3>2
  <2>12. job'.step \in {4, 5} =>
           \A p \in raw' : p.ts >= job'.now - Lesser(RawDays, job'.keep) * DayTicks
    BY <1>1, <2>8
  <2> QED BY <2>9, <2>10, <2>11, <2>12 DEF RollupTimes
<1>10. ASSUME NEW t \in Kept' PROVE OnRecord(t)'
  <2>1. /\ t \in 0 .. clock /\ t \in Nat /\ t \notin gaps /\ t >= x + CoarseTicks
    <3>1. /\ t \in 0 .. (clock + 1) - 1 /\ t \notin gaps /\ t >= x + CoarseTicks
      BY <1>1, <1>7 DEF Kept, Measured
    <3> QED BY <1>2, <3>1
  <2>2. t >= record.expired + CoarseTicks /\ t >= record.expired /\ t >= cut
    BY <1>2, <1>5, <2>1
  <2>3. t \notin record.gaps
    BY <1>6, <2>1, <2>2
  <2>4. (\A p \in fine : p.ts \in Nat /\ Multiple(p.ts, FineTicks) /\ p.ts + FineTicks <= clock)
        /\ \A p \in coarse : p.ts \in Nat /\ Multiple(p.ts, CoarseTicks) /\ p.ts + CoarseTicks <= clock
    BY DEF RollupInv, RollupTimes, RollupTyped, Row
  <2>5. CASE t < clock
    <3>1. t \in Kept
      BY <1>2, <2>1, <2>2, <2>3, <2>5 DEF Kept, Measured
    <3>2. OnShow(t) /\ NotRevisited(t) /\ OnTime(t)
      BY <3>1 DEF RollupInv, OnRecord
    <3>3. InFine(t) = InFine(t)' /\ InCoarse(t) = InCoarse(t)' /\ RolledUp(t) = RolledUp(t)'
      BY <1>1 DEF InFine, InCoarse, RolledUp
    <3>4. InRaw(t) => InRaw(t)'
      BY <1>4, <2>2 DEF InRaw
    <3>5. t \in downs => t \in record.downs
      BY <1>2, <1>6, <2>5
    <3>6. OnShow(t)'
      <4>1. InRaw(t)' \/ RolledUp(t)'
        BY <3>2, <3>3, <3>4 DEF OnShow
      <4>2. t \in downs => \A p \in raw' : p.ts = t => p.down
        <5> SUFFICES ASSUME t \in downs, NEW p \in raw', p.ts = t PROVE p.down
          OBVIOUS
        <5>1. p # new
          BY <1>2, <1>3, <2>5
        <5> QED BY <1>4, <3>2, <3>5, <5>1 DEF OnShow
      <4> QED BY <1>1, <1>7, <3>2, <3>5, <4>1, <4>2 DEF OnShow
    <3>7. NotRevisited(t)'
      <4>1. InCoarse(t) /\ ~InFine(t) => FineOf(t) < (clock + 1) - FineDays * DayTicks
        <5>1. FineOf(t) \in Nat /\ FineDays * DayTicks \in Nat
          BY <3>1, KeptFacts, RollupConstants DEF RollupInv
        <5>2. InCoarse(t) /\ ~InFine(t) => FineOf(t) < clock - FineDays * DayTicks
          BY <3>2 DEF NotRevisited
        <5> QED BY <1>2, <5>1, <5>2
      <4>2. ASSUME InCoarse(t), ~InFine(t), NEW p \in raw' PROVE FineOf(p.ts) # FineOf(t)
        <5>1. CASE p \in raw
          BY <3>2, <4>2, <5>1 DEF NotRevisited
        <5>2. CASE p = new
          <6>1. PICK c \in coarse : c.ts = CoarseOf(t)
            BY <4>2 DEF InCoarse
          <6> DEFINE e == c.ts + CoarseTicks
                     b == FineOf(t)
          <6>2. e <= clock /\ Multiple(e, CoarseTicks)
            <7>1. PICK n \in Nat : c.ts = n * CoarseTicks
              BY <2>4 DEF Multiple
            <7>2. (n + 1) * CoarseTicks = n * CoarseTicks + CoarseTicks
              BY <1>2
            <7>3. n + 1 \in Nat /\ e = (n + 1) * CoarseTicks
              BY <7>1, <7>2
            <7> QED BY <2>4, <7>3 DEF Multiple
          <6>3. t < e
            BY <3>1, <6>1, KeptFacts DEF RollupInv
          <6> HIDE DEF e
          <6>4. Multiple(e, FineTicks)
            BY <6>2, CoarserMultiple
          <6>5. b + FineTicks <= e /\ b \in Nat /\ e \in Nat
            <7>1. BucketOf(t, FineTicks) + FineTicks <= e /\ BucketOf(t, FineTicks) \in Nat
              BY <1>2, <2>1, <6>3, <6>4, BucketEnds, Bucketing
            <7>2. e \in Nat
              BY <1>2, <6>4, Multiples
            <7> QED BY <7>1, <7>2 DEF FineOf
          <6>6. clock < FineOf(clock) + FineTicks
            BY <1>2, Bucketing DEF FineOf
          <6> HIDE DEF b
          <6>7. FineOf(clock) # b
            BY <1>2, <6>2, <6>5, <6>6
          <6> QED BY <1>3, <5>2, <6>7 DEF b
        <5> QED BY <1>4, <5>1, <5>2
      <4>3. /\ (\E p \in fine : t < p.ts + FineTicks) => RolledUp(t)'
            /\ (\E p \in coarse : t < p.ts + CoarseTicks) => InCoarse(t)'
        BY <3>2, <3>3 DEF NotRevisited
      <4>4. InCoarse(t)' /\ ~InFine(t)' =>
              /\ FineOf(t) < (clock + 1) - FineDays * DayTicks
              /\ \A p \in raw' : FineOf(p.ts) # FineOf(t)
        BY <3>3, <4>1, <4>2
      <4> QED BY <1>1, <4>3, <4>4 DEF NotRevisited
    <3>8. OnTime(t)'
      <4>1. t >= (clock + 1) - r => InRaw(t)'
        <5>1. t >= clock - r => InRaw(t)
          BY <3>2 DEF OnTime, r
        <5> QED BY <1>2, <2>1, <3>4, <5>1
      <4>2. /\ job.step \in 2 .. 5 /\ t < FineEnd(job.now, job.keep) => RolledUp(t)'
            /\ job.step \in 3 .. 5 /\ t < CoarseEnd(job.now, job.keep) => InCoarse(t)'
            /\ t < FineEnd(record.rolled, RawDays) => RolledUp(t)'
            /\ t < CoarseEnd(record.rolled, FineDays) => InCoarse(t)'
        BY <3>2, <3>3 DEF OnTime
      <4> QED BY <1>1, <1>7, <4>1, <4>2 DEF OnTime, r
    <3> QED BY <3>6, <3>7, <3>8 DEF OnRecord
  <2>6. CASE t = clock
    <3>1. measured
      BY <1>6, <2>1, <2>2, <2>6
    <3>2. InRaw(t)'
      BY <1>3, <1>4, <2>6, <3>1 DEF InRaw
    <3>3. /\ FineOf(t) \in Nat /\ t < FineOf(t) + FineTicks
          /\ CoarseOf(t) \in Nat /\ t < CoarseOf(t) + CoarseTicks
      BY <1>2, <2>1, Bucketing DEF FineOf, CoarseOf
    <3>4. /\ \A p \in fine : p.ts # FineOf(t) /\ ~(t < p.ts + FineTicks)
          /\ \A p \in coarse : p.ts # CoarseOf(t) /\ ~(t < p.ts + CoarseTicks)
      BY <1>2, <2>4, <2>6, <3>3
    <3>5. OnShow(t)'
      <4>1. t \in downs => \A p \in raw' : p.ts = t => p.down
        <5> SUFFICES ASSUME t \in downs, NEW p \in raw', p.ts = t PROVE p.down
          OBVIOUS
        <5>1. down
          BY <1>2, <1>6, <2>6
        <5>2. p \notin raw
          BY <1>2, <2>6 DEF RollupInv, RollupTimes
        <5> QED BY <1>3, <1>4, <5>1, <5>2
      <4> QED BY <1>1, <1>7, <3>2, <3>4, <4>1 DEF OnShow
    <3>6. NotRevisited(t)'
      <4>1. ~InCoarse(t)'
        BY <1>1, <3>4 DEF InCoarse
      <4> QED BY <1>1, <3>4, <4>1 DEF NotRevisited
    <3>7. OnTime(t)'
      <4>1. job.step # 0 => ~(t < FineEnd(job.now, job.keep)) /\ ~(t < CoarseEnd(job.now, job.keep))
        <5> SUFFICES ASSUME job.step # 0
                     PROVE  ~(t < FineEnd(job.now, job.keep)) /\ ~(t < CoarseEnd(job.now, job.keep))
          OBVIOUS
        <5>1. job.now \in Nat /\ job.now <= clock /\ job.keep \in Nat \ {0}
          BY JobFacts
        <5>2. /\ FineEnd(job.now, job.keep) \in Nat /\ FineEnd(job.now, job.keep) <= job.now
              /\ CoarseEnd(job.now, job.keep) \in Nat /\ CoarseEnd(job.now, job.keep) <= job.now
          BY <5>1, FineEnds, CoarseEnds
        <5> QED BY <1>2, <2>6, <5>1, <5>2
      <4>2. ~(t < FineEnd(record.rolled, RawDays)) /\ ~(t < CoarseEnd(record.rolled, FineDays))
        <5>1. RawDays \in Nat \ {0} /\ FineDays \in Nat \ {0}
          BY RollupConstants
        <5> DEFINE n == record.rolled
        <5>2. n \in Nat /\ n <= clock
          BY <1>2
        <5> HIDE DEF n
        <5>3. /\ FineEnd(n, RawDays) \in Nat /\ FineEnd(n, RawDays) <= n
              /\ CoarseEnd(n, FineDays) \in Nat /\ CoarseEnd(n, FineDays) <= n
          BY <5>1, <5>2, FineEnds, CoarseEnds
        <5>4. ~(t < FineEnd(n, RawDays)) /\ ~(t < CoarseEnd(n, FineDays))
          BY <1>2, <2>6, <5>2, <5>3
        <5> QED BY <5>4 DEF n
      <4> QED BY <1>1, <1>7, <3>2, <4>1, <4>2 DEF OnTime
    <3> QED BY <3>5, <3>6, <3>7 DEF OnRecord
  <2> QED BY <1>2, <2>1, <2>5, <2>6
<1> QED BY <1>8, <1>9, <1>10 DEF RollupInv

LEMMA RollupStays == RollupInv /\ UNCHANGED rollupVars => RollupInv'
<1> SUFFICES ASSUME RollupInv, UNCHANGED rollupVars PROVE RollupInv'
  OBVIOUS
<1>1. /\ clock' = clock /\ raw' = raw /\ fine' = fine /\ coarse' = coarse /\ keep' = keep
      /\ job' = job /\ record' = record
  BY DEF rollupVars
<1>2. RollupTyped'
  BY <1>1 DEF RollupInv, RollupTyped
<1>3. RollupTimes'
  BY <1>1 DEF RollupInv, RollupTimes
<1>4. record.expired \in Int /\ record.expired >= record.expired
  BY DEF RollupInv, RollupTyped
<1>5. \A t \in Kept' : OnRecord(t)'
  BY <1>1, <1>4, SeriesAlone
<1> QED BY <1>2, <1>3, <1>5 DEF RollupInv

LEMMA RollupStep == RollupInv /\ [RollupNext]_rollupVars => RollupInv'
<1> SUFFICES ASSUME RollupInv, [RollupNext]_rollupVars PROVE RollupInv'
  OBVIOUS
<1>1. CASE \E measured, down, prune \in BOOLEAN : Measure(measured, down, prune)
  BY <1>1, MeasureKeeps
<1>2. CASE \E days \in KeepDays : EditRetention(days)
  BY <1>2, RetentionKeeps
<1>3. CASE StartHousekeeping
  BY <1>3, StartingKeeps
<1>4. CASE RollUpFine
  BY <1>4, FineKeeps
<1>5. CASE RollUpCoarse
  BY <1>5, CoarseKeeps
<1>6. CASE PruneRaw
  BY <1>6, PruneRawKeeps
<1>7. CASE PruneCoarse
  BY <1>7, PruneCoarseKeeps
<1>8. CASE PruneFine
  BY <1>8, PruneFineKeeps
<1>9. CASE StopHousekeeping
  BY <1>9, StoppingKeeps
<1>10. CASE UNCHANGED rollupVars
  BY <1>10, RollupStays
<1> QED BY <1>1, <1>2, <1>3, <1>4, <1>5, <1>6, <1>7, <1>8, <1>9, <1>10 DEF RollupNext

(* For every length of a day and of the buckets, every cap and retention:  *)
(* rolling up, pruning, stopped and late runs of the housekeeping and      *)
(* edited retentions lose no sample before its time and show no outage as  *)
(* up, and while the runs are on time the chart has no hole.               *)
THEOREM HistoryIsKept == RollupSpec => []HistoryKept
<1>1. RollupInv => HistoryKept
  BY OutagesStay, NoHole DEF HistoryKept
<1> QED BY <1>1, RollupStart, RollupStep, PTL DEF RollupSpec

-----------------------------------------------------------------------------
(* The composition                                                         *)

LEMMA RollupsInStorage ==
    /\ StorageInit => RollupInit
    /\ [StorageNext]_storageVars => [RollupNext]_rollupVars
<1>1. StorageInit => RollupInit
  BY Zenon DEF StorageInit
<1>2. UNCHANGED storageVars => UNCHANGED rollupVars
  BY DEF storageVars
<1> QED BY <1>1, <1>2, Zenon
          DEF StorageNext, StoreMoves, RollupsMove, AvailabilityMoves, AccountsMove

(* The same of the rollups beside the other components that keep data.     *)
THEOREM HistoryIsKeptBesideTheRest == StorageSpec => []HistoryKept
<1>1. StorageSpec => RollupSpec
  BY RollupsInStorage, PTL DEF StorageSpec, RollupSpec
<1> QED BY <1>1, HistoryIsKept, PTL

(* An installation in use is one that a first start may have led to.       *)
LEMMA InUseIsKept == InUse => AccessInv
<1> SUFFICES ASSUME InUse PROVE AccessInv
  OBVIOUS
<1>1. PICK second \in {"none", "user", "admin"} :
        /\ accounts = [u \in Users |->
             IF u # Root /\ second = "none" THEN NoAccount
             ELSE [id |-> "used", hash |-> IF u = Root THEN 2 ELSE 3,
                   admin |-> u = Root \/ second = "admin", active |-> TRUE, must |-> FALSE]]
        /\ tokens = {[user |-> u, hash |-> accounts[u].hash, late |-> FALSE] :
                      u \in {v \in Users : IsAccount(v)}}
  BY Zenon DEF InUse
<1> DEFINE z == 0
           one == 1
           three == 3
           no == FALSE
           once == {one}
<1>2. /\ logins = [failed |-> z, locked |-> no] /\ credFile = z
      /\ process = [state |-> "up", starts |-> MaxStarts, gate |-> no, banner |-> z]
      /\ requests = [q \in Requests |-> IdleRequest]
      /\ passwords = [drawn |-> three, temporary |-> once, initial |-> one]
      /\ crossed = no
  BY DEF InUse
<1>3. z = 0 /\ z \in Nat /\ one = 1 /\ one \in Nat /\ three = 3 /\ three \in Nat
      /\ no = FALSE /\ no \in BOOLEAN /\ once = {1} /\ once \in SUBSET Nat
  OBVIOUS
<1> HIDE DEF z, one, three, no, once
<1>4. /\ process.state = "up" /\ process.gate = FALSE /\ process.banner = 0
      /\ passwords.drawn = 3 /\ passwords.temporary = {1} /\ passwords.initial = 1
      /\ credFile = 0 /\ crossed = FALSE
  BY <1>2, <1>3
<1>5. ASSUME NEW u \in Users
      PROVE  /\ accounts[u] \in Account
             /\ ~IsAccount(u) => accounts[u].hash = 0
             /\ IsAccount(u) => accounts[u].hash \in {2, 3} /\ accounts[u].must = FALSE
             /\ u = Root => /\ IsAccount(u) /\ accounts[u].hash = 2
                            /\ accounts[u].admin /\ accounts[u].active
  <2> DEFINE h == IF u = Root THEN 2 ELSE 3
             a == u = Root \/ second = "admin"
             yes == TRUE
             nay == FALSE
             none == 0
  <2>1. CASE u # Root /\ second = "none"
    <3>1. accounts[u] = [id |-> "free", hash |-> none, admin |-> nay, active |-> nay, must |-> nay]
      BY <1>1, <2>1 DEF NoAccount
    <3>2. none = 0 /\ none \in Nat /\ nay = FALSE /\ nay \in BOOLEAN
      OBVIOUS
    <3> HIDE DEF none, nay
    <3>3. accounts[u] \in Account /\ accounts[u].id = "free" /\ accounts[u].hash = 0
      BY <3>1, <3>2 DEF Account
    <3> QED BY <2>1, <3>3 DEF IsAccount
  <2>2. CASE ~(u # Root /\ second = "none")
    <3>1. accounts[u] = [id |-> "used", hash |-> h, admin |-> a, active |-> yes, must |-> nay]
      BY <1>1, <2>2
    <3>2. /\ h \in {2, 3} /\ h \in Nat /\ (u = Root => h = 2) /\ a \in BOOLEAN /\ (u = Root => a)
          /\ yes = TRUE /\ yes \in BOOLEAN /\ nay = FALSE /\ nay \in BOOLEAN
      OBVIOUS
    <3> HIDE DEF h, a, yes, nay
    <3>3. /\ accounts[u].id = "used" /\ accounts[u].hash = h /\ accounts[u].admin = a
          /\ accounts[u].active = yes /\ accounts[u].must = nay
      BY <3>1
    <3>4. accounts[u] \in Account
      BY <3>1, <3>2 DEF Account
    <3> QED BY <3>2, <3>3, <3>4 DEF IsAccount
  <2> QED BY <2>1, <2>2
<1>5a. \A u \in Users :
         /\ accounts[u].hash \in Nat /\ accounts[u].hash <= 3
         /\ IsAccount(u) => accounts[u].hash # 0 /\ accounts[u].hash # 1
  <2> SUFFICES ASSUME NEW u \in Users
               PROVE  /\ accounts[u].hash \in Nat /\ accounts[u].hash <= 3
                      /\ IsAccount(u) => accounts[u].hash # 0 /\ accounts[u].hash # 1
    OBVIOUS
  <2> DEFINE h == accounts[u].hash
  <2>1. h = 0 \/ h = 2 \/ h = 3
    BY <1>5
  <2>2. IsAccount(u) => h \in {2, 3}
    BY <1>5
  <2> HIDE DEF h
  <2>3. h \in Nat /\ h <= 3 /\ (IsAccount(u) => h # 0 /\ h # 1)
    BY <2>1, <2>2
  <2> QED BY <2>3 DEF h
<1>5b. \A u \in Users : IsAccount(u) => ~accounts[u].must
  BY <1>5
<1>6. Root \in Users /\ MaxStarts \in Nat /\ IdleRequest \in Request
  BY AccessAssumption, IdleTyped
<1>7. ASSUME NEW t \in tokens
      PROVE  /\ t \in [user : Users, hash : Nat, late : BOOLEAN]
             /\ IsAccount(t.user) /\ t.hash = accounts[t.user].hash
  <2>1. PICK u \in Users : IsAccount(u) /\ t = [user |-> u, hash |-> accounts[u].hash, late |-> FALSE]
    BY <1>1
  <2>2. accounts[u].hash \in Nat
    BY <1>5a, <2>1
  <2> DEFINE h == accounts[u].hash
             late == FALSE
  <2>3. t = [user |-> u, hash |-> h, late |-> late] /\ late \in BOOLEAN /\ h \in Nat
    BY <2>1, <2>2
  <2> HIDE DEF h, late
  <2>4. t \in [user : Users, hash : Nat, late : BOOLEAN] /\ t.user = u /\ t.hash = h
    BY <2>3
  <2> QED BY <2>1, <2>4 DEF h
<1>8. AccessTypeOK
  <2>1. accounts \in [Users -> Account]
    <3>1. accounts = [u \in Users |-> accounts[u]]
      BY <1>1
    <3> QED BY <1>5, <3>1
  <2>2. tokens \subseteq [user : Users, hash : Nat, late : BOOLEAN]
    BY <1>7
  <2>3. /\ logins \in [failed : Nat, locked : BOOLEAN] /\ credFile \in Nat /\ crossed \in BOOLEAN
        /\ process \in [state : {"down", "empty", "boot", "up"}, starts : Nat,
                        gate : BOOLEAN, banner : Nat]
        /\ passwords \in [drawn : Nat, temporary : SUBSET Nat, initial : Nat]
    BY <1>2, <1>3, <1>6
  <2>4. requests \in [Requests -> Request]
    BY <1>2, <1>6
  <2> QED BY <2>1, <2>2, <2>3, <2>4 DEF AccessTypeOK
<1>9. \A q \in Requests : /\ requests[q] = IdleRequest /\ requests[q].op = "none"
                          /\ requests[q].pc = "idle" /\ requests[q].hash = 0
  BY <1>2 DEF IdleRequest
<1>10. \A q \in Requests : Fits(requests[q])
  BY <1>4, <1>9 DEF Fits
<1>11. DrawnInOrder
  BY <1>4, <1>5a DEF DrawnInOrder
<1>12. FirstStart
  <2>1. ~Untouched
    <3>1. IsAccount(Root) /\ accounts[Root].hash # 1
      BY <1>5, <1>5a, <1>6
    <3> QED BY <1>4, <3>1 DEF Untouched
  <2> QED BY <1>4, <2>1 DEF FirstStart
<1>13. Populated /\ AnAdminRemains
  BY <1>5, <1>6 DEF Populated, AnAdminRemains
<1>14. MustMatchesPassword
  BY <1>4, <1>5a, <1>5b DEF MustMatchesPassword
<1>15. FileIsCurrent /\ GateOpens
  BY <1>4 DEF FileIsCurrent, GateOpens
<1>16. SessionsAreCurrent
  BY <1>7 DEF SessionsAreCurrent
<1> QED BY <1>8, <1>10, <1>11, <1>12, <1>13, <1>14, <1>15, <1>16 DEF AccessInv, AccessKept

(* And of the accounts, from a first start or from an installation in use. *)
THEOREM AccessIsKeptBesideTheRest == StorageSpec => []AccessKept
<1>1. AccessInit => AccessInv
  BY AccessStart
<1>2. StorageInit => AccessInv
  BY <1>1, InUseIsKept, Zenon DEF StorageInit
<1>3. AccessInv /\ [StorageNext]_storageVars => AccessInv'
  <2>1. UNCHANGED storageVars => UNCHANGED accessVars
    BY DEF storageVars
  <2>2. [StorageNext]_storageVars => [AccessNext]_accessVars
    BY <2>1, Zenon DEF StorageNext, StoreMoves, RollupsMove, AvailabilityMoves, AccountsMove
  <2> QED BY <2>2, AccessStep
<1>4. AccessInv => AccessKept
  BY DEF AccessInv
<1> QED BY <1>2, <1>3, <1>4, PTL DEF StorageSpec

-----------------------------------------------------------------------------
(* Series: the members of a set in order, the lines that are among some    *)

Arranges(some, order) ==
    /\ \A x \in some : <<x, x>> \notin order
    /\ \A x, y \in some : x = y \/ <<x, y>> \in order \/ <<y, x>> \in order
    /\ \A x, y, z \in some : <<x, y>> \in order /\ <<y, z>> \in order => <<x, z>> \in order

LEMMA SortedFacts ==
    ASSUME NEW some, NEW order, IsFiniteSet(some), Arranges(some, order)
    PROVE  LET s == Sorted(some, order) n == Cardinality(some) IN
           /\ n \in Nat /\ DOMAIN s = 1 .. n
           /\ \A k \in 1 .. n : s[k] \in some
           /\ \A x \in some : \E k \in 1 .. n : s[k] = x
           /\ \A i, j \in 1 .. n : i < j <=> <<s[i], s[j]>> \in order
<1> DEFINE n == Cardinality(some)
           Less(x) == {y \in some : <<y, x>> \in order}
           rank == [x \in some |-> Cardinality(Less(x)) + 1]
           s == Sorted(some, order)
<1>1. n \in Nat
  BY FS_CardinalityType
<1>2. ASSUME NEW x \in some
      PROVE  IsFiniteSet(Less(x)) /\ Cardinality(Less(x)) \in Nat
  <2>1. Less(x) \in SUBSET some
    OBVIOUS
  <2>2. IsFiniteSet(Less(x))
    BY <2>1, FS_Subset
  <2> QED BY <2>2, FS_CardinalityType
<1>3. ASSUME NEW x \in some
      PROVE  Cardinality(Less(x)) < n
  <2>1. Less(x) \in SUBSET some /\ x \notin Less(x)
    BY DEF Arranges
  <2>2. Cardinality(Less(x)) <= n /\ Cardinality(Less(x)) # n
    BY <2>1, FS_Subset
  <2> QED BY <1>1, <1>2, <2>2
<1>4. ASSUME NEW x \in some, NEW y \in some, <<x, y>> \in order
      PROVE  Cardinality(Less(x)) < Cardinality(Less(y))
  <2>1. Less(x) \in SUBSET Less(y)
    BY <1>4 DEF Arranges
  <2>2. x \notin Less(x) /\ x \in Less(y)
    BY <1>4 DEF Arranges
  <2>3. IsFiniteSet(Less(y))
    BY <1>2
  <2> HIDE DEF Less
  <2>4. /\ Cardinality(Less(x)) <= Cardinality(Less(y))
        /\ Cardinality(Less(y)) # Cardinality(Less(x))
    BY <2>1, <2>2, <2>3, FS_Subset
  <2> QED BY <1>2, <2>4
<1> HIDE DEF Less
<1>5. rank \in [some -> 1 .. n]
  BY <1>1, <1>2, <1>3
<1>6. \A x, y \in some : <<x, y>> \in order => rank[x] < rank[y]
  BY <1>2, <1>4
<1>7. rank \in Injection(some, 1 .. n)
  <2>1. ASSUME NEW x \in some, NEW y \in some, rank[x] = rank[y] PROVE x = y
    <3> HIDE DEF rank
    <3>1. rank[x] \in Int /\ rank[y] \in Int
      BY <1>5
    <3>2. ~(rank[x] < rank[y]) /\ ~(rank[y] < rank[x])
      BY <2>1, <3>1
    <3>3. <<x, y>> \notin order /\ <<y, x>> \notin order
      BY <1>6, <3>2
    <3> QED BY <3>3 DEF Arranges
  <2>2. DOMAIN rank = some
    OBVIOUS
  <2> HIDE DEF rank
  <2> QED BY <1>5, <2>1, <2>2 DEF Injection, IsInjective
<1>8. IsFiniteSet(1 .. n) /\ Cardinality(1 .. n) = n
  <2>1. 1 \in Int /\ n \in Int
    BY <1>1
  <2> QED BY <1>1, <2>1, FS_Interval
<1>9. rank \in Surjection(some, 1 .. n)
  BY <1>7, <1>8, FS_Injection
<1>10. ASSUME NEW k \in 1 .. n
       PROVE  s[k] \in some /\ Cardinality(Less(s[k])) = k - 1
  <2>1. PICK x \in some : rank[x] = k
    BY <1>9 DEF Surjection
  <2>2. Cardinality(Less(x)) = k - 1
    BY <1>2, <2>1
  <2>3. s[k] = CHOOSE y \in some : Cardinality(Less(y)) = k - 1
    BY DEF Sorted, Less
  <2> QED BY <2>2, <2>3
<1>11. DOMAIN s = 1 .. n
  BY DEF Sorted
<1> HIDE DEF s, rank
<1>12. ASSUME NEW x \in some PROVE \E k \in 1 .. n : s[k] = x
  <2>1. PICK k \in 1 .. n : k = rank[x]
    BY <1>5
  <2>2. rank[s[k]] = k
    BY <1>2, <1>10 DEF rank
  <2> QED BY <1>7, <1>10, <2>1, <2>2 DEF Injection, IsInjective
<1>13. ASSUME NEW i \in 1 .. n, NEW j \in 1 .. n
       PROVE  i < j <=> <<s[i], s[j]>> \in order
  <2>1. s[i] \in some /\ s[j] \in some /\ rank[s[i]] = i /\ rank[s[j]] = j
    BY <1>2, <1>10 DEF rank
  <2>2. <<s[i], s[j]>> \in order => i < j
    BY <1>6, <2>1
  <2>3. <<s[j], s[i]>> \in order => j < i
    BY <1>6, <2>1
  <2>4. s[i] = s[j] => i = j
    BY <2>1
  <2>5. s[i] = s[j] \/ <<s[i], s[j]>> \in order \/ <<s[j], s[i]>> \in order
    BY <2>1 DEF Arranges
  <2> QED BY <2>2, <2>3, <2>4, <2>5
<1> QED BY <1>1, <1>10, <1>11, <1>12, <1>13 DEF s

(* Places of a file, from the first to the last.                           *)
LEMMA AscendingFacts ==
    ASSUME NEW n \in Nat, NEW some \in SUBSET (1 .. n)
    PROVE  LET s == Ascending(some) k == Cardinality(some) IN
           /\ k \in Nat /\ DOMAIN s = 1 .. k
           /\ \A i \in 1 .. k : s[i] \in some
           /\ \A x \in some : \E i \in 1 .. k : s[i] = x
           /\ \A i, j \in 1 .. k : i < j <=> s[i] < s[j]
<1> DEFINE order == {x \in some \X some : x[1] < x[2]}
           s == Ascending(some)
           k == Cardinality(some)
<1>1. IsFiniteSet(some)
  <2>1. 1 \in Int /\ n \in Int
    OBVIOUS
  <2>2. IsFiniteSet(1 .. n)
    BY <2>1, FS_Interval
  <2> QED BY <2>2, FS_Subset
<1>2. \A x, y : <<x, y>> \in order <=> x \in some /\ y \in some /\ x < y
  OBVIOUS
<1>3. s = Sorted(some, order)
  BY DEF Ascending
<1> HIDE DEF order
<1>4. Arranges(some, order)
  BY <1>2 DEF Arranges
<1>5. /\ k \in Nat /\ DOMAIN s = 1 .. k
      /\ \A i \in 1 .. k : s[i] \in some
      /\ \A x \in some : \E i \in 1 .. k : s[i] = x
      /\ \A i, j \in 1 .. k : i < j <=> <<s[i], s[j]>> \in order
  BY <1>1, <1>3, <1>4, SortedFacts
<1> QED BY <1>2, <1>5

(* One file has some of the lines of another, in the same order.           *)
PartOf(a, lines) ==
    \E at \in [1 .. Len(a) -> 1 .. Len(lines)] :
       /\ \A i \in 1 .. Len(a) : a[i] = lines[at[i]]
       /\ \A i, j \in 1 .. Len(a) : i < j <=> at[i] < at[j]

LEMMA AmongFacts ==
    ASSUME NEW S, NEW lines \in Seq(S), NEW some
    PROVE  LET a == Among(lines, some) IN
           /\ a \in Seq(S)
           /\ Lines(a) = Lines(lines) \intersect some
           /\ PartOf(a, lines)
<1> DEFINE these == {i \in DOMAIN lines : lines[i] \in some}
           at == Ascending(these)
           k == Cardinality(these)
           a == Among(lines, some)
<1>1. Len(lines) \in Nat /\ DOMAIN lines = 1 .. Len(lines) /\ \A i \in 1 .. Len(lines) : lines[i] \in S
  OBVIOUS
<1>2. these \in SUBSET (1 .. Len(lines)) /\ \A i : i \in these <=> i \in 1 .. Len(lines) /\ lines[i] \in some
  BY <1>1
<1>3. a = [i \in DOMAIN at |-> lines[at[i]]]
  BY DEF Among
<1> HIDE DEF these, a
<1>4. /\ k \in Nat /\ DOMAIN at = 1 .. k
      /\ \A i \in 1 .. k : at[i] \in these
      /\ \A x \in these : \E i \in 1 .. k : at[i] = x
      /\ \A i, j \in 1 .. k : i < j <=> at[i] < at[j]
  BY <1>1, <1>2, AscendingFacts
<1> HIDE DEF at, k
<1>5. \A i \in 1 .. k : a[i] = lines[at[i]] /\ a[i] \in S
  BY <1>1, <1>2, <1>3, <1>4
<1>6. a \in Seq(S) /\ Len(a) = k /\ DOMAIN a = 1 .. k
  <2>1. a \in [1 .. k -> S]
    BY <1>3, <1>4, <1>5
  <2> QED BY <1>4, <2>1
<1>7. Lines(a) = Lines(lines) \intersect some
  <2>1. ASSUME NEW x \in Lines(a) PROVE x \in Lines(lines) /\ x \in some
    <3>1. PICK i \in 1 .. k : x = a[i]
      BY <1>6 DEF Lines, ToSet
    <3>2. at[i] \in 1 .. Len(lines) /\ lines[at[i]] \in some /\ x = lines[at[i]]
      BY <1>2, <1>4, <1>5, <3>1
    <3> QED BY <1>1, <3>2 DEF Lines, ToSet
  <2>2. ASSUME NEW x \in Lines(lines), x \in some PROVE x \in Lines(a)
    <3>1. PICK i \in 1 .. Len(lines) : x = lines[i]
      BY <1>1 DEF Lines, ToSet
    <3>2. PICK j \in 1 .. k : at[j] = i
      BY <1>2, <1>4, <2>2, <3>1
    <3> QED BY <1>5, <1>6, <3>1, <3>2 DEF Lines, ToSet
  <2> QED BY <2>1, <2>2
<1>8. at \in [1 .. Len(a) -> 1 .. Len(lines)]
  <2>1. at = [i \in 1 .. k |-> at[i]]
    BY <1>4 DEF at, Ascending, Sorted
  <2> QED BY <1>2, <1>4, <1>6, <2>1
<1>9. PartOf(a, lines)
  BY <1>4, <1>5, <1>6, <1>8 DEF PartOf
<1> QED BY <1>6, <1>7, <1>9 DEF a

LEMMA PartFacts ==
    ASSUME NEW S, NEW a \in Seq(S), NEW lines \in Seq(S), PartOf(a, lines)
    PROVE  /\ Lines(a) \subseteq Lines(lines)
           /\ IsInjective(lines) => IsInjective(a)
           /\ InOrder(lines) => InOrder(a)
<1>2. /\ DOMAIN a = 1 .. Len(a) /\ DOMAIN lines = 1 .. Len(lines)
      /\ Len(a) \in Nat /\ Len(lines) \in Nat
  OBVIOUS
<1>3. PICK at \in [1 .. Len(a) -> 1 .. Len(lines)] :
         /\ \A i \in 1 .. Len(a) : a[i] = lines[at[i]]
         /\ \A i, j \in 1 .. Len(a) : i < j <=> at[i] < at[j]
  BY DEF PartOf
<1>1. Lines(a) \subseteq Lines(lines)
  BY <1>2, <1>3 DEF Lines, ToSet
<1>4. ASSUME IsInjective(lines) PROVE IsInjective(a)
  <2>1. ASSUME NEW i \in 1 .. Len(a), NEW j \in 1 .. Len(a), a[i] = a[j] PROVE i = j
    <3>0. at[i] \in DOMAIN lines /\ at[j] \in DOMAIN lines /\ lines[at[i]] = lines[at[j]]
      BY <1>2, <1>3, <2>1
    <3>1. at[i] = at[j]
      BY <1>4, <3>0 DEF IsInjective
    <3>2. at[i] \in Nat /\ at[j] \in Nat
      BY <1>2
    <3>3. ~(at[i] < at[j]) /\ ~(at[j] < at[i])
      BY <3>1, <3>2
    <3>4. ~(i < j) /\ ~(j < i)
      BY <1>3, <3>3
    <3> QED BY <3>4
  <2> QED BY <1>2, <2>1 DEF IsInjective
<1>5. ASSUME InOrder(lines) PROVE InOrder(a)
  <2>1. ASSUME NEW i \in 1 .. Len(a), NEW j \in 1 .. Len(a), i < j PROVE Before(a[i], a[j])
    <3>1. at[i] < at[j] /\ at[i] \in DOMAIN lines /\ at[j] \in DOMAIN lines
      BY <1>2, <1>3, <2>1
    <3>2. Before(lines[at[i]], lines[at[j]])
      BY <1>5, <3>1 DEF InOrder
    <3> QED BY <1>3, <3>2
  <2> QED BY <1>2, <2>1 DEF InOrder
<1> QED BY <1>1, <1>4, <1>5

LEMMA AmongNone ==
    ASSUME NEW S, NEW lines \in Seq(S), NEW some
    PROVE  Among(lines, some) = <<>> <=> Lines(lines) \intersect some = {}
<1> DEFINE a == Among(lines, some)
<1>1. a \in Seq(S) /\ Lines(a) = Lines(lines) \intersect some
  BY AmongFacts
<1> HIDE DEF a
<1>2. a = <<>> <=> Len(a) = 0
  BY <1>1
<1>3. DOMAIN a = 1 .. Len(a) /\ Len(a) \in Nat
  BY <1>1
<1>4. Lines(a) = {} <=> Len(a) = 0
  <2>1. ASSUME Len(a) # 0 PROVE a[1] \in Lines(a)
    <3>1. 1 \in DOMAIN a
      BY <1>3, <2>1
    <3> QED BY <3>1 DEF Lines, ToSet
  <2>2. ASSUME Len(a) = 0 PROVE Lines(a) = {}
    <3>1. DOMAIN a = {}
      BY <1>3, <2>2
    <3> QED BY <3>1 DEF Lines, ToSet
  <2> QED BY <2>1, <2>2
<1> QED BY <1>1, <1>2, <1>4 DEF a

LEMMA PeriodsFacts ==
    /\ IsFiniteSet(Periods) /\ Periods \subseteq Nat
    /\ \A d \in 1 .. LastDay : PeriodOf[d] \in Periods
    /\ \A d, e \in 1 .. LastDay : PeriodOf[d] < PeriodOf[e] => d < e
<1>1. Periods \in SUBSET (1 .. LastDay) /\ LastDay \in Nat
  BY StoreAssumption DEF Periods
<1>2. 1 \in Int /\ LastDay \in Int
  BY <1>1
<1>3. IsFiniteSet(Periods)
  BY <1>1, <1>2, FS_Interval, FS_Subset
<1>4. ASSUME NEW d \in 1 .. LastDay, NEW e \in 1 .. LastDay, PeriodOf[d] < PeriodOf[e]
      PROVE  d < e
  <2>1. PeriodOf[d] \in Nat /\ PeriodOf[e] \in Nat
    BY <1>1, StoreAssumption
  <2>2. ~(e <= d)
    BY <1>4, <2>1, StoreAssumption
  <2> QED BY <2>2
<1> QED BY <1>1, <1>3, <1>4 DEF Periods

(* The lines of all segments, one after the other.                         *)
Parted(segs) ==
    \A p \in Periods : \A s \in Lines(segs[p].lines) : PeriodOf[s.day] = p

LEMMA AllSegmentsFacts ==
    ASSUME NEW segs, \A p \in Periods : segs[p].lines \in Seq(Sample)
    PROVE  LET a == AllSegments(segs) IN
           /\ a \in Seq(Sample)
           /\ \A s : s \in Lines(a) <=> \E p \in Periods : s \in Lines(segs[p].lines)
           /\ Parted(segs) /\ (\A p \in Periods : IsInjective(segs[p].lines)) => IsInjective(a)
           /\ Parted(segs) /\ (\A p \in Periods : InOrder(segs[p].lines)) => InOrder(a)
<1> DEFINE row == [p \in Periods |-> {p} \X DOMAIN segs[p].lines]
           rows == {{p} \X DOMAIN segs[p].lines : p \in Periods}
           places == UNION rows
           Comes(x, y) == x[1] < y[1] \/ (x[1] = y[1] /\ x[2] < y[2])
           order == {x \in places \X places : Comes(x[1], x[2])}
           a == AllSegments(segs)
           at == Sorted(places, order)
           n == Cardinality(places)
<1>1. \A p \in Periods : /\ p \in Nat /\ Len(segs[p].lines) \in Nat
                         /\ DOMAIN segs[p].lines = 1 .. Len(segs[p].lines)
                         /\ \A i \in DOMAIN segs[p].lines : segs[p].lines[i] \in Sample
  BY PeriodsFacts
<1>2. IsFiniteSet(rows)
  <2>1. row \in Surjection(Periods, rows)
    BY DEF Surjection
  <2> HIDE DEF row, rows
  <2> QED BY <2>1, FS_Surjection, PeriodsFacts
<1>3. \A x \in rows : IsFiniteSet(x)
  <2>1. ASSUME NEW p \in Periods PROVE IsFiniteSet({p} \X DOMAIN segs[p].lines)
    <3> DEFINE one == {p}
               them == DOMAIN segs[p].lines
    <3>1. IsFiniteSet(one)
      BY FS_Singleton
    <3>2. 1 \in Int /\ Len(segs[p].lines) \in Int
      BY <1>1
    <3>3. IsFiniteSet(them)
      BY <1>1, <3>2, FS_Interval
    <3> HIDE DEF one, them
    <3>4. IsFiniteSet(one \X them)
      BY <3>1, <3>3, FS_Product
    <3> QED BY <3>4 DEF one, them
  <2> QED BY <2>1
<1> HIDE DEF rows
<1>4. IsFiniteSet(places)
  BY <1>2, <1>3, FS_UNION
<1> USE DEF rows
<1>5. \A x : x \in places <=> /\ x = <<x[1], x[2]>> /\ x[1] \in Periods
                              /\ x[2] \in DOMAIN segs[x[1]].lines
  OBVIOUS
<1>6. \A x \in places : x[1] \in Nat /\ x[2] \in Nat
  BY <1>1, <1>5
<1>6a. \A p \in Periods : \A i \in DOMAIN segs[p].lines : <<p, i>> \in places
  OBVIOUS
<1>7. a = [k \in DOMAIN at |-> segs[at[k][1]].lines[at[k][2]]]
  BY DEF AllSegments
<1> HIDE DEF rows, places, a
<1>8. \A x, y : <<x, y>> \in order <=> x \in places /\ y \in places /\ Comes(x, y)
  OBVIOUS
<1>9. \A x, y \in places : x = y <=> x[1] = y[1] /\ x[2] = y[2]
  BY <1>5
<1> HIDE DEF order
<1>10. Arranges(places, order)
  <2>1. \A x \in places : ~Comes(x, x)
    BY <1>6
  <2>2. \A x, y \in places : x = y \/ Comes(x, y) \/ Comes(y, x)
    BY <1>6, <1>9
  <2>3. \A x, y, z \in places : Comes(x, y) /\ Comes(y, z) => Comes(x, z)
    BY <1>6
  <2> QED BY <1>8, <2>1, <2>2, <2>3 DEF Arranges
<1> HIDE DEF at, n
<1>11. /\ n \in Nat /\ DOMAIN at = 1 .. n
       /\ \A k \in 1 .. n : at[k] \in places
       /\ \A x \in places : \E k \in 1 .. n : at[k] = x
       /\ \A i, j \in 1 .. n : i < j <=> <<at[i], at[j]>> \in order
  BY <1>4, <1>10, SortedFacts DEF at, n
<1>12. /\ DOMAIN a = 1 .. n
       /\ \A k \in 1 .. n : /\ a[k] = segs[at[k][1]].lines[at[k][2]]
                            /\ at[k][1] \in Periods /\ at[k][2] \in DOMAIN segs[at[k][1]].lines
                            /\ a[k] \in Lines(segs[at[k][1]].lines)
                            /\ a[k] \in Sample
  BY <1>1, <1>5, <1>7, <1>11 DEF Lines, ToSet
<1>13. a \in Seq(Sample)
  <2>1. a = [k \in 1 .. n |-> a[k]]
    BY <1>7, <1>11
  <2>2. a \in [1 .. n -> Sample]
    BY <1>12, <2>1
  <2> QED BY <1>11, <2>2
<1>14. ASSUME NEW s PROVE s \in Lines(a) <=> \E p \in Periods : s \in Lines(segs[p].lines)
  <2>1. ASSUME s \in Lines(a) PROVE \E p \in Periods : s \in Lines(segs[p].lines)
    <3>1. PICK k \in 1 .. n : s = a[k]
      BY <1>12, <2>1 DEF Lines, ToSet
    <3> QED BY <1>12, <3>1
  <2>2. ASSUME NEW p \in Periods, s \in Lines(segs[p].lines) PROVE s \in Lines(a)
    <3>1. PICK i \in DOMAIN segs[p].lines : s = segs[p].lines[i]
      BY <2>2 DEF Lines, ToSet
    <3>2. PICK k \in 1 .. n : at[k] = <<p, i>>
      BY <1>6a, <1>11
    <3>3. s = a[k]
      BY <1>12, <3>1, <3>2
    <3> QED BY <1>12, <3>3 DEF Lines, ToSet
  <2> QED BY <2>1, <2>2
<1>15. ASSUME Parted(segs), \A p \in Periods : IsInjective(segs[p].lines)
       PROVE  IsInjective(a)
  <2>1. ASSUME NEW i \in 1 .. n, NEW j \in 1 .. n, a[i] = a[j] PROVE i = j
    <3>a. PeriodOf[a[i].day] = at[i][1]
      BY <1>12, <1>15 DEF Parted
    <3>b. PeriodOf[a[j].day] = at[j][1]
      BY <1>12, <1>15 DEF Parted
    <3>1. at[i][1] = at[j][1]
      BY <2>1, <3>a, <3>b
    <3>0. /\ segs[at[i][1]].lines[at[i][2]] = segs[at[i][1]].lines[at[j][2]]
          /\ at[i][1] \in Periods
          /\ at[i][2] \in DOMAIN segs[at[i][1]].lines /\ at[j][2] \in DOMAIN segs[at[i][1]].lines
      BY <1>12, <2>1, <3>1
    <3>2. at[i][2] = at[j][2]
      BY <1>15, <3>0 DEF IsInjective
    <3>3. at[i] = at[j] /\ at[i] \in places
      BY <1>9, <1>11, <3>1, <3>2
    <3>4. <<at[i], at[j]>> \notin order /\ <<at[j], at[i]>> \notin order
      BY <1>10, <3>3 DEF Arranges
    <3>5. ~(i < j) /\ ~(j < i)
      BY <1>11, <3>4
    <3> QED BY <3>5
  <2> QED BY <1>12, <2>1 DEF IsInjective
<1>16. ASSUME Parted(segs), \A p \in Periods : InOrder(segs[p].lines)
       PROVE  InOrder(a)
  <2>1. ASSUME NEW i \in 1 .. n, NEW j \in 1 .. n, i < j PROVE Before(a[i], a[j])
    <3>1. Comes(at[i], at[j])
      BY <1>8, <1>11, <2>1
    <3>2. CASE at[i][1] = at[j][1] /\ at[i][2] < at[j][2]
      BY <1>12, <1>16, <3>2 DEF InOrder
    <3>3. CASE at[i][1] < at[j][1]
      <4>1. PeriodOf[a[i].day] < PeriodOf[a[j].day]
        BY <1>12, <1>16, <3>3 DEF Parted
      <4>2. a[i].day \in 1 .. LastDay /\ a[j].day \in 1 .. LastDay
        BY <1>12 DEF Sample
      <4>3. a[i].day < a[j].day
        BY <4>1, <4>2, PeriodsFacts
      <4> QED BY <4>3 DEF Before
    <3> QED BY <3>1, <3>2, <3>3
  <2> QED BY <1>12, <2>1 DEF InOrder
<1> QED BY <1>13, <1>14, <1>15, <1>16 DEF a

LEMMA BeforeArranges ==
    ASSUME NEW all, all \subseteq Sample
    PROVE  Arranges(all, {x \in all \X all : Before(x[1], x[2])})
<1> DEFINE order == {x \in all \X all : Before(x[1], x[2])}
<1>1. \A x, y : <<x, y>> \in order <=> x \in all /\ y \in all /\ Before(x, y)
  OBVIOUS
<1>2. \A x \in all : x.id \in Int /\ x.day \in Int
  BY StoreAssumption, SMTT(60) DEF Sample
<1>3. ASSUME NEW x \in all, NEW y \in all, x.id = y.id, x.day = y.day PROVE x = y
  BY <1>3 DEF Sample
<1> HIDE DEF order
<1>4. \A x \in all : ~Before(x, x)
  BY <1>2 DEF Before
<1>5. ASSUME NEW x \in all, NEW y \in all
      PROVE  x = y \/ Before(x, y) \/ Before(y, x)
  <2>1. x.id \in Int /\ y.id \in Int /\ x.day \in Int /\ y.day \in Int
    BY <1>2
  <2>2. x.id = y.id /\ x.day = y.day => x = y
    BY <1>3
  <2> QED BY <2>1, <2>2 DEF Before
<1>6. \A x, y, z \in all : Before(x, y) /\ Before(y, z) => Before(x, z)
  BY <1>2 DEF Before
<1>7. Arranges(all, order)
  BY <1>1, <1>4, <1>5, <1>6 DEF Arranges
<1> QED BY <1>7 DEF order

LEMMA BeforeFacts ==
    /\ \A s \in Sample : ~Before(s, s)
    /\ \A r, s, t \in Sample : Before(r, s) /\ Before(s, t) => Before(r, t)
<1>1. \A x \in Sample : x.id \in Int /\ x.day \in Int
  BY StoreAssumption DEF Sample
<1> QED BY <1>1 DEF Before

LEMMA InOrderInjective ==
    ASSUME NEW s \in Seq(Sample), InOrder(s)
    PROVE  IsInjective(s)
<1>1. DOMAIN s = 1 .. Len(s) /\ Len(s) \in Nat /\ \A i \in 1 .. Len(s) : s[i] \in Sample
  OBVIOUS
<1>2. ASSUME NEW i \in 1 .. Len(s), NEW j \in 1 .. Len(s), s[i] = s[j] PROVE i = j
  <2>1. ~Before(s[i], s[j]) /\ ~Before(s[j], s[i])
    BY <1>1, <1>2, BeforeFacts
  <2>2. ~(i < j) /\ ~(j < i)
    BY <1>1, <2>1 DEF InOrder
  <2> QED BY <2>2
<1> QED BY <1>1, <1>2 DEF IsInjective

LEMMA LinesFacts ==
    ASSUME NEW S, NEW s \in Seq(S)
    PROVE  /\ Lines(s) \subseteq S /\ Len(s) \in Nat /\ DOMAIN s = 1 .. Len(s)
           /\ \A x : x \in Lines(s) <=> \E i \in 1 .. Len(s) : s[i] = x
           /\ s = <<>> <=> Len(s) = 0
<1>1. Len(s) \in Nat /\ DOMAIN s = 1 .. Len(s) /\ \A i \in 1 .. Len(s) : s[i] \in S
  OBVIOUS
<1>2. \A x : x \in Lines(s) <=> \E i \in 1 .. Len(s) : s[i] = x
  BY <1>1 DEF Lines, ToSet
<1>3. s = <<>> <=> Len(s) = 0
  BY EmptySeq
<1> QED BY <1>1, <1>2, <1>3

LEMMA MergedFacts ==
    ASSUME NEW old \in Seq(Sample), NEW new \in Seq(Sample)
    PROVE  /\ Merged(old, new) \in Seq(Sample)
           /\ Lines(Merged(old, new)) = Lines(old) \union Lines(new)
           /\ InOrder(Merged(old, new))
<1> DEFINE all == Lines(old) \union Lines(new)
           order == {x \in all \X all : Before(x[1], x[2])}
           m == Merged(old, new)
           n == Cardinality(all)
<1>1. all \subseteq Sample
  BY LinesFacts
<1>2. IsFiniteSet(all)
  <2>1. ASSUME NEW s \in Seq(Sample) PROVE IsFiniteSet(Lines(s))
    <3>1. Len(s) \in Nat /\ DOMAIN s = 1 .. Len(s)
      BY LinesFacts
    <3>2. s \in Surjection(1 .. Len(s), Lines(s))
      <4>1. \A x \in Lines(s) : \E i \in 1 .. Len(s) : s[i] = x
        BY LinesFacts
      <4>2. s \in [1 .. Len(s) -> Lines(s)]
        BY <3>1 DEF Lines, ToSet
      <4> QED BY <4>1, <4>2 DEF Surjection
    <3>3. 1 \in Int /\ Len(s) \in Int
      BY <3>1
    <3>4. IsFiniteSet(1 .. Len(s))
      BY <3>3, FS_Interval
    <3> QED BY <3>2, <3>4, FS_Surjection
  <2>2. IsFiniteSet(Lines(old)) /\ IsFiniteSet(Lines(new))
    BY <2>1
  <2> QED BY <2>2, FS_Union
<1>3. Arranges(all, order)
  BY <1>1, BeforeArranges
<1>4. \A x, y : <<x, y>> \in order => Before(x, y)
  OBVIOUS
<1>5. m = Sorted(all, order)
  BY DEF Merged
<1> HIDE DEF all, order, m
<1>6. /\ n \in Nat /\ DOMAIN m = 1 .. n
      /\ \A k \in 1 .. n : m[k] \in all
      /\ \A x \in all : \E k \in 1 .. n : m[k] = x
      /\ \A i, j \in 1 .. n : i < j <=> <<m[i], m[j]>> \in order
  BY <1>2, <1>3, <1>5, SortedFacts
<1>7. m \in Seq(Sample)
  <2>1. m = [k \in 1 .. n |-> m[k]]
    BY <1>5, <1>6 DEF Sorted
  <2>2. m \in [1 .. n -> Sample]
    BY <1>1, <1>6, <2>1
  <2> QED BY <1>6, <2>2
<1>8. Lines(m) = all
  BY <1>6 DEF Lines, ToSet
<1>9. InOrder(m)
  BY <1>4, <1>6 DEF InOrder
<1> QED BY <1>7, <1>8, <1>9 DEF all, m

LEMMA ConcatFacts ==
    ASSUME NEW S, NEW s \in Seq(S), NEW t \in Seq(S)
    PROVE  /\ s \o t \in Seq(S) /\ Lines(s \o t) = Lines(s) \union Lines(t)
           /\ IsInjective(s) /\ IsInjective(t) /\ Lines(s) \intersect Lines(t) = {}
                => IsInjective(s \o t)
           /\ InOrder(s) /\ InOrder(t) /\ (\A x \in Lines(s), y \in Lines(t) : Before(x, y))
                => InOrder(s \o t)
<1> DEFINE m == Len(s)
           n == Len(t)
           st == s \o t
<1>1. /\ m \in Nat /\ n \in Nat /\ DOMAIN s = 1 .. m /\ DOMAIN t = 1 .. n
      /\ st \in Seq(S) /\ Len(st) = m + n
      /\ \A i \in 1 .. m + n : st[i] = IF i <= m THEN s[i] ELSE t[i - m]
  BY ConcatProperties
<1>2. DOMAIN st = 1 .. m + n
  BY <1>1
<1> HIDE DEF m, n, st
<1>3. ASSUME NEW i \in 1 .. m + n
      PROVE  \/ i \in 1 .. m /\ st[i] = s[i] /\ st[i] \in Lines(s)
             \/ i > m /\ i - m \in 1 .. n /\ st[i] = t[i - m] /\ st[i] \in Lines(t)
  <2>1. CASE i <= m
    <3>1. i \in 1 .. m /\ st[i] = s[i]
      BY <1>1, <2>1
    <3> QED BY <1>1, <3>1 DEF Lines, ToSet
  <2>2. CASE ~(i <= m)
    <3>1. i > m /\ i - m \in 1 .. n /\ st[i] = t[i - m]
      BY <1>1, <2>2
    <3> QED BY <1>1, <3>1 DEF Lines, ToSet
  <2> QED BY <2>1, <2>2
<1>4. ASSUME NEW i \in 1 .. m PROVE i \in 1 .. m + n /\ st[i] = s[i]
  BY <1>1
<1>5. ASSUME NEW i \in 1 .. n PROVE m + i \in 1 .. m + n /\ st[m + i] = t[i]
  <2>1. m + i \in 1 .. m + n /\ ~(m + i <= m) /\ (m + i) - m = i
    BY <1>1
  <2> QED BY <1>1, <2>1
<1>6. Lines(st) = Lines(s) \union Lines(t)
  <2>1. ASSUME NEW x \in Lines(st) PROVE x \in Lines(s) \union Lines(t)
    <3>1. PICK i \in 1 .. m + n : st[i] = x
      BY <1>2 DEF Lines, ToSet
    <3> QED BY <1>3, <3>1
  <2>2. ASSUME NEW x \in Lines(s) PROVE x \in Lines(st)
    <3>1. PICK i \in 1 .. m : s[i] = x
      BY <1>1 DEF Lines, ToSet
    <3> QED BY <1>2, <1>4, <3>1 DEF Lines, ToSet
  <2>3. ASSUME NEW x \in Lines(t) PROVE x \in Lines(st)
    <3>1. PICK i \in 1 .. n : t[i] = x
      BY <1>1 DEF Lines, ToSet
    <3> QED BY <1>2, <1>5, <3>1 DEF Lines, ToSet
  <2> QED BY <2>1, <2>2, <2>3
<1>7. ASSUME IsInjective(s), IsInjective(t), Lines(s) \intersect Lines(t) = {}
      PROVE  IsInjective(st)
  <2>1. ASSUME NEW i \in 1 .. m + n, NEW j \in 1 .. m + n, st[i] = st[j] PROVE i = j
    <3>1. CASE i \in 1 .. m /\ j \in 1 .. m
      BY <1>1, <1>4, <1>7, <2>1, <3>1 DEF IsInjective
    <3>2. CASE i > m /\ j > m
      <4>1. i - m \in 1 .. n /\ j - m \in 1 .. n /\ t[i - m] = t[j - m]
        BY <1>1, <1>3, <2>1, <3>2
      <4>2. i - m = j - m
        BY <1>1, <1>7, <4>1 DEF IsInjective
      <4> QED BY <1>1, <4>2
    <3>3. CASE (i \in 1 .. m /\ j > m) \/ (i > m /\ j \in 1 .. m)
      <4>1. \/ st[i] \in Lines(s) /\ st[j] \in Lines(t)
            \/ st[i] \in Lines(t) /\ st[j] \in Lines(s)
        BY <1>1, <1>3, <3>3
      <4> QED BY <1>7, <2>1, <4>1
    <3> QED BY <1>1, <3>1, <3>2, <3>3
  <2> QED BY <1>2, <2>1 DEF IsInjective
<1>8. ASSUME InOrder(s), InOrder(t), \A x \in Lines(s), y \in Lines(t) : Before(x, y)
      PROVE  InOrder(st)
  <2>1. ASSUME NEW i \in 1 .. m + n, NEW j \in 1 .. m + n, i < j PROVE Before(st[i], st[j])
    <3>1. CASE i \in 1 .. m /\ j \in 1 .. m
      BY <1>1, <1>4, <1>8, <2>1, <3>1 DEF InOrder
    <3>2. CASE i > m /\ j > m
      <4>1. i - m \in 1 .. n /\ j - m \in 1 .. n /\ st[i] = t[i - m] /\ st[j] = t[j - m]
            /\ i - m < j - m
        BY <1>1, <1>3, <2>1, <3>2
      <4> QED BY <1>1, <1>8, <4>1 DEF InOrder
    <3>3. CASE i \in 1 .. m /\ j > m
      <4>1. st[i] \in Lines(s) /\ st[j] \in Lines(t)
        BY <1>1, <1>3, <3>3
      <4> QED BY <1>8, <4>1
    <3> QED BY <1>1, <2>1, <3>1, <3>2, <3>3
  <2> QED BY <1>2, <2>1 DEF InOrder
<1> QED BY <1>1, <1>6, <1>7, <1>8 DEF st

LEMMA PartOfItself ==
    ASSUME NEW S, NEW s \in Seq(S)
    PROVE  PartOf(s, s)
<1> DEFINE at == [i \in 1 .. Len(s) |-> i]
<1>1. /\ at \in [1 .. Len(s) -> 1 .. Len(s)]
      /\ \A i \in 1 .. Len(s) : s[i] = s[at[i]]
      /\ \A i, j \in 1 .. Len(s) : i < j <=> at[i] < at[j]
  OBVIOUS
<1> HIDE DEF at
<1> QED BY <1>1 DEF PartOf

LEMMA SliceFacts ==
    ASSUME NEW S, NEW s \in Seq(S), NEW m \in 1 .. Len(s) + 1, NEW n \in m - 1 .. Len(s)
    PROVE  LET a == SubSeq(s, m, n) IN
           /\ a \in Seq(S) /\ Len(a) = (n - m) + 1
           /\ \A i \in 1 .. Len(a) : a[i] = s[(m + i) - 1] /\ (m + i) - 1 \in m .. n
           /\ \A x : x \in Lines(a) <=> \E j \in m .. n : s[j] = x
           /\ PartOf(a, s)
<1> DEFINE a == SubSeq(s, m, n)
           k == (n - m) + 1
           at == [i \in 1 .. k |-> (m + i) - 1]
<1>1. /\ Len(s) \in Nat /\ m \in Nat /\ n \in Nat /\ k \in Nat
      /\ \A i \in 1 .. Len(s) : s[i] \in S
  OBVIOUS
<1>2. a \in Seq(S) /\ Len(a) = k /\ \A i \in 1 .. k : a[i] = s[(m + i) - 1]
  <2>1. m \in Int /\ n \in Int /\ \A i \in m .. n : s[i] \in S
    BY <1>1
  <2>2. /\ a \in Seq(S) /\ Len(a) = IF m <= n THEN n - m + 1 ELSE 0
        /\ \A i \in 1 .. n - m + 1 : a[i] = s[m + i - 1]
    BY <2>1, SubSeqProperties
  <2> HIDE DEF a
  <2>3. k = n - m + 1 /\ Len(a) = k
    BY <1>1, <2>2
  <2>4. \A i \in 1 .. k : m + i - 1 = (m + i) - 1
    BY <1>1
  <2> QED BY <2>2, <2>3, <2>4
<1> HIDE DEF a
<1>3. \A i \in 1 .. k : (m + i) - 1 \in m .. n /\ (m + i) - 1 \in 1 .. Len(s)
  BY <1>1
<1>4. \A j \in m .. n : (j - m) + 1 \in 1 .. k /\ (m + ((j - m) + 1)) - 1 = j
  BY <1>1
<1>5. DOMAIN a = 1 .. k
  BY <1>2
<1> HIDE DEF k
<1>6. ASSUME NEW x PROVE x \in Lines(a) <=> \E j \in m .. n : s[j] = x
  <2>1. ASSUME x \in Lines(a) PROVE \E j \in m .. n : s[j] = x
    <3>1. PICK i \in 1 .. k : a[i] = x
      BY <1>5, <2>1 DEF Lines, ToSet
    <3> QED BY <1>2, <1>3, <3>1
  <2>2. ASSUME NEW j \in m .. n, s[j] = x PROVE x \in Lines(a)
    <3>1. (j - m) + 1 \in 1 .. k /\ a[(j - m) + 1] = x
      BY <1>2, <1>4, <2>2
    <3> QED BY <1>5, <3>1 DEF Lines, ToSet
  <2> QED BY <2>1, <2>2
<1>7. PartOf(a, s)
  <2>1. /\ at \in [1 .. Len(a) -> 1 .. Len(s)]
        /\ \A i \in 1 .. Len(a) : a[i] = s[at[i]]
    BY <1>2, <1>3
  <2>2. \A i, j \in 1 .. Len(a) : i < j <=> at[i] < at[j]
    BY <1>1, <1>2, SMTT(60)
  <2> HIDE DEF at
  <2> QED BY <2>1, <2>2 DEF PartOf
<1> QED BY <1>2, <1>3, <1>6, <1>7 DEF a, k

(* One period's replacement has the old lines and the chunk.               *)
LEMMA ReplacementFacts ==
    ASSUME NEW p, NEW chunk \in Seq(Sample), segments[p].lines \in Seq(Sample),
           segments[p].version = 0 => segments[p].lines = <<>>
    PROVE  LET r == Replacement(p, chunk) old == segments[p].lines IN
           /\ r \in Seq(Sample) /\ Lines(r) = Lines(old) \union Lines(chunk)
           /\ IsInjective(old) /\ IsInjective(chunk) => IsInjective(r)
           /\ InOrder(chunk) /\ InOrder(old) => InOrder(r)
<1> DEFINE r == Replacement(p, chunk)
           old == segments[p].lines
           newer == \A a \in Lines(old), b \in Lines(chunk) : Before(a, b)
<1>1. CASE segments[p].version = 0
  <2>1. r = chunk /\ old = <<>>
    BY <1>1 DEF Replacement
  <2>2. Lines(old) = {}
    <3>1. Len(old) = 0 /\ DOMAIN old = 1 .. Len(old)
      BY <2>1
    <3> QED BY <3>1 DEF Lines, ToSet
  <2> QED BY <2>1, <2>2
<1>2. CASE segments[p].version # 0 /\ ~segments[p].damaged /\ newer /\ InOrder(chunk)
  <2>1. r = old \o chunk
    BY <1>2, Zenon DEF Replacement
  <2>2. Lines(old) \subseteq Sample
    BY LinesFacts
  <2>3. Lines(old) \intersect Lines(chunk) = {}
    BY <1>2, <2>2, BeforeFacts
  <2> HIDE DEF r, old
  <2>4. /\ old \o chunk \in Seq(Sample)
        /\ Lines(old \o chunk) = Lines(old) \union Lines(chunk)
        /\ IsInjective(old) /\ IsInjective(chunk) => IsInjective(old \o chunk)
        /\ InOrder(old) /\ InOrder(chunk) => InOrder(old \o chunk)
    <3>1. old \in Seq(Sample)
      BY DEF old
    <3> QED BY <1>2, <2>3, <3>1, ConcatFacts
  <2> QED BY <2>1, <2>4 DEF r, old
<1>3. CASE segments[p].version # 0 /\ ~(~segments[p].damaged /\ newer /\ InOrder(chunk))
  <2>1. r = Merged(old, chunk)
    BY <1>3, Zenon DEF Replacement
  <2> HIDE DEF r, old
  <2>2. old \in Seq(Sample)
    BY DEF old
  <2>3. /\ r \in Seq(Sample) /\ Lines(r) = Lines(old) \union Lines(chunk) /\ InOrder(r)
    BY <2>1, <2>2, MergedFacts
  <2> QED BY <2>3, InOrderInjective DEF r, old
<1> QED BY <1>1, <1>2, <1>3, Zenon

(* The scan stops at the first line of the current day.                    *)
LEMMA ClosedLinesFacts ==
    ASSUME active.lines \in Seq(Sample), today \in Nat
    PROVE  \E n \in 0 .. Len(active.lines) :
              /\ ClosedLines = SubSeq(active.lines, 1, n) /\ Len(ClosedLines) = n
              /\ \A i \in 1 .. n : active.lines[i].day < today
              /\ n < Len(active.lines) => active.lines[n + 1].day >= today
<1> DEFINE len == Len(active.lines)
           Stops(k) == /\ \A i \in 1 .. k : active.lines[i].day < today
                       /\ k < len => active.lines[k + 1].day >= today
           open == {i \in 1 .. len : active.lines[i].day >= today}
           n == CHOOSE k \in 0 .. len : Stops(k)
<1>0. \A s \in Sample : s.day \in Nat
  BY StoreAssumption DEF Sample
<1>1. len \in Nat /\ \A i \in 1 .. len : active.lines[i].day \in Nat
  BY <1>0
<1>2. \E k \in 0 .. len : Stops(k)
  <2>1. CASE open = {}
    <3>1. len \in 0 .. len /\ \A i \in 1 .. len : active.lines[i].day < today
      BY <1>1, <2>1
    <3> QED BY <1>1, <3>1
  <2>2. CASE open # {}
    <3>1. open \subseteq Nat /\ open \subseteq 1 .. len
      OBVIOUS
    <3>2. PICK m \in open : \A k \in open : ~(<<k, m>> \in Below)
      <4> HIDE DEF open
      <4> QED BY <2>2, <3>1, WFMin, BelowIsWellFounded
    <3>3. ASSUME NEW i \in 1 .. m - 1 PROVE i \notin open /\ i \in 1 .. len
      <4>1. m \in Nat /\ i \in Nat /\ i < m /\ i \in 1 .. len
        BY <1>1, <3>1
      <4>2. <<i, m>> \in Below
        BY <4>1 DEF Below
      <4> QED BY <3>2, <4>1, <4>2
    <3>4. m - 1 \in 0 .. len /\ (m - 1) + 1 = m /\ active.lines[m].day >= today
      BY <1>1, <3>1
    <3>5. \A i \in 1 .. m - 1 : active.lines[i].day < today
      BY <1>1, <3>3
    <3> QED BY <3>4, <3>5
  <2> QED BY <2>1, <2>2
<1>3. n \in 0 .. len /\ Stops(n)
  <2> HIDE DEF Stops, len
  <2> QED BY <1>2
<1>4. ClosedLines = SubSeq(active.lines, 1, n)
  BY DEF ClosedLines
<1> HIDE DEF n
<1>5. 1 \in 1 .. len + 1 /\ n \in 1 - 1 .. len /\ (n - 1) + 1 = n
  BY <1>1, <1>3
<1> DEFINE lines == active.lines one == 1
<1> HIDE DEF lines, one
<1>6. Len(SubSeq(lines, one, n)) = (n - one) + 1
  BY <1>5, SliceFacts DEF lines, one
<1>7. Len(ClosedLines) = n
  BY <1>4, <1>5, <1>6 DEF lines, one
<1> QED BY <1>3, <1>4, <1>7

-----------------------------------------------------------------------------
(* Series: what holds of the files, of the compaction and of the readers   *)

StoreFaults == {"late", "torn", "deleted", "damaged", "crash"}
File == [ino : Nat, lines : Seq(Sample), torn : BOOLEAN]
Segment == [version : Nat, lines : Seq(Sample), damaged : BOOLEAN]
Reader == [pc : {"idle", "open"}, since : Nat, segs : Seq(Sample), ino : Nat,
           lines : Seq(Sample), live : BOOLEAN, must : SUBSET Sample]
Story == [appended : SUBSET Sample, swallowed : SUBSET Sample, damaged : SUBSET Sample,
          wiped : SUBSET Sample, faults : SUBSET StoreFaults, halfDone : BOOLEAN]

StoreTyped ==
    /\ today \in Nat \ {0} /\ active \in File /\ segments \in [Periods -> Segment]
    /\ DOMAIN compactor = {"pc", "ino", "size", "consumed", "plan", "rest", "todo"}
    /\ compactor = [k \in DOMAIN compactor |-> compactor[k]]
    /\ compactor.pc \in {"idle", "scanned", "planned", "publishing"}
    /\ reading \in [Readers -> Reader] /\ story \in Story

(* Measurements are numbered in the order in which they are stored.        *)
Counted ==
    /\ IsFiniteSet(story.appended) /\ story.wiped \subseteq story.appended
    /\ \A s \in story.appended : s.id <= Cardinality(story.appended) /\ s.day <= today

Held(p) == Lines(segments[p].lines)
Compressed == UNION {Held(p) : p \in Periods}
Renamed == SeriesLocked /\ compactor.todo # DOMAIN compactor.plan
InTime == "late" \notin story.faults /\ "crash" \notin story.faults
Precede(these, those) == \A s \in these, t \in those : Before(s, t)

(* An active file: a line that is in a segment too is of the closed days   *)
(* the next compaction takes away.                                         *)
FileFits(lines, taken, day) ==
    /\ lines \in Seq(Sample) /\ IsInjective(lines)
    /\ \A i \in 1 .. Len(lines) : lines[i] \in taken => \A j \in 1 .. i : lines[j].day < day

SegmentFits(lines, p, day) ==
    /\ lines \in Seq(Sample) /\ IsInjective(lines)
    /\ \A s \in Lines(lines) : PeriodOf[s.day] = p /\ s.day < day

FilesFit ==
    /\ Stored \subseteq story.appended \ story.wiped
    /\ FileFits(active.lines, Compressed, today)
    /\ active.ino = 0 => active.lines = <<>>
    /\ \A p \in Periods : /\ SegmentFits(segments[p].lines, p, today)
                          /\ segments[p].version = 0 => segments[p].lines = <<>>
    /\ story.halfDone \/ Renamed \/ Lines(active.lines) \intersect Compressed = {}
    /\ "crash" \notin story.faults => ~story.halfDone
    /\ InTime => /\ InOrder(active.lines)
                 /\ \A p \in Periods : InOrder(segments[p].lines)
                 /\ Renamed \/ Precede(Compressed, Lines(active.lines))

(* A compaction whose active file is still the one it scanned.             *)
Matches == compactor.pc # "idle" /\ compactor.ino = active.ino
Beyond(n) == {active.lines[i] : i \in n + 1 .. Len(active.lines)}
Foreseen(p) == Lines(compactor.plan[p].lines)
Published(p) == SeriesLocked /\ p \notin compactor.todo

PlanFits(p) ==
    /\ p \in Periods /\ SegmentFits(compactor.plan[p].lines, p, today)
    /\ Foreseen(p) \subseteq story.appended \ story.wiped
    /\ Foreseen(p) \intersect Beyond(compactor.consumed) = {}
    /\ InTime => /\ InOrder(compactor.plan[p].lines)
                 /\ Precede(Foreseen(p), Beyond(compactor.consumed))
    /\ Published(p) => Foreseen(p) \subseteq Held(p) \union story.damaged
    /\ ~Published(p) => Held(p) \subseteq Foreseen(p)

ScanFits ==
    /\ compactor.size \in Nat /\ compactor.consumed \in Nat
    /\ compactor.consumed <= compactor.size /\ compactor.size <= Len(active.lines)
    /\ \A i \in 1 .. compactor.consumed : active.lines[i].day < today
    /\ Beyond(compactor.consumed) \intersect Compressed = {}
    /\ InTime => Precede(Compressed, Beyond(compactor.consumed))

(* What is staged for the new active file.                                 *)
RestFits ==
    /\ compactor.pc = "scanned" =>
         compactor.rest = SubSeq(active.lines, 1, compactor.consumed)
    /\ compactor.pc = "planned" =>
         compactor.rest = SubSeq(active.lines, compactor.consumed + 1, compactor.size)
    /\ SeriesLocked =>
         compactor.rest = SubSeq(active.lines, compactor.consumed + 1, Len(active.lines))

PlansFit ==
    /\ \A p \in DOMAIN compactor.plan : PlanFits(p)
    /\ \A i \in 1 .. compactor.consumed :
         \E p \in DOMAIN compactor.plan : active.lines[i] \in Foreseen(p)

CompactionFits ==
    /\ compactor.pc # "idle" => compactor.ino \in Nat \ {0}
    /\ SeriesLocked => Matches /\ compactor.todo \subseteq DOMAIN compactor.plan
    /\ Matches => ScanFits /\ RestFits
    /\ Matches /\ compactor.pc # "scanned" => PlansFit

(* What a reader has opened.                                               *)
Opened(r) == reading[r].segs \o reading[r].lines
ReaderFits(r) ==
    /\ Lines(Opened(r)) \subseteq story.appended
    /\ reading[r].must \subseteq Lines(Opened(r))
    /\ \A s \in reading[r].must : s.day >= reading[r].since
    /\ ~reading[r].live =>
         \A s \in Lines(Opened(r)) : s.day >= reading[r].since => s \in reading[r].must
    /\ "crash" \notin story.faults => IsInjective(Opened(r))
    /\ InTime => InOrder(Opened(r))
    /\ reading[r].live /\ reading[r].ino # 0 /\ reading[r].ino = active.ino =>
         reading[r].lines = active.lines
ReadersFit == \A r \in Readers : reading[r].pc = "open" => ReaderFits(r)

StoreInv ==
    /\ StoreTyped /\ Counted /\ NothingLost /\ FilesFit /\ CompactionFits /\ ReadersFit

-----------------------------------------------------------------------------
(* Series: new files, and what pruning leaves                              *)

LEMMA NewInoFacts ==
    /\ NewIno \in Nat \ {0} /\ NewIno # active.ino /\ NewIno # compactor.ino
    /\ \A r \in Readers : NewIno # reading[r].ino
<1> DEFINE inos == {reading[r].ino : r \in Readers}
           used == {active.ino, compactor.ino} \union inos
           ino == [r \in Readers |-> reading[r].ino]
           n == Cardinality(Readers)
           k == n + 3
<1>1. IsFiniteSet(Readers) /\ n \in Nat
  BY StoreAssumption, FS_CardinalityType
<1>2. IsFiniteSet(inos) /\ Cardinality(inos) <= n /\ Cardinality(inos) \in Nat
  <2>1. ino \in Surjection(Readers, inos)
    BY DEF Surjection
  <2> HIDE DEF ino, inos
  <2>2. IsFiniteSet(inos) /\ Cardinality(inos) <= n
    BY <1>1, <2>1, FS_Surjection
  <2> QED BY <2>2, FS_CardinalityType
<1> HIDE DEF inos
<1>3. IsFiniteSet(used) /\ Cardinality(used) <= n + 2 /\ Cardinality(used) \in Nat
  <2> DEFINE a == active.ino
             c == compactor.ino
             more == inos \union {c}
             all == more \union {a}
  <2>1. IsFiniteSet(more) /\ Cardinality(more) <= n + 1
    <3>1. /\ IsFiniteSet(more)
          /\ Cardinality(more) = IF c \in inos THEN Cardinality(inos) ELSE Cardinality(inos) + 1
      BY <1>2, FS_AddElement
    <3> QED BY <1>1, <1>2, <3>1
  <2>2. used = all
    OBVIOUS
  <2>3. Cardinality(more) \in Nat
    BY <2>1, FS_CardinalityType
  <2> HIDE DEF more
  <2>4. /\ IsFiniteSet(all)
        /\ Cardinality(all) = IF a \in more THEN Cardinality(more) ELSE Cardinality(more) + 1
    BY <2>1, FS_AddElement
  <2>5. Cardinality(all) <= n + 2 /\ Cardinality(all) \in Nat
    BY <1>1, <2>1, <2>3, <2>4
  <2> QED BY <2>2, <2>4, <2>5
<1> HIDE DEF used
<1>4. \E m \in 1 .. k : m \notin used
  <2>1. IsFiniteSet(1 .. k) /\ Cardinality(1 .. k) = k
    <3>1. 1 \in Int /\ k \in Int /\ k > 0
      BY <1>1
    <3> HIDE DEF k
    <3> QED BY <3>1, FS_Interval
  <2>2. ASSUME 1 .. k \subseteq used PROVE FALSE
    <3>1. Cardinality(1 .. k) <= Cardinality(used)
      BY <1>3, <2>2, FS_Subset
    <3> QED BY <1>1, <1>3, <2>1, <3>1
  <2> QED BY <2>2
<1>5. NewIno = CHOOSE m \in 1 .. k : m \notin used
  BY DEF NewIno, used, inos
<1>6. NewIno \in 1 .. k /\ NewIno \notin used
  <2> HIDE DEF k
  <2> QED BY <1>4, <1>5
<1> QED BY <1>1, <1>6 DEF used, inos

LEMMA NewVersionFacts ==
    ASSUME NEW p
    PROVE  NewVersion(p) \in Nat \ {0}
<1> DEFINE Fresh1(n) == /\ n # segments[p].version
                        /\ p \in DOMAIN compactor.plan => n # compactor.plan[p].expected
<1>1. \E n \in 1 .. 3 : Fresh1(n)
  <2>1. 1 \in 1 .. 3 /\ 2 \in 1 .. 3 /\ 3 \in 1 .. 3
    OBVIOUS
  <2>2. Fresh1(1) \/ Fresh1(2) \/ Fresh1(3)
    OBVIOUS
  <2> HIDE DEF Fresh1
  <2> QED BY <2>1, <2>2
<1>2. NewVersion(p) = CHOOSE n \in 1 .. 3 : Fresh1(n)
  BY DEF NewVersion
<1> HIDE DEF Fresh1
<1>3. NewVersion(p) \in 1 .. 3
  BY <1>1, <1>2
<1> QED BY <1>3

LEMMA FreshFacts ==
    ASSUME NEW lines \in Seq(Sample)
    PROVE  /\ Fresh(lines) \in Seq(Sample) /\ PartOf(Fresh(lines), lines)
           /\ Lines(Fresh(lines)) \subseteq Lines(lines)
           /\ \A s \in Lines(lines) : s.day >= Cutoff => s \in Lines(Fresh(lines))
<1>1. Lines(lines) \subseteq Sample
  BY LinesFacts
<1> DEFINE some == {s \in Sample : s.day >= Cutoff}
<1>2. /\ Fresh(lines) \in Seq(Sample) /\ PartOf(Fresh(lines), lines)
      /\ Lines(Fresh(lines)) = Lines(lines) \intersect some
  <2> HIDE DEF some
  <2> QED BY AmongFacts DEF Fresh, some
<1> QED BY <1>1, <1>2

(* What is left of the active file: it, or a new file, or none.            *)
LEMMA PrunedFacts ==
    ASSUME NEW file \in File
    PROVE  LET f == Pruned(file) IN
           /\ f \in File /\ PartOf(f.lines, file.lines)
           /\ f = file \/ f.ino = NewIno \/ (f.ino = 0 /\ f.lines = <<>>)
           /\ \A s \in Lines(file.lines) : s.day >= Cutoff => s \in Lines(f.lines)
<1> DEFINE f == Pruned(file)
           new == [ino |-> NewIno, lines |-> Fresh(file.lines), torn |-> FALSE]
<1>1. file.lines \in Seq(Sample)
  BY DEF File
<1>2. /\ Fresh(file.lines) \in Seq(Sample) /\ PartOf(Fresh(file.lines), file.lines)
      /\ \A s \in Lines(file.lines) : s.day >= Cutoff => s \in Lines(Fresh(file.lines))
  BY <1>1, FreshFacts
<1>3. f = file \/ (f = NoFile /\ Fresh(file.lines) = <<>>) \/ f = new
  BY DEF Pruned
<1>4. CASE f = file
  BY <1>1, <1>4, PartOfItself
<1>5. CASE f = NoFile /\ Fresh(file.lines) = <<>>
  <2>1. f.lines = Fresh(file.lines) /\ f.ino = 0 /\ f.lines = <<>> /\ f \in File
    BY <1>5, <1>2 DEF NoFile, File
  <2> QED BY <1>2, <2>1
<1>6. CASE f = new
  <2>1. NewIno \in Nat
    BY NewInoFacts
  <2>2. f.lines = Fresh(file.lines) /\ f.ino = NewIno /\ f \in File
    BY <1>2, <1>6, <2>1 DEF File
  <2> QED BY <1>2, <2>2
<1> QED BY <1>3, <1>4, <1>5, <1>6

LEMMA PrunedSegmentFacts ==
    ASSUME NEW p \in Periods, segments[p] \in Segment, today \in Nat,
           segments[p].version = 0 => segments[p].lines = <<>>,
           SegmentFits(segments[p].lines, p, today)
    PROVE  LET seg == PrunedSegment(p) IN
           /\ seg \in Segment /\ PartOf(seg.lines, segments[p].lines)
           /\ seg.version = 0 => seg.lines = <<>>
           /\ \A s \in Held(p) : s.day >= Cutoff => s \in Lines(seg.lines)
<1> DEFINE seg == PrunedSegment(p)
           old == segments[p]
           new == [version |-> NewVersion(p), lines |-> Fresh(old.lines), damaged |-> FALSE]
<1>1. old.lines \in Seq(Sample) /\ Lines(old.lines) \subseteq Sample
  <2>1. old.lines \in Seq(Sample)
    BY DEF Segment
  <2> QED BY <2>1, LinesFacts
<1>2. /\ Fresh(old.lines) \in Seq(Sample) /\ PartOf(Fresh(old.lines), old.lines)
      /\ \A s \in Lines(old.lines) : s.day >= Cutoff => s \in Lines(Fresh(old.lines))
  BY <1>1, FreshFacts
<1>3. \/ seg = old
      \/ seg = NoSegment /\ \A d \in 1 .. LastDay : PeriodOf[d] = p => d < Cutoff
      \/ seg = NoSegment /\ Fresh(old.lines) = <<>>
      \/ seg = new
  BY DEF PrunedSegment
<1>4. CASE seg = old
  BY <1>1, <1>4, PartOfItself DEF Held
<1>5. CASE seg = NoSegment /\ Fresh(old.lines) = <<>>
  <2>1. seg.lines = Fresh(old.lines) /\ seg.lines = <<>> /\ seg \in Segment
    BY <1>5, <1>2 DEF NoSegment, Segment
  <2> QED BY <1>2, <2>1 DEF Held
<1>6. CASE seg = new
  <2>1. NewVersion(p) \in Nat \ {0}
    BY NewVersionFacts
  <2>2. seg.lines = Fresh(old.lines) /\ seg.version # 0 /\ seg \in Segment
    BY <1>2, <1>6, <2>1 DEF Segment
  <2> QED BY <1>2, <2>2 DEF Held
<1>7. CASE seg = NoSegment /\ \A d \in 1 .. LastDay : PeriodOf[d] = p => d < Cutoff
  <2>1. \A s \in Lines(old.lines) : s.day \in 1 .. LastDay /\ s.day \in Int /\ PeriodOf[s.day] = p
    BY <1>1, StoreAssumption DEF Sample, SegmentFits
  <2>2. \A s \in Lines(old.lines) : s.day < Cutoff
    BY <1>7, <2>1
  <2>3. Cutoff \in Int
    BY StoreAssumption DEF Cutoff
  <2>4. ASSUME NEW s \in Lines(old.lines) PROVE ~(s.day >= Cutoff)
    BY <2>1, <2>2, <2>3
  <2>5. seg.lines = <<>> /\ seg \in Segment
    BY <1>7 DEF NoSegment, Segment
  <2>6. PartOf(seg.lines, old.lines)
    <3> DEFINE at == [i \in {} |-> i]
    <3>1. Len(seg.lines) = 0
      BY <2>5
    <3>2. 1 .. Len(seg.lines) = {}
      BY <3>1
    <3>3. at \in [1 .. Len(seg.lines) -> 1 .. Len(old.lines)]
      BY <3>2
    <3> HIDE DEF at
    <3> QED BY <3>2, <3>3 DEF PartOf
  <2> QED BY <2>4, <2>5, <2>6 DEF Held
<1> QED BY <1>3, <1>4, <1>5, <1>6, <1>7

LEMMA StoreTypes ==
    ASSUME StoreTyped
    PROVE  /\ today \in Nat /\ active.ino \in Nat /\ active.lines \in Seq(Sample)
           /\ \A p \in Periods : segments[p] \in Segment /\ segments[p].lines \in Seq(Sample)
           /\ \A r \in Readers : /\ reading[r] \in Reader /\ reading[r].segs \in Seq(Sample)
                                 /\ reading[r].lines \in Seq(Sample)
           /\ story.appended \in SUBSET Sample /\ story.faults \in SUBSET StoreFaults
           /\ story.halfDone \in BOOLEAN
<1>1. today \in Nat /\ active.ino \in Nat /\ active.lines \in Seq(Sample)
  BY DEF StoreTyped, File
<1>2. \A p \in Periods : segments[p] \in Segment /\ segments[p].lines \in Seq(Sample)
  BY DEF StoreTyped, Segment
<1>3. \A r \in Readers : /\ reading[r] \in Reader /\ reading[r].segs \in Seq(Sample)
                         /\ reading[r].lines \in Seq(Sample)
  BY DEF StoreTyped, Reader
<1>4. /\ story.appended \in SUBSET Sample /\ story.faults \in SUBSET StoreFaults
      /\ story.halfDone \in BOOLEAN
  BY DEF StoreTyped, Story
<1> QED BY <1>1, <1>2, <1>3, <1>4

(* Two files that agree from one place to another have the same slice.     *)
LEMMA SameSlice ==
    ASSUME NEW S, NEW s \in Seq(S), NEW t \in Seq(S), NEW m \in Nat, NEW n \in Nat,
           1 <= m, m <= n + 1, n <= Len(s), n <= Len(t),
           \A i \in m .. n : t[i] = s[i]
    PROVE  SubSeq(t, m, n) = SubSeq(s, m, n)
<1> DEFINE a == SubSeq(s, m, n)
           b == SubSeq(t, m, n)
           k == (n - m) + 1
<1>1. /\ m \in 1 .. Len(s) + 1 /\ n \in m - 1 .. Len(s)
      /\ m \in 1 .. Len(t) + 1 /\ n \in m - 1 .. Len(t)
  OBVIOUS
<1>2. /\ a \in Seq(S) /\ Len(a) = k
      /\ \A i \in 1 .. Len(a) : a[i] = s[(m + i) - 1] /\ (m + i) - 1 \in m .. n
  BY <1>1, SliceFacts
<1>3. /\ b \in Seq(S) /\ Len(b) = k
      /\ \A i \in 1 .. Len(b) : b[i] = t[(m + i) - 1] /\ (m + i) - 1 \in m .. n
  BY <1>1, SliceFacts
<1> HIDE DEF a, b, k
<1>4. \A i \in 1 .. Len(a) : a[i] = b[i]
  BY <1>2, <1>3
<1>5. Len(a) = Len(b)
  BY <1>2, <1>3
<1>6. a = b
  BY <1>2, <1>3, <1>4, <1>5, SeqEqual
<1> QED BY <1>6 DEF a, b

LEMMA FileThinned ==
    ASSUME NEW new \in Seq(Sample), NEW old \in Seq(Sample), PartOf(new, old),
           NEW taken, NEW less, less \subseteq taken, NEW day \in Nat, NEW later \in Nat,
           day <= later, FileFits(old, taken, day)
    PROVE  FileFits(new, less, later)
<1>1. IsInjective(new)
  BY PartFacts DEF FileFits
<1>2. Len(new) \in Nat /\ Len(old) \in Nat
  OBVIOUS
<1>3. PICK at \in [1 .. Len(new) -> 1 .. Len(old)] :
         /\ \A i \in 1 .. Len(new) : new[i] = old[at[i]]
         /\ \A i, j \in 1 .. Len(new) : i < j <=> at[i] < at[j]
  BY DEF PartOf
<1>4. ASSUME NEW i \in 1 .. Len(new), new[i] \in less, NEW j \in 1 .. i
      PROVE  new[j].day < later
  <2>1. j \in 1 .. Len(new) /\ (j = i \/ j < i)
    BY <1>2
  <2>2. at[j] \in 1 .. at[i] /\ at[i] \in 1 .. Len(old) /\ old[at[i]] \in taken
    <3>1. at[i] \in 1 .. Len(old) /\ at[j] \in 1 .. Len(old)
      BY <2>1
    <3>2. at[j] = at[i] \/ at[j] < at[i]
      BY <1>3, <2>1
    <3> QED BY <1>2, <1>3, <1>4, <3>1, <3>2
  <2>3. old[at[j]].day < day
    BY <2>2 DEF FileFits
  <2>4. new[j] = old[at[j]] /\ old[at[j]] \in Sample
    BY <1>3, <2>1
  <2>5. old[at[j]].day \in Int
    <3>1. \A s \in Sample : s.day \in Int
      BY StoreAssumption DEF Sample
    <3> QED BY <2>4, <3>1
  <2> QED BY <2>3, <2>4, <2>5
<1> QED BY <1>1, <1>4 DEF FileFits

LEMMA SegmentThinned ==
    ASSUME NEW new \in Seq(Sample), NEW old \in Seq(Sample), PartOf(new, old), NEW p,
           NEW day \in Nat, NEW later \in Nat, day <= later, SegmentFits(old, p, day)
    PROVE  SegmentFits(new, p, later)
<1>1. IsInjective(new) /\ Lines(new) \subseteq Lines(old) /\ Lines(old) \subseteq Sample
  BY PartFacts, LinesFacts DEF SegmentFits
<1>2. \A s \in Sample : s.day \in Int
  BY StoreAssumption DEF Sample
<1>3. \A s \in Lines(old) : PeriodOf[s.day] = p /\ s.day < day
  BY DEF SegmentFits
<1>4. \A s \in Lines(new) : PeriodOf[s.day] = p /\ s.day < later
  BY <1>1, <1>2, <1>3
<1> QED BY <1>1, <1>4 DEF SegmentFits

LEMMA PartOfSame ==
    ASSUME NEW S, NEW a, NEW s \in Seq(S), a = s
    PROVE  PartOf(a, s)
  BY PartOfItself

(* Files that only lose lines go on to fit.                                *)
LEMMA FilesThinned ==
    ASSUME StoreTyped, StoreTyped', FilesFit, today' >= today,
           PartOf(active'.lines, active.lines), active'.ino = 0 => active'.lines = <<>>,
           \A p \in Periods : /\ PartOf(segments'[p].lines, segments[p].lines)
                              /\ segments'[p].version = 0 => segments'[p].lines = <<>>,
           story.appended \ story.wiped \subseteq story'.appended \ story'.wiped,
           story'.halfDone \/ Renamed' \/ ~(story.halfDone \/ Renamed),
           "crash" \notin story'.faults => ~story'.halfDone,
           InTime' => InTime /\ (Renamed => Renamed')
    PROVE  FilesFit' /\ Compressed' \subseteq Compressed
<1> DEFINE new == active'.lines
           old == active.lines
           day == today
           later == today'
           taken == Compressed
           less == Compressed'
           news == [p \in Periods |-> segments'[p].lines]
<1>1. new \in Seq(Sample) /\ old \in Seq(Sample) /\ day \in Nat /\ later \in Nat
  BY StoreTypes DEF StoreTyped, File
<1>2. \A p \in Periods : segments'[p].lines \in Seq(Sample) /\ segments[p].lines \in Seq(Sample)
  BY StoreTypes DEF StoreTyped, Segment
<1>3. Lines(new) \subseteq Lines(old) /\ (InOrder(old) => InOrder(new))
  BY <1>1, PartFacts
<1>4. ASSUME NEW p \in Periods
      PROVE  /\ Lines(segments'[p].lines) \subseteq Lines(segments[p].lines)
             /\ InOrder(segments[p].lines) => InOrder(segments'[p].lines)
             /\ SegmentFits(segments'[p].lines, p, today')
  <2> DEFINE a == segments'[p].lines
             b == segments[p].lines
  <2>1. a \in Seq(Sample) /\ b \in Seq(Sample) /\ PartOf(a, b) /\ SegmentFits(b, p, day)
    BY <1>2 DEF FilesFit
  <2> HIDE DEF a, b, day, later
  <2>2. SegmentFits(a, p, later)
    BY <1>1, <2>1, SegmentThinned DEF day, later
  <2>3. Lines(a) \subseteq Lines(b) /\ (InOrder(b) => InOrder(a))
    BY <2>1, PartFacts
  <2> QED BY <2>2, <2>3 DEF a, b, later
<1>5. less \subseteq taken
  BY <1>4 DEF Compressed, Held
<1>6. FileFits(new, less, later)
  <2>1. FileFits(old, taken, day)
    BY DEF FilesFit
  <2>2. day <= later /\ PartOf(new, old)
    BY <1>1
  <2> HIDE DEF new, old, day, later, taken, less
  <2> QED BY <1>1, <1>5, <2>1, <2>2, FileThinned
<1>7. Stored' \subseteq story'.appended \ story'.wiped
  <2>1. Stored = Lines(old) \union taken /\ Stored' = Lines(new) \union less
    BY DEF Stored, Compressed, Held
  <2>2. Stored \subseteq story.appended \ story.wiped
    BY DEF FilesFit
  <2> HIDE DEF new, old, taken, less
  <2> QED BY <1>3, <1>5, <2>1, <2>2
<1>8. story'.halfDone \/ Renamed' \/ Lines(new) \intersect less = {}
  <2>1. story.halfDone \/ Renamed \/ Lines(old) \intersect taken = {}
    BY DEF FilesFit
  <2> HIDE DEF new, old, taken, less
  <2> QED BY <1>3, <1>5, <2>1
<1>9. ASSUME InTime'
      PROVE  /\ InOrder(new) /\ \A p \in Periods : InOrder(segments'[p].lines)
             /\ Renamed' \/ Precede(less, Lines(new))
  <2>1. /\ InOrder(old) /\ \A p \in Periods : InOrder(segments[p].lines)
        /\ Renamed \/ Precede(taken, Lines(old))
    BY <1>9 DEF FilesFit
  <2>2. Precede(taken, Lines(old)) => Precede(less, Lines(new))
    <3> HIDE DEF new, old, taken, less
    <3> QED BY <1>3, <1>5 DEF Precede
  <2>3. Renamed' \/ Precede(less, Lines(new))
    BY <1>9, <2>1, <2>2
  <2> HIDE DEF new, old
  <2> QED BY <1>3, <1>4, <2>1, <2>3
<1> HIDE DEF new, old, day, later, taken, less
<1>10. FilesFit'
  <2>1. \A p \in Periods : /\ SegmentFits(segments'[p].lines, p, today')
                           /\ segments'[p].version = 0 => segments'[p].lines = <<>>
    BY <1>4
  <2> QED BY <1>6, <1>7, <1>8, <1>9, <2>1 DEF FilesFit, new, less, later
<1> QED BY <1>5, <1>10 DEF less, taken

(* A compaction goes on beside steps that leave its active file its name   *)
(* and only add lines to it; another file ends it.                         *)
LEMMA CompactionKeeps ==
    ASSUME StoreTyped, StoreTyped', FilesFit, CompactionFits, compactor' = compactor,
           today' >= today, active'.ino = active.ino,
           Len(active.lines) <= Len(active'.lines),
           \A i \in 1 .. Len(active.lines) : active'.lines[i] = active.lines[i],
           SeriesLocked => active'.lines = active.lines,
           \A i \in Len(active.lines) + 1 .. Len(active'.lines) :
              \A s \in story.appended : /\ s # active'.lines[i]
                                        /\ InTime' => Before(s, active'.lines[i]),
           \A p \in Periods : /\ Held(p)' \subseteq Held(p)
                              /\ Held(p) \subseteq Held(p)' \union story'.damaged,
           story.damaged \subseteq story'.damaged,
           story.appended \ story.wiped \subseteq story'.appended \ story'.wiped,
           InTime' => InTime
    PROVE  CompactionFits'
<1> DEFINE n == compactor.consumed
           old == active.lines
           new == active'.lines
           gone == Beyond(n)
           ahead == Beyond(n)'
<1>1. old \in Seq(Sample) /\ new \in Seq(Sample) /\ Len(old) \in Nat /\ Len(new) \in Nat
  BY StoreTypes DEF StoreTyped, File
<1>2. /\ (SeriesLocked' <=> SeriesLocked) /\ (Matches' <=> Matches)
      /\ \A p : Foreseen(p)' = Foreseen(p) /\ (Published(p)' <=> Published(p))
  BY DEF SeriesLocked, Matches, Foreseen, Published
<1>3. Compressed' \subseteq Compressed /\ Compressed \subseteq story.appended
  BY DEF FilesFit, Stored, Compressed, Held
<1>4. ASSUME NEW some, some \subseteq story.appended, n \in Nat
      PROVE  /\ some \intersect gone = {} => some \intersect ahead = {}
             /\ InTime' /\ Precede(some, gone) => Precede(some, ahead)
  <2>1. ASSUME NEW x \in ahead
        PROVE  \/ x \in gone
               \/ \A s \in story.appended : s # x /\ (InTime' => Before(s, x))
    <3>1. PICK i \in n + 1 .. Len(new) : x = new[i]
      BY DEF Beyond
    <3>2. CASE i <= Len(old)
      <4>1. i \in n + 1 .. Len(old) /\ i \in 1 .. Len(old)
        BY <1>1, <1>4, <3>2
      <4>2. x = old[i]
        BY <3>1, <4>1
      <4> QED BY <4>1, <4>2 DEF Beyond
    <3>3. CASE ~(i <= Len(old))
      <4>1. i \in Len(old) + 1 .. Len(new)
        BY <1>1, <1>4, <3>3
      <4> QED BY <3>1, <4>1
    <3> QED BY <3>2, <3>3
  <2> HIDE DEF gone, ahead
  <2> QED BY <1>4, <2>1 DEF Precede
<1>5. ASSUME Matches
      PROVE  ScanFits' /\ RestFits'
  <2>1. ScanFits /\ RestFits
    BY <1>5 DEF CompactionFits
  <2>2. n \in Nat /\ compactor.size \in Nat /\ n <= compactor.size /\ compactor.size <= Len(old)
    BY <2>1 DEF ScanFits
  <2>3. \A i \in 1 .. n : new[i].day < today'
    <3>1. ASSUME NEW i \in 1 .. n PROVE new[i].day < today'
      <4>1. i \in 1 .. Len(old) /\ new[i] = old[i] /\ old[i] \in Sample
        BY <1>1, <2>2
      <4>2. old[i].day < today /\ today \in Nat /\ today' \in Nat
        BY <2>1, StoreTypes DEF ScanFits, StoreTyped
      <4>3. \A s \in Sample : s.day \in Int
        BY StoreAssumption DEF Sample
      <4> QED BY <4>1, <4>2, <4>3
    <3> QED BY <3>1
  <2>4. /\ ahead \intersect Compressed' = {}
        /\ InTime' => Precede(Compressed', ahead)
    <3>1. gone \intersect Compressed = {} /\ (InTime => Precede(Compressed, gone))
      BY <2>1 DEF ScanFits
    <3> DEFINE some == Compressed'
    <3>2. some \subseteq story.appended
      BY <1>3
    <3>3. some \intersect gone = {} /\ (InTime' => Precede(some, gone))
      BY <1>3, <3>1 DEF Precede
    <3> HIDE DEF some, gone, ahead
    <3>4. some \intersect ahead = {} /\ (InTime' => Precede(some, ahead))
      BY <1>4, <2>2, <3>2, <3>3
    <3> QED BY <3>4 DEF some
  <2>5. ScanFits'
    <3>1. compactor.size <= Len(new)
      BY <1>1, <2>2
    <3> HIDE DEF ahead
    <3> QED BY <2>2, <2>3, <2>4, <3>1 DEF ScanFits, ahead
  <2> DEFINE size == compactor.size
  <2>6a. /\ old \in Seq(Sample) /\ new \in Seq(Sample) /\ size \in Nat
         /\ n <= size /\ size <= Len(old) /\ n <= Len(old) /\ n <= Len(new) /\ size <= Len(new)
    BY <1>1, <2>2
  <2>6b. \A i \in 1 .. size : i \in 1 .. Len(old)
    BY <1>1, <2>2, <2>6a
  <2>6c. \A i \in 1 .. size : new[i] = old[i]
    BY <1>1, <2>6b
  <2> HIDE DEF old, new, n, size
  <2>6. SubSeq(new, 1, n) = SubSeq(old, 1, n)
    <3> DEFINE e == 1
    <3>1. e \in Nat /\ 1 <= e /\ e <= n + 1 /\ \A i \in e .. n : new[i] = old[i]
      BY <2>2, <2>6a, <2>6c
    <3> HIDE DEF e
    <3>2. SubSeq(new, e, n) = SubSeq(old, e, n)
      BY <2>2, <2>6a, <3>1, SameSlice
    <3> QED BY <3>2 DEF e
  <2>7. SubSeq(new, n + 1, size) = SubSeq(old, n + 1, size)
    <3> DEFINE e == n + 1
    <3>1. e \in Nat /\ 1 <= e /\ e <= size + 1 /\ \A i \in e .. size : new[i] = old[i]
      BY <2>2, <2>6a, <2>6c
    <3> HIDE DEF e
    <3>2. SubSeq(new, e, size) = SubSeq(old, e, size)
      BY <2>6a, <3>1, SameSlice
    <3> QED BY <3>2 DEF e
  <2>8. RestFits'
    BY <1>2, <2>1, <2>6, <2>7 DEF RestFits, SeriesLocked, old, new, n, size
  <2> QED BY <2>5, <2>8
<1>6. ASSUME Matches, compactor.pc # "scanned"
      PROVE  PlansFit'
  <2>1. PlansFit /\ ScanFits
    BY <1>6 DEF CompactionFits
  <2>2. n \in Nat /\ n <= Len(old)
    BY <1>1, <2>1 DEF ScanFits
  <2>3. ASSUME NEW p \in DOMAIN compactor.plan PROVE PlanFits(p)'
    <3>1. PlanFits(p)
      BY <2>1 DEF PlansFit
    <3>2. p \in Periods /\ SegmentFits(compactor.plan[p].lines, p, today')
      <4> DEFINE a == compactor.plan[p].lines
                 day == today
                 later == today'
      <4>1. p \in Periods /\ SegmentFits(a, p, day)
        BY <3>1 DEF PlanFits
      <4>2. a \in Seq(Sample)
        BY <4>1 DEF SegmentFits
      <4>3. PartOf(a, a) /\ day \in Nat /\ later \in Nat /\ day <= later
        BY <4>2, PartOfItself, StoreTypes DEF StoreTyped
      <4> HIDE DEF a, day, later
      <4>4. SegmentFits(a, p, later)
        BY <4>1, <4>2, <4>3, SegmentThinned
      <4> QED BY <4>1, <4>4 DEF a, later
    <3>3. Foreseen(p) \subseteq story.appended /\ Foreseen(p) \subseteq story'.appended \ story'.wiped
      BY <3>1 DEF PlanFits
    <3>4. /\ Foreseen(p) \intersect ahead = {}
          /\ InTime' => InOrder(compactor.plan[p].lines) /\ Precede(Foreseen(p), ahead)
      <4>1. /\ Foreseen(p) \intersect gone = {}
            /\ InTime' => InOrder(compactor.plan[p].lines) /\ Precede(Foreseen(p), gone)
        BY <3>1 DEF PlanFits
      <4> HIDE DEF gone, ahead
      <4> QED BY <1>4, <2>2, <3>3, <4>1
    <3>5. /\ Published(p) => Foreseen(p) \subseteq Held(p)' \union story'.damaged
          /\ ~Published(p) => Held(p)' \subseteq Foreseen(p)
      <4>1. /\ Published(p) => Foreseen(p) \subseteq Held(p) \union story.damaged
            /\ ~Published(p) => Held(p) \subseteq Foreseen(p)
        BY <3>1 DEF PlanFits
      <4> QED BY <3>2, <4>1
    <3>6. compactor'.plan[p].lines = compactor.plan[p].lines /\ compactor'.consumed = n
      OBVIOUS
    <3> HIDE DEF ahead
    <3> QED BY <1>2, <3>2, <3>3, <3>4, <3>5, <3>6 DEF PlanFits, ahead
  <2>4. ASSUME NEW i \in 1 .. n
        PROVE  \E p \in DOMAIN compactor.plan : new[i] \in Foreseen(p)
    <3>1. new[i] = old[i]
      BY <1>1, <2>2
    <3> QED BY <2>1, <3>1 DEF PlansFit
  <2> HIDE DEF new
  <2> QED BY <1>2, <2>3, <2>4 DEF PlansFit, new
<1> QED BY <1>2, <1>5, <1>6 DEF CompactionFits

LEMMA CompactionMissed ==
    ASSUME CompactionFits, compactor' = compactor, ~SeriesLocked, active'.ino # compactor.ino
    PROVE  CompactionFits'
  BY DEF CompactionFits, Matches, SeriesLocked

LEMMA CompactionIdle ==
    ASSUME compactor' = Idle
    PROVE  CompactionFits'
<1>1. compactor'.pc = "idle"
  BY DEF Idle
<1>2. ~SeriesLocked' /\ ~Matches'
  BY <1>1 DEF Matches, SeriesLocked
<1> QED BY <1>1, <1>2 DEF CompactionFits

(* What is open stays as it was opened.                                    *)
LEMMA ReadersKeep ==
    ASSUME StoreTyped, ReadersFit, reading' = reading, story.appended \subseteq story'.appended,
           "crash" \notin story'.faults => "crash" \notin story.faults, InTime' => InTime,
           \/ active'.ino = 0
           \/ active'.ino = active.ino /\ active'.lines = active.lines
           \/ active'.ino = NewIno
    PROVE  ReadersFit'
<1>1. ASSUME NEW r \in Readers, reading[r].pc = "open" PROVE ReaderFits(r)'
  <2>1. ReaderFits(r)
    BY <1>1 DEF ReadersFit
  <2>2. reading[r].live /\ reading[r].ino # 0 /\ reading[r].ino = active'.ino =>
          reading[r].lines = active'.lines
    BY <2>1, NewInoFacts DEF ReaderFits
  <2>3. Opened(r)' = Opened(r)
    BY DEF Opened
  <2> QED BY <2>1, <2>2, <2>3 DEF ReaderFits
<1> QED BY <1>1 DEF ReadersFit

LEMMA LossKeeps ==
    ASSUME StoreTyped, NothingLost, story'.appended = story.appended, today' \in Nat,
           today' >= today,
           story.swallowed \subseteq story'.swallowed, story.damaged \subseteq story'.damaged,
           story.wiped \subseteq story'.wiped,
           \A s \in Stored : s.day >= Cutoff' => s \in Stored' \union story'.damaged \union story'.wiped
    PROVE  NothingLost'
<1>1. Cutoff \in Int /\ Cutoff' \in Int /\ Cutoff <= Cutoff'
  BY StoreAssumption, StoreTypes DEF Cutoff
<1>2. ASSUME NEW s \in story.appended, s.day >= Cutoff'
      PROVE  s \in Stored' \union story'.swallowed \union story'.damaged \union story'.wiped
  <2>1. s.day \in Int
    <3>1. s \in Sample
      BY StoreTypes
    <3> QED BY <3>1, StoreAssumption DEF Sample
  <2>2. s.day >= Cutoff
    BY <1>1, <1>2, <2>1
  <2>3. s \in Stored \union story.swallowed \union story.damaged \union story.wiped
    BY <2>2 DEF NothingLost
  <2> QED BY <1>2, <2>3
<1> QED BY <1>2 DEF NothingLost

LEMMA CountKeeps ==
    ASSUME StoreTyped, Counted, story'.appended = story.appended, story'.wiped = story.wiped,
           today' \in Nat, today' >= today
    PROVE  Counted'
<1>1. \A s \in story.appended : s.day \in Int
  <2>1. \A s \in Sample : s.day \in Int
    BY StoreAssumption DEF Sample
  <2> QED BY <2>1, StoreTypes
<1>2. today \in Nat
  BY StoreTypes
<1>3. \A s \in story.appended : s.day <= today'
  BY <1>1, <1>2 DEF Counted
<1> QED BY <1>3 DEF Counted

LEMMA FilesQuiet ==
    ASSUME StoreTyped, StoreTyped', FilesFit, today' >= today,
           active'.lines = active.lines, active'.ino = 0 => active'.lines = <<>>,
           segments' = segments,
           story.appended \ story.wiped \subseteq story'.appended \ story'.wiped,
           story'.halfDone \/ Renamed' \/ ~(story.halfDone \/ Renamed),
           "crash" \notin story'.faults => ~story'.halfDone,
           InTime' => InTime /\ (Renamed => Renamed')
    PROVE  FilesFit'
<1>1. \A p \in Periods : /\ PartOf(segments'[p].lines, segments[p].lines)
                         /\ segments'[p].version = 0 => segments'[p].lines = <<>>
  BY StoreTypes, PartOfItself DEF FilesFit
<1>2. PartOf(active'.lines, active.lines)
  BY StoreTypes, PartOfSame
<1> QED BY <1>1, <1>2, FilesThinned

LEMMA CompactionBeside ==
    ASSUME StoreTyped, StoreTyped', FilesFit, CompactionFits, compactor' = compactor,
           today' >= today, active'.ino = active.ino, active'.lines = active.lines,
           \A p \in Periods : /\ Held(p)' \subseteq Held(p)
                              /\ Held(p) \subseteq Held(p)' \union story'.damaged,
           story.damaged \subseteq story'.damaged,
           story.appended \ story.wiped \subseteq story'.appended \ story'.wiped,
           InTime' => InTime
    PROVE  CompactionFits'
<1>1. Len(active.lines) \in Nat
  BY StoreTypes
<1>2. /\ Len(active.lines) <= Len(active'.lines)
      /\ \A i \in 1 .. Len(active.lines) : active'.lines[i] = active.lines[i]
      /\ SeriesLocked => active'.lines = active.lines
      /\ Len(active.lines) + 1 .. Len(active'.lines) = {}
  BY <1>1
<1>3. \A i \in Len(active.lines) + 1 .. Len(active'.lines) :
         \A s \in story.appended : /\ s # active'.lines[i]
                                   /\ InTime' => Before(s, active'.lines[i])
  BY <1>2
<1> QED BY <1>2, <1>3, CompactionKeeps

LEMMA StoreStart == StoreInit => StoreInv
<1> SUFFICES ASSUME StoreInit PROVE StoreInv
  OBVIOUS
<1>1. StoreTyped
  <2>1. today \in Nat \ {0} /\ active \in File
    BY DEF StoreInit, NoFile, File
  <2>2. segments \in [Periods -> Segment]
    <3>1. NoSegment \in Segment
      BY DEF NoSegment, Segment
    <3> QED BY <3>1 DEF StoreInit
  <2>3. reading \in [Readers -> Reader]
    <3>1. NoReader \in Reader
      BY DEF NoReader, Reader
    <3> QED BY <3>1 DEF StoreInit
  <2>4. /\ DOMAIN compactor = {"pc", "ino", "size", "consumed", "plan", "rest", "todo"}
        /\ compactor = [k \in DOMAIN compactor |-> compactor[k]]
        /\ compactor.pc \in {"idle", "scanned", "planned", "publishing"}
    BY DEF StoreInit, Idle
  <2>5. story \in Story
    BY DEF StoreInit, Story
  <2> QED BY <2>1, <2>2, <2>3, <2>4, <2>5 DEF StoreTyped
<1>2. /\ story.appended = {} /\ ~story.halfDone /\ active.lines = <<>>
      /\ \A p \in Periods : segments[p].lines = <<>>
  BY DEF StoreInit, NoFile, NoSegment
<1>3. Lines(<<>>) = {}
  BY DEF Lines, ToSet
<1>4. Stored = {} /\ Compressed = {}
  BY <1>2, <1>3 DEF Stored, Compressed, Held
<1>5. Counted /\ NothingLost
  <2>1. story.wiped = {}
    BY DEF StoreInit
  <2> QED BY <1>2, <2>1, FS_EmptySet DEF Counted, NothingLost
<1>6. FilesFit
  <2>1. <<>> \in Seq(Sample) /\ IsInjective(<<>>) /\ InOrder(<<>>) /\ 1 .. Len(<<>>) = {}
    BY DEF IsInjective, InOrder
  <2>2. FileFits(<<>>, {}, today) /\ \A p : SegmentFits(<<>>, p, today)
    BY <1>3, <2>1 DEF FileFits, SegmentFits
  <2>3. Precede(Compressed, Lines(active.lines))
    BY <1>4 DEF Precede
  <2> QED BY <1>2, <1>3, <1>4, <2>1, <2>2, <2>3 DEF FilesFit
<1>7. CompactionFits
  <2>1. compactor.pc = "idle"
    BY DEF StoreInit, Idle
  <2>2. ~SeriesLocked /\ ~Matches
    BY <2>1 DEF SeriesLocked, Matches
  <2> QED BY <2>1, <2>2 DEF CompactionFits
<1>8. ReadersFit
  <2>1. \A r \in Readers : reading[r].pc = "idle"
    BY DEF StoreInit, NoReader
  <2> QED BY <2>1 DEF ReadersFit
<1> QED BY <1>1, <1>5, <1>6, <1>7, <1>8 DEF StoreInv

LEMMA NextDayKeeps == StoreInv /\ NextDay => StoreInv'
<1> SUFFICES ASSUME StoreInv, NextDay PROVE StoreInv'
  OBVIOUS
<1>1. /\ StoreTyped /\ Counted /\ NothingLost /\ FilesFit /\ CompactionFits /\ ReadersFit
      /\ today' = today + 1 /\ UNCHANGED <<active, segments, compactor, reading, story>>
  BY DEF StoreInv, NextDay
<1>2. today \in Nat /\ today' \in Nat \ {0} /\ today' >= today
  BY <1>1, StoreTypes
<1>3. StoreTyped'
  BY <1>1, <1>2 DEF StoreTyped
<1>4. /\ (InTime' <=> InTime) /\ (Renamed' <=> Renamed) /\ Stored' = Stored
      /\ \A p : Held(p)' = Held(p)
  BY <1>1 DEF InTime, Renamed, SeriesLocked, Stored, Held
<1>5. Counted' /\ NothingLost'
  <2>1. Counted'
    BY <1>1, <1>2, CountKeeps
  <2> QED BY <1>1, <1>2, <1>4, <2>1, LossKeeps
<1>6. FilesFit'
  <2>1. /\ active'.ino = 0 => active'.lines = <<>>
        /\ "crash" \notin story'.faults => ~story'.halfDone
        /\ story'.halfDone \/ Renamed' \/ ~(story.halfDone \/ Renamed)
    BY <1>1, <1>4 DEF FilesFit
  <2> QED BY <1>1, <1>2, <1>3, <1>4, <2>1, FilesQuiet
<1>7. CompactionFits'
  BY <1>1, <1>2, <1>3, <1>4, CompactionBeside
<1>8. ReadersFit'
  BY <1>1, <1>4, ReadersKeep
<1> QED BY <1>3, <1>5, <1>6, <1>7, <1>8 DEF StoreInv

LEMMA TornAppendKeeps == StoreInv /\ TornAppend => StoreInv'
<1> DEFINE i == IF active.ino = 0 THEN NewIno ELSE active.ino
           yes == TRUE
           f == story.faults \union {"torn"}
<1> SUFFICES ASSUME StoreInv, TornAppend PROVE StoreInv'
  OBVIOUS
<1>1. /\ StoreTyped /\ Counted /\ NothingLost /\ FilesFit /\ CompactionFits /\ ReadersFit
      /\ UNCHANGED <<today, segments, compactor, reading>> /\ ~SeriesLocked
      /\ active' = [active EXCEPT !.ino = i, !.torn = yes]
      /\ story' = [story EXCEPT !.faults = f]
  BY DEF StoreInv, TornAppend
<1>2. today \in Nat /\ today' >= today /\ i \in Nat \ {0} /\ yes \in BOOLEAN
      /\ (i = active.ino \/ (i = NewIno /\ active.ino = 0))
  BY <1>1, StoreTypes, NewInoFacts
<1>2a. f \in SUBSET StoreFaults
  BY <1>1, StoreTypes DEF StoreFaults
<1>2b. /\ ("crash" \in f <=> "crash" \in story.faults) /\ ("late" \in f <=> "late" \in story.faults)
  OBVIOUS
<1> HIDE DEF i, yes, f
<1>3. active' \in File /\ active'.ino = i /\ active'.lines = active.lines
  BY <1>1, <1>2 DEF StoreTyped, File
<1>4. /\ story' \in Story /\ story'.appended = story.appended /\ story'.wiped = story.wiped
      /\ story'.damaged = story.damaged /\ story'.swallowed = story.swallowed
      /\ story'.halfDone = story.halfDone /\ story'.faults = f
  BY <1>1, <1>2a DEF StoreTyped, Story
<1>5. StoreTyped'
  BY <1>1, <1>3, <1>4 DEF StoreTyped
<1>6. /\ (InTime' <=> InTime) /\ (Renamed' <=> Renamed) /\ Stored' = Stored
      /\ \A p : Held(p)' = Held(p)
  BY <1>1, <1>2b, <1>3, <1>4 DEF InTime, Renamed, SeriesLocked, Stored, Held
<1>7. Counted' /\ NothingLost'
  <2>1. today' \in Nat
    BY <1>1, <1>2
  <2>2. Counted'
    BY <1>1, <1>2, <1>4, <2>1, CountKeeps
  <2> QED BY <1>1, <1>2, <1>4, <1>6, <2>1, <2>2, LossKeeps
<1>8. FilesFit'
  <2>1. /\ active'.ino = 0 => active'.lines = <<>>
        /\ "crash" \notin story'.faults => ~story'.halfDone
        /\ story'.halfDone \/ Renamed' \/ ~(story.halfDone \/ Renamed)
    BY <1>1, <1>2, <1>2b, <1>3, <1>4, <1>6 DEF FilesFit
  <2> QED BY <1>1, <1>2, <1>3, <1>4, <1>5, <1>6, <2>1, FilesQuiet
<1>9. CompactionFits'
  <2>1. CASE i = active.ino
    BY <1>1, <1>2, <1>3, <1>4, <1>5, <1>6, <2>1, CompactionBeside
  <2>2. CASE i = NewIno
    BY <1>1, <1>3, <2>2, NewInoFacts, CompactionMissed
  <2> QED BY <1>2, <2>1, <2>2
<1>10. ReadersFit'
  BY <1>1, <1>2, <1>2b, <1>3, <1>4, <1>6, ReadersKeep
<1> QED BY <1>5, <1>7, <1>8, <1>9, <1>10 DEF StoreInv

(* A step of the compaction that only thinks.                              *)
LEMMA ThinkingKeeps ==
    ASSUME StoreInv, StoreTyped', UNCHANGED <<today, active, segments, reading, story>>,
           ~SeriesLocked \/ ~Renamed, ~Renamed', CompactionFits'
    PROVE  StoreInv'
<1>1. /\ StoreTyped /\ Counted /\ NothingLost /\ FilesFit /\ ReadersFit
      /\ today \in Nat /\ today' = today /\ today' >= today
  <2>1. StoreTyped /\ Counted /\ NothingLost /\ FilesFit /\ ReadersFit
    BY DEF StoreInv
  <2>2. today \in Nat
    BY <2>1, StoreTypes
  <2> QED BY <2>1, <2>2
<1>2. ~Renamed /\ (InTime' <=> InTime) /\ Stored' = Stored
  BY DEF InTime, Renamed, Stored
<1>3. Counted' /\ NothingLost'
  <2>1. Counted'
    BY <1>1, CountKeeps
  <2> QED BY <1>1, <1>2, <2>1, LossKeeps
<1>4. FilesFit'
  <2>1. /\ active'.ino = 0 => active'.lines = <<>>
        /\ "crash" \notin story'.faults => ~story'.halfDone
        /\ story'.halfDone \/ Renamed' \/ ~(story.halfDone \/ Renamed)
    BY <1>1, <1>2 DEF FilesFit
  <2> QED BY <1>1, <1>2, <2>1, FilesQuiet
<1>5. ReadersFit'
  BY <1>1, <1>2, ReadersKeep
<1> QED BY <1>3, <1>4, <1>5 DEF StoreInv

LEMMA ScanKeeps == StoreInv /\ ScanClosedPrefix => StoreInv'
<1> DEFINE size == Len(active.lines)
           n == Len(ClosedLines)
           i == active.ino
           rest == ClosedLines
<1> SUFFICES ASSUME StoreInv, ScanClosedPrefix PROVE StoreInv'
  OBVIOUS
<1>1. /\ StoreTyped /\ FilesFit /\ CompactionFits /\ compactor.pc = "idle" /\ i # 0
      /\ UNCHANGED <<today, active, segments, reading, story>>
      /\ compactor' = [Idle EXCEPT !.pc = "scanned", !.ino = i, !.size = size,
                         !.consumed = n, !.rest = rest]
  BY DEF StoreInv, ScanClosedPrefix
<1>2. /\ active.lines \in Seq(Sample) /\ today \in Nat /\ i \in Nat /\ size \in Nat
      /\ \A j \in 1 .. size : active.lines[j] \in Sample
  BY <1>1, StoreTypes
<1>3. /\ n \in 0 .. size /\ rest = SubSeq(active.lines, 1, n)
      /\ \A j \in 1 .. n : active.lines[j].day < today
      /\ n < size => active.lines[n + 1].day >= today
  BY <1>2, ClosedLinesFacts
<1>4. \A j \in n + 1 .. size : active.lines[j] \notin Compressed
  <2>1. ASSUME NEW j \in n + 1 .. size PROVE active.lines[j] \notin Compressed
    <3>1. n < size /\ j \in 1 .. size /\ n + 1 \in 1 .. j /\ n + 1 \in 1 .. size
      BY <1>2, <1>3
    <3>2. active.lines[n + 1].day \in Int
      <4>1. \A s \in Sample : s.day \in Int
        BY StoreAssumption DEF Sample
      <4> QED BY <1>2, <3>1, <4>1
    <3>3. ~(active.lines[n + 1].day < today)
      BY <1>2, <1>3, <3>1, <3>2
    <3> QED BY <1>1, <3>1, <3>3 DEF FilesFit, FileFits
  <2> QED BY <2>1
<1> HIDE DEF n, rest
<1>5. /\ compactor'.pc = "scanned" /\ compactor'.ino = i /\ compactor'.size = size
      /\ compactor'.consumed = n /\ compactor'.rest = rest
      /\ DOMAIN compactor' = {"pc", "ino", "size", "consumed", "plan", "rest", "todo"}
      /\ compactor' = [k \in DOMAIN compactor' |-> compactor'[k]]
  BY <1>1 DEF Idle
<1>6. StoreTyped'
  BY <1>1, <1>5 DEF StoreTyped
<1>7. ~SeriesLocked /\ ~SeriesLocked' /\ ~Renamed /\ ~Renamed'
  BY <1>1, <1>5 DEF SeriesLocked, Renamed
<1>8. CompactionFits'
  <2> DEFINE ahead == {active.lines[j] : j \in n + 1 .. size}
  <2>1. Beyond(compactor.consumed)' = ahead
    BY <1>1, <1>5 DEF Beyond
  <2>1a. ahead \subseteq Lines(active.lines)
    <3>1. \A j \in n + 1 .. size : j \in 1 .. size
      BY <1>2, <1>3
    <3>2. DOMAIN active.lines = 1 .. size
      BY <1>2
    <3> QED BY <3>1, <3>2 DEF Lines, ToSet
  <2>2. ahead \intersect Compressed = {}
    BY <1>4
  <2> HIDE DEF ahead
  <2>3. InTime => Precede(Compressed, ahead)
    BY <1>1, <1>7, <2>1a DEF FilesFit, Precede
  <2>4. Compressed' = Compressed /\ (InTime' <=> InTime)
    BY <1>1 DEF Compressed, Held, InTime
  <2>5. ScanFits'
    <3>1. n \in Nat /\ size \in Nat /\ n <= size /\ size <= Len(active.lines)
      BY <1>2, <1>3
    <3> HIDE DEF size
    <3> QED BY <1>1, <1>3, <1>5, <2>1, <2>2, <2>3, <2>4, <3>1 DEF ScanFits
  <2>6. RestFits'
    BY <1>1, <1>3, <1>5, <1>7 DEF RestFits
  <2>7. compactor'.ino \in Nat \ {0}
    BY <1>1, <1>2, <1>5
  <2> QED BY <1>5, <1>7, <2>5, <2>6, <2>7 DEF CompactionFits
<1> QED BY <1>1, <1>6, <1>7, <1>8, ThinkingKeeps

LEMMA IdleCompaction ==
    ASSUME StoreTyped, UNCHANGED <<today, active, segments, reading, story>>, compactor' = Idle
    PROVE  StoreTyped' /\ CompactionFits' /\ ~Renamed' /\ ~SeriesLocked'
<1>1. /\ compactor'.pc = "idle"
      /\ DOMAIN compactor' = {"pc", "ino", "size", "consumed", "plan", "rest", "todo"}
      /\ compactor' = [k \in DOMAIN compactor' |-> compactor'[k]]
  BY DEF Idle
<1>2. StoreTyped'
  BY <1>1 DEF StoreTyped
<1>3. ~Renamed' /\ ~SeriesLocked'
  BY <1>1 DEF Renamed, SeriesLocked
<1> QED BY <1>2, <1>3, CompactionIdle

(* What the plan of a period holds: the old lines and the chunk.           *)
LEMMA PlanFacts ==
    ASSUME StoreTyped, FilesFit, Matches, ScanFits, compactor.pc = "scanned",
           compactor.rest = SubSeq(active.lines, 1, compactor.consumed), NEW p \in Periods,
           ~SeriesLocked
    PROVE  LET chunk == Among(compactor.rest, {s \in Sample : PeriodOf[s.day] = p})
               lines == Replacement(p, chunk)
           IN  /\ chunk \in Seq(Sample)
               /\ chunk = <<>> <=> \A i \in 1 .. compactor.consumed : PeriodOf[active.lines[i].day] # p
               /\ \A i \in 1 .. compactor.consumed :
                     PeriodOf[active.lines[i].day] = p => active.lines[i] \in Lines(lines)
               /\ SegmentFits(lines, p, today) /\ Held(p) \subseteq Lines(lines)
               /\ Lines(lines) \subseteq Stored
               /\ Lines(lines) \intersect Beyond(compactor.consumed) = {}
               /\ InTime => InOrder(lines) /\ Precede(Lines(lines), Beyond(compactor.consumed))
<1> DEFINE n == compactor.consumed
           old == active.lines
           size == Len(old)
           rest == compactor.rest
           some == {s \in Sample : PeriodOf[s.day] = p}
           chunk == Among(rest, some)
           lines == Replacement(p, chunk)
           held == segments[p].lines
           ahead == Beyond(n)
<1>1. /\ old \in Seq(Sample) /\ size \in Nat /\ n \in 0 .. size /\ held \in Seq(Sample)
      /\ \A i \in 1 .. size : old[i] \in Sample
  BY StoreTypes DEF ScanFits
<1>2. \A i, j \in 1 .. size : i < j => old[i] # old[j] /\ (InTime => Before(old[i], old[j]))
  <2>1. IsInjective(old) /\ (InTime => InOrder(old)) /\ DOMAIN old = 1 .. size
    BY <1>1 DEF FilesFit, FileFits
  <2>2. \A i, j \in 1 .. size : i < j => i # j
    BY <1>1
  <2> HIDE DEF old, size
  <2>3. \A i, j \in 1 .. size : i < j => old[i] # old[j]
    BY <2>1, <2>2 DEF IsInjective
  <2>4. InTime => \A i, j \in 1 .. size : i < j => Before(old[i], old[j])
    BY <2>1 DEF InOrder
  <2> QED BY <2>3, <2>4
<1>3. /\ rest \in Seq(Sample) /\ PartOf(rest, old)
      /\ \A x : x \in Lines(rest) <=> \E j \in 1 .. n : old[j] = x
  <2> DEFINE one == 1
  <2>1. one \in 1 .. size + 1 /\ n \in one - 1 .. size
    BY <1>1
  <2> HIDE DEF one
  <2>2. rest = SubSeq(old, one, n)
    BY DEF one
  <2> HIDE DEF rest, old, n
  <2>3. /\ rest \in Seq(Sample) /\ PartOf(rest, old)
        /\ \A x : x \in Lines(rest) <=> \E j \in one .. n : old[j] = x
    BY <1>1, <2>1, <2>2, SliceFacts
  <2> QED BY <2>3 DEF one
<1>4. IsInjective(rest) /\ (InTime => InOrder(rest))
  <2>1. IsInjective(old) /\ (InTime => InOrder(old))
    BY DEF FilesFit, FileFits
  <2> HIDE DEF rest, old
  <2> QED BY <1>1, <1>3, <2>1, PartFacts
<1>5. /\ chunk \in Seq(Sample) /\ Lines(chunk) = Lines(rest) \intersect some
      /\ IsInjective(chunk) /\ (InTime => InOrder(chunk))
      /\ chunk = <<>> <=> Lines(rest) \intersect some = {}
  <2> HIDE DEF rest, some
  <2>1. chunk \in Seq(Sample) /\ Lines(chunk) = Lines(rest) \intersect some /\ PartOf(chunk, rest)
    BY <1>3, AmongFacts
  <2>2. chunk = <<>> <=> Lines(rest) \intersect some = {}
    BY <1>3, AmongNone
  <2> HIDE DEF chunk
  <2>3. IsInjective(chunk) /\ (InTime => InOrder(chunk))
    BY <1>3, <1>4, <2>1, PartFacts
  <2> QED BY <2>1, <2>2, <2>3
<1> HIDE DEF chunk
<1>6. \A x : x \in Lines(chunk) <=> \E j \in 1 .. n : old[j] = x /\ PeriodOf[x.day] = p
  <2>1. \A j \in 1 .. n : old[j] \in Sample
    BY <1>1
  <2> HIDE DEF rest, old, n
  <2> QED BY <1>3, <1>5, <2>1
<1>7. /\ SegmentFits(held, p, today) /\ (segments[p].version = 0 => held = <<>>)
      /\ InTime => InOrder(held)
  BY DEF FilesFit
<1>8. /\ lines \in Seq(Sample) /\ Lines(lines) = Lines(held) \union Lines(chunk)
      /\ IsInjective(lines) /\ (InTime => InOrder(lines))
  <2>1. /\ lines \in Seq(Sample) /\ Lines(lines) = Lines(held) \union Lines(chunk)
        /\ IsInjective(held) /\ IsInjective(chunk) => IsInjective(lines)
        /\ InOrder(chunk) /\ InOrder(held) => InOrder(lines)
    BY <1>1, <1>5, <1>7, ReplacementFacts
  <2> HIDE DEF lines, held
  <2>2. IsInjective(held)
    BY <1>7 DEF SegmentFits
  <2> QED BY <1>5, <1>7, <2>1, <2>2
<1> HIDE DEF lines
<1>9. SegmentFits(lines, p, today)
  <2>1. ASSUME NEW s \in Lines(lines) PROVE PeriodOf[s.day] = p /\ s.day < today
    <3>1. CASE s \in Lines(held)
      BY <1>7, <3>1 DEF SegmentFits
    <3>2. CASE s \in Lines(chunk)
      <4>1. PICK j \in 1 .. n : old[j] = s /\ PeriodOf[s.day] = p
        BY <1>6, <3>2
      <4> QED BY <4>1 DEF ScanFits
    <3> QED BY <1>8, <2>1, <3>1, <3>2
  <2> QED BY <1>8, <2>1 DEF SegmentFits
<1>10. Held(p) = Lines(held) /\ Held(p) \subseteq Compressed
  BY DEF Held, Compressed
<1>11. Lines(lines) \subseteq Stored
  <2>1. \A j \in 1 .. n : old[j] \in Lines(old)
    BY <1>1 DEF Lines, ToSet
  <2>2. Lines(chunk) \subseteq Lines(old)
    BY <1>6, <2>1
  <2> QED BY <1>8, <1>10, <2>2 DEF Stored, Held
<1>12. ASSUME NEW x \in Lines(chunk), NEW y \in ahead
       PROVE  x # y /\ (InTime => Before(x, y))
  <2>1. PICK j \in 1 .. n : old[j] = x
    BY <1>6
  <2>2. PICK i \in n + 1 .. size : old[i] = y
    BY DEF Beyond
  <2>3. i \in 1 .. size /\ j \in 1 .. size /\ j < i
    BY <1>1
  <2> QED BY <1>2, <2>1, <2>2, <2>3
<1>13. /\ Held(p) \intersect ahead = {}
       /\ InTime => Precede(Held(p), ahead)
  BY <1>10 DEF ScanFits, Precede
<1> HIDE DEF ahead
<1>14. /\ Lines(lines) \intersect ahead = {}
       /\ InTime => InOrder(lines) /\ Precede(Lines(lines), ahead)
  BY <1>8, <1>10, <1>12, <1>13 DEF Precede
<1>15. chunk = <<>> <=> \A i \in 1 .. n : PeriodOf[old[i].day] # p
  <2>1. \A j \in 1 .. n : old[j] \in Sample
    BY <1>1
  <2> HIDE DEF rest, old, n
  <2> QED BY <1>3, <1>5, <2>1
<1>16. \A i \in 1 .. n : PeriodOf[old[i].day] = p => old[i] \in Lines(lines)
  BY <1>6, <1>8
<1> QED BY <1>5, <1>8, <1>9, <1>10, <1>11, <1>14, <1>15, <1>16 DEF lines, chunk, ahead

LEMMA PlanKeeps == StoreInv /\ PlanSegments => StoreInv'
<1> DEFINE n == compactor.consumed
           chunk(p) == Among(compactor.rest, {s \in Sample : PeriodOf[s.day] = p})
           keys == {p \in Periods : chunk(p) # <<>>}
           plan == [p \in keys |-> [lines |-> Replacement(p, chunk(p)),
                                    expected |-> segments[p].version]]
           rest == SubSeq(active.lines, n + 1, compactor.size)
<1> SUFFICES ASSUME StoreInv, PlanSegments PROVE StoreInv'
  OBVIOUS
<1>1. /\ StoreTyped /\ FilesFit /\ CompactionFits /\ compactor.pc = "scanned"
      /\ UNCHANGED <<today, active, segments, reading, story>>
  BY DEF StoreInv, PlanSegments
<1>2. ~SeriesLocked /\ ~Renamed
  BY <1>1 DEF SeriesLocked, Renamed
<1>3. CASE compactor' = Idle
  <2>1. StoreTyped' /\ CompactionFits' /\ ~Renamed'
    BY <1>1, <1>3, IdleCompaction
  <2> QED BY <1>1, <1>2, <2>1, ThinkingKeeps
<1>4. CASE active.ino = compactor.ino
  <2>1. compactor' = [compactor EXCEPT !.pc = "planned", !.plan = plan, !.rest = rest]
    BY <1>4 DEF PlanSegments
  <2>2. Matches /\ ScanFits /\ compactor.rest = SubSeq(active.lines, 1, n) /\ compactor.ino \in Nat \ {0}
    BY <1>1, <1>4 DEF CompactionFits, RestFits, Matches
  <2>3. ASSUME NEW p \in Periods
        PROVE  LET lines == Replacement(p, chunk(p)) IN
               /\ p \in keys <=> ~(\A i \in 1 .. n : PeriodOf[active.lines[i].day] # p)
               /\ \A i \in 1 .. n :
                     PeriodOf[active.lines[i].day] = p => active.lines[i] \in Lines(lines)
               /\ SegmentFits(lines, p, today) /\ Held(p) \subseteq Lines(lines)
               /\ Lines(lines) \subseteq Stored
               /\ Lines(lines) \intersect Beyond(n) = {}
               /\ InTime => InOrder(lines) /\ Precede(Lines(lines), Beyond(n))
    BY <1>1, <1>2, <2>2, PlanFacts
  <2>4. \A p \in keys : plan[p].lines = Replacement(p, chunk(p)) /\ p \in Periods
    OBVIOUS
  <2>5. DOMAIN plan = keys
    OBVIOUS
  <2> HIDE DEF plan, rest, keys
  <2>6. /\ compactor'.pc = "planned" /\ compactor'.plan = plan /\ compactor'.rest = rest
        /\ compactor'.ino = compactor.ino /\ compactor'.size = compactor.size
        /\ compactor'.consumed = n /\ compactor'.todo = compactor.todo
        /\ DOMAIN compactor' = DOMAIN compactor
        /\ compactor' = [k \in DOMAIN compactor' |-> compactor'[k]]
    BY <1>1, <2>1 DEF StoreTyped
  <2>7. StoreTyped'
    BY <1>1, <2>6 DEF StoreTyped
  <2>8. ~SeriesLocked' /\ ~Renamed' /\ (InTime' <=> InTime) /\ Compressed' = Compressed
    BY <1>1, <2>6 DEF SeriesLocked, Renamed, InTime, Compressed, Held
  <2>9. Beyond(compactor.consumed)' = Beyond(n)
    BY <1>1, <2>6 DEF Beyond
  <2>10. ScanFits' /\ RestFits'
    <3>1. ScanFits'
      BY <1>1, <2>2, <2>6, <2>8, <2>9 DEF ScanFits
    <3> QED BY <1>1, <2>6, <2>8, <3>1 DEF RestFits, rest
  <2>11. ASSUME NEW p \in keys PROVE PlanFits(p)'
    <3> DEFINE lines == Replacement(p, chunk(p))
    <3>1. p \in Periods /\ compactor'.plan[p].lines = lines /\ Foreseen(p)' = Lines(lines)
      BY <2>4, <2>6 DEF Foreseen
    <3>2. ~Published(p)' /\ Held(p)' = Held(p)
      BY <1>1, <2>8 DEF Published, Held
    <3>3. Stored \subseteq story.appended \ story.wiped
      BY <1>1 DEF FilesFit
    <3>4. /\ SegmentFits(lines, p, today) /\ Held(p) \subseteq Lines(lines)
          /\ Lines(lines) \subseteq Stored
          /\ Lines(lines) \intersect Beyond(n) = {}
          /\ InTime => InOrder(lines) /\ Precede(Lines(lines), Beyond(n))
      BY <2>3, <3>1
    <3> HIDE DEF lines
    <3> QED BY <1>1, <2>8, <2>9, <3>1, <3>2, <3>3, <3>4 DEF PlanFits
  <2>12. ASSUME NEW i \in 1 .. n
         PROVE  \E p \in keys : active.lines[i] \in Lines(plan[p].lines)
    <3>1. i \in 1 .. Len(active.lines)
      BY <1>1, <2>2, StoreTypes DEF ScanFits
    <3>2. active.lines[i] \in Sample
      BY <1>1, <3>1, StoreTypes
    <3>3. PeriodOf[active.lines[i].day] \in Periods
      BY <3>2, PeriodsFacts DEF Sample
    <3> DEFINE p == PeriodOf[active.lines[i].day]
    <3>4. p \in keys /\ active.lines[i] \in Lines(Replacement(p, chunk(p)))
      BY <2>3, <3>3
    <3> HIDE DEF p
    <3> QED BY <2>4, <3>4
  <2>13. PlansFit'
    BY <1>1, <2>5, <2>6, <2>11, <2>12 DEF PlansFit, Foreseen
  <2>14. CompactionFits'
    BY <2>2, <2>6, <2>8, <2>10, <2>13 DEF CompactionFits
  <2> QED BY <1>1, <1>2, <2>7, <2>8, <2>14, ThinkingKeeps
<1>5. active.ino # compactor.ino => compactor' = Idle
  BY DEF PlanSegments
<1> QED BY <1>3, <1>4, <1>5

LEMMA CommitKeeps == StoreInv /\ CommitChecks => StoreInv'
<1> DEFINE n == compactor.consumed
           size == compactor.size
           old == active.lines
           len == Len(old)
           rest == compactor.rest \o SubSeq(old, size + 1, len)
           todo == DOMAIN compactor.plan
<1> SUFFICES ASSUME StoreInv, CommitChecks PROVE StoreInv'
  OBVIOUS
<1>1. /\ StoreTyped /\ FilesFit /\ CompactionFits /\ compactor.pc = "planned"
      /\ UNCHANGED <<today, active, segments, reading, story>>
  BY DEF StoreInv, CommitChecks
<1>2. ~SeriesLocked /\ ~Renamed
  BY <1>1 DEF SeriesLocked, Renamed
<1>3. CASE compactor' = Idle
  <2>1. StoreTyped' /\ CompactionFits' /\ ~Renamed'
    BY <1>1, <1>3, IdleCompaction
  <2> QED BY <1>1, <1>2, <2>1, ThinkingKeeps
<1>4. CASE /\ active.ino = compactor.ino
           /\ compactor' = [compactor EXCEPT !.pc = "publishing", !.rest = rest, !.todo = todo]
  <2>1. Matches /\ ScanFits /\ PlansFit /\ compactor.ino \in Nat \ {0}
        /\ compactor.rest = SubSeq(old, n + 1, size)
    BY <1>1, <1>4 DEF CompactionFits, RestFits, Matches
  <2>2. rest = SubSeq(old, n + 1, len)
    <3>1. old \in Seq(Sample) /\ len \in Nat
      BY <1>1, StoreTypes
    <3> DEFINE m == n + 1
    <3>2. m \in 1 .. len + 1 /\ size \in m - 1 .. len /\ len \in size .. len
      BY <2>1, <3>1 DEF ScanFits
    <3> HIDE DEF m, old, len, size
    <3>3. SubSeq(old, m, size) \o SubSeq(old, size + 1, Len(old)) = SubSeq(old, m, Len(old))
      BY <3>1, <3>2, ConcatAdjacentSubSeq DEF len
    <3> QED BY <2>1, <3>3 DEF m, len
  <2> HIDE DEF rest, todo
  <2>3. /\ compactor'.pc = "publishing" /\ compactor'.plan = compactor.plan
        /\ compactor'.rest = rest /\ compactor'.todo = todo
        /\ compactor'.ino = compactor.ino /\ compactor'.size = compactor.size
        /\ compactor'.consumed = n /\ DOMAIN compactor' = DOMAIN compactor
        /\ compactor' = [k \in DOMAIN compactor' |-> compactor'[k]]
    BY <1>1, <1>4 DEF StoreTyped
  <2>4. StoreTyped'
    BY <1>1, <2>3 DEF StoreTyped
  <2>5. SeriesLocked' /\ ~Renamed' /\ (InTime' <=> InTime) /\ Compressed' = Compressed /\ Matches'
    BY <1>1, <2>1, <2>3 DEF SeriesLocked, Renamed, InTime, Compressed, Held, todo, Matches
  <2>6. Beyond(compactor.consumed)' = Beyond(n)
    BY <1>1, <2>3 DEF Beyond
  <2>7. ScanFits'
    BY <1>1, <2>1, <2>3, <2>5, <2>6 DEF ScanFits
  <2>8. RestFits'
    BY <1>1, <2>2, <2>3 DEF RestFits
  <2>9. ASSUME NEW p \in DOMAIN compactor.plan PROVE PlanFits(p)'
    <3>1. ~Published(p)' /\ ~Published(p) /\ Held(p)' = Held(p) /\ Foreseen(p)' = Foreseen(p)
      BY <1>1, <1>2, <2>3 DEF Published, Held, Foreseen, todo
    <3>2. PlanFits(p)
      BY <2>1 DEF PlansFit
    <3> QED BY <1>1, <2>3, <2>5, <2>6, <3>1, <3>2 DEF PlanFits
  <2>10. PlansFit'
    BY <1>1, <2>1, <2>3, <2>9 DEF PlansFit, Foreseen
  <2>11. CompactionFits'
    BY <2>1, <2>3, <2>5, <2>7, <2>8, <2>10 DEF CompactionFits, todo
  <2> QED BY <1>1, <1>2, <2>4, <2>5, <2>11, ThinkingKeeps
<1>5. \/ compactor' = Idle
      \/ /\ active.ino = compactor.ino
         /\ compactor' = [compactor EXCEPT !.pc = "publishing", !.rest = rest, !.todo = todo]
  BY DEF CommitChecks
<1> QED BY <1>3, <1>4, <1>5

LEMMA PublishKeeps == ASSUME StoreInv, NEW p, PublishSegment(p) PROVE StoreInv'
<1> DEFINE n == compactor.consumed
           lines == compactor.plan[p].lines
           no == FALSE
           new == [version |-> NewVersion(p), lines |-> lines, damaged |-> no]
           todo == compactor.todo \ {p}
<1>1. /\ StoreTyped /\ Counted /\ NothingLost /\ FilesFit /\ CompactionFits /\ ReadersFit
      /\ compactor.pc = "publishing" /\ p \in compactor.todo
      /\ segments' = [segments EXCEPT ![p] = new]
      /\ compactor' = [compactor EXCEPT !.todo = todo]
      /\ UNCHANGED <<today, active, reading, story>>
  BY DEF StoreInv, PublishSegment
<1>2. SeriesLocked /\ Matches /\ ScanFits /\ RestFits /\ PlansFit
      /\ compactor.ino \in Nat \ {0} /\ compactor.todo \subseteq DOMAIN compactor.plan
  <2>1. SeriesLocked
    BY <1>1 DEF SeriesLocked
  <2>2. Matches /\ compactor.pc # "scanned"
    BY <1>1, <2>1 DEF CompactionFits
  <2> QED BY <1>1, <2>1, <2>2 DEF CompactionFits, Matches
<1>3. p \in DOMAIN compactor.plan /\ PlanFits(p) /\ p \in Periods /\ ~Published(p)
      /\ Held(p) \subseteq Foreseen(p)
  <2>1. p \in DOMAIN compactor.plan /\ PlanFits(p)
    BY <1>1, <1>2 DEF PlansFit
  <2>2. ~Published(p)
    BY <1>1 DEF Published
  <2> QED BY <2>1, <2>2 DEF PlanFits
<1>4. /\ compactor'.pc = "publishing" /\ compactor'.plan = compactor.plan
      /\ compactor'.rest = compactor.rest /\ compactor'.todo = todo
      /\ compactor'.ino = compactor.ino /\ compactor'.size = compactor.size
      /\ compactor'.consumed = n /\ DOMAIN compactor' = DOMAIN compactor
      /\ compactor' = [k \in DOMAIN compactor' |-> compactor'[k]]
  BY <1>1 DEF StoreTyped
<1>5. new \in Segment /\ new.version # 0 /\ new.lines = lines
  <2>1. NewVersion(p) \in Nat \ {0} /\ lines \in Seq(Sample) /\ no \in BOOLEAN
    BY <1>3, NewVersionFacts DEF PlanFits, SegmentFits
  <2> HIDE DEF lines, no
  <2> QED BY <2>1 DEF Segment
<1> HIDE DEF new
<1>6. segments' \in [Periods -> Segment] /\ segments'[p] = new
      /\ \A q \in Periods : q # p => segments'[q] = segments[q]
  BY <1>1, <1>3, <1>5 DEF StoreTyped
<1>7. StoreTyped'
  BY <1>1, <1>4, <1>6 DEF StoreTyped
<1>8. /\ Held(p)' = Foreseen(p) /\ \A q \in Periods : q # p => Held(q)' = Held(q)
      /\ \A q : Foreseen(q)' = Foreseen(q)
  BY <1>4, <1>5, <1>6 DEF Held, Foreseen
<1>9. Compressed' = Compressed \union Foreseen(p)
  BY <1>3, <1>8 DEF Compressed
<1>10. /\ SeriesLocked' /\ Renamed' /\ (InTime' <=> InTime) /\ Matches'
       /\ Beyond(compactor.consumed)' = Beyond(n)
  BY <1>1, <1>2, <1>3, <1>4 DEF SeriesLocked, Renamed, InTime, Matches, Beyond
<1>11. Stored' = Stored \union Foreseen(p)
  BY <1>1, <1>9 DEF Stored, Compressed, Held
<1>12. today \in Nat /\ today' = today /\ today' >= today
  BY <1>1, StoreTypes
<1>13. Counted' /\ NothingLost'
  <2>1. Counted'
    BY <1>1, <1>12, CountKeeps
  <2> QED BY <1>1, <1>11, <1>12, <2>1, LossKeeps
<1>14. FilesFit'
  <2>1. Stored' \subseteq story.appended \ story.wiped
    BY <1>1, <1>3, <1>11 DEF FilesFit, PlanFits
  <2>2. FileFits(active.lines, Compressed', today)
    <3> DEFINE old == active.lines
    <3>1. FileFits(old, Compressed, today) /\ Len(old) \in Nat
      BY <1>1, StoreTypes DEF FilesFit
    <3>2. ASSUME NEW i \in 1 .. Len(old), old[i] \in Foreseen(p), NEW j \in 1 .. i
          PROVE  old[j].day < today
      <4>1. n \in Nat /\ Foreseen(p) \intersect Beyond(n) = {}
        BY <1>2, <1>3 DEF ScanFits, PlanFits
      <4>2. ~(i > n)
        <5>1. ASSUME i > n PROVE FALSE
          <6>1. i \in n + 1 .. Len(old)
            BY <3>1, <4>1, <5>1
          <6>2. old[i] \in Beyond(n)
            BY <6>1 DEF Beyond
          <6> QED BY <3>2, <4>1, <6>2
        <5> QED BY <5>1
      <4>3. j \in 1 .. n
        BY <3>1, <4>1, <4>2
      <4> QED BY <1>2, <4>3 DEF ScanFits
    <3> HIDE DEF old
    <3>3. FileFits(old, Compressed \union Foreseen(p), today)
      BY <3>1, <3>2 DEF FileFits
    <3> QED BY <1>9, <3>3 DEF old
  <2>3. \A q \in Periods : /\ SegmentFits(segments'[q].lines, q, today)
                           /\ segments'[q].version = 0 => segments'[q].lines = <<>>
    BY <1>1, <1>3, <1>5, <1>6 DEF FilesFit, PlanFits
  <2>4. InTime => InOrder(active.lines) /\ \A q \in Periods : InOrder(segments'[q].lines)
    BY <1>1, <1>3, <1>5, <1>6 DEF FilesFit, PlanFits
  <2> QED BY <1>1, <1>10, <2>1, <2>2, <2>3, <2>4 DEF FilesFit
<1>15. ScanFits'
  <2>1. /\ Beyond(n) \intersect Compressed' = {}
        /\ InTime => Precede(Compressed', Beyond(n))
    BY <1>2, <1>3, <1>9 DEF ScanFits, PlanFits, Precede
  <2> QED BY <1>1, <1>2, <1>4, <1>10, <2>1 DEF ScanFits
<1>16. RestFits'
  BY <1>1, <1>2, <1>4 DEF RestFits, SeriesLocked
<1>17. PlansFit'
  <2>1. ASSUME NEW q \in DOMAIN compactor.plan PROVE PlanFits(q)'
    <3>1. PlanFits(q) /\ q \in Periods
      BY <1>2, <2>1 DEF PlansFit, PlanFits
    <3>2. CASE q = p
      <4>1. Published(q)' /\ Held(q)' = Foreseen(q)
        BY <1>4, <1>8, <1>10, <3>2 DEF Published
      <4> QED BY <1>1, <1>4, <1>8, <1>10, <3>1, <4>1 DEF PlanFits
    <3>3. CASE q # p
      <4>1. (Published(q)' <=> Published(q)) /\ Held(q)' = Held(q)
        BY <1>2, <1>4, <1>8, <1>10, <3>1, <3>3 DEF Published
      <4> QED BY <1>1, <1>4, <1>8, <1>10, <3>1, <4>1 DEF PlanFits
    <3> QED BY <3>2, <3>3
  <2> QED BY <1>1, <1>2, <1>4, <1>8, <2>1 DEF PlansFit
<1>18. CompactionFits'
  BY <1>2, <1>4, <1>10, <1>15, <1>16, <1>17 DEF CompactionFits
<1>19. ReadersFit'
  BY <1>1, <1>10, ReadersKeep
<1> QED BY <1>7, <1>13, <1>14, <1>18, <1>19 DEF StoreInv

LEMMA ReplaceActiveKeeps == StoreInv /\ ReplaceActive => StoreInv'
<1> DEFINE n == compactor.consumed
           old == active.lines
           new == compactor.rest
           no == FALSE
           i0 == NewIno
<1> SUFFICES ASSUME StoreInv, ReplaceActive PROVE StoreInv'
  OBVIOUS
<1>1. /\ StoreTyped /\ Counted /\ NothingLost /\ FilesFit /\ CompactionFits /\ ReadersFit
      /\ compactor.pc = "publishing" /\ compactor.todo = {} /\ compactor' = Idle
      /\ active' = [ino |-> i0, lines |-> new, torn |-> active.torn]
      /\ story' = [story EXCEPT !.halfDone = no]
      /\ UNCHANGED <<today, segments, reading>>
  BY DEF StoreInv, ReplaceActive
<1>2. SeriesLocked /\ ScanFits /\ PlansFit /\ new = SubSeq(old, n + 1, Len(old))
  <2>1. SeriesLocked
    BY <1>1 DEF SeriesLocked
  <2>2. Matches /\ compactor.pc # "scanned"
    BY <1>1, <2>1 DEF CompactionFits
  <2> QED BY <1>1, <2>1, <2>2 DEF CompactionFits, RestFits
<1>3. /\ old \in Seq(Sample) /\ Len(old) \in Nat /\ n \in 0 .. Len(old)
      /\ today \in Nat /\ today' \in Nat /\ today' >= today
  BY <1>1, <1>2, StoreTypes DEF ScanFits
<1>4. new \in Seq(Sample) /\ PartOf(new, old) /\ Lines(new) = Beyond(n)
  <2> DEFINE m == n + 1
             len == Len(old)
  <2>1. m \in 1 .. Len(old) + 1 /\ len \in m - 1 .. Len(old)
    BY <1>3
  <2> HIDE DEF m, old, new, len
  <2>2. new = SubSeq(old, m, len)
    BY <1>2 DEF m, len
  <2>3. /\ new \in Seq(Sample) /\ PartOf(new, old)
        /\ \A x : x \in Lines(new) <=> \E j \in m .. len : old[j] = x
    BY <1>3, <2>1, <2>2, SliceFacts
  <2>4. \A x : x \in Beyond(n) <=> \E j \in m .. len : old[j] = x
    BY DEF Beyond, m, len, old
  <2> QED BY <2>3, <2>4
<1>5. i0 \in Nat \ {0} /\ no \in BOOLEAN /\ active.torn \in BOOLEAN
  BY <1>1, NewInoFacts DEF StoreTyped, File
<1> HIDE DEF new, i0, no
<1>6. active' \in File /\ active'.ino = i0 /\ active'.lines = new
  BY <1>1, <1>4, <1>5 DEF File
<1>7. /\ story' \in Story /\ story'.appended = story.appended /\ story'.wiped = story.wiped
      /\ story'.damaged = story.damaged /\ story'.swallowed = story.swallowed
      /\ story'.halfDone = no /\ story'.faults = story.faults
  BY <1>1, <1>5 DEF StoreTyped, Story
<1>8. StoreTyped'
  <2>1. /\ compactor'.pc = "idle"
        /\ DOMAIN compactor' = {"pc", "ino", "size", "consumed", "plan", "rest", "todo"}
        /\ compactor' = [k \in DOMAIN compactor' |-> compactor'[k]]
    BY <1>1 DEF Idle
  <2> QED BY <1>1, <1>6, <1>7, <2>1 DEF StoreTyped
<1>9. (InTime' <=> InTime) /\ Compressed' = Compressed
  BY <1>1, <1>7 DEF InTime, Compressed, Held
<1>10. Stored = Lines(old) \union Compressed /\ Stored' = Lines(new) \union Compressed
  BY <1>6, <1>9 DEF Stored, Compressed, Held
<1>11. Lines(new) \subseteq Lines(old)
  BY <1>3, <1>4, PartFacts
<1>12. NothingLost'
  <2>1. ASSUME NEW s \in Stored PROVE s \in Stored' \union story'.damaged
    <3>1. CASE s \in Compressed
      BY <1>10, <3>1
    <3>2. CASE s \in Lines(old)
      <4>1. PICK i \in 1 .. Len(old) : s = old[i]
        BY <1>3, <3>2 DEF Lines, ToSet
      <4>2. CASE i <= n
        <5>1. PICK p \in DOMAIN compactor.plan : s \in Foreseen(p)
          BY <1>2, <1>3, <4>1, <4>2 DEF PlansFit
        <5>2. PlanFits(p) /\ Published(p)
          BY <1>1, <1>2 DEF PlansFit, Published
        <5>3. p \in Periods /\ s \in Held(p) \union story.damaged
          BY <5>1, <5>2 DEF PlanFits
        <5> QED BY <1>7, <1>10, <5>3 DEF Compressed
      <4>3. CASE ~(i <= n)
        <5>1. i \in n + 1 .. Len(old)
          BY <1>3, <4>3
        <5>2. s \in Beyond(n)
          BY <4>1, <5>1 DEF Beyond
        <5> QED BY <1>4, <1>10, <5>2
      <4> QED BY <4>2, <4>3
    <3> QED BY <1>10, <3>1, <3>2
  <2> QED BY <1>1, <1>3, <1>7, <2>1, LossKeeps
<1>13. Counted'
  BY <1>1, <1>3, <1>7, CountKeeps
<1>14. FilesFit'
  <2>1. Stored' \subseteq story.appended \ story.wiped
    BY <1>1, <1>10, <1>11 DEF FilesFit
  <2>2. FileFits(new, Compressed, today)
    <3> DEFINE day == today
               taken == Compressed
    <3>1. FileFits(old, taken, day) /\ day <= day /\ taken \subseteq taken /\ day \in Nat
      BY <1>1, <1>3 DEF FilesFit
    <3> HIDE DEF old, day, taken
    <3>2. FileFits(new, taken, day)
      BY <1>3, <1>4, <3>1, FileThinned
    <3> QED BY <3>2 DEF day, taken
  <2>3. Lines(new) \intersect Compressed = {}
    BY <1>2, <1>4 DEF ScanFits
  <2>4. ASSUME InTime
        PROVE  InOrder(new) /\ Precede(Compressed, Lines(new))
               /\ \A p \in Periods : InOrder(segments[p].lines)
    <3>1. InOrder(old) /\ \A p \in Periods : InOrder(segments[p].lines)
      BY <1>1, <2>4 DEF FilesFit
    <3> HIDE DEF old
    <3>2. InOrder(new)
      BY <1>3, <1>4, <3>1, PartFacts
    <3> QED BY <1>2, <1>4, <2>4, <3>1, <3>2 DEF ScanFits
  <2>5. ~story'.halfDone
    BY <1>7 DEF no
  <2>6. \A p \in Periods : /\ SegmentFits(segments[p].lines, p, today)
                           /\ segments[p].version = 0 => segments[p].lines = <<>>
    BY <1>1 DEF FilesFit
  <2> QED BY <1>1, <1>5, <1>6, <1>7, <1>9, <2>1, <2>2, <2>3, <2>4, <2>5, <2>6 DEF FilesFit
<1>15. CompactionFits'
  BY <1>1, CompactionIdle
<1>16. ReadersFit'
  BY <1>1, <1>6, <1>7, <1>9, ReadersKeep DEF i0
<1> QED BY <1>8, <1>12, <1>13, <1>14, <1>15, <1>16 DEF StoreInv

LEMMA CompactionRests ==
    ASSUME compactor'.pc = "idle"
    PROVE  CompactionFits'
<1>1. ~SeriesLocked' /\ ~Matches'
  BY DEF Matches, SeriesLocked
<1> QED BY <1>1 DEF CompactionFits

LEMMA PruneSeriesKeeps == StoreInv /\ PruneSeries => StoreInv'
<1> SUFFICES ASSUME StoreInv, PruneSeries PROVE StoreInv'
  OBVIOUS
<1>1. /\ StoreTyped /\ Counted /\ NothingLost /\ FilesFit /\ CompactionFits /\ ReadersFit
      /\ compactor.pc = "idle" /\ active' = Pruned(active)
      /\ segments' = [p \in Periods |-> PrunedSegment(p)]
      /\ UNCHANGED <<today, compactor, reading, story>>
  BY DEF StoreInv, PruneSeries
<1>2. today \in Nat /\ today' = today /\ today' >= today /\ active \in File
  BY <1>1, StoreTypes DEF StoreTyped
<1>3. /\ active' \in File /\ PartOf(active'.lines, active.lines)
      /\ active' = active \/ active'.ino = NewIno \/ (active'.ino = 0 /\ active'.lines = <<>>)
      /\ \A s \in Lines(active.lines) : s.day >= Cutoff => s \in Lines(active'.lines)
  BY <1>1, <1>2, PrunedFacts
<1>4. ASSUME NEW p \in Periods
      PROVE  /\ segments'[p] \in Segment /\ PartOf(segments'[p].lines, segments[p].lines)
             /\ segments'[p].version = 0 => segments'[p].lines = <<>>
             /\ \A s \in Held(p) : s.day >= Cutoff => s \in Held(p)'
  <2>1. /\ segments[p] \in Segment /\ SegmentFits(segments[p].lines, p, today)
        /\ segments[p].version = 0 => segments[p].lines = <<>>
    BY <1>1, StoreTypes DEF FilesFit
  <2>2. segments'[p] = PrunedSegment(p)
    BY <1>1
  <2> QED BY <1>2, <2>1, <2>2, PrunedSegmentFacts DEF Held
<1>5. StoreTyped'
  <2>1. segments' \in [Periods -> Segment]
    BY <1>1, <1>4
  <2> QED BY <1>1, <1>3, <2>1 DEF StoreTyped
<1>6. (InTime' <=> InTime) /\ (Renamed' <=> Renamed) /\ Cutoff' = Cutoff
  BY <1>1 DEF InTime, Renamed, SeriesLocked, Cutoff
<1>7. Counted' /\ NothingLost'
  <2>1. Counted'
    BY <1>1, <1>2, CountKeeps
  <2>2. \A s \in Stored : s.day >= Cutoff => s \in Stored'
    BY <1>3, <1>4 DEF Stored, Held
  <2> QED BY <1>1, <1>2, <1>6, <2>1, <2>2, LossKeeps
<1>8. FilesFit'
  <2>1. /\ active'.ino = 0 => active'.lines = <<>>
        /\ "crash" \notin story'.faults => ~story'.halfDone
        /\ story'.halfDone \/ Renamed' \/ ~(story.halfDone \/ Renamed)
    BY <1>1, <1>3, <1>6, NewInoFacts DEF FilesFit
  <2> QED BY <1>1, <1>2, <1>3, <1>4, <1>5, <1>6, <2>1, FilesThinned
<1>9. CompactionFits'
  BY <1>1, CompactionRests
<1>10. ReadersFit'
  BY <1>1, <1>3, <1>6, ReadersKeep
<1> QED BY <1>5, <1>7, <1>8, <1>9, <1>10 DEF StoreInv

Emptied ==
    /\ active.lines = <<>> /\ \A p \in Periods : segments[p].lines = <<>>
    /\ ~story.halfDone

LEMMA EmptyFilesFit == Emptied => FilesFit
<1> SUFFICES ASSUME active.lines = <<>>, \A p \in Periods : segments[p].lines = <<>>,
                    ~story.halfDone
             PROVE  FilesFit
  BY DEF Emptied
<1>1. Lines(<<>>) = {}
  BY DEF Lines, ToSet
<1>2. Stored = {} /\ Compressed = {}
  BY <1>1 DEF Stored, Compressed, Held
<1>3. <<>> \in Seq(Sample) /\ IsInjective(<<>>) /\ InOrder(<<>>) /\ 1 .. Len(<<>>) = {}
  BY DEF IsInjective, InOrder
<1>4. FileFits(<<>>, {}, today) /\ \A p : SegmentFits(<<>>, p, today)
  BY <1>1, <1>3 DEF FileFits, SegmentFits
<1>5. Precede(Compressed, Lines(active.lines))
  BY <1>2 DEF Precede
<1> QED BY <1>1, <1>2, <1>3, <1>4, <1>5 DEF FilesFit

LEMMA DeleteTargetKeeps == StoreInv /\ DeleteTarget => StoreInv'
<1> DEFINE no == FALSE
           w == story.wiped \union story.appended
           f == story.faults \union {"deleted"}
<1> SUFFICES ASSUME StoreInv, DeleteTarget PROVE StoreInv'
  OBVIOUS
<1>1. /\ StoreTyped /\ Counted /\ ReadersFit
      /\ active' = NoFile /\ segments' = [p \in Periods |-> NoSegment] /\ compactor' = Idle
      /\ story' = [story EXCEPT !.wiped = w, !.faults = f, !.halfDone = no]
      /\ UNCHANGED <<today, reading>>
  BY DEF StoreInv, DeleteTarget
<1>2. w \in SUBSET Sample /\ f \in SUBSET StoreFaults /\ no \in BOOLEAN /\ story.appended \subseteq w
  BY <1>1 DEF StoreTyped, Story, StoreFaults
<1>2a. ("crash" \in f <=> "crash" \in story.faults) /\ ("late" \in f <=> "late" \in story.faults)
  OBVIOUS
<1> HIDE DEF w, f
<1>3. /\ story' \in Story /\ story'.appended = story.appended /\ story'.wiped = w
      /\ story'.halfDone = no /\ story'.faults = f
  <2> HIDE DEF no
  <2> QED BY <1>1, <1>2 DEF StoreTyped, Story
<1>4. /\ active' \in File /\ active'.lines = <<>> /\ active'.ino = 0
      /\ segments' \in [Periods -> Segment] /\ \A p \in Periods : segments'[p].lines = <<>>
  BY <1>1 DEF NoFile, NoSegment, File, Segment
<1>5. StoreTyped'
  <2>1. /\ compactor'.pc = "idle"
        /\ DOMAIN compactor' = {"pc", "ino", "size", "consumed", "plan", "rest", "todo"}
        /\ compactor' = [k \in DOMAIN compactor' |-> compactor'[k]]
    BY <1>1 DEF Idle
  <2> QED BY <1>1, <1>3, <1>4, <2>1 DEF StoreTyped
<1>6. FilesFit'
  <2>1. Emptied'
    BY <1>3, <1>4 DEF Emptied
  <2> QED BY <2>1, EmptyFilesFit, PTL
<1>7. Counted' /\ NothingLost'
  <2>1. w \subseteq story.appended
    BY <1>1 DEF Counted, w
  <2>2. NothingLost'
    BY <1>2, <1>3 DEF NothingLost
  <2> QED BY <1>1, <1>3, <2>1, <2>2 DEF Counted
<1>8. CompactionFits'
  BY <1>1, CompactionIdle
<1>9. ReadersFit'
  <2>1. InTime' => InTime
    BY <1>2a, <1>3 DEF InTime
  <2> QED BY <1>1, <1>2a, <1>3, <1>4, <2>1, ReadersKeep
<1> QED BY <1>5, <1>6, <1>7, <1>8, <1>9 DEF StoreInv

LEMMA DamageKeeps == ASSUME StoreInv, NEW p \in Periods, DamageSegment(p) PROVE StoreInv'
<1>1. /\ StoreTyped /\ Counted /\ NothingLost /\ FilesFit /\ CompactionFits /\ ReadersFit
      /\ UNCHANGED <<today, active, compactor, reading>> /\ segments[p].version # 0
  BY DEF StoreInv, DamageSegment
<1> DEFINE old == segments[p].lines
           len == Len(old)
<1>2. PICK n \in 0 .. len - 1 :
         /\ segments' = [segments EXCEPT ![p].lines = SubSeq(@, 1, n), ![p].damaged = TRUE]
         /\ story' = [story EXCEPT !.faults = @ \union {"damaged"},
                        !.damaged = @ \union Lines(SubSeq(old, n + 1, len))]
  BY Zenon DEF DamageSegment
<1> DEFINE kept == SubSeq(old, 1, n)
           lost == SubSeq(old, n + 1, len)
           yes == TRUE
           seg == [segments[p] EXCEPT !.lines = kept, !.damaged = yes]
           f == story.faults \union {"damaged"}
           d == story.damaged \union Lines(lost)
<1>3. old \in Seq(Sample) /\ len \in Nat /\ today \in Nat /\ today' \in Nat /\ today' >= today
      /\ segments[p] \in Segment
  BY <1>1, StoreTypes
<1>4. /\ kept \in Seq(Sample) /\ PartOf(kept, old) /\ lost \in Seq(Sample) /\ PartOf(lost, old)
      /\ Lines(old) = Lines(kept) \union Lines(lost)
  <2> DEFINE one == 1
             m == n + 1
  <2>1. /\ one \in 1 .. len + 1 /\ n \in one - 1 .. len /\ m \in 1 .. len + 1 /\ len \in m - 1 .. len
    BY <1>3
  <2>2. kept = SubSeq(old, one, n) /\ lost = SubSeq(old, m, len)
    OBVIOUS
  <2>3. \A j \in 1 .. len : j \in one .. n \/ j \in m .. len
    BY <1>3
  <2> HIDE DEF one, m, kept, lost, old, len
  <2>4. /\ kept \in Seq(Sample) /\ PartOf(kept, old)
        /\ \A x : x \in Lines(kept) <=> \E j \in one .. n : old[j] = x
    BY <1>3, <2>1, <2>2, SliceFacts DEF len
  <2>5. /\ lost \in Seq(Sample) /\ PartOf(lost, old)
        /\ \A x : x \in Lines(lost) <=> \E j \in m .. len : old[j] = x
    BY <1>3, <2>1, <2>2, SliceFacts, SMTT(60) DEF len
  <2>6. \A x \in Lines(old) : \E j \in 1 .. len : old[j] = x
    BY <1>3, LinesFacts DEF len
  <2>7. Lines(old) \subseteq Lines(kept) \union Lines(lost)
    BY <2>3, <2>4, <2>5, <2>6
  <2>8. Lines(kept) \subseteq Lines(old) /\ Lines(lost) \subseteq Lines(old)
    BY <1>3, <2>4, <2>5, PartFacts
  <2> QED BY <2>4, <2>5, <2>7, <2>8
<1>5. /\ seg \in Segment /\ seg.lines = kept /\ seg.version = segments[p].version
      /\ segments' = [segments EXCEPT ![p] = seg]
  <2>1. yes \in BOOLEAN
    OBVIOUS
  <2>2. segments' = [segments EXCEPT ![p] = [segments[p] EXCEPT !.lines = kept, !.damaged = yes]]
    BY <1>2
  <2> HIDE DEF kept, yes
  <2>3. /\ seg \in Segment /\ seg.lines = kept /\ seg.version = segments[p].version
    BY <1>3, <1>4, <2>1 DEF Segment
  <2> QED BY <2>2, <2>3
<1>6. /\ segments' \in [Periods -> Segment] /\ segments'[p] = seg
      /\ \A q \in Periods : q # p => segments'[q] = segments[q]
  <2> HIDE DEF seg
  <2> QED BY <1>1, <1>5 DEF StoreTyped
<1>7. f \in SUBSET StoreFaults /\ d \in SUBSET Sample
  <2>1. Lines(lost) \subseteq Sample
    BY <1>4, LinesFacts, ZenonT(60)
  <2> HIDE DEF lost
  <2> QED BY <1>1, <2>1 DEF StoreTyped, Story, StoreFaults
<1>7a. ("crash" \in f <=> "crash" \in story.faults) /\ ("late" \in f <=> "late" \in story.faults)
  OBVIOUS
<1>7b. story' = [story EXCEPT !.faults = f, !.damaged = d]
  BY <1>2
<1> HIDE DEF f, d
<1>8. /\ story' \in Story /\ story'.appended = story.appended /\ story'.wiped = story.wiped
      /\ story'.swallowed = story.swallowed /\ story'.damaged = d
      /\ story'.halfDone = story.halfDone /\ story'.faults = f
  BY <1>1, <1>7, <1>7b DEF StoreTyped, Story
<1>9. StoreTyped'
  BY <1>1, <1>6, <1>8 DEF StoreTyped
<1>10. /\ (InTime' <=> InTime) /\ (Renamed' <=> Renamed)
  BY <1>1, <1>7a, <1>8 DEF InTime, Renamed, SeriesLocked
<1>11. segments'[p].lines = kept /\ segments'[p].version = segments[p].version
  BY <1>5, <1>6
<1> HIDE DEF kept, lost, seg
<1>12. ASSUME NEW q \in Periods
       PROVE  /\ PartOf(segments'[q].lines, segments[q].lines)
              /\ segments'[q].version = 0 => segments'[q].lines = <<>>
              /\ Held(q)' \subseteq Held(q)
              /\ Held(q) \subseteq Held(q)' \union story'.damaged
  <2>1. CASE q = p
    BY <1>1, <1>4, <1>8, <1>11, <2>1 DEF Held, d
  <2>2. CASE q # p
    <3>1. segments'[q] = segments[q] /\ segments[q].lines \in Seq(Sample)
      BY <1>1, <1>6, <2>2, StoreTypes
    <3> QED BY <1>1, <3>1, PartOfItself DEF Held, FilesFit
  <2> QED BY <2>1, <2>2
<1>13. Counted' /\ NothingLost'
  <2>1. Counted'
    BY <1>1, <1>3, <1>8, CountKeeps
  <2>2. \A s \in Stored : s \in Stored' \union story'.damaged
    BY <1>1, <1>12 DEF Stored, Held
  <2>3. story.damaged \subseteq story'.damaged
    BY <1>8 DEF d
  <2> QED BY <1>1, <1>3, <1>8, <2>1, <2>2, <2>3, LossKeeps
<1>14. FilesFit'
  <2>1. /\ active'.ino = 0 => active'.lines = <<>>
        /\ "crash" \notin story'.faults => ~story'.halfDone
        /\ story'.halfDone \/ Renamed' \/ ~(story.halfDone \/ Renamed)
    BY <1>1, <1>7a, <1>8, <1>10 DEF FilesFit
  <2>2. PartOf(active'.lines, active.lines)
    BY <1>1, StoreTypes, PartOfSame
  <2> QED BY <1>1, <1>3, <1>8, <1>9, <1>10, <1>12, <2>1, <2>2, FilesThinned
<1>15. CompactionFits'
  <2>1. story.damaged \subseteq story'.damaged
    BY <1>8 DEF d
  <2> QED BY <1>1, <1>3, <1>8, <1>9, <1>10, <1>12, <2>1, CompactionBeside
<1>16. ReadersFit'
  BY <1>1, <1>7a, <1>8, <1>10, ReadersKeep
<1> QED BY <1>9, <1>13, <1>14, <1>15, <1>16 DEF StoreInv

LEMMA StoreCrashKeeps == StoreInv /\ StoreCrash => StoreInv'
<1> DEFINE f == story.faults \union {"crash"}
           h == story.halfDone \/ Renamed
<1> SUFFICES ASSUME StoreInv, StoreCrash PROVE StoreInv'
  OBVIOUS
<1>1. /\ StoreTyped /\ Counted /\ NothingLost /\ FilesFit
      /\ compactor' = Idle /\ reading' = [r \in Readers |-> NoReader]
      /\ UNCHANGED <<today, active, segments>>
  BY DEF StoreInv, StoreCrash
<1>2. story' = [story EXCEPT !.faults = f, !.halfDone = h]
  BY DEF StoreCrash, Renamed, SeriesLocked
<1>3. today \in Nat /\ today' = today /\ today' >= today /\ f \in SUBSET StoreFaults /\ h \in BOOLEAN
      /\ "crash" \in f
  BY <1>1, StoreTypes DEF StoreFaults
<1>4. h <=> story.halfDone \/ Renamed
  OBVIOUS
<1> HIDE DEF f, h
<1>5. /\ story' \in Story /\ story'.appended = story.appended /\ story'.wiped = story.wiped
      /\ story'.swallowed = story.swallowed /\ story'.damaged = story.damaged
      /\ story'.halfDone = h /\ story'.faults = f
  BY <1>1, <1>2, <1>3 DEF StoreTyped, Story
<1>6. StoreTyped'
  <2>1. /\ compactor'.pc = "idle"
        /\ DOMAIN compactor' = {"pc", "ino", "size", "consumed", "plan", "rest", "todo"}
        /\ compactor' = [k \in DOMAIN compactor' |-> compactor'[k]]
    BY <1>1 DEF Idle
  <2>2. reading' \in [Readers -> Reader]
    <3>1. NoReader \in Reader
      BY DEF NoReader, Reader
    <3> QED BY <1>1, <3>1
  <2> QED BY <1>1, <1>5, <2>1, <2>2 DEF StoreTyped
<1>7. Counted' /\ NothingLost'
  <2>1. Counted'
    BY <1>1, <1>3, <1>5, CountKeeps
  <2>2. Stored' = Stored
    BY <1>1 DEF Stored
  <2> QED BY <1>1, <1>3, <1>5, <2>1, <2>2, LossKeeps
<1>8. FilesFit'
  <2>1. ~InTime' /\ "crash" \in story'.faults
    BY <1>3, <1>5 DEF InTime
  <2>2. active'.ino = 0 => active'.lines = <<>>
    BY <1>1 DEF FilesFit
  <2>3. story'.halfDone \/ Renamed' \/ ~(story.halfDone \/ Renamed)
    BY <1>4, <1>5
  <2> QED BY <1>1, <1>3, <1>5, <1>6, <2>1, <2>2, <2>3, FilesQuiet
<1>9. CompactionFits'
  BY <1>1, CompactionIdle
<1>10. ReadersFit'
  <2>1. \A r \in Readers : reading'[r].pc = "idle"
    BY <1>1 DEF NoReader
  <2> QED BY <2>1 DEF ReadersFit
<1> QED BY <1>6, <1>7, <1>8, <1>9, <1>10 DEF StoreInv

(* A file with one more line at its end, or none.                          *)
LEMMA GrownFacts ==
    ASSUME NEW old \in Seq(Sample), NEW s \in Sample, NEW g, g = old \/ g = Append(old, s),
           s \notin Lines(old)
    PROVE  /\ g \in Seq(Sample) /\ Lines(old) \subseteq Lines(g)
           /\ Lines(g) \subseteq Lines(old) \union {s}
           /\ g = Append(old, s) => s \in Lines(g)
           /\ IsInjective(old) => IsInjective(g)
           /\ InOrder(old) /\ (\A t \in Lines(old) : Before(t, s)) => InOrder(g)
           /\ Len(old) <= Len(g) /\ \A i \in 1 .. Len(old) : g[i] = old[i]
           /\ \A i \in Len(old) + 1 .. Len(g) : g[i] = s
<1>0. Len(old) \in Nat
  OBVIOUS
<1>1. CASE g = old
  <2>1. Append(old, s) # old
    <3>1. Len(Append(old, s)) = Len(old) + 1
      BY AppendProperties
    <3> QED BY <1>0, <3>1
  <2>2. Len(old) + 1 .. Len(g) = {} /\ Len(old) <= Len(g)
    BY <1>0, <1>1
  <2> QED BY <1>1, <2>1, <2>2
<1>2. CASE g = Append(old, s)
  <2> DEFINE one == <<s>>
  <2>1. /\ one \in Seq(Sample) /\ Lines(one) = {s} /\ IsInjective(one) /\ InOrder(one)
    <3>1. one \in Seq(Sample) /\ Len(one) = 1 /\ one[1] = s /\ DOMAIN one = 1 .. 1
      OBVIOUS
    <3>2. \A i \in 1 .. 1 : i = 1
      OBVIOUS
    <3> HIDE DEF one
    <3> QED BY <3>1, <3>2 DEF Lines, ToSet, IsInjective, InOrder
  <2>2. g = old \o one
    BY <1>2, AppendIsConcat
  <2>3. /\ g \in Seq(Sample) /\ Len(g) = Len(old) + 1
        /\ \A i \in 1 .. Len(old) : g[i] = old[i]
        /\ g[Len(old) + 1] = s
    BY <1>2, AppendProperties
  <2> HIDE DEF one
  <2>4. /\ Lines(g) = Lines(old) \union Lines(one)
        /\ IsInjective(old) /\ IsInjective(one) /\ Lines(old) \intersect Lines(one) = {}
             => IsInjective(g)
        /\ InOrder(old) /\ InOrder(one) /\ (\A x \in Lines(old), y \in Lines(one) : Before(x, y))
             => InOrder(g)
    BY <2>1, <2>2, ConcatFacts
  <2>5. \A i \in Len(old) + 1 .. Len(g) : g[i] = s
    BY <1>0, <2>3
  <2>6. Len(old) <= Len(g)
    BY <1>0, <2>3
  <2> QED BY <2>1, <2>3, <2>4, <2>5, <2>6
<1> QED BY <1>1, <1>2

LEMMA AppendPointKeeps ==
    ASSUME StoreInv, NEW day \in 1 .. LastDay, NEW prune \in BOOLEAN, AppendPoint(day, prune)
    PROVE  StoreInv'
<1> DEFINE count == Cardinality(story.appended)
           k == count + 1
           s == [id |-> k, day |-> day]
           base == IF active.ino = 0 THEN NewIno ELSE active.ino
           old == active.lines
           g == IF active.torn THEN old ELSE Append(old, s)
           no == FALSE
           grown == [ino |-> base, lines |-> g, torn |-> no]
           app == story.appended \union {s}
           swa == IF active.torn THEN story.swallowed \union {s} ELSE story.swallowed
           fau == IF day = today THEN story.faults ELSE story.faults \union {"late"}
<1>1. /\ StoreTyped /\ Counted /\ NothingLost /\ FilesFit /\ CompactionFits /\ ReadersFit
      /\ ~SeriesLocked /\ count < MaxSamples
      /\ day = today \/ day = today - 1
      /\ active' = IF prune THEN Pruned(grown) ELSE grown
      /\ story' = [story EXCEPT !.appended = app, !.swallowed = swa, !.faults = fau]
      /\ reading' = [r \in Readers |-> IF reading[r].live /\ reading[r].ino = base
                                       THEN [reading[r] EXCEPT !.lines = g] ELSE reading[r]]
      /\ UNCHANGED <<today, segments, compactor>>
  BY DEF StoreInv, AppendPoint
<1>2. /\ today \in Nat /\ today' = today /\ today' \in Nat /\ today' >= today /\ day <= today
      /\ old \in Seq(Sample) /\ Len(old) \in Nat /\ active.torn \in BOOLEAN
  BY <1>1, StoreTypes DEF StoreTyped, File
<1>3. /\ count \in Nat /\ k \in 1 .. MaxSamples /\ IsFiniteSet(story.appended)
      /\ story.wiped \subseteq story.appended
      /\ \A t \in story.appended : t.id <= count /\ t.day <= today
  BY <1>1, FS_CardinalityType, StoreAssumption, SMTT(60) DEF Counted
<1>4. \A t \in Sample : t.id \in Int /\ t.day \in Int
  BY StoreAssumption DEF Sample
<1>5. /\ s \in Sample /\ s.id = k /\ s.day = day /\ s \notin story.appended
      /\ \A t \in story.appended : t.id < k /\ t # s
      /\ day = today => \A t \in story.appended : Before(t, s)
  <2> HIDE DEF k
  <2>1. s \in Sample /\ s.id = k /\ s.day = day
    BY <1>3 DEF Sample
  <2>2. k = count + 1
    BY DEF k
  <2>3. \A t \in story.appended : t \in Sample
    BY <1>1, StoreTypes
  <2> HIDE DEF s
  <2>4. \A t \in story.appended : t.id < k /\ t # s
    BY <1>3, <1>4, <2>1, <2>2, <2>3
  <2>5. day = today => \A t \in story.appended : Before(t, s)
    BY <1>2, <1>3, <1>4, <2>1, <2>3, <2>4 DEF Before
  <2> QED BY <2>1, <2>4, <2>5
<1>6. /\ base \in Nat \ {0} /\ (base = active.ino \/ base = NewIno) /\ no \in BOOLEAN
      /\ base = active.ino => active.ino # 0
  BY <1>1, StoreTypes, NewInoFacts
<1>7. /\ Stored \subseteq story.appended \ story.wiped /\ Lines(old) \subseteq story.appended
      /\ Compressed \subseteq story.appended /\ s \notin Lines(old) /\ s \notin Compressed
  <2>1. Stored \subseteq story.appended \ story.wiped
    BY <1>1 DEF FilesFit
  <2>2. Stored = Lines(old) \union Compressed
    BY DEF Stored, Compressed, Held
  <2> HIDE DEF s, old
  <2> QED BY <1>5, <2>1, <2>2
<1>8. g = old \/ g = Append(old, s)
  OBVIOUS
<1>8a. ~active.torn => g = Append(old, s)
  OBVIOUS
<1>8b. active.torn => swa = story.swallowed \union {s}
  OBVIOUS
<1>8c. story.swallowed \subseteq swa /\ swa \subseteq story.swallowed \union {s}
  OBVIOUS
<1>8d. /\ fau \in SUBSET StoreFaults
       /\ "crash" \in fau <=> "crash" \in story.faults
       /\ "late" \notin fau => "late" \notin story.faults /\ day = today
  BY <1>1, StoreTypes DEF StoreFaults
<1> HIDE DEF s, old, g, base, swa, fau, k, no
<1>9. /\ g \in Seq(Sample) /\ Lines(old) \subseteq Lines(g)
      /\ Lines(g) \subseteq Lines(old) \union {s}
      /\ g = Append(old, s) => s \in Lines(g)
      /\ IsInjective(old) => IsInjective(g)
      /\ InOrder(old) /\ (\A t \in Lines(old) : Before(t, s)) => InOrder(g)
      /\ Len(old) <= Len(g) /\ \A i \in 1 .. Len(old) : g[i] = old[i]
      /\ \A i \in Len(old) + 1 .. Len(g) : g[i] = s
  BY <1>2, <1>5, <1>7, <1>8, GrownFacts
<1>10. /\ story' \in Story /\ story'.appended = app /\ story'.swallowed = swa /\ story'.faults = fau
       /\ story'.wiped = story.wiped /\ story'.damaged = story.damaged
       /\ story'.halfDone = story.halfDone
  <2>1. app \in SUBSET Sample
    BY <1>1, <1>5, StoreTypes
  <2>2. swa \in SUBSET Sample
    BY <1>1, <1>5, <1>8c DEF StoreTyped, Story
  <2> HIDE DEF app
  <2> QED BY <1>1, <1>8d, <2>1, <2>2 DEF StoreTyped, Story
<1>11. grown \in File /\ grown.ino = base /\ grown.lines = g
  BY <1>6, <1>9 DEF File
<1> HIDE DEF grown
<1>12. /\ active' \in File /\ PartOf(active'.lines, g)
       /\ \/ active' = grown \/ active'.ino = NewIno \/ (active'.ino = 0 /\ active'.lines = <<>>)
       /\ \A t \in Lines(g) : t.day >= Cutoff => t \in Lines(active'.lines)
  <2>1. CASE prune
    <3>1. active' = Pruned(grown)
      BY <1>1, <2>1
    <3> QED BY <1>11, <3>1, PrunedFacts
  <2>2. CASE ~prune
    <3>1. active' = grown
      BY <1>1, <2>2
    <3> QED BY <1>9, <1>11, <3>1, PartOfItself
  <2> QED BY <2>1, <2>2
<1>13. \A r \in Readers : reading'[r] = IF reading[r].live /\ reading[r].ino = base
                                        THEN [reading[r] EXCEPT !.lines = g] ELSE reading[r]
  BY <1>1
<1>14. StoreTyped'
  <2>1. ASSUME NEW r \in Readers PROVE reading'[r] \in Reader
    <3>1. reading[r] \in Reader
      BY <1>1, StoreTypes
    <3>2. [reading[r] EXCEPT !.lines = g] \in Reader
      BY <1>9, <3>1 DEF Reader
    <3> QED BY <1>13, <3>1, <3>2
  <2>2. reading' \in [Readers -> Reader]
    BY <1>1, <2>1
  <2> QED BY <1>1, <1>10, <1>12, <2>2 DEF StoreTyped
<1>15. InTime' => InTime /\ day = today
  BY <1>8d, <1>10 DEF InTime
<1>16. ~Renamed /\ ~Renamed' /\ Compressed' = Compressed /\ Cutoff' = Cutoff
       /\ \A p : Held(p)' = Held(p)
  BY <1>1 DEF Renamed, SeriesLocked, Compressed, Held, Cutoff
<1>17. Lines(active'.lines) \subseteq Lines(g) /\ active'.lines \in Seq(Sample)
       /\ (IsInjective(g) => IsInjective(active'.lines))
       /\ (InOrder(g) => InOrder(active'.lines))
  <2>1. active'.lines \in Seq(Sample)
    BY <1>12 DEF File
  <2> QED BY <1>9, <1>12, <2>1, PartFacts
<1>18. Counted'
  <2>1. IsFiniteSet(app) /\ Cardinality(app) = count + 1
    BY <1>3, <1>5, FS_AddElement
  <2>2. \A t \in app : t.id <= count + 1 /\ t.day <= today
    <3>1. k = count + 1
      BY DEF k
    <3>2. \A t \in story.appended : t.id <= count + 1
      <4>1. \A t \in story.appended : t.id \in Int
        BY <1>1, <1>4, StoreTypes
      <4> QED BY <1>3, <4>1
    <3> QED BY <1>2, <1>3, <1>5, <3>1, <3>2
  <2> QED BY <1>2, <1>3, <1>10, <2>1, <2>2 DEF Counted
<1>19. Stored' = Lines(active'.lines) \union Compressed /\ Stored = Lines(old) \union Compressed
  BY <1>16 DEF Stored, Compressed, Held, old
<1>20. NothingLost'
  <2>1. ASSUME NEW t \in app, t.day >= Cutoff
        PROVE  t \in Stored' \union swa \union story.damaged \union story.wiped
    <3>1. CASE t = s
      <4>1. CASE active.torn
        BY <1>8b, <3>1, <4>1
      <4>2. CASE ~active.torn
        <5>1. t \in Lines(g)
          BY <1>8a, <1>9, <3>1, <4>2
        <5> QED BY <1>12, <1>19, <2>1, <5>1
      <4> QED BY <4>1, <4>2
    <3>2. CASE t \in story.appended
      <4>1. t \in Stored \union story.swallowed \union story.damaged \union story.wiped
        BY <1>1, <2>1, <3>2 DEF NothingLost
      <4>2. t \in Lines(old) => t \in Lines(active'.lines)
        BY <1>9, <1>12, <2>1
      <4> QED BY <1>8c, <1>19, <4>1, <4>2
    <3> QED BY <3>1, <3>2
  <2> QED BY <1>10, <1>16, <2>1 DEF NothingLost
<1>21. /\ IsInjective(g) /\ (InTime' => InOrder(g))
       /\ FileFits(g, Compressed, today)
  <2>1. FileFits(old, Compressed, today) /\ IsInjective(old) /\ (InTime => InOrder(old))
    BY <1>1 DEF FilesFit, FileFits, old
  <2>2. InTime' => InOrder(g)
    BY <1>5, <1>7, <1>9, <1>15, <2>1
  <2>3. ASSUME NEW i \in 1 .. Len(g), g[i] \in Compressed, NEW j \in 1 .. i
        PROVE  g[j].day < today
    <3>1. Len(g) \in Nat
      BY <1>9
    <3>2. i <= Len(old)
      <4>1. ASSUME ~(i <= Len(old)) PROVE FALSE
        <5>1. i \in Len(old) + 1 .. Len(g)
          BY <1>2, <3>1, <4>1
        <5>2. g[i] = s
          BY <1>9, <5>1
        <5> QED BY <1>7, <2>3, <5>2
      <4> QED BY <4>1
    <3>3. i \in 1 .. Len(old) /\ j \in 1 .. Len(old)
      BY <1>2, <3>1, <3>2
    <3>4. g[i] = old[i] /\ g[j] = old[j]
      BY <1>9, <3>3
    <3> QED BY <2>1, <2>3, <3>3, <3>4 DEF FileFits
  <2>4. FileFits(g, Compressed, today)
    BY <1>9, <2>1, <2>3 DEF FileFits
  <2> QED BY <1>9, <2>1, <2>2, <2>4
<1>22. FilesFit'
  <2>1. Stored' \subseteq app \ story.wiped
    <3>1. s \notin story.wiped
      BY <1>3, <1>5
    <3> QED BY <1>7, <1>9, <1>17, <1>19, <3>1
  <2>2. FileFits(active'.lines, Compressed, today)
    <3> DEFINE new == active'.lines
               taken == Compressed
               now == today
    <3>1. /\ new \in Seq(Sample) /\ PartOf(new, g) /\ FileFits(g, taken, now)
          /\ now \in Nat /\ now <= now /\ taken \subseteq taken
      BY <1>2, <1>12, <1>17, <1>21
    <3> HIDE DEF new, taken, now
    <3>2. FileFits(new, taken, now)
      BY <1>9, <3>1, FileThinned
    <3> QED BY <3>2 DEF new, taken, now
  <2>3. active'.ino = 0 => active'.lines = <<>>
    BY <1>6, <1>11, <1>12, NewInoFacts
  <2>4. story.halfDone \/ Lines(active'.lines) \intersect Compressed = {}
    <3>1. story.halfDone \/ Lines(old) \intersect Compressed = {}
      BY <1>1, <1>16 DEF FilesFit, old
    <3> QED BY <1>7, <1>9, <1>17, <3>1
  <2>5. InTime' => /\ InOrder(active'.lines) /\ \A p \in Periods : InOrder(segments[p].lines)
                   /\ Precede(Compressed, Lines(active'.lines))
    <3>1. InTime => /\ \A p \in Periods : InOrder(segments[p].lines)
                    /\ Precede(Compressed, Lines(old))
      BY <1>1, <1>16 DEF FilesFit, old
    <3>2. InTime' => Precede(Compressed, Lines(active'.lines))
      <4>1. InTime' => \A t \in Compressed : Before(t, s)
        BY <1>5, <1>7, <1>15
      <4>2. Lines(active'.lines) \subseteq Lines(old) \union {s}
        BY <1>9, <1>17
      <4> QED BY <1>15, <3>1, <4>1, <4>2 DEF Precede
    <3> QED BY <1>15, <1>17, <1>21, <3>1, <3>2
  <2>6. \A p \in Periods : /\ SegmentFits(segments[p].lines, p, today)
                           /\ segments[p].version = 0 => segments[p].lines = <<>>
    BY <1>1 DEF FilesFit
  <2>7. "crash" \notin story'.faults => ~story'.halfDone
    BY <1>1, <1>8d, <1>10 DEF FilesFit
  <2> QED BY <1>1, <1>10, <1>16, <2>1, <2>2, <2>3, <2>4, <2>5, <2>6, <2>7 DEF FilesFit
<1>23. CompactionFits'
  <2>1. CASE compactor.pc = "idle"
    BY <1>1, <2>1, CompactionRests
  <2>2. CASE compactor.pc # "idle" /\ active'.ino = compactor.ino
    <3>1. compactor.ino # 0 /\ compactor.ino # NewIno
      BY <1>1, <2>2, NewInoFacts DEF CompactionFits
    <3>2. active' = grown /\ base = active.ino
      BY <1>6, <1>11, <1>12, <2>2, <3>1
    <3>3. active'.ino = active.ino /\ active'.lines = g
      BY <1>11, <3>2
    <3>4. /\ Len(active.lines) <= Len(active'.lines)
          /\ \A i \in 1 .. Len(active.lines) : active'.lines[i] = active.lines[i]
          /\ SeriesLocked => active'.lines = active.lines
      BY <1>1, <1>9, <3>3 DEF old
    <3>5. \A i \in Len(active.lines) + 1 .. Len(active'.lines) :
             \A t \in story.appended : /\ t # active'.lines[i]
                                       /\ InTime' => Before(t, active'.lines[i])
      BY <1>5, <1>9, <1>15, <3>3 DEF old
    <3>6. story.appended \ story.wiped \subseteq story'.appended \ story'.wiped
      BY <1>10
    <3>7. \A p \in Periods : /\ Held(p)' \subseteq Held(p)
                             /\ Held(p) \subseteq Held(p)' \union story'.damaged
      BY <1>16
    <3> QED BY <1>1, <1>2, <1>10, <1>14, <1>15, <3>3, <3>4, <3>5, <3>6, <3>7, CompactionKeeps
  <2>3. CASE active'.ino # compactor.ino
    BY <1>1, <2>3, CompactionMissed
  <2> QED BY <2>1, <2>2, <2>3
<1>24. ASSUME NEW r \in Readers, reading'[r].pc = "open"
       PROVE  ReaderFits(r)'
  <2>1. reading[r] \in Reader /\ reading[r].segs \in Seq(Sample) /\ reading[r].lines \in Seq(Sample)
    BY <1>1, StoreTypes
  <2>2. CASE reading[r].live /\ reading[r].ino = base
    <3>1. /\ reading'[r].segs = reading[r].segs /\ reading'[r].lines = g
          /\ reading'[r].ino = base /\ reading'[r].live /\ reading'[r].since = reading[r].since
          /\ reading'[r].must = reading[r].must /\ reading'[r].pc = reading[r].pc
      BY <1>13, <2>1, <2>2 DEF Reader
    <3>2. ReaderFits(r)
      BY <1>1, <1>24, <3>1 DEF ReadersFit
    <3>3. reading[r].lines = old
      BY <1>6, <2>2, <3>2, NewInoFacts DEF ReaderFits, old
    <3> DEFINE sg == reading[r].segs
               o == sg \o old
               o2 == sg \o g
    <3>4. Opened(r) = o /\ Opened(r)' = o2
      BY <3>1, <3>3 DEF Opened
    <3>5. o \in Seq(Sample) /\ s \notin Lines(o) /\ Lines(o) \subseteq story.appended
      <4>1. o \in Seq(Sample)
        BY <1>2, <2>1
      <4>2. Lines(o) \subseteq story.appended
        BY <3>2, <3>4 DEF ReaderFits
      <4> HIDE DEF o
      <4> QED BY <1>5, <4>1, <4>2
    <3>6. o2 = o \/ o2 = Append(o, s)
      <4>1. CASE g = old
        BY <4>1
      <4>2. CASE g = Append(old, s)
        <5> DEFINE one == <<s>>
        <5>1. one \in Seq(Sample) /\ sg \in Seq(Sample)
          BY <1>5, <2>1
        <5>2. g = old \o one
          BY <1>2, <1>5, <4>2, AppendIsConcat
        <5>3. Append(o, s) = o \o one
          BY <1>5, <3>5, AppendIsConcat
        <5> HIDE DEF one, sg
        <5>4. (sg \o old) \o one = sg \o (old \o one)
          BY <1>2, <5>1, ConcatAssociative, SMTT(60)
        <5> QED BY <5>2, <5>3, <5>4
      <4> QED BY <1>8, <4>1, <4>2
    <3> HIDE DEF sg, o, o2
    <3>7. /\ o2 \in Seq(Sample) /\ Lines(o) \subseteq Lines(o2)
          /\ Lines(o2) \subseteq Lines(o) \union {s}
          /\ IsInjective(o) => IsInjective(o2)
          /\ InOrder(o) /\ (\A t \in Lines(o) : Before(t, s)) => InOrder(o2)
      BY <1>5, <3>5, <3>6, GrownFacts
    <3>8. /\ Lines(o2) \subseteq story'.appended
          /\ reading[r].must \subseteq Lines(o2)
          /\ \A t \in reading[r].must : t.day >= reading[r].since
      BY <1>10, <3>2, <3>4, <3>5, <3>7 DEF ReaderFits
    <3>9. /\ "crash" \notin story'.faults => IsInjective(o2)
          /\ InTime' => InOrder(o2)
      BY <1>5, <1>8d, <1>10, <1>15, <3>2, <3>4, <3>5, <3>7 DEF ReaderFits
    <3>10. base # 0 /\ base = active'.ino => active'.lines = g
      <4>1. base # NewIno
        BY <2>2, NewInoFacts
      <4> QED BY <1>11, <1>12, <4>1
    <3> QED BY <3>1, <3>4, <3>8, <3>9, <3>10 DEF ReaderFits
  <2>3. CASE ~(reading[r].live /\ reading[r].ino = base)
    <3>1. reading'[r] = reading[r]
      BY <1>13, <2>3
    <3>2. ReaderFits(r)
      BY <1>1, <1>24, <3>1 DEF ReadersFit
    <3>3. Opened(r)' = Opened(r)
      BY <3>1 DEF Opened
    <3>4. ~(reading[r].live /\ reading[r].ino # 0 /\ reading[r].ino = active'.ino)
      BY <1>11, <1>12, <2>3, NewInoFacts
    <3> QED BY <1>8d, <1>10, <1>15, <3>1, <3>2, <3>3, <3>4 DEF ReaderFits
  <2> QED BY <2>2, <2>3
<1> QED BY <1>14, <1>18, <1>20, <1>22, <1>23, <1>24 DEF StoreInv, ReadersFit

-----------------------------------------------------------------------------
(* Series: readers come and go                                             *)

LEMMA OnlyReaders ==
    ASSUME StoreInv, UNCHANGED <<today, active, segments, compactor, story>>,
           reading' \in [Readers -> Reader], ReadersFit'
    PROVE  StoreInv'
<1>1. /\ StoreTyped /\ Counted /\ NothingLost /\ FilesFit /\ CompactionFits
      /\ today' = today /\ active' = active /\ segments' = segments
      /\ compactor' = compactor /\ story' = story
  BY DEF StoreInv
<1>2. today \in Nat /\ today' \in Nat /\ today' >= today
  BY <1>1, StoreTypes
<1>3. StoreTyped'
  BY <1>1 DEF StoreTyped
<1>4. /\ (InTime' <=> InTime) /\ (Renamed' <=> Renamed) /\ Stored' = Stored
      /\ \A p : Held(p)' = Held(p)
  BY <1>1 DEF InTime, Renamed, SeriesLocked, Stored, Held
<1>5. Counted' /\ NothingLost'
  <2>1. Counted'
    BY <1>1, <1>2, CountKeeps
  <2> QED BY <1>1, <1>2, <1>4, <2>1, LossKeeps
<1>6. FilesFit'
  <2>1. /\ active'.ino = 0 => active'.lines = <<>>
        /\ "crash" \notin story'.faults => ~story'.halfDone
        /\ story'.halfDone \/ Renamed' \/ ~(story.halfDone \/ Renamed)
    BY <1>1, <1>4 DEF FilesFit
  <2> QED BY <1>1, <1>2, <1>3, <1>4, <2>1, FilesQuiet
<1>7. CompactionFits'
  BY <1>1, <1>2, <1>3, <1>4, CompactionBeside
<1> QED BY <1>3, <1>5, <1>6, <1>7 DEF StoreInv

(* A snapshot of the segments that reach into the window, and of the       *)
(* active file: it holds what is stored of the window.                     *)
LEMMA SnapshotFacts ==
    ASSUME StoreInv, ~SeriesLocked, NEW since \in 1 .. today, NEW opened,
           \A p \in Periods :
              opened[p] = IF (\A d \in 1 .. LastDay : PeriodOf[d] = p => d < since)
                              \/ today <= since
                            THEN NoSegment ELSE segments[p]
    PROVE  LET o == AllSegments(opened) \o active.lines
               window == {s \in Stored : s.day >= since} IN
           /\ AllSegments(opened) \in Seq(Sample)
           /\ Lines(o) \subseteq story.appended /\ window \subseteq Lines(o)
           /\ \A s \in Lines(o) : s.day >= since => s \in window
           /\ "crash" \notin story.faults => IsInjective(o)
           /\ InTime => InOrder(o)
<1> DEFINE a == AllSegments(opened)
           old == active.lines
           o == a \o old
           window == {s \in Stored : s.day >= since}
<1>1. StoreTyped /\ FilesFit /\ ~Renamed /\ today \in Nat /\ since \in Nat
  <2>1. StoreTyped /\ FilesFit /\ ~Renamed
    BY DEF StoreInv, Renamed
  <2>2. today \in Nat
    BY <2>1, StoreTypes
  <2> QED BY <2>1, <2>2
<1>2. old \in Seq(Sample) /\ \A p \in Periods : segments[p].lines \in Seq(Sample)
  BY <1>1, StoreTypes
<1>3. ASSUME NEW p \in Periods
      PROVE  /\ opened[p].lines \in Seq(Sample) /\ Lines(opened[p].lines) \subseteq Held(p)
             /\ IsInjective(opened[p].lines)
             /\ InTime => InOrder(opened[p].lines)
             /\ \A s \in Lines(opened[p].lines) : PeriodOf[s.day] = p
             /\ \A s \in Held(p) : s.day >= since => s \in Lines(opened[p].lines)
  <2>1. /\ SegmentFits(segments[p].lines, p, today)
        /\ InTime => InOrder(segments[p].lines)
    BY <1>1 DEF FilesFit
  <2>2. CASE opened[p] = segments[p]
    BY <1>2, <2>1, <2>2 DEF SegmentFits, Held
  <2>3. CASE opened[p] = NoSegment
             /\ ((\A d \in 1 .. LastDay : PeriodOf[d] = p => d < since) \/ today <= since)
    <3>1. opened[p].lines = <<>> /\ opened[p].lines \in Seq(Sample)
      BY <2>3 DEF NoSegment
    <3>2. Lines(opened[p].lines) = {} /\ IsInjective(opened[p].lines) /\ InOrder(opened[p].lines)
      <4> DEFINE lines == opened[p].lines
      <4>1. lines = <<>>
        BY <3>1
      <4>1a. lines \in Seq(Sample)
        BY <3>1
      <4> HIDE DEF lines
      <4>2a. /\ Len(lines) \in Nat /\ DOMAIN lines = 1 .. Len(lines)
             /\ \A x : x \in Lines(lines) <=> \E i \in 1 .. Len(lines) : lines[i] = x
        BY <4>1a, LinesFacts
      <4>2b. Len(lines) = 0
        BY <4>1
      <4>2. 1 .. Len(lines) = {}
        BY <4>2b
      <4>3. DOMAIN lines = {} /\ Lines(lines) = {}
        BY <4>2, <4>2a
      <4>4. IsInjective(lines) /\ InOrder(lines)
        BY <4>3 DEF IsInjective, InOrder
      <4> QED BY <4>3, <4>4 DEF lines
    <3>3. ASSUME NEW s \in Held(p) PROVE ~(s.day >= since)
      <4>1. s \in Sample
        BY <1>2, LinesFacts DEF Held
      <4>2. s.day \in 1 .. LastDay /\ s.day \in Int
        BY <4>1, StoreAssumption DEF Sample
      <4>3. PeriodOf[s.day] = p /\ s.day < today
        BY <2>1 DEF SegmentFits, Held
      <4>4. s.day < since
        BY <1>1, <2>3, <4>2, <4>3
      <4> QED BY <1>1, <4>2, <4>4
    <3> QED BY <3>1, <3>2, <3>3
  <2> QED BY <2>2, <2>3
<1>4. Parted(opened)
  BY <1>3 DEF Parted
<1>5. /\ a \in Seq(Sample)
      /\ \A s : s \in Lines(a) <=> \E p \in Periods : s \in Lines(opened[p].lines)
      /\ IsInjective(a) /\ (InTime => InOrder(a))
  BY <1>3, <1>4, AllSegmentsFacts
<1>6. Lines(a) \subseteq Compressed /\ \A s \in Compressed : s.day >= since => s \in Lines(a)
  BY <1>3, <1>5 DEF Compressed
<1>7. Stored = Lines(old) \union Compressed
  BY DEF Stored, Compressed, Held
<1>8. Stored \subseteq story.appended /\ IsInjective(old)
  BY <1>1 DEF FilesFit, FileFits
<1>9. /\ "crash" \notin story.faults => Lines(old) \intersect Compressed = {}
      /\ InTime => InOrder(old) /\ Precede(Compressed, Lines(old))
  BY <1>1 DEF FilesFit
<1> HIDE DEF a, old
<1>10. /\ o \in Seq(Sample) /\ Lines(o) = Lines(a) \union Lines(old)
       /\ IsInjective(a) /\ IsInjective(old) /\ Lines(a) \intersect Lines(old) = {}
            => IsInjective(o)
       /\ InOrder(a) /\ InOrder(old) /\ (\A x \in Lines(a), y \in Lines(old) : Before(x, y))
            => InOrder(o)
  BY <1>2, <1>5, ConcatFacts
<1> HIDE DEF o
<1>11. Lines(o) \subseteq Stored /\ window \subseteq Lines(o)
  BY <1>6, <1>7, <1>10
<1>12. "crash" \notin story.faults => IsInjective(o)
  BY <1>5, <1>6, <1>8, <1>9, <1>10
<1>13. InTime => InOrder(o)
  BY <1>5, <1>6, <1>9, <1>10 DEF Precede
<1> QED BY <1>5, <1>8, <1>11, <1>12, <1>13 DEF a, o, old

LEMMA OpenKeeps ==
    ASSUME StoreInv, NEW r \in Readers, NEW since \in 1 .. today, NEW live \in BOOLEAN,
           OpenSnapshot(r, since, live)
    PROVE  StoreInv'
<1> DEFINE opened == [p \in Periods |->
                        IF (\A d \in 1 .. LastDay : PeriodOf[d] = p => d < since)
                              \/ today <= since
                          THEN NoSegment ELSE segments[p]]
           a == AllSegments(opened)
           o == a \o active.lines
           window == {s \in Stored : s.day >= since}
           open == "open"
           new == [pc |-> open, since |-> since, segs |-> a, ino |-> active.ino,
                   lines |-> active.lines, live |-> live, must |-> window]
<1>1. /\ ~SeriesLocked /\ reading' = [reading EXCEPT ![r] = new]
      /\ UNCHANGED <<today, active, segments, compactor, story>>
  BY DEF OpenSnapshot
<1>2. StoreTyped /\ FilesFit /\ ReadersFit
  BY DEF StoreInv
<1>3. /\ today \in Nat /\ active.ino \in Nat /\ active.lines \in Seq(Sample)
      /\ story.appended \in SUBSET Sample
  BY <1>2, StoreTypes
<1>4. window \subseteq Sample /\ since \in Nat /\ open \in {"idle", "open"} /\ open = "open"
  <2>1. Stored \subseteq Sample
    BY <1>2, <1>3 DEF FilesFit
  <2> QED BY <1>3, <2>1
<1>5. \A p \in Periods :
         opened[p] = IF (\A d \in 1 .. LastDay : PeriodOf[d] = p => d < since)
                         \/ today <= since
                       THEN NoSegment ELSE segments[p]
  OBVIOUS
<1> HIDE DEF opened
<1>6. /\ a \in Seq(Sample)
      /\ Lines(o) \subseteq story.appended /\ window \subseteq Lines(o)
      /\ \A s \in Lines(o) : s.day >= since => s \in window
      /\ "crash" \notin story.faults => IsInjective(o)
      /\ InTime => InOrder(o)
  BY <1>1, <1>5, SnapshotFacts
<1>7. \A s \in window : s.day >= since
  OBVIOUS
<1> HIDE DEF a, window, open
<1>8. /\ new \in Reader /\ new.must = window /\ new.segs = a /\ new.lines = active.lines
      /\ new.since = since /\ new.live = live /\ new.ino = active.ino
  BY <1>3, <1>4, <1>6 DEF Reader
<1> HIDE DEF new
<1>9. reading' \in [Readers -> Reader] /\ reading'[r] = new
  BY <1>1, <1>2, <1>8 DEF StoreTyped
<1>10. (InTime' <=> InTime)
  BY <1>1 DEF InTime
<1>11. ASSUME NEW q \in Readers, reading'[q].pc = "open"
       PROVE  ReaderFits(q)'
  <2>1. CASE q = r
    <3>1. /\ reading'[q].must = window /\ reading'[q].segs = a
          /\ reading'[q].lines = active.lines /\ reading'[q].since = since
          /\ reading'[q].live = live /\ reading'[q].ino = active.ino
      BY <1>8, <1>9, <2>1
    <3>2. Opened(q)' = o
      BY <3>1 DEF Opened
    <3> HIDE DEF o
    <3> QED BY <1>1, <1>6, <1>7, <1>10, <3>1, <3>2 DEF ReaderFits
  <2>2. CASE q # r
    <3>1. reading'[q] = reading[q]
      BY <1>1, <1>2, <2>2 DEF StoreTyped
    <3>2. ReaderFits(q)
      BY <1>2, <1>11, <3>1 DEF ReadersFit
    <3>3. Opened(q)' = Opened(q)
      BY <3>1 DEF Opened
    <3> QED BY <1>1, <1>10, <3>1, <3>2, <3>3 DEF ReaderFits
  <2> QED BY <2>1, <2>2
<1>12. ReadersFit'
  BY <1>11 DEF ReadersFit
<1> QED BY <1>1, <1>9, <1>12, OnlyReaders

LEMMA NoReaderType == NoReader \in Reader /\ NoReader.pc = "idle"
<1> DEFINE z == 0
           e == 1
           no == FALSE
           none == <<>>
           nobody == {}
<1>1. z \in Nat /\ e \in Nat /\ no \in BOOLEAN /\ none \in Seq(Sample) /\ nobody \in SUBSET Sample
  OBVIOUS
<1>2. NoReader = [pc |-> "idle", since |-> e, segs |-> none, ino |-> z, lines |-> none,
                  live |-> no, must |-> nobody]
  BY DEF NoReader
<1> HIDE DEF z, e, no, none, nobody
<1> QED BY <1>1, <1>2 DEF Reader

LEMMA CloseKeeps == ASSUME StoreInv, NEW r \in Readers, CloseSnapshot(r) PROVE StoreInv'
<1>1. /\ reading' = [reading EXCEPT ![r] = NoReader]
      /\ UNCHANGED <<today, active, segments, compactor, story>>
  BY DEF CloseSnapshot
<1>2. StoreTyped /\ ReadersFit
  BY DEF StoreInv
<1>3. reading' \in [Readers -> Reader] /\ reading'[r].pc = "idle"
  BY <1>1, <1>2, NoReaderType DEF StoreTyped
<1>4. (InTime' <=> InTime)
  BY <1>1 DEF InTime
<1>5. ASSUME NEW q \in Readers, reading'[q].pc = "open"
      PROVE  ReaderFits(q)'
  <2>1. reading'[q] = reading[q]
    BY <1>1, <1>2, <1>3, <1>5 DEF StoreTyped
  <2>2. ReaderFits(q)
    BY <1>2, <1>5, <2>1 DEF ReadersFit
  <2>3. Opened(q)' = Opened(q)
    BY <2>1 DEF Opened
  <2> QED BY <1>1, <1>4, <2>1, <2>2, <2>3 DEF ReaderFits
<1>6. ReadersFit'
  BY <1>5 DEF ReadersFit
<1> QED BY <1>1, <1>3, <1>6, OnlyReaders

LEMMA StoreStutters == StoreInv /\ UNCHANGED storeVars => StoreInv'
<1> SUFFICES ASSUME StoreInv, UNCHANGED storeVars PROVE StoreInv'
  OBVIOUS
<1>1. reading' = reading /\ UNCHANGED <<today, active, segments, compactor, story>>
  BY DEF storeVars
<1>2. StoreTyped /\ ReadersFit
  BY DEF StoreInv
<1>3. reading' \in [Readers -> Reader]
  BY <1>1, <1>2 DEF StoreTyped
<1>4. (InTime' <=> InTime)
  BY <1>1 DEF InTime
<1>5. ASSUME NEW q \in Readers, reading'[q].pc = "open"
      PROVE  ReaderFits(q)'
  <2>1. Opened(q)' = Opened(q) /\ ReaderFits(q)
    BY <1>1, <1>2, <1>5 DEF Opened, ReadersFit
  <2> QED BY <1>1, <1>4, <2>1 DEF ReaderFits
<1>6. ReadersFit'
  BY <1>5 DEF ReadersFit
<1> QED BY <1>1, <1>3, <1>6, OnlyReaders

LEMMA StoreStep == StoreInv /\ [StoreNext]_storeVars => StoreInv'
<1> SUFFICES ASSUME StoreInv, [StoreNext]_storeVars PROVE StoreInv'
  OBVIOUS
<1>1. CASE \E day \in 1 .. LastDay, prune \in BOOLEAN : AppendPoint(day, prune)
  BY <1>1, AppendPointKeeps
<1>2. CASE TornAppend
  BY <1>2, TornAppendKeeps
<1>3. CASE NextDay
  BY <1>3, NextDayKeeps
<1>4. CASE PruneSeries
  BY <1>4, PruneSeriesKeeps
<1>5. CASE CompactionStep
  <2>1. CASE ScanClosedPrefix
    BY <2>1, ScanKeeps
  <2>2. CASE PlanSegments
    BY <2>2, PlanKeeps
  <2>3. CASE CommitChecks
    BY <2>3, CommitKeeps
  <2>4. CASE \E p \in Periods : PublishSegment(p)
    BY <2>4, PublishKeeps
  <2>5. CASE ReplaceActive
    BY <2>5, ReplaceActiveKeeps
  <2> QED BY <1>5, <2>1, <2>2, <2>3, <2>4, <2>5 DEF CompactionStep
<1>6. CASE \E r \in Readers, since \in 1 .. today, live \in BOOLEAN : OpenSnapshot(r, since, live)
  BY <1>6, OpenKeeps
<1>7. CASE \E r \in Readers : CloseSnapshot(r)
  BY <1>7, CloseKeeps
<1>8. CASE DeleteTarget
  BY <1>8, DeleteTargetKeeps
<1>9. CASE \E p \in Periods : DamageSegment(p)
  BY <1>9, DamageKeeps
<1>10. CASE StoreCrash
  BY <1>10, StoreCrashKeeps
<1>11. CASE UNCHANGED storeVars
  BY <1>11, StoreStutters
<1> QED BY <1>1, <1>2, <1>3, <1>4, <1>5, <1>6, <1>7, <1>8, <1>9, <1>10, <1>11 DEF StoreNext

LEMMA FilesAreKept == StoreInv => SeriesKept
<1> SUFFICES ASSUME StoreInv PROVE SeriesKept
  OBVIOUS
<1>1. StoreTyped /\ FilesFit /\ NothingLost
  BY DEF StoreInv
<1>2. DeletedStaysDeleted
  BY <1>1 DEF FilesFit, DeletedStaysDeleted
<1> DEFINE a == AllSegments(segments)
           old == active.lines
<1>3. ASSUME ~SeriesLocked, ~story.halfDone PROVE IsInjective(old \o a)
  <2>1. old \in Seq(Sample) /\ \A p \in Periods : segments[p].lines \in Seq(Sample)
    BY <1>1, StoreTypes
  <2>2. \A p \in Periods : IsInjective(segments[p].lines)
    BY <1>1 DEF FilesFit, SegmentFits
  <2>3. Parted(segments)
    BY <1>1 DEF FilesFit, SegmentFits, Parted
  <2>4. /\ a \in Seq(Sample) /\ IsInjective(a)
        /\ \A s : s \in Lines(a) <=> \E p \in Periods : s \in Lines(segments[p].lines)
    BY <2>1, <2>2, <2>3, AllSegmentsFacts
  <2>5. Lines(a) \subseteq Compressed
    BY <2>4 DEF Compressed, Held
  <2>6. IsInjective(old) /\ Lines(old) \intersect Compressed = {}
    BY <1>1, <1>3 DEF FilesFit, FileFits, Renamed
  <2> HIDE DEF a, old
  <2>7. IsInjective(old) /\ IsInjective(a) /\ Lines(old) \intersect Lines(a) = {}
    BY <2>4, <2>5, <2>6
  <2> QED BY <2>1, <2>4, <2>7, ConcatFacts
<1>4. StoredOnce
  BY <1>3 DEF StoredOnce
<1> QED BY <1>1, <1>2, <1>4 DEF SeriesKept

LEMMA ViewsAreStates == StoreInv => ReadersSeeAState
<1> SUFFICES ASSUME StoreInv, NEW r \in Readers, reading[r].pc = "open"
             PROVE  /\ reading[r].must \subseteq Lines(View(r))
                    /\ ~reading[r].live => Lines(View(r)) = reading[r].must
                    /\ \/ story.halfDone
                       \/ "crash" \in story.faults
                       \/ IsInjective(View(r)) /\ ("late" \in story.faults \/ InOrder(View(r)))
  BY DEF ReadersSeeAState
<1> DEFINE window == {s \in Sample : s.day >= reading[r].since}
           must == reading[r].must
           o == Opened(r)
           v == View(r)
<1>1. StoreTyped /\ ReaderFits(r)
  BY DEF StoreInv, ReadersFit
<1>2. /\ reading[r].segs \in Seq(Sample) /\ reading[r].lines \in Seq(Sample)
      /\ must \subseteq Sample
  BY <1>1, StoreTypes DEF Reader
<1>3. o \in Seq(Sample)
  BY <1>2 DEF Opened
<1>4. v = Among(o, window)
  BY DEF View, Opened
<1>5. Lines(o) \subseteq Sample
  BY <1>3, LinesFacts
<1>6. /\ must \subseteq Lines(o) /\ must \subseteq window
      /\ ~reading[r].live => Lines(o) \intersect window \subseteq must
      /\ "crash" \notin story.faults => IsInjective(o)
      /\ InTime => InOrder(o)
  BY <1>1, <1>2, <1>5 DEF ReaderFits
<1> HIDE DEF o, v, window
<1>7. v \in Seq(Sample) /\ Lines(v) = Lines(o) \intersect window /\ PartOf(v, o)
  BY <1>3, <1>4, AmongFacts
<1>8. /\ IsInjective(o) => IsInjective(v)
      /\ InOrder(o) => InOrder(v)
  BY <1>3, <1>7, PartFacts
<1>9. must \subseteq Lines(v) /\ (~reading[r].live => Lines(v) = must)
  BY <1>6, <1>7
<1>10. \/ "crash" \in story.faults
       \/ IsInjective(v) /\ ("late" \in story.faults \/ InOrder(v))
  BY <1>6, <1>8 DEF InTime
<1> QED BY <1>9, <1>10 DEF v

LEMMA StoreAlways == StoreSpec => []StoreInv
BY StoreStart, StoreStep, PTL DEF StoreSpec

(* What was stored stays until it expires or is taken on purpose, whatever *)
(* appends, compactions, prunings, torn writes, damaged segments and       *)
(* crashes do; what was deleted stays away; nothing is stored twice but    *)
(* between the renames of a compaction.                                    *)
THEOREM SeriesIsKept == StoreSpec => []SeriesKept
BY StoreAlways, FilesAreKept, PTL

(* And every query and every backup sees a state of the series: what was   *)
(* stored of its window when it opened the files, each line once and in    *)
(* the order of time.                                                      *)
THEOREM ReadersSeeOneState == StoreSpec => []ReadersSeeAState
BY StoreAlways, ViewsAreStates, PTL

(* Both beside the other parts of the storage.                             *)
THEOREM SeriesIsKeptBesideTheRest == StorageSpec => [](SeriesKept /\ ReadersSeeAState)
<1>1. StorageInit => StoreInv
  BY StoreStart, Zenon DEF StorageInit
<1>2. StoreInv /\ [StorageNext]_storageVars => StoreInv'
  <2>1. UNCHANGED storageVars => UNCHANGED storeVars
    BY DEF storageVars
  <2>2. [StorageNext]_storageVars => [StoreNext]_storeVars
    BY <2>1, Zenon DEF StorageNext, StoreMoves, RollupsMove, AvailabilityMoves, AccountsMove
  <2> QED BY <2>2, StoreStep
<1>3. StoreInv => SeriesKept /\ ReadersSeeAState
  BY FilesAreKept, ViewsAreStates
<1> QED BY <1>1, <1>2, <1>3, PTL DEF StorageSpec

=============================================================================
