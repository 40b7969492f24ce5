-------------------------------- MODULE Access --------------------------------
(***************************************************************************)
(* Accounts, passwords, sessions and the first start: the handlers of      *)
(* app/api/users.py, each of whose transactions is a step of its own, the  *)
(* tables behind them (app/db/sqlite/users.py, auth_tokens.py,             *)
(* login_attempts.py, bootstrap.py), the file with the initial password    *)
(* (app/utils/bootstrap_credentials.py) and the gate of the first start    *)
(* (app/main.py).  A password is a number, drawn when it is set.           *)
(***************************************************************************)
EXTENDS Integers, FiniteSets

CONSTANTS
    Users,            \* ids of accounts; they are never used again
    Root,             \* the account the first start creates
    Requests,         \* requests that may be in progress at once
    MaxPasswords,     \* bound on passwords that are ever set
    MaxFailures,      \* bound on counted failed logins
    MaxStarts         \* bound on starts

ASSUME AccessAssumption ==
    /\ Root \in Users
    /\ {MaxPasswords, MaxStarts} \subseteq Nat \ {0} /\ MaxFailures \in Nat

VARIABLES
    accounts,   \* table users
    tokens,     \* table auth_tokens: whose, and which password was verified for it
    logins,     \* table login_attempts, for the one address that logs in
    credFile,   \* password in the credential file, 0: no file
    process,    \* "down", "empty", "boot" or "up"; the gate; the banner of this start
    requests,   \* the handlers under way and what they have read
    passwords,  \* how many were drawn, which are temporary, which was the initial one
    crossed     \* an admin's edit met a role that had changed since it was read

accessVars == <<accounts, tokens, logins, credFile, process, requests, passwords, crossed>>

NoAccount == [id |-> "free", hash |-> 0, admin |-> FALSE, active |-> FALSE, must |-> FALSE]
IdleRequest == [pc |-> "idle", op |-> "none", user |-> Root, hash |-> 0,
                target |-> Root, admin |-> FALSE]
IsAccount(u) == accounts[u].id = "used"
NextPassword == passwords.drawn + 1
MayDraw == passwords.drawn < MaxPasswords
Drawn(temporary) ==
    passwords' = [passwords EXCEPT !.drawn = NextPassword,
                    !.temporary = @ \union (IF temporary THEN {NextPassword} ELSE {})]

AccessInit ==
    /\ accounts = [u \in Users |-> NoAccount]
    /\ tokens = {}
    /\ logins = [failed |-> 0, locked |-> FALSE]
    /\ credFile = 0
    /\ process = [state |-> "down", starts |-> 0, gate |-> FALSE, banner |-> 0]
    /\ requests = [q \in Requests |-> IdleRequest]
    /\ passwords = [drawn |-> 0, temporary |-> {}, initial |-> 0]
    /\ crossed = FALSE

---------------------------------------------------------------------------
(* The first start: the file is written inside the transaction that        *)
(* inserts the account, and the gate closes.  The file may fail to be      *)
(* written; the account is created all the same.                           *)
StartFirst ==
    /\ process.state = "down" /\ process.starts < MaxStarts
    /\ \A u \in Users : ~IsAccount(u)
    /\ accounts[Root].id = "free" /\ MayDraw
    /\ Drawn(TRUE)
    /\ \/ credFile' = NextPassword
       \/ UNCHANGED credFile
    /\ process' = [process EXCEPT !.state = "boot", !.starts = @ + 1, !.banner = 0]
    /\ UNCHANGED <<accounts, tokens, logins, requests, crossed>>

CommitRoot ==
    /\ process.state = "boot"
    /\ accounts' = [accounts EXCEPT ![Root] =
         [id |-> "used", hash |-> passwords.drawn, admin |-> TRUE, active |-> TRUE, must |-> TRUE]]
    /\ process' = [process EXCEPT !.state = "up", !.gate = TRUE, !.banner = passwords.drawn]
    /\ passwords' = [passwords EXCEPT !.initial = passwords.drawn]
    /\ UNCHANGED <<tokens, logins, credFile, requests, crossed>>

(* Any later start shows the initial password again while it is the        *)
(* account's and must be changed; otherwise the file is stale and removed. *)
Pending == /\ credFile # 0 /\ IsAccount(Root)
           /\ accounts[Root].must /\ accounts[Root].hash = credFile

StartAgain ==
    /\ process.state = "down" /\ process.starts < MaxStarts
    /\ \E u \in Users : IsAccount(u)
    /\ credFile' = IF Pending THEN credFile ELSE 0
    /\ process' = [process EXCEPT !.state = "up", !.starts = @ + 1, !.gate = FALSE,
                                  !.banner = IF Pending THEN credFile ELSE 0]
    /\ UNCHANGED <<accounts, tokens, logins, requests, passwords, crossed>>

(* A crash loses the handlers and, before its commit, the new account.     *)
CrashAccess ==
    /\ process.state \in {"boot", "up"} /\ process.starts < MaxStarts
    /\ process' = [process EXCEPT !.state = "down", !.gate = FALSE, !.banner = 0]
    /\ requests' = [q \in Requests |-> IdleRequest]
    /\ UNCHANGED <<accounts, tokens, logins, credFile, passwords, crossed>>

---------------------------------------------------------------------------
(* login: the lock and the row are read, the password is verified, then    *)
(* the attempts are cleared, then the token is issued.                     *)
Free(q) == process.state = "up" /\ requests[q] = IdleRequest
At(q, pc, op) == requests[q].pc = pc /\ requests[q].op = op
Goes(q, pc) == requests' = [requests EXCEPT ![q].pc = pc]
Ends(q) == requests' = [requests EXCEPT ![q] = IdleRequest]

BeginLogin(q, u) ==
    /\ Free(q) /\ IsAccount(u) /\ ~logins.locked
    /\ requests' = [requests EXCEPT ![q] =
         [IdleRequest EXCEPT !.pc = IF accounts[u].active THEN "read" ELSE "inactive",
                             !.op = "login", !.user = u, !.hash = accounts[u].hash]]
    /\ UNCHANGED <<accounts, tokens, logins, credFile, process, passwords, crossed>>

(* A wrong password, an inactive or unknown account, a filled honeypot:    *)
(* counted in one transaction, and the lock is longer every time.          *)
FailLogin(q) ==
    /\ \/ requests[q].pc \in {"read", "inactive"}
       \/ Free(q) /\ ~logins.locked
    /\ logins.failed < MaxFailures
    /\ logins' = [failed |-> logins.failed + 1, locked |-> TRUE]
    /\ Ends(q)
    /\ UNCHANGED <<accounts, tokens, credFile, process, passwords, crossed>>

PassLogin(q) ==
    /\ requests[q].pc = "read"
    /\ logins' = [failed |-> 0, locked |-> FALSE]
    /\ Goes(q, "verified")
    /\ UNCHANGED <<accounts, tokens, credFile, process, passwords, crossed>>

(* The insert fails on the foreign key when the account is gone.           *)
IssueToken(q) ==
    LET u == requests[q].user IN
    /\ requests[q].pc = "verified"
    /\ tokens' = IF IsAccount(u)
                 THEN tokens \union {[user |-> u, hash |-> requests[q].hash,
                                     late |-> accounts[u].hash # requests[q].hash]}
                 ELSE tokens
    /\ Ends(q)
    /\ UNCHANGED <<accounts, logins, credFile, process, passwords, crossed>>

LockEnds ==
    /\ logins.locked /\ logins' = [logins EXCEPT !.locked = FALSE]
    /\ UNCHANGED <<accounts, tokens, credFile, process, requests, passwords, crossed>>

(* A token ends by its lifetime or by a logout.                            *)
TokenEnds(t) ==
    /\ tokens' = tokens \ {t}
    /\ UNCHANGED <<accounts, logins, credFile, process, requests, passwords, crossed>>

---------------------------------------------------------------------------
(* get_current_user: the account of a token, if it is active.  While its   *)
(* password must be changed only the required change is open to it, and    *)
(* only that while the gate is closed.                                     *)
Resolves(u) == IsAccount(u) /\ accounts[u].active /\ \E t \in tokens : t.user = u

OwnOps == {"change", "complete"}
AdminOps == {"demote", "promote", "reset", "off", "on", "revoke", "delete", "create"}

Authenticate(q, u, op) ==
    /\ Free(q) /\ Resolves(u)
    /\ accounts[u].must <=> op = "complete"
    /\ process.gate => op = "complete"
    /\ op \in AdminOps => accounts[u].admin
    /\ requests' = [requests EXCEPT ![q] =
         IF op \in OwnOps
         THEN [IdleRequest EXCEPT !.pc = "ready", !.op = op, !.user = u, !.hash = accounts[u].hash]
         ELSE [IdleRequest EXCEPT !.pc = "authenticated", !.op = op, !.user = u]]
    /\ UNCHANGED <<accounts, tokens, logins, credFile, process, passwords, crossed>>

(* The handlers about another account read it and refuse: to drop one's    *)
(* own role, to deactivate or delete oneself or an admin.                  *)
Refused(me, u, op) ==
    CASE op = "create" -> IsAccount(u)
      [] op = "demote" -> ~IsAccount(u) \/ (u = me /\ accounts[u].admin)
      [] op = "revoke" -> ~IsAccount(u) \/ u = me
      [] op \in {"off", "on", "delete"} -> ~IsAccount(u) \/ u = me \/ accounts[u].admin
      [] OTHER -> ~IsAccount(u)

ReadTarget(q, u) ==
    /\ requests[q].pc = "authenticated" /\ ~Refused(requests[q].user, u, requests[q].op)
    /\ requests' = [requests EXCEPT ![q].pc = "ready", ![q].target = u,
                                   ![q].admin = accounts[u].admin]
    /\ UNCHANGED <<accounts, tokens, logins, credFile, process, passwords, crossed>>

---------------------------------------------------------------------------
(* Mutant: the hash that was read is not compared when the new one is set. *)
HashUnchecked(q) == IsAccount(requests[q].user)

(* update_user_password with expected_hash.                                *)
HashAsRead(q) ==
    IsAccount(requests[q].user) /\ accounts[requests[q].user].hash = requests[q].hash

WithoutTokensOf(u) == {t \in tokens : t.user # u}

(* The file of the initial password goes after the commit that replaced    *)
(* the password; the gate opens after that.                                *)
AfterCommit(q, u) ==
    requests' = [requests EXCEPT ![q] =
        IF u = Root /\ credFile # 0 THEN [IdleRequest EXCEPT !.pc = "unlink", !.op = requests[q].op]
        ELSE IF requests[q].op = "complete" THEN [IdleRequest EXCEPT !.pc = "release", !.op = "complete"]
        ELSE IdleRequest]

ChangePassword(q) ==
    LET u == requests[q].user IN
    /\ At(q, "ready", "change")
    /\ IF HashAsRead(q)
       THEN /\ MayDraw /\ Drawn(FALSE)
            /\ accounts' = [accounts EXCEPT ![u].hash = NextPassword]
            /\ tokens' = WithoutTokensOf(u)
            /\ AfterCommit(q, u)
       ELSE Ends(q) /\ UNCHANGED <<accounts, tokens, passwords>>
    /\ UNCHANGED <<logins, credFile, process, crossed>>

CompleteRequiredChange(q) ==
    LET u == requests[q].user IN
    /\ At(q, "ready", "complete")
    /\ IF HashAsRead(q)
       THEN /\ MayDraw /\ Drawn(FALSE)
            /\ accounts' = [accounts EXCEPT ![u].hash = NextPassword, ![u].must = FALSE]
            /\ tokens' = WithoutTokensOf(u)
            /\ AfterCommit(q, u)
       ELSE Ends(q) /\ UNCHANGED <<accounts, tokens, passwords>>
    /\ UNCHANGED <<logins, credFile, process, crossed>>

UnlinkFile(q) ==
    /\ requests[q].pc = "unlink"
    /\ credFile' = 0
    /\ IF requests[q].op = "complete" THEN Goes(q, "release") ELSE Ends(q)
    /\ UNCHANGED <<accounts, tokens, logins, process, passwords, crossed>>

ReleaseGate(q) ==
    /\ requests[q].pc = "release"
    /\ process' = [process EXCEPT !.gate = FALSE]
    /\ Ends(q)
    /\ UNCHANGED <<accounts, tokens, logins, credFile, passwords, crossed>>

---------------------------------------------------------------------------
(* create_user, update_user, set_user_active, revoke_user_sessions and     *)
(* delete_user.  A row that is gone by then is not written.                *)
Edited(q) ==
    LET me == accounts[requests[q].user]  u == requests[q].target IN
    crossed' = (crossed \/ ~(me.id = "used" /\ me.admin /\ me.active)
                        \/ accounts[u].admin # requests[q].admin)

CreateUser(q, admin) ==
    LET u == requests[q].target IN
    /\ At(q, "ready", "create")
    /\ IF accounts[u].id = "free"
       THEN /\ MayDraw /\ Drawn(FALSE)
            /\ accounts' = [accounts EXCEPT ![u] = [id |-> "used", hash |-> NextPassword,
                              admin |-> admin, active |-> TRUE, must |-> FALSE]]
       ELSE UNCHANGED <<accounts, passwords>>
    /\ Ends(q)
    /\ UNCHANGED <<tokens, logins, credFile, process, crossed>>

UpdateUser(q) ==
    LET u == requests[q].target  admin == requests[q].op = "promote" IN
    /\ At(q, "ready", "demote") \/ At(q, "ready", "promote")
    /\ accounts' = IF IsAccount(u) THEN [accounts EXCEPT ![u].admin = admin] ELSE accounts
    /\ Ends(q)
    /\ Edited(q)
    /\ UNCHANGED <<tokens, logins, credFile, process, passwords>>

(* A password an admin sets is temporary; the role is written as it was    *)
(* shown in the form.                                                      *)
ResetPassword(q) ==
    LET u == requests[q].target IN
    /\ At(q, "ready", "reset")
    /\ IF IsAccount(u)
       THEN /\ MayDraw /\ Drawn(TRUE)
            /\ accounts' = [accounts EXCEPT ![u].hash = NextPassword, ![u].must = TRUE,
                                            ![u].admin = requests[q].admin]
            /\ tokens' = WithoutTokensOf(u)
            /\ AfterCommit(q, u)
       ELSE Ends(q) /\ UNCHANGED <<accounts, tokens, passwords>>
    /\ Edited(q)
    /\ UNCHANGED <<logins, credFile, process>>

SetUserActive(q) ==
    LET u == requests[q].target  active == requests[q].op = "on" IN
    /\ At(q, "ready", "on") \/ At(q, "ready", "off")
    /\ accounts' = IF IsAccount(u) THEN [accounts EXCEPT ![u].active = active] ELSE accounts
    /\ IF active THEN Ends(q) ELSE Goes(q, "revoking")
    /\ Edited(q)
    /\ UNCHANGED <<tokens, logins, credFile, process, passwords>>

RevokeSessions(q) ==
    /\ At(q, "revoking", "off") \/ At(q, "ready", "revoke")
    /\ tokens' = WithoutTokensOf(requests[q].target)
    /\ Ends(q)
    /\ UNCHANGED <<accounts, logins, credFile, process, passwords, crossed>>

DeleteUser(q) ==
    LET u == requests[q].target IN
    /\ At(q, "ready", "delete")
    /\ accounts' = IF IsAccount(u) THEN [accounts EXCEPT ![u] = [NoAccount EXCEPT !.id = "gone"]]
                   ELSE accounts
    /\ tokens' = WithoutTokensOf(u)
    /\ Ends(q)
    /\ Edited(q)
    /\ UNCHANGED <<logins, credFile, process, passwords>>

---------------------------------------------------------------------------
AccessNext ==
    \/ StartFirst \/ CommitRoot \/ StartAgain \/ CrashAccess \/ LockEnds
    \/ \E t \in tokens : TokenEnds(t)
    \/ \E q \in Requests :
         \/ \E u \in Users : BeginLogin(q, u) \/ ReadTarget(q, u)
         \/ \E u \in Users, op \in OwnOps \union AdminOps : Authenticate(q, u, op)
         \/ \E admin \in BOOLEAN : CreateUser(q, admin)
         \/ FailLogin(q) \/ PassLogin(q) \/ IssueToken(q)
         \/ ChangePassword(q) \/ CompleteRequiredChange(q) \/ UnlinkFile(q) \/ ReleaseGate(q)
         \/ UpdateUser(q) \/ ResetPassword(q) \/ SetUserActive(q) \/ RevokeSessions(q)
         \/ DeleteUser(q)

AccessSpec == AccessInit /\ [][AccessNext]_accessVars

---------------------------------------------------------------------------
(* An account must change its password exactly while that password is a     *)
(* temporary one, whatever resets, own changes and late requests meet.     *)
MustMatchesPassword ==
    \A u \in Users : IsAccount(u) =>
        (accounts[u].must <=> accounts[u].hash \in passwords.temporary)

(* What was the initial password is on disk only while it still is, and no *)
(* start shows another one.                                                *)
FileIsCurrent ==
    /\ /\ process.state = "up" /\ credFile = passwords.initial
       /\ \A q \in Requests : requests[q].pc # "unlink"
       => credFile = 0 \/ Pending
    /\ process.banner \in {0, passwords.initial}

(* The gate of the first start does not outlive the required change.       *)
GateOpens ==
    process.gate => \/ accounts[Root].must
                    \/ \E q \in Requests : /\ requests[q].op = "complete"
                                            /\ requests[q].pc \in {"unlink", "release"}

(* A session rests on the current password of its account, unless the login *)
(* had verified the old one before the change and issued its token after.  *)
SessionsAreCurrent ==
    \A t \in tokens : IsAccount(t.user) /\ (t.late \/ t.hash = accounts[t.user].hash)

(* Once there is an account an active admin remains, unless an edit met a  *)
(* role that had changed since it was read.                                *)
AnAdminRemains ==
    (\E u \in Users : IsAccount(u)) =>
        crossed \/ \E u \in Users : IsAccount(u) /\ accounts[u].admin /\ accounts[u].active

AccessKept ==
    /\ MustMatchesPassword /\ FileIsCurrent /\ GateOpens
    /\ SessionsAreCurrent /\ AnAdminRemains
=============================================================================
