------------------------------ MODULE Accounts ------------------------------
(***************************************************************************)
(* Users, cookie sessions and the HTTP handlers that use them: the user    *)
(* store and the session registry, each an in-memory map with a JSON file  *)
(* behind it (auth/users.go, auth/session.go, auth/session_registry.go),   *)
(* the use case (usecase/auth), the handlers (adapter/httpapi/auth.go) and *)
(* the middleware that admits a request (adapter/httpapi/authmw).          *)
(*                                                                         *)
(* A request is a client with a program counter: every access to a store   *)
(* is a step of its own, so requests interleave between any two of them.   *)
(* Any save may fail and the process may restart at any moment.  Passwords,*)
(* names and preferences are abstracted: a password is right or wrong, and *)
(* input that a validator refuses ends the request (Refuse).               *)
(***************************************************************************)
EXTENDS LoginThrottle, UserStore, Sequences

CONSTANTS
    Clients,        \* requests that can be in flight together
    Scenarios,      \* sets of operations; a behaviour uses the operations of one
    Admin, Operator,    \* the accounts of the environment
    AdminMustReset, \* whether the administrator must choose a password first
    MaxSessions,    \* bound of the model: sessions issued
    MaxRequests,    \* bound of the model: requests
    MaxFaults       \* bound of the model: failed saves and restarts

SelfOps  == {"me", "changePassword", "logoutAll", "check", "checkAdmin"}
LoginOps == {"preferences", "wizard"}
AdminOps == {"create", "setRole", "fullName", "reset", "delete", "revokeOne", "revokeUser"}

ASSUME AccountsAssumption ==
    /\ IsFiniteSet(Clients)
    /\ {Admin, Operator} \subseteq Users /\ Admin # Operator /\ AdminMustReset \in BOOLEAN
    /\ {MaxSessions, MaxRequests, MaxFaults} \subseteq Nat
    /\ NoUser \notin Record

VARIABLES
    scenario,   \* the operations of this behaviour
    users,      \* s.byLower
    usersFile,  \* users.json
    reg,        \* r.byID: the ids of the registered sessions
    regFile,    \* sessions.json
    cookies,    \* the sessions issued: the contents of each signed cookie
    expired,    \* sessions whose expiry time has passed
    pc,         \* the step a client is at
    req,        \* the request of a client and what it has read so far
    deadSid,    \* history: sessions whose row was removed and the removal saved
    deadVer,    \* history: sessions that a saved bump of the version revoked
    left,       \* requests that may still come
    faults      \* faults that have happened

storeVars   == <<users, usersFile>>
regVars     == <<reg, regFile>>
historyVars == <<deadSid, deadVer>>
requestVars == <<pc, req>>
accountVars == <<scenario, storeVars, regVars, cookies, expired, requestVars, historyVars,
                 left, faults>>

Sids == DOMAIN cookies

NoReq == [op |-> "none", user |-> "", ip |-> "", sid |-> 0, target |-> "", role |-> "",
          cookie |-> <<>>, hit |-> {}, dead |-> FALSE]

(* A first start: OpenOrSeed writes the seeded accounts, the registry is   *)
(* empty.                                                                  *)
OpenOrSeed ==
    /\ users = SeedUsersFromEnv(Users, Admin, Operator, AdminMustReset)
    /\ usersFile = users

AccountsInit ==
    /\ ThrottleInit
    /\ scenario \in Scenarios
    /\ OpenOrSeed
    /\ reg = {} /\ regFile = {}
    /\ cookies = <<>> /\ expired = {}
    /\ pc = [c \in Clients |-> "idle"]
    /\ req = [c \in Clients |-> NoReq]
    /\ deadSid = {} /\ deadVer = {}
    /\ left = MaxRequests /\ faults = 0

Goto(c, l) == pc' = [pc EXCEPT ![c] = l]

\* The request is over, whatever it answered.
Done(c) == Goto(c, "idle") /\ req' = [req EXCEPT ![c] = NoReq]

-----------------------------------------------------------------------------
(* Saving a file: fileatomic.WriteFile replaces it or fails and leaves it. *)
SaveResults == IF faults < MaxFaults THEN BOOLEAN ELSE {TRUE}

\* persistUnlocked of the user store: new is what memory holds while saving and
\* undo what it holds after a failure.
SaveUsers(new, undo, ok) ==
    /\ ok \in SaveResults
    /\ users' = IF ok THEN new ELSE undo
    /\ usersFile' = IF ok THEN new ELSE usersFile
    /\ faults' = IF ok THEN faults ELSE faults + 1

\* persistLocked of the registry: memory keeps the change when the save fails.
SaveReg(new, ok) ==
    /\ ok \in SaveResults
    /\ reg' = new
    /\ regFile' = IF ok THEN new ELSE regFile
    /\ faults' = IF ok THEN faults ELSE faults + 1

NoFault == UNCHANGED faults

-----------------------------------------------------------------------------
(* Login.  No request starts that could issue more than MaxSessions.       *)
RoomForSession ==
    Len(cookies) + Cardinality({c \in Clients : req[c].op \in {"login", "changePassword"}})
        < MaxSessions

LoginBegin(c) ==
    /\ pc[c] = "idle" /\ left > 0 /\ "login" \in scenario /\ RoomForSession
    /\ \E u \in Users, ip \in IPs :
         req' = [req EXCEPT ![c] = [NoReq EXCEPT !.op = "login", !.user = u, !.ip = ip]]
    /\ Goto(c, "allow") /\ left' = left - 1
    /\ UNCHANGED <<now, throttleVars, scenario, storeVars, regVars, cookies, expired,
                   historyVars, faults>>

LoginAllow(c) ==
    /\ pc[c] = "allow"
    /\ \E yes \in BOOLEAN :
         /\ Allow(req[c].ip, req[c].user, yes)
         /\ Goto(c, IF yes THEN "password" ELSE "throttled")
    /\ UNCHANGED <<scenario, storeVars, regVars, cookies, expired, req, historyVars,
                   left, faults>>

(* What Issue puts in a cookie.                                            *)
Issue(user, role, ver) ==
    [user |-> user, ver |-> ver, forever |-> HasPersistentSession(role)]

(* Authenticate under the store's read lock, then Issue: the cookie carries *)
(* the role and the version that the account has at this moment.           *)
LoginPassword(c) ==
    /\ pc[c] = "password"
    /\ \E right \in BOOLEAN :
         \/ /\ Authenticate(users, req[c].user, right) = {}
            /\ Goto(c, "wrong") /\ UNCHANGED req
         \/ \E account \in Authenticate(users, req[c].user, right) :
              /\ req' = [req EXCEPT ![c].cookie = Issue(req[c].user, account.role, account.ver)]
              /\ Goto(c, "success")
    /\ UNCHANGED <<now, throttleVars, scenario, storeVars, regVars, cookies, expired,
                   historyVars, left, faults>>

LoginFailed(c) ==
    /\ pc[c] \in {"throttled", "wrong"}
    /\ RecordFailure(req[c].ip, req[c].user, IF pc[c] = "wrong" THEN 1 ELSE 0)
    /\ Done(c)
    /\ UNCHANGED <<scenario, storeVars, regVars, cookies, expired, historyVars, left, faults>>

LoginSuccess(c) ==
    /\ pc[c] = "success"
    /\ RecordSuccess(req[c].ip, req[c].user)
    /\ Goto(c, "register")
    /\ UNCHANGED <<scenario, storeVars, regVars, cookies, expired, req, historyVars,
                   left, faults>>

(* registerSession and SetCookie; a failed save is not reported.           *)
registerSession(c) ==
    /\ pc[c] = "register"
    /\ \E ok \in BOOLEAN : SaveReg(RegRegister(reg, Len(cookies) + 1, expired), ok)
    /\ cookies' = Append(cookies, req[c].cookie)
    /\ Done(c)
    /\ UNCHANGED <<now, throttleVars, scenario, storeVars, expired, historyVars, left>>

-----------------------------------------------------------------------------
(* A request with a session cookie; Parse refuses an expired one.  dead    *)
(* says that the revocation of the session had been reported before.       *)
CookieBegin(c) ==
    /\ pc[c] = "idle" /\ left > 0
    /\ \E op \in scenario \intersect (SelfOps \union LoginOps \union AdminOps),
          s \in Sids \ expired, t \in Users :
         /\ op \notin AdminOps \ {"revokeOne"} => t = cookies[s].user
         /\ op = "changePassword" => RoomForSession
         /\ Goto(c, IF op = "logoutAll" THEN "reauth" ELSE "get")
         /\ req' = [req EXCEPT ![c] =
                      [NoReq EXCEPT !.op = op, !.user = cookies[s].user, !.sid = s,
                                    !.target = t, !.dead = s \in deadSid \union deadVer]]
    /\ left' = left - 1
    /\ UNCHANGED <<now, throttleVars, scenario, storeVars, regVars, cookies, expired,
                   historyVars, faults>>

(* A bearer token of sufficient scope admits a request without a session   *)
(* and without the second password check.                                  *)
BearerBegin(c) ==
    /\ pc[c] = "idle" /\ left > 0 /\ "bearer" \in scenario
    /\ \E op \in scenario \intersect AdminOps, t \in Users :
         req' = [req EXCEPT ![c] = [NoReq EXCEPT !.op = op, !.target = t]]
    /\ Goto(c, "op") /\ left' = left - 1
    /\ UNCHANGED <<now, throttleVars, scenario, storeVars, regVars, cookies, expired,
                   historyVars, faults>>

\* Steps of a request that only read.
ReadOnly == UNCHANGED <<now, throttleVars, scenario, storeVars, cookies, expired,
                        historyVars, left>>

(* LiveSession: users.Get, then users.SessionVersion, two critical sections. *)
LiveGet(c) ==
    /\ pc[c] = "get"
    /\ IF Known(users, req[c].user)
       THEN /\ req' = [req EXCEPT ![c].role = users[req[c].user].role]
            /\ Goto(c, "version")
       ELSE Done(c)
    /\ ReadOnly /\ UNCHANGED <<regVars, faults>>

LiveVersion(c) ==
    /\ pc[c] = "version"
    /\ IF /\ Known(users, req[c].user)
          /\ users[req[c].user].ver = cookies[req[c].sid].ver
          /\ cookies[req[c].sid].forever => HasPersistentSession(req[c].role)
       THEN Goto(c, "has") /\ UNCHANGED req
       ELSE Done(c)
    /\ ReadOnly /\ UNCHANGED <<regVars, faults>>

(* LiveSessionChecked: the session must be registered ...                  *)
Has(c) ==
    /\ pc[c] = "has"
    /\ reg' = pruneExpiredLocked(reg, expired)
    /\ IF req[c].sid \in reg' THEN Goto(c, "touch") /\ UNCHANGED req ELSE Done(c)
    /\ ReadOnly /\ UNCHANGED <<regFile, faults>>

(* ... and Touch saves the registry at most once a minute; a session that  *)
(* was revoked after Has stays out of it.                                  *)
Touch(c) ==
    /\ pc[c] = "touch"
    /\ \E due \in BOOLEAN :
         \/ RegTouch(reg, req[c].sid, due) = {} /\ UNCHANGED <<regVars, faults>>
         \/ \E r \in RegTouch(reg, req[c].sid, due), ok \in BOOLEAN : SaveReg(r, ok)
    /\ Goto(c, "gate") /\ UNCHANGED req
    /\ ReadOnly

(* Who may pass, with the role that LiveSession read: RequireAdmin and      *)
(* RequireLogin, which then look at must_reset_password, and the handlers   *)
(* that check the session themselves and do not.                           *)
RequireAdmin(c) == req[c].role = "administrator"

MustReset(c) == Known(users, req[c].user) /\ users[req[c].user].must

RequireLogin(c) == ~MustReset(c)

Gate(c) ==
    /\ pc[c] = "gate"
    /\ IF /\ req[c].op \in AdminOps \union {"checkAdmin"} => RequireAdmin(c)
          /\ req[c].op \in AdminOps \union LoginOps => RequireLogin(c)
       THEN Goto(c, IF req[c].op \in {"reset", "delete"} THEN "reauth" ELSE "op") /\ UNCHANGED req
       ELSE Done(c)
    /\ ReadOnly /\ UNCHANGED <<regVars, faults>>

(* reauth.Require: the actor's password again, before the session check of *)
(* LogoutAll and after the one of ResetPassword and Delete.                *)
Reauth(c) ==
    /\ pc[c] = "reauth"
    /\ \E right \in BOOLEAN :
         IF Authenticate(users, req[c].user, right) # {}
         THEN Goto(c, IF req[c].op = "logoutAll" THEN "get" ELSE "op") /\ UNCHANGED req
         ELSE Done(c)
    /\ ReadOnly /\ UNCHANGED <<regVars, faults>>

-----------------------------------------------------------------------------
(* The handlers behind the gate.  An operation of the user store is one    *)
(* critical section; it refuses (Refuse) or saves.                         *)
AtOp(c, op) == pc[c] = "op" /\ req[c].op = op

\* Sessions that a version v of u has outlived.
Outlived(u, v) == {s \in Sids : cookies[s].user = u /\ cookies[s].ver < v}

\* A handler that ends with the save of what the store made of the accounts.
Simple(c, news, undo(_)) ==
    /\ \E new \in news, ok \in BOOLEAN : SaveUsers(new, undo(new), ok)
    /\ Done(c)
    /\ UNCHANGED <<now, throttleVars, scenario, regVars, cookies, expired, historyVars, left>>

\* After a failed save memory keeps the change (most operations) ...
Stays(new) == new

\* ... or is put back (Create and Delete).
RolledBack(new) == users

(* Me, Check, CheckOps and CheckAdmin answer and change nothing.           *)
Answer(c) ==
    /\ pc[c] = "op" /\ req[c].op \in {"me", "check", "checkAdmin"}
    /\ Done(c)
    /\ ReadOnly /\ UNCHANGED <<regVars, faults>>

(* writeUserStoreError: input that a validator refuses, a missing target,  *)
(* the last administrator or one's own account.                            *)
Refuse(c) ==
    /\ pc[c] = "op"
    /\ req[c].op \notin {"me", "check", "checkAdmin", "revokeOne"}
    /\ Done(c)
    /\ ReadOnly /\ UNCHANGED <<regVars, faults>>

\* History: an account created anew has none of the revocations of the one
\* that was deleted, but for the rows that were removed.
Forget(r, u) ==
    [r EXCEPT !.hit = {s \in @ : cookies[s].user # u},
              !.dead = @ /\ (r.user # u \/ r.sid \in deadSid)]

Create(c) ==
    /\ AtOp(c, "create")
    /\ \E role \in RoleSet, must \in BOOLEAN, ok \in BOOLEAN :
         \E new \in StoreCreate(users, req[c].target, role, must) :
           /\ SaveUsers(new, RolledBack(new), ok)
           /\ deadVer' = IF ok THEN {s \in deadVer : cookies[s].user # req[c].target} ELSE deadVer
           /\ req' = [d \in Clients |-> IF d = c THEN NoReq
                                        ELSE IF ok THEN Forget(req[d], req[c].target) ELSE req[d]]
    /\ Goto(c, "idle")
    /\ UNCHANGED <<now, throttleVars, scenario, regVars, cookies, expired, deadSid, left>>

SetRole(c) ==
    /\ AtOp(c, "setRole")
    /\ \E role \in RoleSet : Simple(c, StoreSetRole(users, req[c].target, role), Stays)

(* These change fields that nothing here tells apart, but the save is of   *)
(* every account, and so makes durable what an earlier failed save left.   *)
SetFullName(c) ==
    AtOp(c, "fullName") /\ Simple(c, StoreSetFullName(users, req[c].target), Stays)

UpdatePreferences(c) ==
    AtOp(c, "preferences") /\ Simple(c, StoreSetPreferences(users, req[c].user), Stays)

DismissGeoWizard(c) ==
    AtOp(c, "wizard") /\ Simple(c, StoreSetGeoWizardDismissed(users, req[c].user), Stays)

(* ResetPassword leaves the registry alone: the version does the work.     *)
ResetPassword(c) ==
    /\ AtOp(c, "reset")
    /\ \E must \in BOOLEAN, ok \in BOOLEAN :
         \E new \in StoreResetPassword(users, req[c].target, must) :
           /\ SaveUsers(new, Stays(new), ok)
           /\ deadVer' = deadVer \union
                IF ok THEN Outlived(req[c].target, new[req[c].target].ver) ELSE {}
    /\ Done(c)
    /\ UNCHANGED <<now, throttleVars, scenario, regVars, cookies, expired, deadSid, left>>

\* A bump whose save succeeded goes on; hit is what it outlived.
Bump(c, u, news, next) ==
    /\ \E new \in news, ok \in BOOLEAN :
         /\ SaveUsers(new, Stays(new), ok)
         /\ IF ok THEN /\ req' = [req EXCEPT ![c].target = u, ![c].role = new[u].role,
                                              ![c].hit = Outlived(u, new[u].ver)]
                       /\ Goto(c, next)
            ELSE Done(c)
    /\ UNCHANGED <<now, throttleVars, scenario, regVars, cookies, expired, historyVars, left>>

LogoutAll(c) ==
    AtOp(c, "logoutAll") /\ Bump(c, req[c].user, StoreBumpSessionVersion(users, req[c].user), "rows")

RevokeUserSessions(c) ==
    AtOp(c, "revokeUser") /\ Bump(c, req[c].target, StoreBumpSessionVersion(users, req[c].target), "rows")

ChangePassword(c) ==
    AtOp(c, "changePassword") /\ Bump(c, req[c].user, StoreChangePassword(users, req[c].user), "reissue")

(* The use case reads the version of the new cookie back in a critical     *)
(* section of its own; the role is the one ChangePassword returned.        *)
Reissue(c) ==
    /\ pc[c] = "reissue"
    /\ IF Known(users, req[c].user)
       THEN /\ req' = [req EXCEPT ![c].cookie = Issue(req[c].user, req[c].role, users[req[c].user].ver)]
            /\ Goto(c, "rows")
       ELSE Done(c)
    /\ ReadOnly /\ UNCHANGED <<regVars, faults>>

(* RevokeUser of the registry.  LogoutAll, ChangePassword and Delete ignore *)
(* a failed save; RevokeUserSessions reports it, and the request ends.     *)
RevokeRows(c) ==
    /\ pc[c] = "rows"
    /\ LET owned == {s \in Sids : cookies[s].user = req[c].target}
       IN \E ok \in BOOLEAN :
            /\ \/ RegRevokeUser(reg, owned) = {} /\ ok /\ UNCHANGED <<regVars, faults>>
               \/ \E r \in RegRevokeUser(reg, owned) : SaveReg(r, ok)
            /\ deadSid' = deadSid \union IF ok THEN owned \intersect reg ELSE {}
            /\ deadVer' = deadVer \union
                 IF ~ok /\ req[c].op = "revokeUser" THEN {} ELSE req[c].hit
    /\ IF req[c].op = "changePassword" THEN Goto(c, "register") /\ UNCHANGED req ELSE Done(c)
    /\ UNCHANGED <<now, throttleVars, scenario, storeVars, cookies, expired, left>>

\* Revoke of one row; what it reports is worth something only when it is saved.
Revoke(sid) ==
    \E ok \in BOOLEAN :
        /\ \/ RegRevoke(reg, sid) = {} /\ ok /\ UNCHANGED <<regVars, faults>>
           \/ \E r \in RegRevoke(reg, sid) : SaveReg(r, ok)
        /\ deadSid' = deadSid \union IF ok THEN {sid} \intersect reg ELSE {}

RevokeSession(c) ==
    /\ AtOp(c, "revokeOne")
    /\ \E s \in Sids : Revoke(s)
    /\ Done(c)
    /\ UNCHANGED <<now, throttleVars, scenario, storeVars, cookies, expired, deadVer, left>>

(* Logout looks at the signature and the expiry of the cookie, no further. *)
Logout(c) ==
    /\ pc[c] = "idle" /\ left > 0 /\ "logout" \in scenario
    /\ \E s \in Sids \ expired : Revoke(s)
    /\ left' = left - 1
    /\ UNCHANGED <<now, throttleVars, scenario, storeVars, cookies, expired, requestVars, deadVer>>

(* The rows of a deleted account go in a second step.                      *)
Delete(c) ==
    /\ AtOp(c, "delete")
    /\ \E new \in StoreDelete(users, req[c].target, req[c].user), ok \in BOOLEAN :
         /\ SaveUsers(new, RolledBack(new), ok)
         /\ IF ok THEN Goto(c, "rows") /\ UNCHANGED req ELSE Done(c)
    /\ UNCHANGED <<now, throttleVars, scenario, regVars, cookies, expired, historyVars, left>>

-----------------------------------------------------------------------------
(* The environment.                                                        *)
Expire ==
    /\ "expire" \in scenario
    /\ \E s \in Sids \ expired : ~cookies[s].forever /\ expired' = expired \union {s}
    /\ UNCHANGED <<now, throttleVars, scenario, storeVars, regVars, cookies, requestVars,
                   historyVars, left, faults>>

(* The process ends and starts again: LoadUsersFile and the registry's     *)
(* load, which skips expired rows.  Requests in flight are lost.           *)
Restart ==
    /\ "restart" \in scenario /\ faults < MaxFaults /\ faults' = faults + 1
    /\ users' = usersFile
    /\ reg' = RegLoad(regFile, expired)
    /\ pc' = [c \in Clients |-> "idle"]
    /\ req' = [c \in Clients |-> NoReq]
    /\ ThrottleRestart(policy)
    /\ UNCHANGED <<scenario, usersFile, regFile, cookies, expired, historyVars, left>>

Clock == "clock" \in scenario /\ Tick /\ UNCHANGED accountVars

\* The monitoring page looks at the failed logins.
Monitor ==
    /\ "clock" \in scenario /\ SnapshotFailures
    /\ UNCHANGED accountVars

ChangePolicy ==
    /\ "policy" \in scenario /\ left > 0
    /\ \E p \in Policies \ {policy} : SetPolicy(p)
    /\ left' = left - 1
    /\ UNCHANGED <<scenario, storeVars, regVars, cookies, expired, requestVars, historyVars, faults>>

Step(c) ==
    \/ LoginBegin(c) \/ LoginAllow(c) \/ LoginPassword(c) \/ LoginFailed(c) \/ LoginSuccess(c)
    \/ registerSession(c) \/ CookieBegin(c) \/ BearerBegin(c) \/ LiveGet(c) \/ LiveVersion(c)
    \/ Has(c) \/ Touch(c) \/ Gate(c) \/ Reauth(c) \/ Answer(c) \/ Refuse(c) \/ Create(c)
    \/ SetRole(c) \/ SetFullName(c) \/ UpdatePreferences(c) \/ DismissGeoWizard(c)
    \/ ResetPassword(c) \/ LogoutAll(c) \/ RevokeUserSessions(c) \/ ChangePassword(c)
    \/ Reissue(c) \/ RevokeRows(c) \/ RevokeSession(c) \/ Logout(c) \/ Delete(c)

AccountsNext == (\E c \in Clients : Step(c)) \/ Expire \/ Restart \/ Clock \/ Monitor \/ ChangePolicy

AccountsSpec == AccountsInit /\ [][AccountsNext]_<<now, throttleVars, accountVars>>

-----------------------------------------------------------------------------
(* A session whose revocation was reported - one row removed and saved, or *)
(* every session of the account outlived by a saved version - is not       *)
(* admitted by any request that starts later, through races with Touch and *)
(* logins in flight, failed saves and restarts, for as long as the account *)
(* is not deleted and created anew.                                        *)
RevokedIsRefused == \A c \in Clients : pc[c] \in {"gate", "op"} => ~req[c].dead

(* There is always an administrator, in memory and in the file a restart   *)
(* would load, whatever saves failed in between.                           *)
AdminRemains == adminCountUnlocked(users) > 0 /\ adminCountUnlocked(usersFile) > 0

(* Requests that pass Allow together can overshoot the limit, but never by *)
(* more than their number: within one window an account sees fewer than    *)
(* maxFails rejected passwords plus the requests in flight.                *)
GuessesBounded ==
    \A u \in Users, m \in {p.maxFails : p \in Policies} :
        (\A p \in Policies : p.maxFails <= m) => passed[u] < m + Cardinality(Clients)
=============================================================================
