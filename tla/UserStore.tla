------------------------------ MODULE UserStore ------------------------------
(***************************************************************************)
(* What the operations of the user store (auth/users.go) make of the map of*)
(* accounts, and those of the session registry (auth/session_registry.go)  *)
(* of the set of registered sessions.  Each operation of the code holds the*)
(* store's lock, computes the new map and saves it; saving, and what memory*)
(* holds after a failed save, is in module Accounts.                       *)
(*                                                                         *)
(* Of an account only the role, must_reset_password and session_version    *)
(* are kept: names, hashes and preferences are never told apart.           *)
(***************************************************************************)
EXTENDS Integers, FiniteSets

CONSTANT NoUser

RoleSet == {"administrator", "operator", "dashboard"}

HasPersistentSession(role) == role = "dashboard"

Record == [role : RoleSet, must : BOOLEAN, ver : Nat]

Known(us, u) == us[u] # NoUser

(* The administrator and the operator of the environment; an operator must *)
(* always choose a password, an administrator when told so or when the     *)
(* password is weak.                                                       *)
SeedUsersFromEnv(names, admin, operator, weak) ==
    [u \in names |->
        IF u = admin THEN [role |-> "administrator", must |-> weak, ver |-> 0]
        ELSE IF u = operator THEN [role |-> "operator", must |-> TRUE, ver |-> 0]
        ELSE NoUser]

\* Authenticate: the account itself, or nothing when the password is wrong.
Authenticate(us, u, right) == IF Known(us, u) /\ right THEN {us[u]} ELSE {}

adminCountUnlocked(us) ==
    Cardinality({u \in DOMAIN us : Known(us, u) /\ us[u].role = "administrator"})

LastAdminOfNone(us, u) == us[u].role = "administrator" /\ adminCountUnlocked(us) < 1

\* An account whose loss would leave no administrator.
LastAdmin(us, u) == us[u].role = "administrator" /\ adminCountUnlocked(us) <= 1

\* addUnlocked refuses a name that is taken.
StoreCreate(us, u, role, must) ==
    IF Known(us, u) THEN {}
    ELSE {[us EXCEPT ![u] = [role |-> role, must |-> must, ver |-> 0]]}

StoreSetRole(us, u, role) ==
    IF ~Known(us, u) \/ (role # "administrator" /\ LastAdmin(us, u)) THEN {}
    ELSE {[us EXCEPT ![u].role = role]}

StoreSetFullName(us, u) == IF Known(us, u) THEN {us} ELSE {}

StoreSetPreferences(us, u) == IF Known(us, u) THEN {us} ELSE {}

StoreSetGeoWizardDismissed(us, u) == IF Known(us, u) THEN {us} ELSE {}

StoreResetPassword(us, u, must) ==
    IF ~Known(us, u) THEN {} ELSE {[us EXCEPT ![u].must = must, ![u].ver = @ + 1]}

StoreChangePassword(us, u) ==
    IF ~Known(us, u) THEN {} ELSE {[us EXCEPT ![u].must = FALSE, ![u].ver = @ + 1]}

StoreBumpSessionVersion(us, u) ==
    IF ~Known(us, u) THEN {} ELSE {[us EXCEPT ![u].ver = @ + 1]}

StoreDelete(us, u, actor) ==
    IF u = actor \/ ~Known(us, u) \/ LastAdmin(us, u) THEN {}
    ELSE {[us EXCEPT ![u] = NoUser]}

-----------------------------------------------------------------------------
(* The registry: r is the set of ids, gone the sessions that have expired. *)
pruneExpiredLocked(r, gone) == r \ gone

RegRegister(r, sid, gone) == pruneExpiredLocked(r, gone) \union {sid}

RegTouchInserts(r, sid, due) == IF due THEN {r \union {sid}} ELSE {}

(* Touch saves at most once a minute (due), and only what is still there.  *)
RegTouch(r, sid, due) == IF sid \in r /\ due THEN {r} ELSE {}

RegRevoke(r, sid) == IF sid \in r THEN {r \ {sid}} ELSE {}

RegRevokeUser(r, owned) == IF r \intersect owned = {} THEN {} ELSE {r \ owned}

\* load: a row whose time is over is not taken over.
RegLoad(file, gone) == file \ gone
=============================================================================
