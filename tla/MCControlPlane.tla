--------------------------- MODULE MCControlPlane ---------------------------
(* The control plane for TLC.  Its parts share no state, so a behaviour     *)
(* exercises one of them (focus) and leaves the others at rest.             *)
EXTENDS Accounts, ApiTokens, Settings, FileAtomic, TLC

VARIABLE focus

MCScenarios == {
    {"login", "me", "revokeOne", "restart", "bearer"},
    {"login", "me", "logout", "restart", "expire"},
    {"login", "check", "logoutAll", "changePassword", "restart"},
    {"bearer", "create", "setRole", "fullName", "delete", "restart"},
    {"login", "clock"},
    {"login", "me", "delete", "create", "bearer"},
    {"login", "me", "reset", "restart"},
    {"login", "checkAdmin", "revokeUser", "bearer"},
    {"login", "preferences", "wizard", "policy"}}

MCPolicies == {[maxFails |-> 2, window |-> 1, lockout |-> 2],
               [maxFails |-> 1, window |-> 1, lockout |-> 1]}

\* Time passes only in the scenario of the clock, policies change only in theirs.
Policy1 == [maxFails |-> 2, window |-> 1, lockout |-> 2]

vars == <<focus, now, throttleVars, accountVars, tokenVars, settingVars, fileVars>>

Init ==
    /\ focus \in {"accounts", "tokens", "settings", "files"}
    /\ AccountsInit /\ policy = Policy1
    /\ focus # "accounts" => scenario = {"login", "clock"}
    /\ TokensInit
    /\ SettingsInit /\ (focus # "settings" => kind = "templates")
    /\ FileInit /\ (focus # "files" => platform = "unix")

Next ==
    /\ UNCHANGED focus
    /\ \/ focus = "accounts" /\ AccountsNext /\ UNCHANGED <<tokenVars, settingVars, fileVars>>
       \/ focus = "tokens" /\ TokensNext
          /\ UNCHANGED <<now, throttleVars, accountVars, settingVars, fileVars>>
       \/ focus = "settings" /\ SettingsNext
          /\ UNCHANGED <<now, throttleVars, accountVars, tokenVars, fileVars>>
       \/ focus = "files" /\ FileNext
          /\ UNCHANGED <<now, throttleVars, accountVars, tokenVars, settingVars>>

Spec == Init /\ [][Next]_vars

Symmetry == Permutations(Clients) \union Permutations(Putters)
=============================================================================
