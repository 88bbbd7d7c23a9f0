------------------------------ MODULE ApiTokens ------------------------------
(***************************************************************************)
(* Named API tokens (auth/tokens.go, adapter/httpapi/api_tokens.go and     *)
(* authmw/bearer.go): an in-memory map with a JSON file behind it.  A      *)
(* secret is a number; the store keeps its hash, and the caller of Create  *)
(* or Rotate is the only one who ever sees it.                             *)
(*                                                                         *)
(* A handler calls the store once, after the session check and the second  *)
(* password check of module Accounts, so it is one step here.              *)
(***************************************************************************)
EXTENDS Integers, FiniteSets

CONSTANTS
    TokenIds,           \* ids that generateTokenID may draw
    MaxTokens,          \* maxAPITokens
    MaxSecrets,         \* bound of the model: secrets generated
    MaxTokenFaults,     \* bound of the model: failed saves and restarts
    NoToken

Scopes == {"read", "ops", "admin"}

\* apiToken: of the record the hash of the secret and the scope are kept.
Token == [secret : Nat, scope : Scopes]

ASSUME TokensAssumption ==
    /\ IsFiniteSet(TokenIds)
    /\ {MaxTokens, MaxSecrets, MaxTokenFaults} \subseteq Nat
    /\ NoToken \notin Token

VARIABLES
    tokens,         \* s.byID
    tokensFile,     \* api_tokens.json
    secrets,        \* secrets generated so far
    overdue,        \* tokens whose expiry time has passed
    held,           \* history: secrets that a caller was given
    retired,        \* history: secrets whose end was reported to a caller
    tokenFaults

tokenVars == <<tokens, tokensFile, secrets, overdue, held, retired, tokenFaults>>

scopeRank == [read |-> 1, ops |-> 2, admin |-> 3]

ScopeAtLeast(have, need) == scopeRank[have] >= scopeRank[need]

(* OpenOrCreateTokenStore writes an empty file on the first start.         *)
TokensInit ==
    /\ tokens = [i \in TokenIds |-> NoToken] /\ tokensFile = tokens
    /\ secrets = 0 /\ overdue = {} /\ held = {} /\ retired = {} /\ tokenFaults = 0

Present == {i \in TokenIds : tokens[i] # NoToken}

SaveTokens(new, undo, ok) ==
    /\ ok \in IF tokenFaults < MaxTokenFaults THEN BOOLEAN ELSE {TRUE}
    /\ tokens' = IF ok THEN new ELSE undo
    /\ tokensFile' = IF ok THEN new ELSE tokensFile
    /\ tokenFaults' = IF ok THEN tokenFaults ELSE tokenFaults + 1

\* addUnlocked: the token under an id that is not taken.
addToken(i, scope) == [tokens EXCEPT ![i] = [secret |-> secrets + 1, scope |-> scope]]

(* The store: Create rolls back when the save fails, Revoke and Rotate do  *)
(* not; Rotate so keeps a hash whose secret nobody was given.              *)
StoreTokenCreate(i, scope, ok) ==
    /\ i \notin Present /\ Cardinality(Present) < MaxTokens /\ secrets < MaxSecrets
    /\ secrets' = secrets + 1
    /\ SaveTokens(addToken(i, scope), tokens, ok)

StoreTokenRevokeUndone(i, ok) ==
    /\ i \in Present
    /\ LET new == [tokens EXCEPT ![i] = NoToken]
       IN /\ ok /\ tokens' = new /\ UNCHANGED <<tokensFile, tokenFaults>>

StoreTokenRevoke(i, ok) ==
    /\ i \in Present
    /\ LET new == [tokens EXCEPT ![i] = NoToken] IN SaveTokens(new, new, ok)

StoreTokenRotate(i, ok) ==
    /\ i \in Present \ overdue /\ secrets < MaxSecrets
    /\ secrets' = secrets + 1
    /\ LET new == [tokens EXCEPT ![i].secret = secrets + 1] IN SaveTokens(new, new, ok)

(* The handlers: a secret is shown, and an end reported, only on success.  *)
TokenCreate ==
    \E i \in TokenIds, scope \in Scopes, ok \in BOOLEAN :
        /\ StoreTokenCreate(i, scope, ok)
        /\ held' = held \union IF ok THEN {secrets'} ELSE {}
        /\ overdue' = overdue \ {i}
        /\ UNCHANGED retired

TokenRevoke ==
    \E i \in TokenIds, ok \in BOOLEAN :
        /\ StoreTokenRevoke(i, ok)
        /\ retired' = retired \union IF ok THEN {tokens[i].secret} ELSE {}
        /\ UNCHANGED <<secrets, overdue, held>>

TokenRotate ==
    \E i \in TokenIds, ok \in BOOLEAN :
        /\ StoreTokenRotate(i, ok)
        /\ held' = held \union IF ok THEN {secrets'} ELSE {}
        /\ retired' = retired \union IF ok THEN {tokens[i].secret} ELSE {}
        /\ UNCHANGED overdue

TokenExpire ==
    /\ \E i \in Present \ overdue : overdue' = overdue \union {i}
    /\ UNCHANGED <<tokens, tokensFile, secrets, held, retired, tokenFaults>>

(* LoadTokensFile.                                                         *)
TokenRestart ==
    /\ tokenFaults < MaxTokenFaults /\ tokenFaults' = tokenFaults + 1
    /\ tokens' = tokensFile
    /\ UNCHANGED <<tokensFile, secrets, overdue, held, retired>>

TokensNext == TokenCreate \/ TokenRevoke \/ TokenRotate \/ TokenExpire \/ TokenRestart

TokensSpec == TokensInit /\ [][TokensNext]_tokenVars

-----------------------------------------------------------------------------
(* What a bearer is worth: Verify, then BearerAuth.OK.                     *)
Verify(s) == {tokens[i].scope : i \in {j \in Present \ overdue : tokens[j].secret = s}}

BearerOK(s, need) == \E scope \in Verify(s) : ScopeAtLeast(scope, need)

(* A secret whose revocation or replacement was reported opens nothing, now *)
(* or after a restart, however saves failed around it; and no secret opens *)
(* more than one token.                                                    *)
RetiredIsRefused ==
    /\ \A s \in retired : ~BearerOK(s, "read") /\ \A i \in TokenIds :
         tokensFile[i] # NoToken => tokensFile[i].secret # s
    /\ \A s \in held : Cardinality(Verify(s)) <= 1
=============================================================================
