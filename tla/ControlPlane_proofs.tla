------------------------ MODULE ControlPlane_proofs ------------------------
(***************************************************************************)
(* The stores of the control plane for any number of tokens, writers,      *)
(* requests, users and faults: retired tokens stay refused, the files      *)
(* behind the stores are always whole, settings that were reported are in  *)
(* effect, an administrator always remains, and a login sees a bounded     *)
(* number of guesses.                                                      *)
(***************************************************************************)
EXTENDS Accounts, ApiTokens, Settings, FileAtomic, TLAPS, FiniteSetTheorems

(* API tokens *)

\* A map of tokens as the store or its file holds it: every secret is one of
\* the n generated, and opens one token.
TokenMap(t, n) ==
    /\ t \in [TokenIds -> Token \cup {NoToken}]
    /\ \A i \in TokenIds : t[i] # NoToken => t[i].secret \in 1 .. n
    /\ \A i, j \in TokenIds :
          t[i] # NoToken /\ t[j] # NoToken /\ t[i].secret = t[j].secret => i = j

\* No secret of the set gone is in the map.
Buried(t, gone) == \A i \in TokenIds : t[i] # NoToken => t[i].secret \notin gone

\* A retired secret is in neither the memory nor the file of the store.
TokensInv ==
    /\ secrets \in Nat
    /\ retired \subseteq 1 .. secrets
    /\ TokenMap(tokens, secrets) /\ TokenMap(tokensFile, secrets)
    /\ Buried(tokens, retired) /\ Buried(tokensFile, retired)

\* u is t with the newest secret under i.
Renewed(t, i, n, u) ==
    /\ u \in [TokenIds -> Token \cup {NoToken}]
    /\ u[i] # NoToken /\ u[i].secret = n + 1
    /\ \A j \in TokenIds \ {i} : u[j] = t[j]

\* An entry that gets a new record.
LEMMA RenewedEntry ==
    ASSUME NEW n \in Nat, NEW t, TokenMap(t, n), NEW i \in TokenIds, NEW scope \in Scopes
    PROVE  Renewed(t, i, n, [t EXCEPT ![i] = [secret |-> n + 1, scope |-> scope]])
<1>1. [secret |-> n + 1, scope |-> scope] \in Token
  BY DEF Token
<1>2. QED
  BY <1>1, TokensAssumption DEF TokenMap, Renewed

\* The secret that an entry had may be retired when it gets a new one.
LEMMA NewSecret ==
    ASSUME NEW n \in Nat, NEW gone \in SUBSET (1 .. n), NEW t, TokenMap(t, n), Buried(t, gone),
           NEW i \in TokenIds, NEW u, Renewed(t, i, n, u)
    PROVE  /\ TokenMap(u, n + 1) /\ Buried(u, gone)
           /\ t[i] # NoToken => Buried(u, gone \cup {t[i].secret})
BY DEF TokenMap, Buried, Renewed

\* One entry of a map is removed, and its secret may be retired.
LEMMA RemovedSecret ==
    ASSUME NEW n \in Nat, NEW gone, NEW t, TokenMap(t, n), Buried(t, gone),
           NEW i \in TokenIds, t[i] # NoToken, NEW u, u = [t EXCEPT ![i] = NoToken],
           NEW more, more \subseteq gone \cup {t[i].secret}
    PROVE  TokenMap(u, n) /\ Buried(u, more)
BY DEF TokenMap, Buried

\* A map that stays as it is while a secret is generated.
LEMMA SameMap ==
    ASSUME NEW n \in Nat, NEW t, TokenMap(t, n) PROVE TokenMap(t, n + 1)
BY DEF TokenMap

LEMMA StepTokens ==
    ASSUME TokensInv, [TokensNext]_tokenVars PROVE TokensInv'
<1>1. /\ secrets \in Nat /\ retired \in SUBSET (1 .. secrets) /\ secrets + 1 \in Nat
      /\ TokenMap(tokens, secrets) /\ TokenMap(tokensFile, secrets)
      /\ Buried(tokens, retired) /\ Buried(tokensFile, retired)
      /\ tokens \in [TokenIds -> Token \cup {NoToken}]
  BY DEF TokensInv, TokenMap
<1>2. TokenMap(tokens, secrets + 1) /\ TokenMap(tokensFile, secrets + 1)
  BY <1>1, SameMap
<1>3. \A i \in TokenIds : tokens[i] # NoToken =>
        /\ tokens[i] \in Token /\ tokens[i].scope \in Scopes /\ tokens[i].secret \in 1 .. secrets
  BY <1>1 DEF TokenMap, Token
<1>4. CASE TokenCreate
  <2>1. PICK i \in TokenIds, scope \in Scopes, ok \in BOOLEAN :
          StoreTokenCreate(i, scope, ok) /\ UNCHANGED retired
    BY <1>4 DEF TokenCreate
  <2>2. secrets' = secrets + 1 /\ tokens[i] = NoToken
    BY <2>1 DEF StoreTokenCreate, Present
  <2>3. TokenMap(addToken(i, scope), secrets + 1) /\ Buried(addToken(i, scope), retired)
    BY <1>1, RenewedEntry, NewSecret DEF addToken
  <2>4. tokens' \in {tokens, addToken(i, scope)} /\ tokensFile' \in {tokensFile, addToken(i, scope)}
    BY <2>1 DEF StoreTokenCreate, SaveTokens
  <2>5. QED
    BY <1>1, <1>2, <2>1, <2>2, <2>3, <2>4 DEF TokensInv
<1>5. CASE TokenRevoke
  <2>1. PICK i \in TokenIds, ok \in BOOLEAN :
          /\ StoreTokenRevoke(i, ok) /\ UNCHANGED secrets
          /\ retired' = retired \cup IF ok THEN {tokens[i].secret} ELSE {}
    BY <1>5 DEF TokenRevoke
  <2>2. tokens[i] # NoToken
    BY <2>1 DEF StoreTokenRevoke, Present
  <2>3. PICK new : new = [tokens EXCEPT ![i] = NoToken]
    OBVIOUS
  <2>4. tokens' = new /\ tokensFile' = IF ok THEN new ELSE tokensFile
    BY <2>1, <2>3 DEF StoreTokenRevoke, SaveTokens
  <2>5. TokenMap(new, secrets) /\ Buried(new, retired \cup {tokens[i].secret}) /\ Buried(new, retired)
    BY <1>1, <2>2, <2>3, RemovedSecret
  <2>6. retired' \subseteq 1 .. secrets
    BY <1>1, <1>3, <2>1, <2>2
  <2>7. QED
    BY <1>1, <2>1, <2>4, <2>5, <2>6 DEF TokensInv
<1>6. CASE TokenRotate
  <2>1. PICK i \in TokenIds, ok \in BOOLEAN :
          /\ StoreTokenRotate(i, ok)
          /\ retired' = retired \cup IF ok THEN {tokens[i].secret} ELSE {}
    BY <1>6 DEF TokenRotate
  <2>2. tokens[i] # NoToken /\ secrets' = secrets + 1
    BY <2>1 DEF StoreTokenRotate, Present
  <2>3. PICK new : new = [tokens EXCEPT ![i].secret = secrets + 1]
    OBVIOUS
  <2>4. tokens' = new /\ tokensFile' = IF ok THEN new ELSE tokensFile
    BY <2>1, <2>3 DEF StoreTokenRotate, SaveTokens
  <2>5. new = [tokens EXCEPT ![i] = [secret |-> secrets + 1, scope |-> tokens[i].scope]]
    <3>1. tokens[i] \in Token
      BY <1>3, <2>2
    <3>2. [tokens[i] EXCEPT !.secret = secrets + 1] = [secret |-> secrets + 1, scope |-> tokens[i].scope]
      BY <3>1 DEF Token
    <3>3. QED
      BY <2>3, <3>2
  <2>6. /\ TokenMap(new, secrets + 1) /\ Buried(new, retired \cup {tokens[i].secret})
        /\ Buried(new, retired)
    <3>1. PICK scope \in Scopes :
            new = [tokens EXCEPT ![i] = [secret |-> secrets + 1, scope |-> scope]]
      BY <1>3, <2>2, <2>5
    <3>2. Renewed(tokens, i, secrets, new)
      BY <1>1, <3>1, RenewedEntry
    <3>3. QED
      BY <1>1, <2>2, <3>2, NewSecret
  <2>7. retired' \subseteq 1 .. secrets + 1
    <3>1. tokens[i].secret \in 1 .. secrets
      BY <1>3, <2>2
    <3>2. 1 .. secrets \subseteq 1 .. secrets + 1
      BY <1>1
    <3>3. QED
      BY <1>1, <2>1, <3>1, <3>2
  <2>8. QED
    BY <1>1, <1>2, <2>1, <2>2, <2>4, <2>6, <2>7 DEF TokensInv
<1>7. CASE TokenExpire \/ TokenRestart \/ UNCHANGED tokenVars
  BY <1>1, <1>7 DEF TokenExpire, TokenRestart, tokenVars, TokensInv
<1>8. QED
  BY <1>4, <1>5, <1>6, <1>7 DEF TokensNext

\* A secret whose revocation or rotation was reported opens nothing and is not
\* in api_tokens.json, and no secret opens two tokens, whatever saves failed
\* and whenever the process restarted.
THEOREM RetiredTokensRefused == TokensSpec => []RetiredIsRefused
<1>1. TokensInit => TokensInv
  BY DEF TokensInit, TokensInv, TokenMap, Buried
<1>2. TokensInv /\ [TokensNext]_tokenVars => TokensInv'
  BY StepTokens
<1>3. TokensInv => RetiredIsRefused
  <2> SUFFICES ASSUME TokensInv PROVE RetiredIsRefused
    OBVIOUS
  <2>1. \A s \in retired : Verify(s) = {}
    BY DEF TokensInv, Buried, Verify, Present
  <2>2. ASSUME NEW s PROVE Cardinality(Verify(s)) <= 1
    <3>1. CASE Verify(s) = {}
      BY <3>1, FS_EmptySet
    <3>2. CASE Verify(s) # {}
      <4>1. PICK i \in Present \ overdue : tokens[i].secret = s
        BY <3>2 DEF Verify
      <4>2. Verify(s) = {tokens[i].scope}
        <5>1. \A j \in Present \ overdue : tokens[j].secret = s => j = i
          BY <4>1 DEF TokensInv, TokenMap, Present
        <5>2. QED
          BY <4>1, <5>1 DEF Verify
      <4>3. Cardinality({tokens[i].scope}) = 1
        BY FS_Singleton
      <4>4. QED
        BY <4>2, <4>3
    <3>3. QED
      BY <3>1, <3>2
  <2>3. \A s \in retired, i \in TokenIds : tokensFile[i] # NoToken => tokensFile[i].secret # s
    BY DEF TokensInv, Buried
  <2>4. QED
    BY <2>1, <2>2, <2>3 DEF RetiredIsRefused, BearerOK
<1>4. QED
  BY <1>1, <1>2, <1>3, PTL DEF TokensSpec

-----------------------------------------------------------------------------
(* Atomic replacement of files *)

WriterPlaces == {"idle", "write", "sync", "replace", "remove", "last", "syncDir"}

\* A file under its name, now or after a crash, is absent or complete and
\* synced: a rename never brings one that was not.
Good(f) == f = NoFile \/ (f \in File /\ f.synced /\ ~f.torn)

\* What a writer has made of its temporary file.
TempOK(w) ==
    /\ wpc[w] \in {"write", "sync", "replace", "remove", "last"} => temp[w] \in File
    /\ wpc[w] = "sync" => ~temp[w].torn
    /\ wpc[w] \in {"replace", "remove", "last"} => temp[w].synced /\ ~temp[w].torn

\* On Unix: nothing is removed, no name stands for a file older than an
\* acknowledged write, and a writer about to sync the directory finds its own
\* file or a newer one.
Current(w) ==
    /\ wpc[w] \notin {"remove", "last"}
    /\ wpc[w] = "syncDir" => dest.n >= mine[w]

FileTypes ==
    /\ platform \in {"unix", "windows"}
    /\ wpc \in [Writers -> WriterPlaces] /\ temp \in [Writers -> File \cup {NoFile}]
    /\ mine \in [Writers -> Nat] /\ renames \in Nat /\ acked \in Nat

FileInv ==
    /\ FileTypes
    /\ \A w \in Writers : TempOK(w)
    /\ \A f \in maybe \cup {dest} : Good(f)
    /\ acked <= renames /\ \A w \in Writers : mine[w] <= renames
    /\ platform = "unix" =>
         /\ \A w \in Writers : Current(w)
         /\ \A f \in maybe \cup {dest} : f # NoFile /\ f.n >= acked

\* A writer that does not move.
LEMMA IdleWriter ==
    ASSUME NEW v \in Writers, TempOK(v), wpc'[v] = wpc[v], temp'[v] = temp[v]
    PROVE  TempOK(v)'
BY DEF TempOK

\* The rename: the newest file, complete and synced.
LEMMA RenameKeeps ==
    ASSUME FileInv, NEW w \in Writers, wpc[w] \in {"replace", "last"}, Rename(w),
           UNCHANGED <<platform, acked>>
    PROVE  FileInv'
<1>1. /\ FileTypes /\ temp[w] \in File /\ temp[w].synced /\ ~temp[w].torn /\ acked <= renames
      /\ \A v \in Writers : mine[v] <= renames /\ mine[v] \in Nat
      /\ \A v \in Writers : TempOK(v)
  BY DEF FileInv, TempOK, FileTypes
<1>2. /\ renames' = renames + 1 /\ renames' \in Nat /\ renames \in Nat /\ acked \in Nat
      /\ maybe' = maybe \cup {dest'}
      /\ mine' = [mine EXCEPT ![w] = renames + 1] /\ temp' = [temp EXCEPT ![w] = NoFile]
      /\ wpc' = [wpc EXCEPT ![w] = "syncDir"]
  BY <1>1 DEF Rename, WGoto, FileTypes
<1>3. dest' \in File /\ dest'.n = renames + 1 /\ dest'.synced /\ ~dest'.torn
  BY <1>1, <1>2 DEF Rename, File
<1>4. FileTypes'
  BY <1>1, <1>2 DEF FileTypes, WriterPlaces
<1>5. \A v \in Writers : TempOK(v)'
  BY <1>1, <1>2 DEF TempOK, FileTypes
<1>6. \A f \in maybe' \cup {dest'} : Good(f)
  BY <1>2, <1>3 DEF FileInv, Good
<1>7. acked' <= renames' /\ \A v \in Writers : mine'[v] <= renames'
  BY <1>1, <1>2 DEF FileTypes
<1>8. ASSUME platform = "unix"
      PROVE  /\ \A v \in Writers : Current(v)'
             /\ \A f \in maybe' \cup {dest'} : f # NoFile /\ f.n >= acked'
  <2>1. \A v \in Writers : wpc'[v] \notin {"remove", "last"} /\ mine'[v] <= renames + 1
    BY <1>1, <1>2, <1>8 DEF FileInv, Current, FileTypes
  <2>2. \A v \in Writers : Current(v)'
    <3>1. \A v \in Writers : mine'[v] \in Nat
      BY <1>1, <1>2
    <3>2. QED
      BY <1>2, <1>3, <2>1, <3>1 DEF Current
  <2>3. dest' # NoFile /\ dest'.n >= acked
    BY <1>1, <1>2, <1>3, FileAtomicAssumption
  <2>4. QED
    BY <1>2, <1>8, <2>2, <2>3 DEF FileInv
<1>9. QED
  BY <1>4, <1>5, <1>6, <1>7, <1>8 DEF FileInv

\* A step of a writer that leaves the name alone.
LEMMA TempStep ==
    ASSUME FileInv, NEW w \in Writers, NEW place \in WriterPlaces, NEW t \in File \cup {NoFile},
           wpc' = [wpc EXCEPT ![w] = place], temp' = [temp EXCEPT ![w] = t],
           UNCHANGED <<platform, dest, maybe, mine, renames, acked>>,
           TempOK(w)', place # "syncDir", platform = "unix" => place \notin {"remove", "last"}
    PROVE  FileInv'
<1>1. FileTypes'
  BY DEF FileInv, FileTypes
<1>2. \A v \in Writers : TempOK(v)'
  BY DEF FileInv, FileTypes, TempOK
<1>3. platform = "unix" => \A v \in Writers : Current(v)'
  BY DEF FileInv, FileTypes, Current
<1>4. QED
  BY <1>1, <1>2, <1>3 DEF FileInv

LEMMA StepFile ==
    ASSUME FileInv, [FileNext]_fileVars PROVE FileInv'
<1>1. /\ FileTypes /\ wpc \in [Writers -> WriterPlaces] /\ temp \in [Writers -> File \cup {NoFile}]
      /\ \A v \in Writers : TempOK(v)
  BY DEF FileInv, FileTypes
<1>2. ASSUME NEW w \in Writers, CreateTemp(w) PROVE FileInv'
  <2>1. PICK t : t = [n |-> 0, synced |-> FALSE, torn |-> TRUE]
    OBVIOUS
  <2>2. /\ t \in File /\ temp' = [temp EXCEPT ![w] = t] /\ wpc' = [wpc EXCEPT ![w] = "write"]
        /\ UNCHANGED <<platform, dest, maybe, mine, renames, acked>>
    BY <1>2, <2>1 DEF CreateTemp, WGoto, File
  <2>3. TempOK(w)'
    BY <1>1, <2>2 DEF TempOK
  <2>4. QED
    BY <2>2, <2>3, TempStep DEF WriterPlaces
<1>3. ASSUME NEW w \in Writers, GiveUp(w), UNCHANGED <<platform, dest, maybe, mine, renames, acked>>
      PROVE  FileInv'
  <2>1. temp' = [temp EXCEPT ![w] = NoFile] /\ wpc' = [wpc EXCEPT ![w] = "idle"]
    BY <1>3 DEF GiveUp, WGoto
  <2>2. TempOK(w)'
    BY <1>1, <2>1 DEF TempOK
  <2>3. QED
    BY <1>3, <2>1, <2>2, TempStep DEF WriterPlaces
<1>4. ASSUME NEW w \in Writers, WriteTemp(w) PROVE FileInv'
  <2>1. wpc[w] = "write" /\ temp[w] \in File
    BY <1>1, <1>4 DEF WriteTemp, At, TempOK
  <2>2. PICK t : t = [temp[w] EXCEPT !.torn = FALSE]
    OBVIOUS
  <2>3. t \in File /\ ~t.torn
    BY <2>1, <2>2 DEF File
  <2>4. /\ temp' = [temp EXCEPT ![w] = t] /\ wpc' = [wpc EXCEPT ![w] = "sync"]
        /\ UNCHANGED <<platform, dest, maybe, mine, renames, acked>>
    BY <1>4, <2>2 DEF WriteTemp, WGoto
  <2>5. TempOK(w)'
    BY <1>1, <2>3, <2>4 DEF TempOK
  <2>6. QED
    BY <2>3, <2>4, <2>5, TempStep DEF WriterPlaces
<1>5. ASSUME NEW w \in Writers, SyncTemp(w) PROVE FileInv'
  <2>1. wpc[w] = "sync" /\ temp[w] \in File /\ ~temp[w].torn
    BY <1>1, <1>5 DEF SyncTemp, At, TempOK
  <2>2. PICK t : t = [temp[w] EXCEPT !.synced = TRUE]
    OBVIOUS
  <2>3. t \in File /\ t.synced /\ ~t.torn
    BY <2>1, <2>2 DEF File
  <2>4. /\ temp' = [temp EXCEPT ![w] = t] /\ wpc' = [wpc EXCEPT ![w] = "replace"]
        /\ UNCHANGED <<platform, dest, maybe, mine, renames, acked>>
    BY <1>5, <2>2 DEF SyncTemp, WGoto
  <2>5. TempOK(w)'
    BY <1>1, <2>3, <2>4 DEF TempOK
  <2>6. QED
    BY <2>3, <2>4, <2>5, TempStep DEF WriterPlaces
<1>6. ASSUME NEW w \in Writers, RetryReplace(w) PROVE FileInv'
  <2>1. /\ wpc[w] = "replace" /\ platform = "windows" /\ UNCHANGED temp
        /\ UNCHANGED <<platform, dest, maybe, mine, renames, acked>>
        /\ wpc' = wpc \/ wpc' = [wpc EXCEPT ![w] = "remove"]
    BY <1>6 DEF RetryReplace, At, Blocked, WGoto
  <2>2. PICK place \in {"replace", "remove"} : wpc' = [wpc EXCEPT ![w] = place]
    BY <1>1, <2>1
  <2>3. temp' = [temp EXCEPT ![w] = temp[w]] /\ temp[w] \in File \cup {NoFile}
    BY <1>1, <2>1
  <2>4. TempOK(w)'
    BY <1>1, <2>1, <2>2 DEF TempOK
  <2>5. QED
    BY <2>1, <2>2, <2>3, <2>4, TempStep DEF WriterPlaces
<1>7. ASSUME NEW w \in Writers, RemoveDest(w), ~Blocked PROVE FileInv'
  <2>1. /\ wpc[w] = "remove" /\ dest' = NoFile /\ maybe' = maybe \cup {NoFile}
        /\ wpc' = [wpc EXCEPT ![w] = "last"] /\ UNCHANGED <<platform, temp, mine, renames, acked>>
    BY <1>7 DEF RemoveDest, At, WGoto
  <2>2. platform # "unix"
    BY <2>1 DEF FileInv, Current
  <2>3. FileTypes'
    BY <1>1, <2>1 DEF FileTypes, WriterPlaces
  <2>4. \A v \in Writers : TempOK(v)'
    BY <1>1, <2>1 DEF TempOK
  <2>5. \A f \in maybe' \cup {dest'} : Good(f)
    BY <2>1 DEF FileInv, Good
  <2>6. QED
    BY <2>1, <2>2, <2>3, <2>4, <2>5 DEF FileInv
<1>8. ASSUME NEW w \in Writers, syncDir(w) PROVE FileInv'
  <2>1. /\ wpc[w] = "syncDir" /\ wpc' = [wpc EXCEPT ![w] = "idle"]
        /\ UNCHANGED <<platform, dest, temp, mine, renames>>
        /\ \/ maybe' = {dest} /\ acked' = IF mine[w] > acked THEN mine[w] ELSE acked
           \/ UNCHANGED <<maybe, acked>>
    BY <1>8 DEF syncDir, At, WGoto
  <2>2. acked \in Nat /\ mine[w] \in Nat /\ renames \in Nat /\ mine[w] <= renames /\ acked <= renames
    BY DEF FileInv, FileTypes
  <2>3. FileTypes' /\ acked' <= renames'
    BY <1>1, <2>1, <2>2 DEF FileTypes, WriterPlaces
  <2>4. \A v \in Writers : TempOK(v)'
    BY <1>1, <2>1 DEF TempOK
  <2>5. \A f \in maybe' \cup {dest'} : Good(f)
    BY <2>1 DEF FileInv
  <2>6. ASSUME platform = "unix"
        PROVE  /\ \A v \in Writers : Current(v)'
               /\ \A f \in maybe' \cup {dest'} : f # NoFile /\ f.n >= acked'
    <3>1. \A v \in Writers : Current(v)'
      BY <1>1, <2>1, <2>6 DEF FileInv, Current
    <3>2. /\ dest.n >= mine[w] /\ dest # NoFile
          /\ \A f \in maybe \cup {dest} : f # NoFile /\ f.n >= acked
      BY <2>1, <2>6 DEF FileInv, Current
    <3>3. QED
      BY <2>1, <2>2, <3>1, <3>2
  <2>7. QED
    BY <2>1, <2>3, <2>4, <2>5, <2>6 DEF FileInv
<1>9. CASE Crash
  <2>1. PICK f \in maybe : dest' = IF f = NoFile \/ f.synced THEN f ELSE [f EXCEPT !.torn = TRUE]
    BY <1>9 DEF Crash
  <2>2. dest' = f
    BY <2>1 DEF FileInv, Good
  <2>3. /\ maybe' = {dest'} /\ temp' = [v \in Writers |-> NoFile] /\ wpc' = [v \in Writers |-> "idle"]
        /\ UNCHANGED <<mine, platform, renames, acked>>
    BY <1>9 DEF Crash
  <2>4. FileTypes' /\ \A v \in Writers : TempOK(v)' /\ Current(v)'
    BY <1>1, <2>3 DEF FileTypes, WriterPlaces, TempOK, Current
  <2>5. \A g \in maybe' \cup {dest'} : g \in maybe
    BY <2>1, <2>2, <2>3
  <2>6. QED
    BY <2>3, <2>4, <2>5 DEF FileInv
<1>10. CASE HourPasses \/ (\E r \in Readers : OpenFile(r) \/ RetryOpen(r) \/ CloseFile(r)) \/ UNCHANGED fileVars
  <2>1. UNCHANGED <<platform, dest, maybe, temp, wpc, mine, renames, acked>>
    BY <1>10 DEF HourPasses, OpenFile, RetryOpen, CloseFile, fileVars
  <2>2. QED
    BY <2>1 DEF FileInv, FileTypes, TempOK, Current
<1>11. ASSUME NEW w \in Writers, WriteFails(w) PROVE FileInv'
  BY <1>3, <1>11 DEF WriteFails
<1>12. ASSUME NEW w \in Writers, Replace(w) PROVE FileInv'
  BY <1>12, RenameKeeps DEF Replace, At
<1>13. ASSUME NEW w \in Writers, LastRename(w) PROVE FileInv'
  BY <1>3, <1>13, RenameKeeps DEF LastRename, At
<1>14. ASSUME NEW w \in Writers, RemoveDest(w) PROVE FileInv'
  BY <1>3, <1>7, <1>14 DEF RemoveDest
<1>15. QED
  BY <1>2, <1>4, <1>5, <1>6, <1>8, <1>9, <1>10, <1>11, <1>12, <1>13, <1>14 DEF FileNext

\* fileatomic.WriteFile: no interleaving of writers, readers and crashes leaves
\* a torn file under the name, and on Unix the file is always there and never
\* older than an acknowledged write.
THEOREM FilesWhole == FileSpec => []FileWhole
<1>1. FileInit => FileInv
  <2> SUFFICES ASSUME FileInit PROVE FileInv
    OBVIOUS
  <2>1. Whole(0) \in File /\ Whole(0).synced /\ ~Whole(0).torn /\ Whole(0).n = 0
    BY DEF Whole, File
  <2>2. FileTypes /\ \A w \in Writers : TempOK(w) /\ Current(w) /\ mine[w] = 0
    BY FileAtomicAssumption DEF FileInit, FileTypes, TempOK, Current, WriterPlaces
  <2>3. QED
    BY <2>1, <2>2, FileAtomicAssumption DEF FileInit, FileInv, Good
<1>2. FileInv /\ [FileNext]_fileVars => FileInv'
  BY StepFile
<1>3. FileInv => FileWhole
  BY DEF FileInv, Good, FileWhole
<1>4. QED
  BY <1>1, <1>2, <1>3, PTL DEF FileSpec

-----------------------------------------------------------------------------
(* Settings *)

\* The value of a request by itself is the one the file stands for, and the
\* parts it has passed work with it.
Underway(c) ==
    /\ sreq[c].at >= 1
    /\ kind # "tls" => Loaded = sreq[c].value
    /\ \A i \in 1 .. (sreq[c].at - 1) :
          Order[i] \in tables => parts[Order[i]] = Applied(Order[i], sreq[c].value)

SettingTypes ==
    /\ up \in BOOLEAN
    /\ spc \in [Requests -> {"idle", "load", "save", "apply"}]
    /\ sreq \in [Requests -> [value : Nat, at : Nat, alone : BOOLEAN]]
    /\ DOMAIN parts = Parts

\* A value was reported when nothing is under way, and a request that was
\* alone from its start is so still.
SettingsInv ==
    /\ SettingTypes
    /\ ~up => \A c \in Putters : spc[c] = "idle"
    /\ spc["boot"] # "idle" => kind = "retention"
    /\ settled # 0 => InFlight = {}
    /\ \A c \in Requests : spc[c] \in {"save", "apply"} /\ sreq[c].alone => InFlight = {c}
    /\ \A c \in Requests :
          spc[c] = "save" => sreq[c].value \in LowValue .. HighValue /\ sreq[c].at = 1
    /\ \A c \in Requests : spc[c] = "apply" /\ sreq[c].alone => Underway(c)
    /\ ReportedIsEffective

\* Each order of parts is a sequence.
LEMMA OrderIsSeq == Len(Order) \in Nat /\ DOMAIN Order = 1 .. Len(Order)
<1> DEFINE IsSeq(s) == Len(s) \in Nat /\ DOMAIN s = 1 .. Len(s)
<1> DEFINE R == <<"traffic_logs", "edges_daily", "edges_hourly", "parse_errors", "system_metrics">>
<1>1. IsSeq(R)
  OBVIOUS
<1>2. IsSeq(<<"limiter">>) /\ IsSeq(<<"config", "interval">>) /\ IsSeq(<<"cert", "key">>)
  OBVIOUS
<1>3. IsSeq(<< >>)
  OBVIOUS
<1>4. Order \in {R, <<"limiter">>, <<"config", "interval">>, <<"cert", "key">>, << >>}
  BY Zenon DEF Order
<1> HIDE DEF R, IsSeq
<1>5. IsSeq(Order)
  BY <1>1, <1>2, <1>3, <1>4, Zenon
<1>6. QED
  BY <1>5 DEF IsSeq

\* What a step leaves of the kind, the file and the parts.
LEMMA SameSettings ==
    ASSUME UNCHANGED <<kind, stored>>
    PROVE  Order' = Order /\ Parts' = Parts /\ Loaded' = Loaded /\ Volatile' = Volatile
BY DEF Order, Parts, Loaded, Volatile

\* A request of an administrator begins.
LEMMA BeginKeeps ==
    ASSUME SettingsInv, NEW c \in Putters, NEW v \in Nat, NEW valid, NEW l \in {"save", "apply"},
           valid => v \in LowValue .. HighValue,
           l = "apply" => kind = "tls",
           Begin(c, v, valid, l)
    PROVE  SettingsInv'
<1>1. /\ Order' = Order /\ Parts' = Parts /\ Loaded' = Loaded
      /\ UNCHANGED <<kind, stored, parts, tables, up>>
      /\ up /\ spc[c] = "idle" /\ c \in Requests /\ c # "boot"
  BY SameSettings, SettingsAssumption DEF Begin, Requests
<1>2. CASE ~valid
  <2>1. UNCHANGED <<spc, sreq, settled>>
    BY <1>2 DEF Begin
  <2>2. InFlight' = InFlight /\ \A d \in Requests : Underway(d)' <=> Underway(d)
    BY <1>1, <2>1 DEF InFlight, Underway, Requests
  <2>3. QED
    BY <1>1, <2>1, <2>2 DEF SettingsInv, SettingTypes, ReportedIsEffective
<1>3. CASE valid
  <2>1. /\ spc' = [spc EXCEPT ![c] = l] /\ settled' = 0
        /\ sreq' = [d \in Requests |->
                      IF d = c THEN [value |-> v, at |-> 1, alone |-> InFlight = {}]
                      ELSE [sreq[d] EXCEPT !.alone = @ /\ d \notin InFlight]]
    BY <1>3 DEF Begin
  <2>2. sreq'[c] = [value |-> v, at |-> 1, alone |-> InFlight = {}]
    BY <1>1, <2>1
  <2>3. \A d \in Requests \ {c} : /\ sreq'[d].value = sreq[d].value /\ sreq'[d].at = sreq[d].at
                                  /\ sreq'[d].alone <=> sreq[d].alone /\ d \notin InFlight
                                  /\ sreq'[d] \in [value : Nat, at : Nat, alone : BOOLEAN]
    <3>1. TAKE d \in Requests \ {c}
    <3>2. sreq[d] \in [value : Nat, at : Nat, alone : BOOLEAN]
      BY DEF SettingsInv, SettingTypes
    <3>3. sreq'[d] = [sreq[d] EXCEPT !.alone = @ /\ d \notin InFlight]
      BY <2>1
    <3>4. QED
      BY <3>2, <3>3
  <2>4. SettingTypes'
    <3>1. sreq'[c] \in [value : Nat, at : Nat, alone : BOOLEAN]
      BY <2>2
    <3>2. sreq' \in [Requests -> [value : Nat, at : Nat, alone : BOOLEAN]]
      BY <2>1, <2>3, <3>1 DEF Requests
    <3>3. QED
      BY <1>1, <2>1, <3>2 DEF SettingsInv, SettingTypes, Requests
  <2>5. InFlight' = InFlight \cup {c}
    BY <1>1, <2>1 DEF InFlight, SettingsInv, SettingTypes, Requests
  <2>6. \A d \in Requests : spc'[d] \in {"save", "apply"} /\ sreq'[d].alone => d = c /\ InFlight = {}
    <3>1. TAKE d \in Requests
    <3>2. CASE d = c
      <4>1. sreq'[c].alone = (InFlight = {})
        BY <2>2
      <4>2. QED
        BY <3>2, <4>1, Zenon
    <3>3. CASE d # c
      <4>1. spc'[d] = spc[d]
        BY <2>1, <3>3 DEF SettingsInv, SettingTypes
      <4>2. spc[d] \in {"save", "apply"} => d \in InFlight
        BY DEF InFlight
      <4>3. QED
        BY <2>3, <3>3, <4>1, <4>2
    <3>4. QED
      BY <3>2, <3>3
  <2>7. \A d \in Requests : spc'[d] \in {"save", "apply"} /\ sreq'[d].alone => InFlight' = {d}
    BY <2>5, <2>6
  <2>8. \A d \in Requests :
           spc'[d] = "save" => sreq'[d].value \in LowValue .. HighValue /\ sreq'[d].at = 1
    BY <1>1, <1>3, <2>1, <2>2, <2>3 DEF SettingsInv, SettingTypes
  <2>9. \A d \in Requests : spc'[d] = "apply" /\ sreq'[d].alone => Underway(d)'
    <3>1. ASSUME spc'[c] = "apply" PROVE Underway(c)'
      <4>1. l = "apply"
        BY <1>1, <2>1, <3>1 DEF SettingsInv, SettingTypes
      <4>2. QED
        BY <1>1, <2>2, <4>1 DEF Underway
    <3>2. QED
      BY <2>6, <3>1
  <2>10. QED
    BY <1>1, <2>1, <2>4, <2>7, <2>8, <2>9 DEF SettingsInv, ReportedIsEffective, SettingTypes
<1>4. QED
  BY <1>2, <1>3

\* A request leaves without having changed anything more.
LEMMA LeaveKeeps ==
    ASSUME SettingsInv, NEW c \in Requests, SDone(c),
           UNCHANGED <<kind, stored, parts, tables, up>>,
           settled' # 0 => ReportedIsEffective' /\ InFlight \subseteq {c}
    PROVE  SettingsInv'
<1>1. Order' = Order /\ Parts' = Parts /\ Loaded' = Loaded
  BY SameSettings
<1>2. /\ spc' = [spc EXCEPT ![c] = "idle"] /\ sreq' = [sreq EXCEPT ![c] = NoPut]
      /\ NoPut \in [value : Nat, at : Nat, alone : BOOLEAN]
  BY DEF SDone, NoPut
<1>3. SettingTypes'
  BY <1>1, <1>2 DEF SettingsInv, SettingTypes, Requests
<1>4. InFlight' = InFlight \ {c}
  BY <1>2 DEF InFlight, SettingsInv, SettingTypes, Requests
<1>5. \A d \in Requests : spc'[d] # "idle" => spc'[d] = spc[d] /\ sreq'[d] = sreq[d] /\ d # c
  BY <1>2 DEF SettingsInv, SettingTypes
<1>6. \A d \in Requests : spc'[d] # "idle" => (Underway(d)' <=> Underway(d))
  BY <1>1, <1>5 DEF Underway
<1>7. \A d \in Requests : spc'[d] \in {"save", "apply"} /\ sreq'[d].alone => InFlight' = {d}
  BY <1>4, <1>5 DEF SettingsInv
<1>8. \A d \in Putters : spc'[d] # "idle" => spc[d] # "idle"
  BY <1>5 DEF Requests
<1>9. spc'["boot"] # "idle" => spc["boot"] # "idle"
  BY <1>5 DEF Requests
<1>10. ReportedIsEffective'
  BY DEF ReportedIsEffective
<1>11. QED
  BY <1>3, <1>4, <1>5, <1>6, <1>7, <1>8, <1>9, <1>10 DEF SettingsInv

\* The file is saved.
LEMMA SaveKeeps ==
    ASSUME SettingsInv, NEW c \in Requests, Save(c)
    PROVE  SettingsInv'
<1>1. CASE SettingFault /\ SDone(c) /\ UNCHANGED stored
  <2>1. UNCHANGED <<kind, stored, parts, tables, up, settled>>
    BY <1>1 DEF Save
  <2>2. c \in InFlight
    BY DEF Save, InFlight
  <2>3. QED
    BY <1>1, <2>1, <2>2, LeaveKeeps DEF SettingsInv
<1>2. CASE /\ stored' = sreq[c].value /\ spc' = [spc EXCEPT ![c] = "apply"]
           /\ UNCHANGED <<sreq, settingFaults>>
  <2>1. /\ UNCHANGED <<kind, parts, tables, up, settled, sreq>> /\ spc[c] = "save"
        /\ spc' = [spc EXCEPT ![c] = "apply"] /\ spc'[c] = "apply"
    BY <1>2 DEF Save, SettingsInv, SettingTypes
  <2>2. Order' = Order /\ Parts' = Parts
    BY <2>1 DEF Order, Parts
  <2>3. stored' \in LowValue .. HighValue /\ stored' = sreq[c].value
    BY <1>2, <2>1 DEF SettingsInv
  <2>4. Loaded' = sreq[c].value
    BY <2>3, SettingsAssumption
       DEF Loaded, normalizeOrDefaults, normalizeLoginPolicy, normalizeSettings
  <2>5. SettingTypes'
    BY <2>1, <2>2 DEF SettingsInv, SettingTypes, Requests
  <2>6. c \in InFlight /\ InFlight' = InFlight
    BY <2>1 DEF InFlight, SettingsInv, SettingTypes, Requests
  <2>7. settled = 0
    BY <2>6 DEF SettingsInv
  <2>8. \A d \in Requests : spc'[d] \in {"save", "apply"} => spc[d] \in {"save", "apply"}
    BY <2>1 DEF SettingsInv, SettingTypes
  <2>9. \A d \in Requests : spc'[d] = "apply" /\ sreq'[d].alone => Underway(d)'
    <3>1. TAKE d \in Requests
    <3>2. HAVE spc'[d] = "apply" /\ sreq'[d].alone
    <3>3. InFlight = {d} /\ d = c
      BY <2>1, <2>6, <2>8, <3>2 DEF SettingsInv
    <3>4. QED
      <4>1. spc[c] = "save" => sreq[c].at = 1
        PROOF BY DEF SettingsInv
      <4>2. QED
        BY <2>1, <2>2, <2>4, <3>3, <4>1 DEF Underway
  <2>10. ~up' => \A d \in Putters : spc'[d] = "idle"
    BY <2>1, <2>6 DEF SettingsInv, SettingTypes, Requests
  <2>11. QED
    BY <2>1, <2>5, <2>6, <2>7, <2>8, <2>9, <2>10
       DEF SettingsInv, ReportedIsEffective, SettingTypes, Requests
<1>3. QED
  BY <1>1, <1>2 DEF Save

\* One part is brought into line.
LEMMA ApplyKeeps ==
    ASSUME SettingsInv, NEW c \in Requests, NEW p, ApplyPart(c, p)
    PROVE  SettingsInv'
<1>1. /\ Order' = Order /\ Parts' = Parts /\ Loaded' = Loaded
      /\ UNCHANGED <<kind, stored, tables, spc, up, settled>>
      /\ spc[c] = "apply" /\ sreq[c].at <= Len(Order) /\ p = Order[sreq[c].at]
      /\ parts' = IF p \in tables THEN [parts EXCEPT ![p] = Applied(p, sreq[c].value)] ELSE parts
      /\ sreq' = [sreq EXCEPT ![c].at = @ + 1]
  BY SameSettings DEF ApplyPart
<1>2. sreq[c] \in [value : Nat, at : Nat, alone : BOOLEAN] /\ sreq[c].at \in Nat /\ sreq[c].at + 1 \in Nat
  BY DEF SettingsInv, SettingTypes
<1>3. /\ \A d \in Requests : /\ sreq'[d].value = sreq[d].value /\ sreq'[d].alone = sreq[d].alone
                             /\ sreq'[d] \in [value : Nat, at : Nat, alone : BOOLEAN]
      /\ \A d \in Requests \ {c} : sreq'[d].at = sreq[d].at
      /\ sreq'[c].at = sreq[c].at + 1
  BY <1>1, <1>2 DEF SettingsInv, SettingTypes
<1>4. SettingTypes'
  BY <1>1, <1>3 DEF SettingsInv, SettingTypes, Requests
<1>5. c \in InFlight /\ InFlight' = InFlight
  BY <1>1 DEF InFlight, Requests
<1>6. settled = 0
  BY <1>5 DEF SettingsInv
<1>7. \A d \in Requests : spc'[d] = "apply" /\ sreq'[d].alone => Underway(d)'
  <2>1. TAKE d \in Requests
  <2>2. HAVE spc'[d] = "apply" /\ sreq'[d].alone
  <2>3. d = c /\ Underway(c)
    BY <1>1, <1>3, <1>5, <2>2 DEF SettingsInv
  <2>4. sreq[c].at >= 1 /\ sreq[c].at \in DOMAIN Order
    BY <1>1, <1>2, <2>3, OrderIsSeq DEF Underway
  <2>5. p \in DOMAIN parts
    BY <1>1, <2>4 DEF SettingsInv, SettingTypes, Parts
  <2>6. ASSUME NEW i \in 1 .. sreq[c].at, Order[i] \in tables
        PROVE  parts'[Order[i]] = Applied(Order[i], sreq[c].value)
    <3>1. CASE Order[i] = p
      BY <1>1, <2>5, <2>6, <3>1
    <3>2. CASE Order[i] # p
      <4>1. i \in 1 .. (sreq[c].at - 1)
        BY <1>1, <1>2, <3>2
      <4>2. parts'[Order[i]] = parts[Order[i]]
        BY <1>1, <3>2
      <4>3. QED
        BY <2>3, <2>6, <4>1, <4>2 DEF Underway
    <3>3. QED
      BY <3>1, <3>2
  <2>7. /\ sreq'[c].at >= 1
        /\ \A i \in 1 .. (sreq'[c].at - 1) : i \in 1 .. sreq[c].at
    BY <1>2, <1>3, <2>4
  <2>8. \A q, v : Applied(q, v)' = Applied(q, v)
    BY DEF Applied
  <2>9. QED
    BY <1>1, <1>3, <2>3, <2>6, <2>7, <2>8 DEF Underway
<1>8. \A d \in Requests : sreq'[d].at = 1 \/ spc[d] # "save"
  BY <1>1, <1>3 DEF SettingsInv
<1>9. QED
  BY <1>1, <1>3, <1>4, <1>5, <1>6, <1>7, <1>8 DEF SettingsInv, ReportedIsEffective

\* A request is answered.
LEMMA SucceedKeeps ==
    ASSUME SettingsInv, NEW c \in Requests, Succeed(c)
    PROVE  SettingsInv'
<1>1. /\ UNCHANGED <<kind, stored, parts, tables, up>> /\ SDone(c)
      /\ spc[c] = "apply" /\ sreq[c].at > Len(Order)
      /\ settled' = IF sreq[c].alone THEN sreq[c].value ELSE 0
  BY DEF Succeed
<1>2. ASSUME settled' # 0 PROVE ReportedIsEffective' /\ InFlight \subseteq {c}
  <2>1. sreq[c].alone /\ settled' = sreq[c].value
    BY <1>1, <1>2
  <2>2. InFlight = {c} /\ Underway(c)
    BY <1>1, <2>1 DEF SettingsInv
  <2>3. \A i \in DOMAIN Order : i \in 1 .. (sreq[c].at - 1)
    BY <1>1, OrderIsSeq DEF SettingsInv, SettingTypes
  <2>4. \A p \in Parts : p \in tables => parts[p] = Applied(p, sreq[c].value)
    BY <2>2, <2>3 DEF Underway, Parts
  <2>5. Parts' = Parts /\ Loaded' = Loaded
    BY <1>1, SameSettings
  <2>6. kind # "tls" => Loaded = sreq[c].value
    BY <2>2 DEF Underway
  <2>7. QED
    BY <1>1, <2>1, <2>2, <2>4, <2>5, <2>6 DEF ReportedIsEffective, Applied
<1>3. QED
  BY <1>1, <1>2, LeaveKeeps

\* Memory is lost, requests in flight too.
LEMMA RestartKeeps ==
    ASSUME SettingsInv, SettingsRestart
    PROVE  SettingsInv'
<1>1. /\ Order' = Order /\ Parts' = Parts /\ Loaded' = Loaded
      /\ UNCHANGED <<kind, stored, tables>> /\ up' = FALSE
      /\ parts' = IF Volatile THEN [p \in Parts |-> Applied(p, DefaultValue)] ELSE parts
      /\ spc' = Started /\ sreq' = [c \in Requests |-> NoPut]
      /\ settled' = IF kind = "tls" THEN settled ELSE 0
      /\ NoPut \in [value : Nat, at : Nat, alone : BOOLEAN]
  BY SameSettings DEF SettingsRestart, NoPut
<1>2. SettingTypes'
  BY <1>1 DEF SettingsInv, SettingTypes, Started, Requests
<1>3. /\ \A c \in Putters : spc'[c] = "idle"
      /\ spc'["boot"] # "idle" => kind = "retention"
      /\ \A c \in Requests : spc'[c] \notin {"save", "apply"}
  BY <1>1, SettingsAssumption DEF Started, Requests
<1>4. settled' # 0 => InFlight' = {} /\ UNCHANGED <<parts, settled>>
  BY <1>1, <1>3 DEF InFlight, Requests, Volatile
<1>5. ReportedIsEffective'
  BY <1>1, <1>4 DEF SettingsInv, ReportedIsEffective, Applied
<1>6. QED
  BY <1>1, <1>2, <1>3, <1>4, <1>5 DEF SettingsInv

\* What is in memory is set before the server listens.
LEMMA LoadAndApplyKeeps ==
    ASSUME SettingsInv, LoadAndApply
    PROVE  SettingsInv'
<1>1. /\ Order' = Order /\ Parts' = Parts /\ Loaded' = Loaded
      /\ UNCHANGED <<kind, stored, tables, spc, sreq>> /\ ~up /\ up' = TRUE
      /\ parts' = IF Volatile THEN [p \in Parts |-> Applied(p, Loaded)] ELSE parts
      /\ settled' = IF Volatile THEN Loaded ELSE settled
  BY SameSettings DEF LoadAndApply
<1>2. SettingTypes' /\ InFlight' = InFlight
  BY <1>1 DEF SettingsInv, SettingTypes, InFlight, Requests
<1>3. CASE Volatile
  <2>1. \A c \in Requests : spc[c] = "idle"
    BY <1>1, <1>3 DEF SettingsInv, Volatile, Requests
  <2>2. InFlight = {}
    BY <2>1 DEF InFlight
  <2>3. ReportedIsEffective'
    BY <1>1, <1>3 DEF ReportedIsEffective, Applied
  <2>4. QED
    BY <1>1, <1>2, <2>1, <2>2, <2>3 DEF SettingsInv, Requests
<1>4. CASE ~Volatile
  <2>1. UNCHANGED <<parts, settled>>
    BY <1>1, <1>4
  <2>2. \A c \in Requests : Underway(c)' <=> Underway(c)
    BY <1>1, <2>1 DEF Underway, Applied
  <2>3. ReportedIsEffective'
    BY <1>1, <2>1 DEF SettingsInv, ReportedIsEffective, Applied
  <2>4. QED
    BY <1>1, <1>2, <2>1, <2>2, <2>3 DEF SettingsInv
<1>5. QED
  BY <1>3, <1>4

\* The start-up applies retention like one more request.
LEMMA FromStoreKeeps ==
    ASSUME SettingsInv, ApplyFromStore
    PROVE  SettingsInv'
<1>1. /\ Order' = Order /\ Parts' = Parts /\ Loaded' = Loaded
      /\ UNCHANGED <<kind, stored, parts, tables, up, settled>>
      /\ spc["boot"] = "load" /\ spc' = [spc EXCEPT !["boot"] = "apply"]
      /\ sreq' = [sreq EXCEPT !["boot"] =
                    [value |-> Loaded, at |-> 1, alone |-> InFlight = {"boot"}]]
      /\ "boot" \in Requests
  BY SameSettings DEF ApplyFromStore, Requests
<1>2. InFlight' = InFlight /\ "boot" \in InFlight
  BY <1>1 DEF InFlight, SettingsInv, SettingTypes, Requests
<1>3. kind = "retention" /\ settled = 0
  BY <1>1, <1>2 DEF SettingsInv
<1>4. Loaded \in Nat
  BY <1>3, SettingsAssumption DEF Loaded, normalizeOrDefaults
<1>5. /\ sreq'["boot"] = [value |-> Loaded, at |-> 1, alone |-> InFlight = {"boot"}]
      /\ spc'["boot"] = "apply"
      /\ \A d \in Requests \ {"boot"} : sreq'[d] = sreq[d] /\ spc'[d] = spc[d]
  BY <1>1 DEF SettingsInv, SettingTypes
<1>6. sreq'["boot"] \in [value : Nat, at : Nat, alone : BOOLEAN]
  BY <1>4, <1>5
<1>7. SettingTypes'
  BY <1>1, <1>6 DEF SettingsInv, SettingTypes, Requests
<1>8. sreq'["boot"].alone = (InFlight = {"boot"})
  BY <1>5
<1>9. Underway("boot")'
  BY <1>1, <1>5 DEF Underway
<1>10. \A d \in Requests : spc'[d] \in {"save", "apply"} /\ sreq'[d].alone => InFlight' = {d}
  <2>1. sreq'["boot"].alone => InFlight' = {"boot"}
    BY <1>2, <1>8, Zenon
  <2>2. QED
    BY <1>2, <1>5, <2>1 DEF SettingsInv
<1>11. \A d \in Requests \ {"boot"} : Underway(d)' <=> Underway(d)
  BY <1>1, <1>5 DEF Underway, Applied
<1>12. /\ ~up' => \A d \in Putters : spc'[d] = "idle"
       /\ spc'["boot"] # "idle" => kind' = "retention"
  BY <1>1, <1>3, <1>5, SettingsAssumption DEF SettingsInv, Requests
<1>13. QED
  BY <1>1, <1>2, <1>3, <1>5, <1>7, <1>9, <1>10, <1>11, <1>12 DEF SettingsInv, ReportedIsEffective

LEMMA StepSettings == SettingsInv /\ [SettingsNext]_settingVars => SettingsInv'
<1> SUFFICES ASSUME SettingsInv, [SettingsNext]_settingVars PROVE SettingsInv'
  OBVIOUS
<1>1. ASSUME NEW c \in Putters,
             PutRetention(c) \/ PutLoginPolicy(c) \/ PutAnomalySettings(c) \/ PutTLS(c)
      PROVE  SettingsInv'
  <2>1. PICK v \in Values :
          \/ kind = "retention" /\ Begin(c, v, validate(v), "save")
          \/ kind = "policy" /\ Begin(c, v, validateLoginPolicy(v), "save")
          \/ kind = "anomaly" /\ Begin(c, v, validateSettings(v), "save")
          \/ kind = "tls" /\ Begin(c, v, validatePair(v), "apply")
    BY <1>1 DEF PutRetention, PutLoginPolicy, PutAnomalySettings, PutTLS
  <2>2. v \in Nat
    BY SettingsAssumption
  <2>3. CASE kind = "retention" /\ Begin(c, v, validate(v), "save")
    BY <2>2, <2>3, BeginKeeps DEF validate
  <2>4. CASE kind = "policy" /\ Begin(c, v, validateLoginPolicy(v), "save")
    BY <2>2, <2>4, BeginKeeps DEF validateLoginPolicy
  <2>5. CASE kind = "anomaly" /\ Begin(c, v, validateSettings(v), "save")
    BY <2>2, <2>5, BeginKeeps DEF validateSettings
  <2>6. CASE kind = "tls" /\ Begin(c, v, validatePair(v), "apply")
    BY <2>2, <2>6, BeginKeeps DEF validatePair
  <2>7. QED
    BY <2>1, <2>3, <2>4, <2>5, <2>6
<1>2. ASSUME NEW c \in Requests,
             modifyTTL(c) \/ SetLimiter(c) \/ ApplySettings(c) \/ SetInterval(c) \/ writeAtomic(c)
      PROVE  SettingsInv'
  BY <1>2, ApplyKeeps DEF modifyTTL, SetLimiter, ApplySettings, SetInterval, writeAtomic
<1>3. ASSUME NEW c \in Requests, ApplyFails(c) PROVE SettingsInv'
  <2>1. UNCHANGED <<kind, stored, parts, tables, up, settled>> /\ SDone(c) /\ c \in InFlight
    BY <1>3 DEF ApplyFails, InFlight
  <2>2. settled' = 0
    BY <2>1 DEF SettingsInv
  <2>3. QED
    BY <2>1, <2>2, LeaveKeeps
<1>4. CASE CreateMine \/ UpdateMine \/ DeleteMine \/ UNCHANGED settingVars
  <2>1. UNCHANGED <<kind, stored, parts, tables, spc, sreq, up, settled>>
    BY <1>4 DEF CreateMine, UpdateMine, DeleteMine, TemplateRequest, settingVars
  <2>2. Order' = Order /\ Parts' = Parts /\ Loaded' = Loaded
    BY <2>1, SameSettings
  <2>3. /\ InFlight' = InFlight /\ SettingTypes'
        /\ \A c \in Requests : Underway(c)' <=> Underway(c)
        /\ ReportedIsEffective'
    BY <2>1, <2>2 DEF SettingsInv, InFlight, Requests, SettingTypes, Underway, Applied,
                      ReportedIsEffective
  <2>4. QED
    BY <2>1, <2>3 DEF SettingsInv
<1>5. ASSUME NEW c \in Putters, Save(c) PROVE SettingsInv'
  BY <1>5, SaveKeeps DEF Requests
<1>6. QED
  BY <1>1, <1>2, <1>3, <1>4, <1>5, SucceedKeeps, RestartKeeps, LoadAndApplyKeeps, FromStoreKeeps
     DEF SettingsNext

\* Retention, login policy, anomaly settings and certificate: what a request
\* that none overlapped reported, or a start put in place, is what the file
\* holds and every part works with, whatever failed or restarted before.
THEOREM SettingsReported == SettingsSpec => []ReportedIsEffective
<1>1. SettingsInit => SettingsInv
  <2> SUFFICES ASSUME SettingsInit PROVE SettingsInv
    OBVIOUS
  <2>1. NoPut \in [value : Nat, at : Nat, alone : BOOLEAN]
    BY DEF NoPut
  <2>2. SettingTypes
    BY <2>1 DEF SettingsInit, SettingTypes, Started, Requests
  <2>3. QED
    BY <2>2, SettingsAssumption DEF SettingsInit, SettingsInv, Started, Requests, ReportedIsEffective
<1>2. SettingsInv /\ [SettingsNext]_settingVars => SettingsInv'
  BY StepSettings
<1>3. SettingsInv => ReportedIsEffective
  BY DEF SettingsInv
<1>4. QED
  BY <1>1, <1>2, <1>3, PTL DEF SettingsSpec

-----------------------------------------------------------------------------
(* Accounts and sessions *)

Cookie == [user : Users, ver : Nat, forever : BOOLEAN]

Ops == {"none", "login"} \cup SelfOps \cup LoginOps \cup AdminOps

Request == [op : Ops, user : Users \cup {""}, ip : IPs \cup {""}, sid : Nat, target : Users \cup {""},
            role : RoleSet \cup {""}, cookie : Cookie \cup {<<>>}, hit : SUBSET Nat, dead : BOOLEAN]

LoginPlaces == {"allow", "password", "throttled", "wrong", "success"}

\* Before the session has been found in the registry, and after.
CheckPlaces == {"get", "version", "has"}
AdmittedPlaces == {"touch", "gate", "reauth", "op", "reissue", "rows"}

Places == {"idle", "register"} \cup LoginPlaces \cup CheckPlaces \cup AdmittedPlaces

AccountMaps == [Users -> Record \cup {NoUser}]

\* What a request at a place has read, for each place.
ClientTypes(p, r) ==
    /\ p \in Places /\ r \in Request
    /\ p \in LoginPlaces => r.op = "login" /\ r.user \in Users /\ r.ip \in IPs
    /\ p \in {"success", "register"} => r.cookie \in Cookie
    /\ p = "rows" /\ r.op = "changePassword" => r.cookie \in Cookie
    /\ p \in CheckPlaces \cup {"touch", "gate", "reauth", "reissue"} => r.user \in Users
    /\ p = "reissue" => r.op = "changePassword" /\ r.role \in RoleSet
    /\ p \in CheckPlaces \cup AdmittedPlaces =>
          /\ r.target \in Users /\ r.op \in SelfOps \cup LoginOps \cup AdminOps
          /\ r.op \notin AdminOps => r.user \in Users

AccountTypes ==
    /\ users \in AccountMaps /\ usersFile \in AccountMaps
    /\ cookies \in Seq(Cookie)
    /\ pc \in [Clients -> Places] /\ req \in [Clients -> Request]
    /\ \A c \in Clients : ClientTypes(pc[c], req[c])

\* The accounts us have outlived the cookie k.
Past(us, k) == us[k.user] = NoUser \/ us[k.user].ver > k.ver

\* Neither now nor after a restart (accounts us and uf) is the version of the
\* session s good.
Outdated(s, us, uf, cs) == s \in DOMAIN cs /\ Past(us, cs[s]) /\ Past(uf, cs[s])

\* A session that was reported as revoked is on its way to be refused: by its
\* version, unless only its row is gone, and by the registry at last.
Refused(p, r, us, uf, cs, ds) ==
    /\ \A s \in r.hit : Outdated(s, us, uf, cs)
    /\ p \in CheckPlaces \cup {"touch", "gate", "reauth"} =>
          r.sid \in DOMAIN cs /\ cs[r.sid].user = r.user
    /\ p \in {"get", "version"} \/ (p = "reauth" /\ r.op = "logoutAll") =>
          (r.dead => r.sid \in ds \/ Outdated(r.sid, us, uf, cs))
    /\ p = "has" => (r.dead => r.sid \in ds)
    /\ p \in {"touch", "gate", "op"} \/ (p = "reauth" /\ r.op # "logoutAll") => ~r.dead

RevokeInv ==
    /\ AccountTypes
    /\ deadSid \subseteq Sids /\ deadSid \cap (reg \cup regFile) = {}
    /\ \A s \in deadVer : Outdated(s, users, usersFile, cookies)
    /\ \A c \in Clients : Refused(pc[c], req[c], users, usersFile, cookies, deadSid)

AnAdmin(us) == \E u \in Users : us[u] # NoUser /\ us[u].role = "administrator"

AdminInv == AnAdmin(users) /\ AnAdmin(usersFile)

ThrottleTypes ==
    /\ now \in 1 .. MaxTime /\ policy \in Policies
    /\ userAttempts \in [Users -> Bucket \cup {NoBucket}]
    /\ passed \in [Users -> Nat]

\* No more failures passed than the bucket counts.
Tally(b, n) == n <= IF b = NoBucket THEN 0 ELSE b.fails

\* The requests that will have a password of u rejected, at most.
Guessing(u) == {c \in Clients : pc[c] \in {"password", "wrong"} /\ req[c].user = u}

GuessInv ==
    /\ ThrottleTypes
    /\ \A u \in Users : Tally(userAttempts[u], passed[u])
    /\ \A u \in Users, m \in Nat :
          (\A p \in Policies : p.maxFails <= m) =>
              passed[u] + Cardinality(Guessing(u)) < m + Cardinality(Clients)

\* The client c goes to place l and holds r there.
Moves(c, l, r) == pc' = [pc EXCEPT ![c] = l] /\ req' = [req EXCEPT ![c] = r]

\* A later state of the accounts in which none has come back or grown younger.
Ages(us, new) ==
    /\ new \in AccountMaps
    /\ \A u \in Users : new[u] # NoUser => us[u] # NoUser /\ new[u].ver >= us[u].ver

\* What was outdated is so still, and known cookies are as they were.
KeepsOutdated ==
    \A s \in DOMAIN cookies :
        /\ s \in DOMAIN cookies' /\ cookies'[s] = cookies[s]
        /\ Outdated(s, users, usersFile, cookies) => Outdated(s, users', usersFile', cookies')

LEMMA IdleRequest ==
    /\ NoReq \in Request /\ ClientTypes("idle", NoReq)
    /\ \A us, uf, cs, ds : Refused("idle", NoReq, us, uf, cs, ds)
    /\ NoReq.op = "none" /\ NoReq.hit = {} /\ NoReq.dead = FALSE /\ NoReq.user = "" /\ NoReq.ip = ""
    /\ NoReq.sid = 0 /\ NoReq.target = "" /\ NoReq.role = "" /\ NoReq.cookie = <<>>
<1>1. NoReq \in Request
  BY DEF NoReq, Request, Ops
<1>2. /\ NoReq.op = "none" /\ NoReq.hit = {} /\ NoReq.dead = FALSE /\ NoReq.user = "" /\ NoReq.ip = ""
      /\ NoReq.sid = 0 /\ NoReq.target = "" /\ NoReq.role = "" /\ NoReq.cookie = <<>>
  BY DEF NoReq
<1>3. ClientTypes("idle", NoReq)
  BY <1>1, <1>2 DEF ClientTypes, LoginPlaces, CheckPlaces, AdmittedPlaces, Places
<1>4. \A us, uf, cs, ds : Refused("idle", NoReq, us, uf, cs, ds)
  BY <1>2 DEF Refused, CheckPlaces
<1>5. QED
  BY <1>1, <1>2, <1>3, <1>4

LEMMA PastAges ==
    ASSUME NEW us \in AccountMaps, NEW new, Ages(us, new), NEW k \in Cookie, Past(us, k)
    PROVE  Past(new, k)
<1>1. k.user \in Users /\ k.ver \in Nat
  BY DEF Cookie
<1>2. /\ us[k.user] # NoUser => us[k.user].ver \in Nat
      /\ new[k.user] # NoUser => new[k.user].ver \in Nat
  BY <1>1 DEF Ages, AccountMaps, Record
<1>3. QED
  BY <1>1, <1>2 DEF Ages, Past

\* A step of one client, in a world that keeps what was outdated.
LEMMA MoveKeeps ==
    ASSUME RevokeInv, NEW c \in Clients, NEW l, NEW r, Moves(c, l, r),
           ClientTypes(l, r), Refused(l, r, users', usersFile', cookies', deadSid'),
           users' \in AccountMaps, usersFile' \in AccountMaps, cookies' \in Seq(Cookie),
           deadSid' \subseteq DOMAIN cookies', deadSid' \cap (reg' \cup regFile') = {},
           deadSid \subseteq deadSid',
           \A s \in deadVer' : Outdated(s, users', usersFile', cookies'),
           KeepsOutdated
    PROVE  RevokeInv'
<1>1. pc'[c] = l /\ req'[c] = r /\ \A d \in Clients \ {c} : pc'[d] = pc[d] /\ req'[d] = req[d]
  BY DEF Moves, RevokeInv, AccountTypes
<1>2. l \in Places /\ r \in Request
  BY DEF ClientTypes
<1>3. pc' \in [Clients -> Places] /\ req' \in [Clients -> Request]
  BY <1>2 DEF Moves, RevokeInv, AccountTypes
<1>4. \A d \in Clients : ClientTypes(pc'[d], req'[d])
  BY <1>1 DEF RevokeInv, AccountTypes
<1>5. AccountTypes'
  BY <1>3, <1>4 DEF AccountTypes
<1>6. ASSUME NEW p, NEW q, Refused(p, q, users, usersFile, cookies, deadSid)
      PROVE  Refused(p, q, users', usersFile', cookies', deadSid')
  <2>1. \A s : Outdated(s, users, usersFile, cookies) => Outdated(s, users', usersFile', cookies')
    BY DEF Outdated, KeepsOutdated
  <2>2. QED
    BY <1>6, <2>1 DEF Refused, KeepsOutdated
<1>7. \A d \in Clients : Refused(pc'[d], req'[d], users', usersFile', cookies', deadSid')
  BY <1>1, <1>6 DEF RevokeInv
<1>8. QED
  BY <1>5, <1>7 DEF RevokeInv, Sids

\* A step of one client that changes neither the accounts nor the cookies.
LEMMA QuietMove ==
    ASSUME RevokeInv, NEW c \in Clients, NEW l, NEW r, Moves(c, l, r),
           ClientTypes(l, r), Refused(l, r, users, usersFile, cookies, deadSid),
           UNCHANGED <<storeVars, cookies, historyVars>>,
           reg' \subseteq reg, regFile' \subseteq reg \cup regFile
    PROVE  RevokeInv'
<1>1. UNCHANGED <<users, usersFile, cookies, deadSid, deadVer>>
  BY DEF storeVars, historyVars
<1>2. KeepsOutdated
  BY <1>1 DEF KeepsOutdated
<1>3. /\ deadSid' \subseteq DOMAIN cookies' /\ deadSid' \cap (reg' \cup regFile') = {}
      /\ \A s \in deadVer' : Outdated(s, users', usersFile', cookies')
      /\ users' \in AccountMaps /\ usersFile' \in AccountMaps /\ cookies' \in Seq(Cookie)
  BY <1>1 DEF RevokeInv, AccountTypes, Sids
<1>4. Refused(l, r, users', usersFile', cookies', deadSid') /\ deadSid \subseteq deadSid'
  BY <1>1
<1>5. QED
  BY <1>2, <1>3, <1>4, MoveKeeps

\* The request of c is over.
LEMMA QuietDone ==
    ASSUME RevokeInv, NEW c \in Clients, Done(c),
           UNCHANGED <<storeVars, cookies, historyVars>>,
           reg' \subseteq reg, regFile' \subseteq reg \cup regFile
    PROVE  RevokeInv'
<1>1. Moves(c, "idle", NoReq)
  BY DEF Moves, Done, Goto
<1>2. QED
  BY <1>1, IdleRequest, QuietMove

\* c goes on with the request it had.
LEMMA QuietGoto ==
    ASSUME RevokeInv, NEW c \in Clients, NEW l, Goto(c, l), UNCHANGED req,
           ClientTypes(l, req[c]), Refused(l, req[c], users, usersFile, cookies, deadSid),
           UNCHANGED <<storeVars, cookies, historyVars>>,
           reg' \subseteq reg, regFile' \subseteq reg \cup regFile
    PROVE  RevokeInv'
<1>1. PICK r : r = req[c]
  OBVIOUS
<1>2. Moves(c, l, r)
  BY <1>1 DEF Moves, Goto, RevokeInv, AccountTypes
<1>3. QED
  BY <1>1, <1>2, QuietMove

\* The steps of a login up to the registration of its session.
LEMMA LoginKeeps ==
    ASSUME RevokeInv, NEW c \in Clients,
           \/ LoginBegin(c) \/ LoginAllow(c) \/ LoginPassword(c) \/ LoginFailed(c) \/ LoginSuccess(c)
    PROVE  RevokeInv'
<1>1. ClientTypes(pc[c], req[c]) /\ Refused(pc[c], req[c], users, usersFile, cookies, deadSid)
  BY DEF RevokeInv, AccountTypes
<1>2. CASE LoginBegin(c)
  <2>1. PICK u \in Users, ip \in IPs :
          req' = [req EXCEPT ![c] = [NoReq EXCEPT !.op = "login", !.user = u, !.ip = ip]]
    BY <1>2 DEF LoginBegin
  <2>2. PICK r : r = [NoReq EXCEPT !.op = "login", !.user = u, !.ip = ip]
    OBVIOUS
  <2>3. r \in Request /\ r.op = "login" /\ r.user = u /\ r.ip = ip /\ r.hit = {}
    BY <2>2, IdleRequest DEF Request, Ops
  <2>4. ClientTypes("allow", r)
    BY <2>3 DEF ClientTypes, Places, LoginPlaces, CheckPlaces, AdmittedPlaces
  <2>5. Refused("allow", r, users, usersFile, cookies, deadSid)
    BY <2>3 DEF Refused, CheckPlaces
  <2>6. Moves(c, "allow", r) /\ UNCHANGED <<storeVars, regVars, cookies, historyVars>>
    BY <1>2, <2>1, <2>2 DEF LoginBegin, Moves, Goto
  <2>7. QED
    BY <2>4, <2>5, <2>6, QuietMove DEF regVars
<1>3. CASE LoginAllow(c)
  <2>1. PICK l \in {"password", "throttled"} : Goto(c, l)
    BY <1>3 DEF LoginAllow
  <2>2. UNCHANGED <<req, storeVars, regVars, cookies, historyVars>> /\ pc[c] = "allow"
    BY <1>3 DEF LoginAllow
  <2>3. ClientTypes(l, req[c]) /\ Refused(l, req[c], users, usersFile, cookies, deadSid)
    BY <1>1, <2>1, <2>2 DEF ClientTypes, Refused, Places, LoginPlaces, CheckPlaces, AdmittedPlaces
  <2>4. QED
    BY <2>1, <2>2, <2>3, QuietGoto DEF regVars
<1>4. CASE LoginPassword(c)
  <2>1. /\ pc[c] = "password" /\ UNCHANGED <<storeVars, regVars, cookies, historyVars>>
        /\ req[c].user \in Users /\ req[c].op = "login" /\ req[c] \in Request
    BY <1>1, <1>4 DEF LoginPassword, ClientTypes, LoginPlaces
  <2>2. CASE Goto(c, "wrong") /\ UNCHANGED req
    <3>1. ClientTypes("wrong", req[c]) /\ Refused("wrong", req[c], users, usersFile, cookies, deadSid)
      BY <1>1, <2>1 DEF ClientTypes, Refused, Places, LoginPlaces, CheckPlaces, AdmittedPlaces
    <3>2. QED
      BY <2>1, <2>2, <3>1, QuietGoto DEF regVars
  <2>3. ASSUME NEW right \in BOOLEAN, NEW account \in Authenticate(users, req[c].user, right),
               req' = [req EXCEPT ![c].cookie = Issue(req[c].user, account.role, account.ver)],
               Goto(c, "success")
        PROVE  RevokeInv'
    <3>1. account \in Record
      BY <2>1 DEF Authenticate, Known, RevokeInv, AccountTypes, AccountMaps
    <3>2. PICK k : k = Issue(req[c].user, account.role, account.ver)
      OBVIOUS
    <3>3. k \in Cookie
      BY <2>1, <3>1, <3>2 DEF Issue, Cookie, Record, HasPersistentSession
    <3>4. PICK r : r = [req[c] EXCEPT !.cookie = k]
      OBVIOUS
    <3>5. /\ r \in Request /\ r.cookie = k /\ r.op = req[c].op /\ r.user = req[c].user /\ r.ip = req[c].ip
          /\ r.hit = req[c].hit /\ r.dead = req[c].dead /\ r.sid = req[c].sid
      BY <2>1, <3>3, <3>4 DEF Request
    <3>6. ClientTypes("success", r)
      BY <1>1, <2>1, <3>3, <3>5 DEF ClientTypes, Places, LoginPlaces, CheckPlaces, AdmittedPlaces
    <3>7. Refused("success", r, users, usersFile, cookies, deadSid)
      BY <1>1, <3>5 DEF Refused, CheckPlaces
    <3>8. Moves(c, "success", r)
      BY <2>3, <3>2, <3>4 DEF Moves, Goto
    <3>9. QED
      BY <2>1, <3>6, <3>7, <3>8, QuietMove DEF regVars
  <2>4. QED
    BY <1>4, <2>2, <2>3 DEF LoginPassword
<1>5. CASE LoginFailed(c)
  BY <1>5, QuietDone DEF LoginFailed, regVars
<1>6. CASE LoginSuccess(c)
  <2>1. Goto(c, "register") /\ UNCHANGED <<req, storeVars, regVars, cookies, historyVars>> /\ pc[c] = "success"
    BY <1>6 DEF LoginSuccess
  <2>2. ClientTypes("register", req[c]) /\ Refused("register", req[c], users, usersFile, cookies, deadSid)
    BY <1>1, <2>1 DEF ClientTypes, Refused, Places, LoginPlaces, CheckPlaces, AdmittedPlaces
  <2>3. QED
    BY <2>1, <2>2, QuietGoto DEF regVars
<1>7. QED
  BY <1>2, <1>3, <1>4, <1>5, <1>6

\* A request comes in.
LEMMA BeginRequest ==
    ASSUME RevokeInv, NEW c \in Clients, CookieBegin(c) \/ BearerBegin(c)
    PROVE  RevokeInv'
<1>1. CASE CookieBegin(c)
  <2>1. PICK op \in scenario \cap (SelfOps \cup LoginOps \cup AdminOps), s \in Sids \ expired, t \in Users :
          /\ Goto(c, IF op = "logoutAll" THEN "reauth" ELSE "get")
          /\ req' = [req EXCEPT ![c] =
                      [NoReq EXCEPT !.op = op, !.user = cookies[s].user, !.sid = s,
                                    !.target = t, !.dead = s \in deadSid \cup deadVer]]
    BY <1>1 DEF CookieBegin
  <2> DEFINE b == s \in deadSid \cup deadVer
  <2>2. b \in BOOLEAN
    OBVIOUS
  <2> HIDE DEF b
  <2>3. PICK l \in {"reauth", "get"} : l = IF op = "logoutAll" THEN "reauth" ELSE "get"
    OBVIOUS
  <2>4. PICK r : r = [NoReq EXCEPT !.op = op, !.user = cookies[s].user, !.sid = s, !.target = t, !.dead = b]
    OBVIOUS
  <2>5. s \in Nat /\ cookies[s] \in Cookie /\ cookies[s].user \in Users
    <3>1. cookies \in Seq(Cookie) /\ s \in DOMAIN cookies
      BY DEF RevokeInv, AccountTypes, Sids
    <3>2. s \in Nat /\ cookies[s] \in Cookie
      BY <3>1
    <3>3. QED
      BY <3>2 DEF Cookie
  <2>6. /\ r \in Request /\ r.op = op /\ r.user = cookies[s].user /\ r.sid = s /\ r.target = t
        /\ r.dead = b /\ r.hit = {}
    BY <2>2, <2>4, <2>5, IdleRequest DEF Request, Ops
  <2>7. ClientTypes(l, r)
    BY <2>3, <2>5, <2>6 DEF ClientTypes, Places, LoginPlaces, CheckPlaces, AdmittedPlaces
  <2>8. b => s \in deadSid \/ Outdated(s, users, usersFile, cookies)
    BY DEF RevokeInv, b
  <2>9. Refused(l, r, users, usersFile, cookies, deadSid)
    BY <2>3, <2>6, <2>8 DEF Refused, CheckPlaces, Sids
  <2>10. Moves(c, l, r) /\ UNCHANGED <<storeVars, regVars, cookies, historyVars>>
    BY <1>1, <2>1, <2>3, <2>4 DEF CookieBegin, Moves, Goto, b
  <2>11. QED
    BY <2>7, <2>9, <2>10, QuietMove DEF regVars
<1>2. CASE BearerBegin(c)
  <2>1. PICK op \in scenario \cap AdminOps, t \in Users :
          req' = [req EXCEPT ![c] = [NoReq EXCEPT !.op = op, !.target = t]]
    BY <1>2 DEF BearerBegin
  <2>2. PICK r : r = [NoReq EXCEPT !.op = op, !.target = t]
    OBVIOUS
  <2>3. r \in Request /\ r.op = op /\ r.target = t /\ ~r.dead /\ r.hit = {}
    BY <2>2, IdleRequest DEF Request, Ops
  <2>4. ClientTypes("op", r)
    BY <2>3 DEF ClientTypes, Places, LoginPlaces, CheckPlaces, AdmittedPlaces
  <2>5. Refused("op", r, users, usersFile, cookies, deadSid)
    BY <2>3 DEF Refused, CheckPlaces
  <2>6. Moves(c, "op", r) /\ UNCHANGED <<storeVars, regVars, cookies, historyVars>>
    BY <1>2, <2>1, <2>2 DEF BearerBegin, Moves, Goto
  <2>7. QED
    BY <2>4, <2>5, <2>6, QuietMove DEF regVars
<1>3. QED
  BY <1>1, <1>2

\* The check of the session: accounts, then the registry.
LEMMA CheckKeeps ==
    ASSUME RevokeInv, NEW c \in Clients, LiveGet(c) \/ LiveVersion(c) \/ Has(c) \/ Touch(c)
    PROVE  RevokeInv'
<1>1. /\ ClientTypes(pc[c], req[c]) /\ Refused(pc[c], req[c], users, usersFile, cookies, deadSid)
      /\ req[c] \in Request
  BY DEF RevokeInv, AccountTypes
<1>2. UNCHANGED <<storeVars, cookies, historyVars>>
  BY DEF LiveGet, LiveVersion, Has, Touch, ReadOnly
<1>3. CASE LiveGet(c)
  <2>1. pc[c] = "get" /\ UNCHANGED regVars /\ req[c].user \in Users
    BY <1>1, <1>3 DEF LiveGet, ClientTypes, CheckPlaces
  <2>2. CASE Known(users, req[c].user)
    <3>1. users[req[c].user].role \in RoleSet
      BY <2>1, <2>2 DEF Known, RevokeInv, AccountTypes, AccountMaps, Record
    <3>2. PICK r : r = [req[c] EXCEPT !.role = users[req[c].user].role]
      OBVIOUS
    <3>3. /\ r \in Request /\ r.op = req[c].op /\ r.user = req[c].user /\ r.target = req[c].target
          /\ r.hit = req[c].hit /\ r.dead = req[c].dead /\ r.sid = req[c].sid
      BY <1>1, <3>1, <3>2 DEF Request
    <3>4. ClientTypes("version", r)
      BY <1>1, <2>1, <3>3 DEF ClientTypes, Places, LoginPlaces, CheckPlaces, AdmittedPlaces
    <3>5. Refused("version", r, users, usersFile, cookies, deadSid)
      BY <1>1, <2>1, <3>3 DEF Refused, CheckPlaces
    <3>6. Moves(c, "version", r)
      BY <1>3, <2>2, <3>2 DEF LiveGet, Moves, Goto
    <3>7. QED
      BY <1>2, <2>1, <3>4, <3>5, <3>6, QuietMove DEF regVars
  <2>3. CASE Done(c)
    BY <1>2, <2>1, <2>3, QuietDone DEF regVars
  <2>4. QED
    BY <1>3, <2>2, <2>3 DEF LiveGet
<1>4. CASE LiveVersion(c)
  <2>1. pc[c] = "version" /\ UNCHANGED regVars
    BY <1>4 DEF LiveVersion
  <2>2. CASE /\ Known(users, req[c].user) /\ users[req[c].user].ver = cookies[req[c].sid].ver
             /\ Goto(c, "has") /\ UNCHANGED req
    <3>1. cookies[req[c].sid].user = req[c].user /\ req[c].user \in Users
      BY <1>1, <2>1 DEF Refused, ClientTypes, CheckPlaces
    <3>2. users[req[c].user].ver \in Nat
      BY <2>2, <3>1 DEF Known, RevokeInv, AccountTypes, AccountMaps, Record
    <3>3. ~Outdated(req[c].sid, users, usersFile, cookies)
      BY <2>2, <3>1, <3>2 DEF Outdated, Past, Known
    <3>4. ClientTypes("has", req[c])
      BY <1>1, <2>1 DEF ClientTypes, Places, LoginPlaces, CheckPlaces, AdmittedPlaces
    <3>5. Refused("has", req[c], users, usersFile, cookies, deadSid)
      BY <1>1, <2>1, <3>3 DEF Refused, CheckPlaces
    <3>6. QED
      BY <1>2, <2>1, <2>2, <3>4, <3>5, QuietGoto DEF regVars
  <2>3. CASE Done(c)
    BY <1>2, <2>1, <2>3, QuietDone DEF regVars
  <2>4. QED
    BY <1>4, <2>2, <2>3 DEF LiveVersion
<1>5. CASE Has(c)
  <2>1. pc[c] = "has" /\ UNCHANGED regFile /\ reg' \subseteq reg
    BY <1>5 DEF Has, pruneExpiredLocked
  <2>2. CASE req[c].sid \in reg' /\ Goto(c, "touch") /\ UNCHANGED req
    <3>1. req[c].sid \notin deadSid
      BY <2>1, <2>2 DEF RevokeInv
    <3>2. ClientTypes("touch", req[c])
      BY <1>1, <2>1 DEF ClientTypes, Places, LoginPlaces, CheckPlaces, AdmittedPlaces
    <3>3. Refused("touch", req[c], users, usersFile, cookies, deadSid)
      BY <1>1, <2>1, <3>1 DEF Refused, CheckPlaces
    <3>4. QED
      BY <1>2, <2>1, <2>2, <3>2, <3>3, QuietGoto
  <2>3. CASE Done(c)
    BY <1>2, <2>1, <2>3, QuietDone
  <2>4. QED
    BY <1>5, <2>2, <2>3 DEF Has
<1>6. CASE Touch(c)
  <2>1. pc[c] = "touch" /\ Goto(c, "gate") /\ UNCHANGED req
    BY <1>6 DEF Touch
  <2>2. reg' \subseteq reg /\ regFile' \subseteq reg \cup regFile
    BY <1>6 DEF Touch, RegTouch, SaveReg, regVars
  <2>3. ClientTypes("gate", req[c])
    BY <1>1, <2>1 DEF ClientTypes, Places, LoginPlaces, CheckPlaces, AdmittedPlaces
  <2>4. Refused("gate", req[c], users, usersFile, cookies, deadSid)
    BY <1>1, <2>1 DEF Refused, CheckPlaces
  <2>5. QED
    BY <1>2, <2>1, <2>2, <2>3, <2>4, QuietGoto
<1>7. QED
  BY <1>3, <1>4, <1>5, <1>6

\* The gate, the second password and the steps that change no account.
LEMMA AdmitKeeps ==
    ASSUME RevokeInv, NEW c \in Clients,
           Gate(c) \/ Reauth(c) \/ Answer(c) \/ Refuse(c) \/ Reissue(c)
    PROVE  RevokeInv'
<1>1. /\ ClientTypes(pc[c], req[c]) /\ Refused(pc[c], req[c], users, usersFile, cookies, deadSid)
      /\ req[c] \in Request
  BY DEF RevokeInv, AccountTypes
<1>2. UNCHANGED <<storeVars, cookies, historyVars, regVars>>
  BY DEF Gate, Reauth, Answer, Refuse, Reissue, ReadOnly
<1>3. reg' = reg /\ regFile' = regFile
  BY <1>2 DEF regVars
<1>4. CASE Done(c)
  BY <1>2, <1>3, <1>4, QuietDone
<1>5. ASSUME Gate(c), ~Done(c) PROVE RevokeInv'
  <2>1. PICK l \in {"reauth", "op"} :
          /\ l = (IF req[c].op \in {"reset", "delete"} THEN "reauth" ELSE "op")
          /\ Goto(c, l) /\ UNCHANGED req
    BY <1>5 DEF Gate
  <2>2. pc[c] = "gate"
    BY <1>5 DEF Gate
  <2>3. ClientTypes(l, req[c])
    BY <1>1, <2>1, <2>2 DEF ClientTypes, Places, LoginPlaces, CheckPlaces, AdmittedPlaces
  <2>4. Refused(l, req[c], users, usersFile, cookies, deadSid)
    BY <1>1, <2>1, <2>2 DEF Refused, CheckPlaces
  <2>5. QED
    BY <1>2, <1>3, <2>1, <2>3, <2>4, QuietGoto
<1>6. ASSUME Reauth(c), ~Done(c) PROVE RevokeInv'
  <2>1. PICK l \in {"get", "op"} :
          /\ l = (IF req[c].op = "logoutAll" THEN "get" ELSE "op")
          /\ Goto(c, l) /\ UNCHANGED req
    BY <1>6 DEF Reauth
  <2>2. pc[c] = "reauth"
    BY <1>6 DEF Reauth
  <2>3. ClientTypes(l, req[c])
    BY <1>1, <2>1, <2>2 DEF ClientTypes, Places, LoginPlaces, CheckPlaces, AdmittedPlaces
  <2>4. Refused(l, req[c], users, usersFile, cookies, deadSid)
    BY <1>1, <2>1, <2>2 DEF Refused, CheckPlaces
  <2>5. QED
    BY <1>2, <1>3, <2>1, <2>3, <2>4, QuietGoto
<1>7. ASSUME Reissue(c), ~Done(c) PROVE RevokeInv'
  <2>1. /\ pc[c] = "reissue" /\ Known(users, req[c].user) /\ Goto(c, "rows")
        /\ req' = [req EXCEPT ![c].cookie = Issue(req[c].user, req[c].role, users[req[c].user].ver)]
    BY <1>7 DEF Reissue
  <2>2. req[c].user \in Users /\ req[c].op = "changePassword"
    BY <1>1, <2>1 DEF ClientTypes
  <2>3. users[req[c].user].ver \in Nat
    BY <2>1, <2>2 DEF Known, RevokeInv, AccountTypes, AccountMaps, Record
  <2>4. PICK k : k = Issue(req[c].user, req[c].role, users[req[c].user].ver)
    OBVIOUS
  <2>5. k \in Cookie
    BY <2>2, <2>3, <2>4 DEF Issue, Cookie, HasPersistentSession
  <2>6. PICK r : r = [req[c] EXCEPT !.cookie = k]
    OBVIOUS
  <2>7. /\ r \in Request /\ r.cookie = k /\ r.op = req[c].op /\ r.user = req[c].user
        /\ r.target = req[c].target /\ r.hit = req[c].hit /\ r.dead = req[c].dead /\ r.sid = req[c].sid
    BY <1>1, <2>5, <2>6 DEF Request
  <2>8. ClientTypes("rows", r)
    BY <1>1, <2>1, <2>5, <2>7 DEF ClientTypes, Places, LoginPlaces, CheckPlaces, AdmittedPlaces
  <2>9. Refused("rows", r, users, usersFile, cookies, deadSid)
    BY <1>1, <2>7 DEF Refused, CheckPlaces
  <2>10. Moves(c, "rows", r)
    BY <2>1, <2>4, <2>6 DEF Moves, Goto
  <2>11. QED
    BY <1>2, <1>3, <2>8, <2>9, <2>10, QuietMove
<1>8. QED
  BY <1>4, <1>5, <1>6, <1>7 DEF Answer, Refuse

\* The operations of the user store never bring back an account or a version,
\* save for the creation of one.
LEMMA StoreAges ==
    ASSUME NEW us \in AccountMaps, NEW u \in Users, NEW role, NEW actor, NEW new,
           \/ role \in RoleSet /\ new \in StoreSetRole(us, u, role)
           \/ new \in StoreSetFullName(us, u)
           \/ new \in StoreSetPreferences(us, u) \/ new \in StoreSetGeoWizardDismissed(us, u)
           \/ new \in StoreDelete(us, u, actor)
    PROVE  Ages(us, new)
<1>1. \A x \in Users : us[x] # NoUser => us[x] \in Record /\ us[x].ver \in Nat
  BY DEF AccountMaps, Record
<1>2. CASE new = us
  BY <1>1, <1>2 DEF Ages
<1>3. CASE new = [us EXCEPT ![u].role = role] /\ us[u] # NoUser /\ role \in RoleSet
  <2>1. new[u] = [us[u] EXCEPT !.role = role] /\ \A x \in Users \ {u} : new[x] = us[x]
    BY <1>3 DEF AccountMaps
  <2>2. new[u] \in Record /\ new[u].ver = us[u].ver
    BY <1>1, <1>3, <2>1 DEF Record
  <2>3. new \in AccountMaps
    BY <1>3, <2>2 DEF AccountMaps
  <2>4. QED
    BY <1>1, <1>3, <2>1, <2>2, <2>3 DEF Ages
<1>4. CASE new = [us EXCEPT ![u] = NoUser]
  BY <1>1, <1>4 DEF Ages, AccountMaps
<1>5. QED
  BY <1>2, <1>3, <1>4 DEF StoreSetRole, StoreSetFullName, StoreSetPreferences,
     StoreSetGeoWizardDismissed, StoreDelete, Known

\* The operations that raise the version of an account.
Raises(us, u, new) ==
    /\ Ages(us, new) /\ us[u] # NoUser /\ new[u] \in Record
    /\ new[u].ver = us[u].ver + 1 /\ new[u].role = us[u].role
    /\ \A x \in Users \ {u} : new[x] = us[x]

LEMMA StoreRaises ==
    ASSUME NEW us \in AccountMaps, NEW u \in Users, NEW must \in BOOLEAN, NEW new,
           \/ new \in StoreResetPassword(us, u, must) \/ new \in StoreChangePassword(us, u)
           \/ new \in StoreBumpSessionVersion(us, u)
    PROVE  Raises(us, u, new)
<1>1. us[u] # NoUser
  BY DEF StoreResetPassword, StoreChangePassword, StoreBumpSessionVersion, Known
<1>2. us[u] \in Record /\ us[u].ver \in Nat /\ us[u].ver + 1 \in Nat
      /\ \A x \in Users : us[x] # NoUser => us[x].ver \in Nat
  BY <1>1 DEF AccountMaps, Record
<1>3. PICK k \in Record : new = [us EXCEPT ![u] = k] /\ k.ver = us[u].ver + 1 /\ k.role = us[u].role
  <2>1. CASE new \in StoreResetPassword(us, u, must)
    <3>1. new = [us EXCEPT ![u].must = must, ![u].ver = @ + 1]
      BY <1>1, <2>1 DEF StoreResetPassword, Known
    <3>2. PICK k : k = [us[u] EXCEPT !.must = must, !.ver = us[u].ver + 1]
      OBVIOUS
    <3>3. k \in Record /\ k.ver = us[u].ver + 1 /\ k.role = us[u].role
      BY <1>2, <3>2 DEF Record
    <3>4. new = [us EXCEPT ![u] = k]
      BY <1>2, <3>1, <3>2 DEF AccountMaps, Record
    <3>5. QED
      BY <3>3, <3>4
  <2>2. CASE new \in StoreChangePassword(us, u)
    <3>1. new = [us EXCEPT ![u].must = FALSE, ![u].ver = @ + 1]
      BY <1>1, <2>2 DEF StoreChangePassword, Known
    <3>2. PICK k : k = [us[u] EXCEPT !.must = FALSE, !.ver = us[u].ver + 1]
      OBVIOUS
    <3>3. k \in Record /\ k.ver = us[u].ver + 1 /\ k.role = us[u].role
      BY <1>2, <3>2 DEF Record
    <3>4. new = [us EXCEPT ![u] = k]
      BY <1>2, <3>1, <3>2 DEF AccountMaps, Record
    <3>5. QED
      BY <3>3, <3>4
  <2>3. CASE new \in StoreBumpSessionVersion(us, u)
    <3>1. PICK k : k = [us[u] EXCEPT !.ver = us[u].ver + 1]
      OBVIOUS
    <3>2. k \in Record /\ k.ver = us[u].ver + 1 /\ k.role = us[u].role
      BY <1>2, <3>1 DEF Record
    <3>3. new = [us EXCEPT ![u] = k]
      BY <1>1, <2>3, <3>1 DEF StoreBumpSessionVersion, Known
    <3>4. QED
      BY <3>2, <3>3
  <2>4. QED
    BY <2>1, <2>2, <2>3
<1>4. new \in AccountMaps /\ new[u] = k /\ \A x \in Users \ {u} : new[x] = us[x]
  BY <1>3 DEF AccountMaps
<1>5. Ages(us, new)
  BY <1>1, <1>2, <1>3, <1>4 DEF Ages
<1>6. QED
  BY <1>1, <1>3, <1>4, <1>5 DEF Raises

\* A save of later accounts keeps what was outdated.
LEMMA OutdatedStays ==
    ASSUME RevokeInv, NEW new, Ages(users, new),
           users' \in {users, new}, usersFile' \in {usersFile, new}, UNCHANGED cookies,
           NEW s, Outdated(s, users, usersFile, cookies)
    PROVE  Outdated(s, users', usersFile', cookies')
<1>1. users \in AccountMaps /\ cookies \in Seq(Cookie)
  BY DEF RevokeInv, AccountTypes
<1>2. s \in DOMAIN cookies /\ Past(users, cookies[s]) /\ Past(usersFile, cookies[s])
  BY DEF Outdated
<1>3. cookies[s] \in Cookie
  BY <1>1, <1>2
<1>4. Past(new, cookies[s])
  BY <1>1, <1>2, <1>3, PastAges
<1>5. QED
  BY <1>2, <1>4 DEF Outdated

\* A step that saves the accounts, or fails to.
LEMMA StoreMove ==
    ASSUME RevokeInv, NEW c \in Clients, NEW l, NEW r, Moves(c, l, r), NEW new, Ages(users, new),
           ClientTypes(l, r), Refused(l, r, users', usersFile', cookies, deadSid),
           users' \in {users, new}, usersFile' \in {usersFile, new},
           UNCHANGED <<cookies, deadSid, regVars>>,
           \A s \in deadVer' : s \in deadVer \/ Outdated(s, users', usersFile', cookies)
    PROVE  RevokeInv'
<1>1. KeepsOutdated
  BY OutdatedStays DEF KeepsOutdated
<1>2. \A s \in deadVer' : Outdated(s, users', usersFile', cookies')
  BY OutdatedStays DEF RevokeInv
<1>3. /\ users' \in AccountMaps /\ usersFile' \in AccountMaps /\ cookies' \in Seq(Cookie)
      /\ deadSid' \subseteq DOMAIN cookies' /\ deadSid \subseteq deadSid'
      /\ deadSid' \cap (reg' \cup regFile') = {}
      /\ Refused(l, r, users', usersFile', cookies', deadSid')
  BY DEF RevokeInv, AccountTypes, Ages, Sids, regVars
<1>4. QED
  BY <1>1, <1>2, <1>3, MoveKeeps

\* Sessions that the version of a saved account has outlived are outdated.
LEMMA OutlivedOutdated ==
    ASSUME NEW u, NEW us, us[u] # NoUser, NEW s \in Outlived(u, us[u].ver), cookies \in Seq(Cookie),
           us[u].ver \in Nat
    PROVE  Outdated(s, us, us, cookies) /\ s \in Nat
<1>1. s \in DOMAIN cookies /\ cookies[s].user = u /\ cookies[s].ver < us[u].ver
  BY DEF Outlived, Sids
<1>2. cookies[s] \in Cookie /\ s \in Nat
  BY <1>1
<1>3. cookies[s].ver \in Nat
  BY <1>2 DEF Cookie
<1>4. QED
  BY <1>1, <1>2, <1>3 DEF Outdated, Past

\* The handlers that save what the store made of the accounts.
LEMMA SimpleKeeps ==
    ASSUME RevokeInv, NEW c \in Clients,
           \/ SetRole(c) \/ SetFullName(c) \/ UpdatePreferences(c) \/ DismissGeoWizard(c)
    PROVE  RevokeInv'
<1>1. ClientTypes(pc[c], req[c]) /\ pc[c] = "op" /\ users \in AccountMaps
  BY DEF RevokeInv, AccountTypes, SetRole, SetFullName, UpdatePreferences, DismissGeoWizard, AtOp
<1>2. req[c].target \in Users /\ (req[c].op \in LoginOps => req[c].user \in Users)
  BY <1>1 DEF ClientTypes, AdmittedPlaces, LoginOps, AdminOps
<1>3. PICK new : /\ \/ \E role \in RoleSet : new \in StoreSetRole(users, req[c].target, role)
                    \/ new \in StoreSetFullName(users, req[c].target)
                    \/ req[c].op \in LoginOps /\ new \in StoreSetPreferences(users, req[c].user)
                    \/ req[c].op \in LoginOps /\ new \in StoreSetGeoWizardDismissed(users, req[c].user)
                 /\ users' \in {users, new} /\ usersFile' \in {usersFile, new}
  BY DEF SetRole, SetFullName, UpdatePreferences, DismissGeoWizard, AtOp, Simple, Stays, SaveUsers, LoginOps
<1>4. Ages(users, new)
  BY <1>1, <1>2, <1>3, StoreAges
<1>5. Done(c) /\ UNCHANGED <<regVars, cookies, historyVars>>
  BY DEF SetRole, SetFullName, UpdatePreferences, DismissGeoWizard, Simple
<1>6. Moves(c, "idle", NoReq) /\ UNCHANGED <<regVars, cookies, deadSid, deadVer>>
  BY <1>5 DEF Done, Goto, Moves, historyVars
<1>7. ClientTypes("idle", NoReq) /\ Refused("idle", NoReq, users', usersFile', cookies, deadSid)
  BY IdleRequest
<1>8. QED
  BY <1>3, <1>4, <1>6, <1>7, StoreMove

\* An administrator sets another password: the version goes up.
LEMMA ResetKeeps ==
    ASSUME RevokeInv, NEW c \in Clients, ResetPassword(c)
    PROVE  RevokeInv'
<1>1. ClientTypes(pc[c], req[c]) /\ pc[c] = "op" /\ users \in AccountMaps /\ cookies \in Seq(Cookie)
  BY DEF RevokeInv, AccountTypes, ResetPassword, AtOp
<1>2. PICK u \in Users : u = req[c].target
  BY <1>1 DEF ClientTypes, AdmittedPlaces
<1>3. PICK must \in BOOLEAN, ok \in BOOLEAN : \E new \in StoreResetPassword(users, u, must) :
        /\ users' = new
        /\ usersFile' = IF ok THEN new ELSE usersFile
        /\ deadVer' = deadVer \cup IF ok THEN Outlived(u, new[u].ver) ELSE {}
  BY <1>2 DEF ResetPassword, SaveUsers, Stays
<1>4. PICK new \in StoreResetPassword(users, u, must) :
        /\ users' = new
        /\ usersFile' = IF ok THEN new ELSE usersFile
        /\ deadVer' = deadVer \cup IF ok THEN Outlived(u, new[u].ver) ELSE {}
  BY <1>3
<1>5. Raises(users, u, new)
  BY <1>1, <1>4, StoreRaises
<1>6. new[u] # NoUser /\ new[u].ver \in Nat /\ Ages(users, new)
  BY <1>5, AccountsAssumption DEF Raises, Record
<1>7. \A s \in deadVer' : s \in deadVer \/ Outdated(s, users', usersFile', cookies)
  BY <1>1, <1>4, <1>6, OutlivedOutdated
<1>8. Moves(c, "idle", NoReq) /\ UNCHANGED <<regVars, cookies, deadSid>>
  BY DEF ResetPassword, Done, Goto, Moves
<1>9. ClientTypes("idle", NoReq) /\ Refused("idle", NoReq, users', usersFile', cookies, deadSid)
  BY IdleRequest
<1>10. users' \in {users, new} /\ usersFile' \in {usersFile, new}
  BY <1>4
<1>11. QED
  BY <1>6, <1>7, <1>8, <1>9, <1>10, StoreMove

\* The version goes up, and the rows of the account will go.
LEMMA BumpKeeps ==
    ASSUME RevokeInv, NEW c \in Clients, NEW u \in Users, NEW news, NEW next \in {"rows", "reissue"},
           pc[c] = "op", req[c].op \in SelfOps \cup AdminOps,
           next = "reissue" <=> req[c].op = "changePassword",
           \A new \in news : Raises(users, u, new),
           Bump(c, u, news, next)
    PROVE  RevokeInv'
<1>1. /\ ClientTypes(pc[c], req[c]) /\ users \in AccountMaps /\ cookies \in Seq(Cookie)
      /\ req[c] \in Request /\ Refused(pc[c], req[c], users, usersFile, cookies, deadSid)
  BY DEF RevokeInv, AccountTypes
<1>2. PICK new \in news, ok \in BOOLEAN :
        /\ SaveUsers(new, Stays(new), ok)
        /\ IF ok THEN /\ req' = [req EXCEPT ![c].target = u, ![c].role = new[u].role,
                                             ![c].hit = Outlived(u, new[u].ver)]
                      /\ Goto(c, next)
           ELSE Done(c)
  BY DEF Bump
<1>3. Raises(users, u, new)
  BY <1>2
<1>4. new[u] # NoUser /\ new[u].ver \in Nat /\ new[u].role \in RoleSet /\ Ages(users, new)
  BY <1>3, AccountsAssumption DEF Raises, Record
<1>5. UNCHANGED <<regVars, cookies, deadSid, deadVer>>
  BY DEF Bump, historyVars
<1>6. users' = new /\ usersFile' = IF ok THEN new ELSE usersFile
  BY <1>2 DEF SaveUsers, Stays
<1>7. CASE ~ok
  <2>1. Moves(c, "idle", NoReq)
    BY <1>2, <1>7 DEF Done, Goto, Moves
  <2>2. ClientTypes("idle", NoReq) /\ Refused("idle", NoReq, users', usersFile', cookies, deadSid)
    BY IdleRequest
  <2>3. QED
    BY <1>4, <1>5, <1>6, <2>1, <2>2, StoreMove
<1>8. CASE ok
  <2>1. PICK hit : hit = Outlived(u, new[u].ver)
    OBVIOUS
  <2>2. \A s \in hit : s \in Nat /\ Outdated(s, users', usersFile', cookies)
    BY <1>1, <1>4, <1>6, <1>8, <2>1, OutlivedOutdated
  <2>3. PICK r : r = [req[c] EXCEPT !.target = u, !.role = new[u].role, !.hit = hit]
    OBVIOUS
  <2>4. hit \in SUBSET Nat
    BY <2>2
  <2>5. /\ r \in Request /\ r.target = u /\ r.role = new[u].role /\ r.hit = hit
        /\ r.op = req[c].op /\ r.user = req[c].user /\ r.cookie = req[c].cookie
    BY <1>1, <1>4, <2>3, <2>4 DEF Request
  <2>6. Moves(c, next, r)
    <3>1. Goto(c, next)
      BY <1>2, <1>8
    <3>2. req' = [req EXCEPT ![c] = r]
      BY <1>2, <1>8, <2>1, <2>3 DEF RevokeInv, AccountTypes, Request
    <3>3. QED
      BY <3>1, <3>2 DEF Moves, Goto
  <2>7. ClientTypes(next, r)
    BY <1>1, <1>4, <2>5
       DEF ClientTypes, Places, LoginPlaces, CheckPlaces, AdmittedPlaces, AdminOps
  <2>8. Refused(next, r, users', usersFile', cookies, deadSid)
    BY <2>2, <2>5 DEF Refused, CheckPlaces
  <2>9. QED
    BY <1>4, <1>5, <1>6, <2>6, <2>7, <2>8, StoreMove
<1>9. QED
  BY <1>7, <1>8

\* An account is deleted, its rows go in a step of their own.
LEMMA DeleteKeeps ==
    ASSUME RevokeInv, NEW c \in Clients, Delete(c)
    PROVE  RevokeInv'
<1>1. /\ ClientTypes(pc[c], req[c]) /\ pc[c] = "op" /\ req[c].op = "delete" /\ users \in AccountMaps
      /\ Refused(pc[c], req[c], users, usersFile, cookies, deadSid)
  BY DEF RevokeInv, AccountTypes, Delete, AtOp
<1>2. req[c].target \in Users
  BY <1>1 DEF ClientTypes, AdmittedPlaces
<1>3. PICK new \in StoreDelete(users, req[c].target, req[c].user), ok \in BOOLEAN :
        /\ SaveUsers(new, RolledBack(new), ok)
        /\ IF ok THEN Goto(c, "rows") /\ UNCHANGED req ELSE Done(c)
  BY DEF Delete
<1>4. Ages(users, new)
  BY <1>1, <1>2, <1>3, StoreAges
<1>5. /\ users' \in {users, new} /\ usersFile' \in {usersFile, new}
      /\ UNCHANGED <<regVars, cookies, deadSid, deadVer>>
  BY <1>3 DEF SaveUsers, RolledBack, Delete, historyVars
<1>6. CASE ~ok
  <2>1. Moves(c, "idle", NoReq)
    BY <1>3, <1>6 DEF Done, Goto, Moves
  <2>2. ClientTypes("idle", NoReq) /\ Refused("idle", NoReq, users', usersFile', cookies, deadSid)
    BY IdleRequest
  <2>3. QED
    BY <1>4, <1>5, <2>1, <2>2, StoreMove
<1>7. CASE ok
  <2>1. PICK r : r = req[c]
    OBVIOUS
  <2>2. Moves(c, "rows", r)
    BY <1>3, <1>7, <2>1 DEF Goto, Moves, RevokeInv, AccountTypes
  <2>3. ClientTypes("rows", r)
    BY <1>1, <2>1 DEF ClientTypes, Places, LoginPlaces, CheckPlaces, AdmittedPlaces
  <2>4. \A s \in r.hit : Outdated(s, users, usersFile, cookies)
    BY <1>1, <2>1 DEF Refused
  <2>5. \A s \in r.hit : Outdated(s, users', usersFile', cookies)
    BY <1>4, <1>5, <2>4, OutdatedStays
  <2>6. Refused("rows", r, users', usersFile', cookies, deadSid)
    BY <2>5 DEF Refused, CheckPlaces
  <2>7. QED
    BY <1>4, <1>5, <2>2, <2>3, <2>6, StoreMove
<1>8. QED
  BY <1>6, <1>7

\* A session is registered under a number that no cookie had.
LEMMA RegisterKeeps ==
    ASSUME RevokeInv, NEW c \in Clients, registerSession(c)
    PROVE  RevokeInv'
<1>1. ClientTypes(pc[c], req[c]) /\ pc[c] = "register" /\ cookies \in Seq(Cookie)
  BY DEF RevokeInv, AccountTypes, registerSession
<1>2. PICK k \in Cookie : k = req[c].cookie
  BY <1>1 DEF ClientTypes
<1>3. cookies' = Append(cookies, k)
  BY <1>2 DEF registerSession
<1>4. /\ cookies' \in Seq(Cookie) /\ DOMAIN cookies' = DOMAIN cookies \cup {Len(cookies) + 1}
      /\ \A s \in DOMAIN cookies : cookies'[s] = cookies[s]
      /\ Len(cookies) + 1 \notin DOMAIN cookies
  BY <1>1, <1>2, <1>3
<1>5. UNCHANGED <<users, usersFile, deadSid, deadVer>>
  BY DEF registerSession, storeVars, historyVars
<1>6. KeepsOutdated /\ \A s \in deadVer' : Outdated(s, users', usersFile', cookies')
  BY <1>4, <1>5 DEF KeepsOutdated, Outdated, RevokeInv
<1>7. reg' \subseteq reg \cup {Len(cookies) + 1} /\ regFile' \subseteq reg \cup regFile \cup {Len(cookies) + 1}
  BY DEF registerSession, SaveReg, RegRegister, pruneExpiredLocked
<1>8. /\ deadSid' \cap (reg' \cup regFile') = {} /\ deadSid' \subseteq DOMAIN cookies'
      /\ deadSid \subseteq deadSid' /\ users' \in AccountMaps /\ usersFile' \in AccountMaps
  BY <1>4, <1>5, <1>7 DEF RevokeInv, Sids, AccountTypes
<1>9. /\ Moves(c, "idle", NoReq) /\ ClientTypes("idle", NoReq)
      /\ Refused("idle", NoReq, users', usersFile', cookies', deadSid')
  BY IdleRequest DEF registerSession, Done, Goto, Moves
<1>10. QED
  BY <1>4, <1>6, <1>8, <1>9, MoveKeeps

\* Rows are removed; those whose removal was saved are dead.
LEMMA RowsGone ==
    ASSUME RevokeInv, NEW c \in Clients, NEW l, NEW r, Moves(c, l, r), ClientTypes(l, r),
           Refused(l, r, users, usersFile, cookies, deadSid'),
           UNCHANGED <<storeVars, cookies>>, NEW gone \in SUBSET DOMAIN cookies,
           deadSid' = deadSid \cup gone,
           reg' \subseteq reg \ gone, regFile' \subseteq (reg \cup regFile) \ gone,
           \A s \in deadVer' : Outdated(s, users, usersFile, cookies)
    PROVE  RevokeInv'
<1>1. UNCHANGED <<users, usersFile, cookies>>
  BY DEF storeVars
<1>2. KeepsOutdated /\ \A s \in deadVer' : Outdated(s, users', usersFile', cookies')
  BY <1>1 DEF KeepsOutdated
<1>3. /\ deadSid' \cap (reg' \cup regFile') = {} /\ deadSid' \subseteq DOMAIN cookies'
      /\ deadSid \subseteq deadSid'
      /\ users' \in AccountMaps /\ usersFile' \in AccountMaps /\ cookies' \in Seq(Cookie)
      /\ Refused(l, r, users', usersFile', cookies', deadSid')
  BY <1>1 DEF RevokeInv, Sids, AccountTypes
<1>4. QED
  BY <1>2, <1>3, MoveKeeps

LEMMA RowsKeeps ==
    ASSUME RevokeInv, NEW c \in Clients, RevokeRows(c)
    PROVE  RevokeInv'
<1>1. /\ ClientTypes(pc[c], req[c]) /\ pc[c] = "rows"
      /\ Refused(pc[c], req[c], users, usersFile, cookies, deadSid)
      /\ UNCHANGED <<storeVars, cookies>>
  BY DEF RevokeInv, AccountTypes, RevokeRows
<1>2. PICK owned \in SUBSET DOMAIN cookies, ok \in BOOLEAN :
        /\ \/ RegRevokeUser(reg, owned) = {} /\ ok /\ UNCHANGED <<regVars, faults>>
           \/ \E r \in RegRevokeUser(reg, owned) : SaveReg(r, ok)
        /\ deadSid' = deadSid \cup IF ok THEN owned \cap reg ELSE {}
        /\ deadVer' = deadVer \cup IF ~ok /\ req[c].op = "revokeUser" THEN {} ELSE req[c].hit
  <2>1. {s \in Sids : cookies[s].user = req[c].target} \in SUBSET DOMAIN cookies
    BY DEF Sids
  <2>2. QED
    BY <2>1 DEF RevokeRows
<1>3. PICK gone \in SUBSET DOMAIN cookies : gone = IF ok THEN owned \cap reg ELSE {}
  OBVIOUS
<1>4. /\ deadSid' = deadSid \cup gone
      /\ reg' \subseteq reg \ gone /\ regFile' \subseteq (reg \cup regFile) \ gone
  <2>1. CASE RegRevokeUser(reg, owned) = {} /\ ok /\ UNCHANGED <<regVars, faults>>
    <3>1. reg \cap owned = {}
      BY <2>1 DEF RegRevokeUser
    <3>2. gone = {} /\ UNCHANGED <<reg, regFile>>
      BY <1>3, <2>1, <3>1 DEF regVars
    <3>3. QED
      BY <1>2, <1>3, <3>2
  <2>2. CASE \E r \in RegRevokeUser(reg, owned) : SaveReg(r, ok)
    <3>1. reg' = reg \ owned /\ regFile' = IF ok THEN reg \ owned ELSE regFile
      BY <2>2 DEF RegRevokeUser, SaveReg
    <3>2. QED
      BY <1>2, <1>3, <3>1
  <2>3. QED
    BY <1>2, <2>1, <2>2
<1>5. \A s \in deadVer' : Outdated(s, users, usersFile, cookies)
  BY <1>1, <1>2 DEF Refused, RevokeInv
<1>6. CASE Done(c)
  <2>1. Moves(c, "idle", NoReq)
    BY <1>6 DEF Done, Goto, Moves
  <2>2. ClientTypes("idle", NoReq) /\ Refused("idle", NoReq, users, usersFile, cookies, deadSid')
    BY IdleRequest
  <2>3. QED
    BY <1>1, <1>4, <1>5, <2>1, <2>2, RowsGone
<1>7. CASE req[c].op = "changePassword" /\ Goto(c, "register") /\ UNCHANGED req
  <2>1. PICK r : r = req[c]
    OBVIOUS
  <2>2. Moves(c, "register", r)
    BY <1>7, <2>1 DEF Goto, Moves, RevokeInv, AccountTypes
  <2>3. ClientTypes("register", r)
    BY <1>1, <1>7, <2>1 DEF ClientTypes, Places, LoginPlaces, CheckPlaces, AdmittedPlaces
  <2>4. Refused("register", r, users, usersFile, cookies, deadSid')
    BY <1>1, <2>1 DEF Refused, CheckPlaces
  <2>5. QED
    BY <1>1, <1>4, <1>5, <2>2, <2>3, <2>4, RowsGone
<1>8. QED
  BY <1>6, <1>7 DEF RevokeRows

LEMMA RevokeKeeps ==
    ASSUME RevokeInv, NEW c \in Clients, RevokeSession(c) \/ Logout(c)
    PROVE  RevokeInv'
<1>1. UNCHANGED <<storeVars, cookies>> /\ deadVer' = deadVer
  BY DEF RevokeSession, Logout
<1>2. PICK sid \in DOMAIN cookies : Revoke(sid)
  BY DEF RevokeSession, Logout, Sids
<1>3. PICK ok \in BOOLEAN :
        /\ \/ RegRevoke(reg, sid) = {} /\ ok /\ UNCHANGED <<regVars, faults>>
           \/ \E r \in RegRevoke(reg, sid) : SaveReg(r, ok)
        /\ deadSid' = deadSid \cup IF ok THEN {sid} \cap reg ELSE {}
  BY <1>2 DEF Revoke
<1>4. PICK gone \in SUBSET DOMAIN cookies : gone = IF ok THEN {sid} \cap reg ELSE {}
  OBVIOUS
<1>5. /\ deadSid' = deadSid \cup gone
      /\ reg' \subseteq reg \ gone /\ regFile' \subseteq (reg \cup regFile) \ gone
  <2>1. CASE RegRevoke(reg, sid) = {} /\ ok /\ UNCHANGED <<regVars, faults>>
    <3>1. sid \notin reg
      BY <2>1 DEF RegRevoke
    <3>2. gone = {} /\ UNCHANGED <<reg, regFile>>
      BY <1>4, <2>1, <3>1 DEF regVars
    <3>3. QED
      BY <1>3, <1>4, <3>2
  <2>2. CASE \E r \in RegRevoke(reg, sid) : SaveReg(r, ok)
    <3>1. reg' = reg \ {sid} /\ regFile' = IF ok THEN reg \ {sid} ELSE regFile
      BY <2>2 DEF RegRevoke, SaveReg
    <3>2. QED
      BY <1>3, <1>4, <3>1
  <2>3. QED
    BY <1>3, <2>1, <2>2
<1>6. \A s \in deadVer' : Outdated(s, users, usersFile, cookies)
  BY <1>1 DEF RevokeInv
<1>7. CASE RevokeSession(c)
  <2>1. Moves(c, "idle", NoReq)
    BY <1>7 DEF RevokeSession, Done, Goto, Moves
  <2>2. ClientTypes("idle", NoReq) /\ Refused("idle", NoReq, users, usersFile, cookies, deadSid')
    BY IdleRequest
  <2>3. QED
    BY <1>1, <1>5, <1>6, <2>1, <2>2, RowsGone
<1>8. CASE Logout(c)
  <2>1. PICK l, r : l = pc[c] /\ r = req[c]
    OBVIOUS
  <2>2. Moves(c, l, r)
    BY <1>8, <2>1 DEF Logout, requestVars, Moves, RevokeInv, AccountTypes
  <2>3. ClientTypes(l, r) /\ Refused(l, r, users, usersFile, cookies, deadSid)
    BY <2>1 DEF RevokeInv, AccountTypes
  <2>4. Refused(l, r, users, usersFile, cookies, deadSid')
    BY <1>5, <2>3 DEF Refused
  <2>5. QED
    BY <1>1, <1>5, <1>6, <2>2, <2>3, <2>4, RowsGone
<1>9. QED
  BY <1>7, <1>8

\* An account is created anew: what was reported of its namesake is forgotten.
LEMMA CreateKeeps ==
    ASSUME RevokeInv, NEW c \in Clients, Create(c)
    PROVE  RevokeInv'
<1>1. /\ ClientTypes(pc[c], req[c]) /\ pc[c] = "op" /\ users \in AccountMaps /\ cookies \in Seq(Cookie)
      /\ UNCHANGED <<regVars, cookies, deadSid>> /\ pc' = [pc EXCEPT ![c] = "idle"]
  BY DEF RevokeInv, AccountTypes, Create, AtOp, Goto
<1>2. PICK t \in Users : t = req[c].target
  BY <1>1 DEF ClientTypes, AdmittedPlaces
<1>3. PICK role \in RoleSet, must \in BOOLEAN, ok \in BOOLEAN :
        \E new \in StoreCreate(users, t, role, must) :
           /\ SaveUsers(new, RolledBack(new), ok)
           /\ deadVer' = IF ok THEN {s \in deadVer : cookies[s].user # t} ELSE deadVer
           /\ req' = [d \in Clients |-> IF d = c THEN NoReq
                                        ELSE IF ok THEN Forget(req[d], t) ELSE req[d]]
  BY <1>2 DEF Create
<1>4. CASE ~ok
  <2>1. UNCHANGED <<users, usersFile, deadVer>> /\ req' = [d \in Clients |-> IF d = c THEN NoReq ELSE req[d]]
    BY <1>3, <1>4 DEF SaveUsers, RolledBack
  <2>2. Moves(c, "idle", NoReq)
    BY <1>1, <2>1 DEF Moves, RevokeInv, AccountTypes
  <2>3. ClientTypes("idle", NoReq) /\ Refused("idle", NoReq, users, usersFile, cookies, deadSid)
    BY IdleRequest
  <2>4. QED
    BY <1>1, <2>1, <2>2, <2>3, QuietMove DEF regVars, storeVars, historyVars
<1>5. CASE ok
  <2>1. PICK k : k = [role |-> role, must |-> must, ver |-> 0]
    OBVIOUS
  <2>2. k \in Record
    BY <1>3, <2>1 DEF Record
  <2>3. PICK new : new = [users EXCEPT ![t] = k]
    OBVIOUS
  <2>4. /\ users' = new /\ usersFile' = new
        /\ deadVer' = {s \in deadVer : cookies[s].user # t}
        /\ req' = [d \in Clients |-> IF d = c THEN NoReq ELSE Forget(req[d], t)]
    BY <1>3, <1>5, <2>1, <2>3 DEF StoreCreate, SaveUsers
  <2>5. new \in AccountMaps /\ \A u \in Users \ {t} : new[u] = users[u]
    BY <1>1, <2>2, <2>3 DEF AccountMaps
  <2>6. ASSUME NEW s, Outdated(s, users, usersFile, cookies), cookies[s].user # t
        PROVE  Outdated(s, users', usersFile', cookies')
    <3>1. s \in DOMAIN cookies /\ cookies[s] \in Cookie
      BY <1>1, <2>6 DEF Outdated
    <3>2. cookies[s].user \in Users
      BY <3>1 DEF Cookie
    <3>3. QED
      BY <1>1, <2>4, <2>5, <2>6, <3>1, <3>2 DEF Outdated, Past
  <2>7. ASSUME NEW d \in Clients, d # c
        PROVE  /\ pc'[d] = pc[d] /\ req'[d] \in Request
               /\ req'[d].op = req[d].op /\ req'[d].user = req[d].user /\ req'[d].ip = req[d].ip
               /\ req'[d].sid = req[d].sid /\ req'[d].target = req[d].target
               /\ req'[d].role = req[d].role /\ req'[d].cookie = req[d].cookie
               /\ \A s \in req'[d].hit : s \in req[d].hit /\ cookies[s].user # t
               /\ req'[d].dead => req[d].dead /\ (req[d].user # t \/ req[d].sid \in deadSid)
    <3>1. req[d] \in Request
      BY DEF RevokeInv, AccountTypes
    <3>2. req'[d] = Forget(req[d], t) /\ pc'[d] = pc[d]
      BY <1>1, <2>4, <2>7 DEF RevokeInv, AccountTypes
    <3>3. PICK h \in SUBSET Nat : h = {s \in req[d].hit : cookies[s].user # t}
      BY <3>1 DEF Request
    <3> DEFINE b == req[d].dead /\ (req[d].user # t \/ req[d].sid \in deadSid)
    <3>4. b \in BOOLEAN
      OBVIOUS
    <3>5. req'[d] = [req[d] EXCEPT !.hit = h, !.dead = b]
      BY <3>2, <3>3 DEF Forget
    <3> HIDE DEF b
    <3>6. /\ req'[d] \in Request
          /\ req'[d].op = req[d].op /\ req'[d].user = req[d].user /\ req'[d].ip = req[d].ip
          /\ req'[d].sid = req[d].sid /\ req'[d].target = req[d].target
          /\ req'[d].role = req[d].role /\ req'[d].cookie = req[d].cookie
          /\ req'[d].hit = h /\ req'[d].dead = b
      BY <3>1, <3>4, <3>5 DEF Request
    <3>7. b => req[d].dead /\ (req[d].user # t \/ req[d].sid \in deadSid)
      BY DEF b
    <3>8. QED
      BY <3>2, <3>3, <3>6, <3>7
  <2>8. pc'[c] = "idle" /\ req'[c] = NoReq
    BY <1>1, <2>4 DEF RevokeInv, AccountTypes
  <2>9. \A d \in Clients : ClientTypes(pc'[d], req'[d])
    <3>1. ASSUME NEW d \in Clients, d # c PROVE ClientTypes(pc'[d], req'[d])
      <4>1. ClientTypes(pc[d], req[d])
        BY DEF RevokeInv, AccountTypes
      <4>2. QED
        BY <2>7, <3>1, <4>1 DEF ClientTypes
    <3>2. QED
      BY <2>8, <3>1, IdleRequest
  <2>10. AccountTypes'
    <3>1. pc' \in [Clients -> Places]
      BY <1>1, <2>9 DEF RevokeInv, AccountTypes, ClientTypes
    <3>2. req' \in [Clients -> Request]
      BY <2>4, <2>9 DEF ClientTypes
    <3>3. QED
      BY <1>1, <2>4, <2>5, <2>9, <3>1, <3>2 DEF AccountTypes
  <2>11. \A d \in Clients : Refused(pc'[d], req'[d], users', usersFile', cookies', deadSid')
    <3>1. ASSUME NEW d \in Clients, d # c
          PROVE  Refused(pc'[d], req'[d], users', usersFile', cookies', deadSid')
      <4>1. Refused(pc[d], req[d], users, usersFile, cookies, deadSid)
        BY DEF RevokeInv
      <4>2. \A s \in req'[d].hit : Outdated(s, users', usersFile', cookies')
        BY <2>6, <2>7, <3>1, <4>1 DEF Refused
      <4>3. req'[d].dead => req[d].dead /\ (req[d].user # t \/ req[d].sid \in deadSid)
        BY <2>7, <3>1
      <4>4. QED
        BY <1>1, <2>6, <2>7, <3>1, <4>1, <4>2, <4>3 DEF Refused, CheckPlaces
    <3>2. QED
      BY <2>8, <3>1, IdleRequest
  <2>12. \A s \in deadVer' : Outdated(s, users', usersFile', cookies')
    BY <2>4, <2>6 DEF RevokeInv
  <2>13. QED
    BY <1>1, <2>10, <2>11, <2>12 DEF RevokeInv, Sids, regVars
<1>6. QED
  BY <1>4, <1>5

\* The process starts again with what the files hold.
LEMMA RestartRevoke ==
    ASSUME RevokeInv, Restart
    PROVE  RevokeInv'
<1>1. /\ users' = usersFile /\ reg' \subseteq regFile
      /\ pc' = [c \in Clients |-> "idle"] /\ req' = [c \in Clients |-> NoReq]
      /\ UNCHANGED <<usersFile, regFile, cookies, deadSid, deadVer>>
  BY DEF Restart, RegLoad, historyVars
<1>2. AccountTypes'
  BY <1>1, IdleRequest DEF RevokeInv, AccountTypes, ClientTypes
<1>3. \A s \in deadVer' : Outdated(s, users', usersFile', cookies')
  BY <1>1 DEF RevokeInv, Outdated
<1>4. \A c \in Clients : Refused(pc'[c], req'[c], users', usersFile', cookies', deadSid')
  BY <1>1, IdleRequest
<1>5. QED
  BY <1>1, <1>2, <1>3, <1>4 DEF RevokeInv, Sids

LEMMA StepRevoke ==
    RevokeInv /\ [AccountsNext]_<<now, throttleVars, accountVars>> => RevokeInv'
<1> SUFFICES ASSUME RevokeInv, [AccountsNext]_<<now, throttleVars, accountVars>> PROVE RevokeInv'
  OBVIOUS
<1>1. CASE UNCHANGED accountVars \/ Expire \/ ChangePolicy
  <2>1. UNCHANGED <<users, usersFile, reg, regFile, cookies, pc, req, deadSid, deadVer>>
    BY <1>1 DEF accountVars, Expire, ChangePolicy, storeVars, regVars, requestVars, historyVars
  <2>2. QED
    BY <2>1 DEF RevokeInv, AccountTypes, Sids
<1>2. CASE Clock \/ Monitor
  BY <1>1, <1>2 DEF Clock, Monitor
<1>3. ASSUME NEW c \in Clients, LogoutAll(c) \/ RevokeUserSessions(c) \/ ChangePassword(c)
      PROVE  RevokeInv'
  <2>1. ClientTypes(pc[c], req[c]) /\ pc[c] = "op" /\ users \in AccountMaps
    BY <1>3 DEF RevokeInv, AccountTypes, LogoutAll, RevokeUserSessions, ChangePassword, AtOp
  <2>2. req[c].target \in Users /\ (req[c].op \notin AdminOps => req[c].user \in Users)
    BY <2>1 DEF ClientTypes, AdmittedPlaces
  <2>3. CASE LogoutAll(c)
    <3>1. req[c].op = "logoutAll" /\ req[c].op \in SelfOps /\ req[c].user \in Users
      BY <2>2, <2>3 DEF LogoutAll, AtOp, SelfOps, AdminOps
    <3>2. \A new \in StoreBumpSessionVersion(users, req[c].user) : Raises(users, req[c].user, new)
      BY <2>1, <3>1, StoreRaises
    <3>3. QED
      BY <2>1, <2>3, <3>1, <3>2, BumpKeeps DEF LogoutAll
  <2>4. CASE RevokeUserSessions(c)
    <3>1. req[c].op = "revokeUser" /\ req[c].op \in AdminOps
      BY <2>4 DEF RevokeUserSessions, AtOp, AdminOps
    <3>2. \A new \in StoreBumpSessionVersion(users, req[c].target) : Raises(users, req[c].target, new)
      BY <2>1, <2>2, StoreRaises
    <3>3. QED
      BY <2>1, <2>2, <2>4, <3>1, <3>2, BumpKeeps DEF RevokeUserSessions
  <2>5. CASE ChangePassword(c)
    <3>1. req[c].op = "changePassword" /\ req[c].op \in SelfOps /\ req[c].user \in Users
      BY <2>2, <2>5 DEF ChangePassword, AtOp, SelfOps, AdminOps
    <3>2. \A new \in StoreChangePassword(users, req[c].user) : Raises(users, req[c].user, new)
      BY <2>1, <3>1, StoreRaises
    <3>3. QED
      BY <2>1, <2>5, <3>1, <3>2, BumpKeeps DEF ChangePassword
  <2>6. QED
    BY <1>3, <2>3, <2>4, <2>5
<1>4. ASSUME NEW c \in Clients, Step(c) PROVE RevokeInv'
  BY <1>3, <1>4, LoginKeeps, BeginRequest, CheckKeeps, AdmitKeeps, CreateKeeps, SimpleKeeps, ResetKeeps,
     RegisterKeeps, RowsKeeps, RevokeKeeps, DeleteKeeps DEF Step
<1>5. QED
  BY <1>1, <1>2, <1>4, RestartRevoke DEF AccountsNext

LEMMA InitRevoke == AccountsInit => RevokeInv /\ AdminInv
<1> SUFFICES ASSUME AccountsInit PROVE RevokeInv /\ AdminInv
  OBVIOUS
<1>1. users \in AccountMaps /\ usersFile \in AccountMaps
  BY AccountsAssumption DEF AccountsInit, OpenOrSeed, SeedUsersFromEnv, AccountMaps, Record, RoleSet
<1>2. cookies = << >> /\ cookies \in Seq(Cookie)
  BY DEF AccountsInit
<1>3. /\ pc = [c \in Clients |-> "idle"] /\ req = [c \in Clients |-> NoReq]
      /\ reg = {} /\ regFile = {} /\ deadSid = {} /\ deadVer = {}
  BY DEF AccountsInit
<1>4. AccountTypes
  BY <1>1, <1>2, <1>3, IdleRequest DEF AccountTypes, ClientTypes
<1>5. RevokeInv
  BY <1>3, <1>4, IdleRequest DEF RevokeInv
<1>6. /\ users[Admin] = [role |-> "administrator", must |-> AdminMustReset, ver |-> 0]
      /\ usersFile = users /\ Admin \in Users
  BY AccountsAssumption DEF AccountsInit, OpenOrSeed, SeedUsersFromEnv
<1>7. users[Admin] \in Record /\ users[Admin].role = "administrator"
  BY <1>6, AccountsAssumption DEF Record, RoleSet
<1>8. AdminInv
  BY <1>6, <1>7, AccountsAssumption DEF AdminInv, AnAdmin
<1>9. QED
  BY <1>5, <1>8

\* Sessions: however requests, failed saves and restarts interleave, no request
\* that begins after its session was reported as revoked gets past the checks.
THEOREM RevokedSessionsRefused == AccountsSpec => []RevokedIsRefused
<1>1. AccountsInit => RevokeInv
  BY InitRevoke
<1>2. RevokeInv /\ [AccountsNext]_<<now, throttleVars, accountVars>> => RevokeInv'
  BY StepRevoke
<1>3. RevokeInv => RevokedIsRefused
  BY DEF RevokeInv, Refused, RevokedIsRefused
<1>4. QED
  BY <1>1, <1>2, <1>3, PTL DEF AccountsSpec

\* Where more than one administrator is, another one remains.
LEMMA AnotherAdmin ==
    ASSUME NEW us \in AccountMaps, NEW u \in Users, AnAdmin(us), us[u] # NoUser, ~LastAdmin(us, u)
    PROVE  \E x \in Users \ {u} : us[x] # NoUser /\ us[x].role = "administrator"
<1>1. CASE us[u].role # "administrator"
  BY <1>1 DEF AnAdmin
<1>2. CASE us[u].role = "administrator"
  <2> DEFINE A == {x \in Users : us[x] # NoUser /\ us[x].role = "administrator"}
  <2>1. adminCountUnlocked(us) = Cardinality(A)
    BY DEF adminCountUnlocked, Known, AccountMaps
  <2>2. IsFiniteSet(A)
    BY ThrottleAssumption, FS_Subset
  <2>3. Cardinality(A) \in Nat
    BY <2>2, FS_CardinalityType
  <2>4. Cardinality({u}) = 1
    BY FS_Singleton
  <2>5. A # {u}
    BY <1>2, <2>1, <2>3, <2>4 DEF LastAdmin
  <2>6. QED
    BY <1>2, <2>5
<1>3. QED
  BY <1>1, <1>2

\* The count that the store works with.
LEMMA AdminCounted ==
    ASSUME NEW us \in AccountMaps, AnAdmin(us)
    PROVE  adminCountUnlocked(us) > 0
<1> DEFINE A == {x \in Users : us[x] # NoUser /\ us[x].role = "administrator"}
<1>1. adminCountUnlocked(us) = Cardinality(A)
  BY DEF adminCountUnlocked, Known, AccountMaps
<1>2. IsFiniteSet(A) /\ A # {}
  BY ThrottleAssumption, FS_Subset DEF AnAdmin
<1>3. Cardinality(A) \in Nat /\ Cardinality(A) # 0
  BY <1>2, FS_CardinalityType, FS_EmptySet
<1>4. QED
  BY <1>1, <1>3

\* Every operation of the user store leaves an administrator.
LEMMA StoreLeavesAdmin ==
    ASSUME NEW us \in AccountMaps, AnAdmin(us), NEW u \in Users, NEW role, NEW must \in BOOLEAN, NEW actor,
           NEW new,
           \/ role \in RoleSet /\ new \in StoreCreate(us, u, role, must)
           \/ role \in RoleSet /\ new \in StoreSetRole(us, u, role)
           \/ new \in StoreSetFullName(us, u)
           \/ new \in StoreSetPreferences(us, u) \/ new \in StoreSetGeoWizardDismissed(us, u)
           \/ new \in StoreResetPassword(us, u, must) \/ new \in StoreChangePassword(us, u)
           \/ new \in StoreBumpSessionVersion(us, u)
           \/ new \in StoreDelete(us, u, actor)
    PROVE  AnAdmin(new)
<1>1. CASE new = us
  BY <1>1
<1>2. CASE new \in StoreCreate(us, u, role, must)
  <2>1. us[u] = NoUser /\ \A x \in Users \ {u} : new[x] = us[x]
    BY <1>2 DEF StoreCreate, Known, AccountMaps
  <2>2. QED
    BY <2>1 DEF AnAdmin
<1>3. CASE role \in RoleSet /\ new \in StoreSetRole(us, u, role)
  <2>1. /\ us[u] # NoUser /\ us[u] \in Record /\ new[u] = [us[u] EXCEPT !.role = role]
        /\ \A x \in Users \ {u} : new[x] = us[x]
        /\ role = "administrator" \/ ~LastAdmin(us, u)
    BY <1>3 DEF StoreSetRole, Known, AccountMaps
  <2>2. new[u] \in Record /\ new[u].role = role
    BY <1>3, <2>1 DEF Record
  <2>3. new[u] # NoUser
    BY <2>2, AccountsAssumption
  <2>4. CASE role = "administrator"
    BY <2>2, <2>3, <2>4 DEF AnAdmin
  <2>5. CASE ~LastAdmin(us, u)
    <3>1. PICK x \in Users \ {u} : us[x] # NoUser /\ us[x].role = "administrator"
      BY <2>1, <2>5, AnotherAdmin
    <3>2. QED
      BY <2>1, <3>1 DEF AnAdmin
  <2>6. QED
    BY <2>1, <2>4, <2>5
<1>4. CASE new \in StoreResetPassword(us, u, must) \cup StoreChangePassword(us, u) \cup StoreBumpSessionVersion(us, u)
  <2>1. Raises(us, u, new)
    BY <1>4, StoreRaises
  <2>2. new[u] # NoUser /\ new[u].role = us[u].role /\ \A x \in Users \ {u} : new[x] = us[x]
    BY <2>1, AccountsAssumption DEF Raises
  <2>3. QED
    BY <2>2 DEF AnAdmin
<1>5. CASE new \in StoreDelete(us, u, actor)
  <2>1. us[u] # NoUser /\ ~LastAdmin(us, u) /\ \A x \in Users \ {u} : new[x] = us[x]
    BY <1>5 DEF StoreDelete, Known, AccountMaps
  <2>2. QED
    BY <2>1, AnotherAdmin DEF AnAdmin
<1>6. QED
  BY <1>1, <1>2, <1>3, <1>4, <1>5 DEF StoreSetFullName, StoreSetPreferences, StoreSetGeoWizardDismissed

\* A save, whatever becomes of it.
LEMMA SaveLeavesAdmin ==
    ASSUME AdminInv, NEW new, AnAdmin(new), users' \in {users, new}, usersFile' \in {usersFile, new}
    PROVE  AdminInv'
BY DEF AdminInv, AnAdmin

LEMMA StepAdmin ==
    ASSUME RevokeInv, AdminInv, [AccountsNext]_<<now, throttleVars, accountVars>>
    PROVE  AdminInv'
<1>1. CASE UNCHANGED storeVars
  BY <1>1 DEF storeVars, AdminInv, AnAdmin
<1>2. CASE Restart
  BY <1>2 DEF Restart, AdminInv, AnAdmin
<1>3. ASSUME NEW c \in Clients,
             \/ Create(c) \/ SetRole(c) \/ SetFullName(c) \/ UpdatePreferences(c) \/ DismissGeoWizard(c)
             \/ ResetPassword(c) \/ LogoutAll(c) \/ RevokeUserSessions(c) \/ ChangePassword(c) \/ Delete(c)
      PROVE  AdminInv'
  <2>1. ClientTypes(pc[c], req[c]) /\ pc[c] = "op" /\ users \in AccountMaps /\ AnAdmin(users)
    BY <1>3 DEF RevokeInv, AccountTypes, AdminInv, Create, SetRole, SetFullName, UpdatePreferences,
       DismissGeoWizard, ResetPassword, LogoutAll, RevokeUserSessions, ChangePassword, Delete, AtOp
  <2>2. req[c].target \in Users /\ (req[c].op \notin AdminOps => req[c].user \in Users)
    BY <2>1 DEF ClientTypes, AdmittedPlaces
  <2>3. CASE Create(c)
    <3>1. PICK role \in RoleSet, must \in BOOLEAN : \E new \in StoreCreate(users, req[c].target, role, must) :
             users' \in {users, new} /\ usersFile' \in {usersFile, new}
      BY <2>3 DEF Create, SaveUsers, RolledBack
    <3>2. QED
      BY <2>1, <2>2, <3>1, StoreLeavesAdmin, SaveLeavesAdmin
  <2>4. CASE SetRole(c)
    <3>1. PICK role \in RoleSet : \E new \in StoreSetRole(users, req[c].target, role) :
             users' \in {users, new} /\ usersFile' \in {usersFile, new}
      BY <2>4 DEF SetRole, Simple, Stays, SaveUsers
    <3>2. QED
      BY <2>1, <2>2, <3>1, StoreLeavesAdmin, SaveLeavesAdmin
  <2>5. CASE SetFullName(c)
    <3>1. PICK new \in StoreSetFullName(users, req[c].target) :
             users' \in {users, new} /\ usersFile' \in {usersFile, new}
      BY <2>5 DEF SetFullName, Simple, Stays, SaveUsers
    <3>2. QED
      BY <2>1, <2>2, <3>1, StoreLeavesAdmin, SaveLeavesAdmin
  <2>6. CASE UpdatePreferences(c) \/ DismissGeoWizard(c)
    <3>1. req[c].op \notin AdminOps
      BY <2>6 DEF UpdatePreferences, DismissGeoWizard, AtOp, AdminOps
    <3>2. PICK new : /\ \/ new \in StoreSetPreferences(users, req[c].user)
                        \/ new \in StoreSetGeoWizardDismissed(users, req[c].user)
                     /\ users' \in {users, new} /\ usersFile' \in {usersFile, new}
      BY <2>6 DEF UpdatePreferences, DismissGeoWizard, Simple, Stays, SaveUsers
    <3>3. QED
      BY <2>1, <2>2, <3>1, <3>2, StoreLeavesAdmin, SaveLeavesAdmin
  <2>7. CASE ResetPassword(c)
    <3>1. PICK must \in BOOLEAN : \E new \in StoreResetPassword(users, req[c].target, must) :
             users' \in {users, new} /\ usersFile' \in {usersFile, new}
      BY <2>7 DEF ResetPassword, Stays, SaveUsers
    <3>2. QED
      BY <2>1, <2>2, <3>1, StoreLeavesAdmin, SaveLeavesAdmin
  <2>8. CASE LogoutAll(c) \/ ChangePassword(c)
    <3>1. req[c].op \notin AdminOps
      BY <2>8 DEF LogoutAll, ChangePassword, AtOp, AdminOps
    <3>2. PICK new : /\ \/ new \in StoreBumpSessionVersion(users, req[c].user)
                        \/ new \in StoreChangePassword(users, req[c].user)
                     /\ users' \in {users, new} /\ usersFile' \in {usersFile, new}
      BY <2>8 DEF LogoutAll, ChangePassword, Bump, Stays, SaveUsers
    <3>3. QED
      BY <2>1, <2>2, <3>1, <3>2, StoreLeavesAdmin, SaveLeavesAdmin
  <2>9. CASE RevokeUserSessions(c)
    <3>1. PICK new \in StoreBumpSessionVersion(users, req[c].target) :
             users' \in {users, new} /\ usersFile' \in {usersFile, new}
      BY <2>9 DEF RevokeUserSessions, Bump, Stays, SaveUsers
    <3>2. QED
      BY <2>1, <2>2, <3>1, StoreLeavesAdmin, SaveLeavesAdmin
  <2>10. CASE Delete(c)
    <3>1. PICK new \in StoreDelete(users, req[c].target, req[c].user) :
             users' \in {users, new} /\ usersFile' \in {usersFile, new}
      BY <2>10 DEF Delete, RolledBack, SaveUsers
    <3>2. QED
      BY <2>1, <2>2, <3>1, StoreLeavesAdmin, SaveLeavesAdmin
  <2>11. QED
    BY <1>3, <2>3, <2>4, <2>5, <2>6, <2>7, <2>8, <2>9, <2>10
<1>4. CASE UNCHANGED <<now, throttleVars, accountVars>> \/ Expire \/ Clock \/ Monitor \/ ChangePolicy
  BY <1>1, <1>4 DEF accountVars, Expire, Clock, Monitor, ChangePolicy
<1>5. ASSUME NEW c \in Clients, Step(c), ~UNCHANGED storeVars
      PROVE  \/ Create(c) \/ SetRole(c) \/ SetFullName(c) \/ UpdatePreferences(c) \/ DismissGeoWizard(c)
             \/ ResetPassword(c) \/ LogoutAll(c) \/ RevokeUserSessions(c) \/ ChangePassword(c) \/ Delete(c)
  BY <1>5 DEF Step, LoginBegin, LoginAllow, LoginPassword, LoginFailed, LoginSuccess, registerSession,
     CookieBegin, BearerBegin, LiveGet, LiveVersion, Has, Touch, Gate, Reauth, Answer, Refuse, Reissue,
     RevokeRows, RevokeSession, Logout, ReadOnly
<1>6. QED
  BY <1>1, <1>2, <1>3, <1>4, <1>5 DEF AccountsNext

\* The user store: there is always an administrator in memory and in the file
\* that a restart loads, whatever saves fail between the two.
THEOREM AnAdminRemains == AccountsSpec => []AdminRemains
<1>1. AccountsInit => RevokeInv /\ AdminInv
  BY InitRevoke
<1>2. RevokeInv /\ AdminInv /\ [AccountsNext]_<<now, throttleVars, accountVars>> => RevokeInv' /\ AdminInv'
  BY StepRevoke, StepAdmin
<1>3. RevokeInv /\ AdminInv => AdminRemains
  BY AdminCounted DEF RevokeInv, AccountTypes, AdminInv, AdminRemains
<1>4. QED
  BY <1>1, <1>2, <1>3, PTL DEF AccountsSpec

-----------------------------------------------------------------------------
(* The login limiter *)

LEMMA GuessersFinite ==
    ASSUME NEW u
    PROVE  /\ IsFiniteSet(Guessing(u)) /\ Cardinality(Guessing(u)) \in Nat
           /\ Cardinality(Guessing(u)) <= Cardinality(Clients) /\ Cardinality(Clients) \in Nat
<1>1. Guessing(u) \subseteq Clients
  BY DEF Guessing
<1>2. QED
  BY <1>1, AccountsAssumption, FS_Subset, FS_CardinalityType

\* One failure more.
LEMMA BumpedBucket ==
    ASSUME ThrottleTypes, NEW b \in Bucket \cup {NoBucket}, NEW k, k = bumpBucket(b)
    PROVE  /\ k \in Bucket
           /\ \/ k.fails = 1
              \/ b # NoBucket /\ k.fails = b.fails + 1
<1>1. /\ now \in Nat /\ now \in 1 .. MaxTime /\ policy.lockout \in Nat /\ policy.maxFails \in Nat
  BY ThrottleAssumption DEF ThrottleTypes
<1>2. CASE b = NoBucket \/ Stale(b)
  BY <1>1, <1>2 DEF bumpBucket, Bucket
<1>3. CASE ~(b = NoBucket \/ Stale(b))
  <2>1. b \in Bucket /\ b.fails + 1 \in Nat /\ b.lockedUntil \in Nat
    BY <1>3 DEF Bucket
  <2>2. PICK until \in Nat : until = IF b.fails + 1 >= policy.maxFails THEN now + policy.lockout ELSE b.lockedUntil
    BY <1>1, <2>1
  <2>3. k = [b EXCEPT !.fails = b.fails + 1, !.lockedUntil = until]
    BY <1>3, <2>2 DEF bumpBucket
  <2>4. QED
    BY <1>3, <2>1, <2>3 DEF Bucket
<1>4. QED
  BY <1>2, <1>3

\* Neither the rejected passwords of an account nor the number of requests
\* that may add to them grow.
LEMMA GuessesStay ==
    ASSUME GuessInv, ThrottleTypes', \A u \in Users : Tally(userAttempts'[u], passed'[u]),
           \A u \in Users : passed'[u] <= passed[u] /\ Guessing(u)' \subseteq Guessing(u)
    PROVE  GuessInv'
<1>1. ASSUME NEW u \in Users, NEW m \in Nat, \A p \in Policies : p.maxFails <= m
      PROVE  passed'[u] + Cardinality(Guessing(u)') < m + Cardinality(Clients)
  <2>1. passed[u] \in Nat /\ passed'[u] \in Nat
    BY DEF GuessInv, ThrottleTypes
  <2>2. passed[u] + Cardinality(Guessing(u)) < m + Cardinality(Clients)
    BY <1>1 DEF GuessInv
  <2>3. /\ IsFiniteSet(Guessing(u)) /\ Cardinality(Guessing(u)) \in Nat /\ Cardinality(Clients) \in Nat
    BY GuessersFinite
  <2>4. Cardinality(Guessing(u)') <= Cardinality(Guessing(u)) /\ Cardinality(Guessing(u)') \in Nat
    BY <2>3, FS_Subset, FS_CardinalityType
  <2>5. QED
    BY <2>1, <2>2, <2>3, <2>4
<1>2. QED
  BY <1>1 DEF GuessInv

\* No request begins to look at a password.
NoNewGuess ==
    \A d \in Clients : pc'[d] \in {"password", "wrong"} =>
        pc[d] \in {"password", "wrong"} /\ req'[d].user = req[d].user

\* A step that leaves the limiter alone.
LEMMA LimiterAlone ==
    ASSUME GuessInv, NoNewGuess, UNCHANGED <<userAttempts, passed>>,
           now' \in 1 .. MaxTime, policy' \in Policies
    PROVE  GuessInv'
<1>1. ThrottleTypes'
  BY DEF GuessInv, ThrottleTypes
<1>2. \A u \in Users : Guessing(u)' \subseteq Guessing(u)
  BY DEF NoNewGuess, Guessing
<1>3. \A u \in Users : Tally(userAttempts'[u], passed'[u]) /\ passed'[u] <= passed[u]
  BY DEF GuessInv, ThrottleTypes
<1>4. QED
  BY <1>1, <1>2, <1>3, GuessesStay


\* The request of c goes elsewhere than to the password, the others stay.
Elsewhere(c) ==
    /\ \E l \in Places \ {"password", "wrong"} : pc' = [pc EXCEPT ![c] = l]
    /\ \A d \in Clients \ {c} : req'[d].user = req[d].user

LEMMA DoneElsewhere ==
    ASSUME AccountTypes, NEW c \in Clients, Done(c)
    PROVE  Elsewhere(c)
BY DEF Done, Goto, Elsewhere, Places, AccountTypes

LEMMA GotoElsewhere ==
    ASSUME AccountTypes, NEW c \in Clients, NEW l, Goto(c, l),
           l \in {"register", "get", "version", "has", "touch", "gate", "reauth", "op", "reissue", "rows", "allow", "success"},
           UNCHANGED req \/ \E r : req' = [req EXCEPT ![c] = r]
    PROVE  Elsewhere(c)
<1>1. l \in Places \ {"password", "wrong"}
  BY DEF Places, LoginPlaces, CheckPlaces, AdmittedPlaces
<1>2. \A d \in Clients \ {c} : req'[d].user = req[d].user
  BY DEF AccountTypes
<1>3. QED
  BY <1>1, <1>2 DEF Goto, Elsewhere

\* Only Allow lets a request look at a password.
LEMMA OthersGuessNot ==
    ASSUME AccountTypes, NEW c \in Clients, Step(c), ~LoginAllow(c)
    PROVE  NoNewGuess
<1>1. pc \in [Clients -> Places] /\ req \in [Clients -> Request]
  BY DEF AccountTypes
<1>2. ASSUME Elsewhere(c) PROVE NoNewGuess
  BY <1>1, <1>2 DEF Elsewhere, NoNewGuess
<1>3. CASE LoginBegin(c) \/ CookieBegin(c) \/ BearerBegin(c)
  BY <1>2, <1>3, GotoElsewhere DEF LoginBegin, CookieBegin, BearerBegin
<1>4. CASE LoginPassword(c)
  <2>1. CASE Goto(c, "wrong") /\ UNCHANGED req
    BY <1>1, <1>4, <2>1 DEF LoginPassword, Goto, NoNewGuess
  <2>2. CASE Goto(c, "success") /\ \E r : req' = [req EXCEPT ![c] = r]
    BY <1>2, <2>2, GotoElsewhere
  <2>3. QED
    BY <1>4, <2>1, <2>2 DEF LoginPassword
<1>5. CASE LoginSuccess(c)
  BY <1>2, <1>5, GotoElsewhere DEF LoginSuccess
<1>6. CASE LiveGet(c) \/ LiveVersion(c) \/ Has(c)
  BY <1>2, <1>6, GotoElsewhere, DoneElsewhere DEF LiveGet, LiveVersion, Has
<1>7. CASE Touch(c) \/ Gate(c) \/ Reauth(c)
  BY <1>2, <1>7, GotoElsewhere, DoneElsewhere DEF Touch, Gate, Reauth
<1>8. CASE Create(c)
  <2>1. PICK ok \in BOOLEAN : req' = [d \in Clients |->
              IF d = c THEN NoReq ELSE IF ok THEN Forget(req[d], req[c].target) ELSE req[d]]
    BY <1>8 DEF Create
  <2>2. ASSUME NEW d \in Clients \ {c} PROVE req'[d].user = req[d].user
    <3>1. req'[d] = req[d] \/ req'[d] = Forget(req[d], req[c].target)
      BY <2>1
    <3>2. PICK h : h = {s \in req[d].hit : cookies[s].user # req[c].target}
      OBVIOUS
    <3> DEFINE b == req[d].dead /\ (req[d].user # req[c].target \/ req[d].sid \in deadSid)
    <3>3. Forget(req[d], req[c].target) = [req[d] EXCEPT !.hit = h, !.dead = b]
      BY <3>2 DEF Forget
    <3> HIDE DEF b
    <3>4. req[d] \in Request
      BY <1>1
    <3>5. Forget(req[d], req[c].target).user = req[d].user
      BY <3>3, <3>4 DEF Request
    <3>6. QED
      BY <3>1, <3>5
  <2>3. pc' = [pc EXCEPT ![c] = "idle"] /\ "idle" \in Places
    BY <1>8 DEF Create, Goto, Places
  <2>4. QED
    BY <1>2, <2>2, <2>3 DEF Elsewhere
<1>9. CASE \/ LoginFailed(c) \/ registerSession(c) \/ Answer(c) \/ Refuse(c) \/ SetRole(c) \/ SetFullName(c)
           \/ UpdatePreferences(c) \/ DismissGeoWizard(c) \/ ResetPassword(c) \/ RevokeSession(c)
  BY <1>2, <1>9, DoneElsewhere DEF LoginFailed, registerSession, Answer, Refuse, SetRole, SetFullName,
     UpdatePreferences, DismissGeoWizard, ResetPassword, RevokeSession, Simple
<1>10. CASE LogoutAll(c) \/ RevokeUserSessions(c) \/ ChangePassword(c)
  <2>1. CASE Done(c)
    BY <1>2, <2>1, DoneElsewhere
  <2>2. ASSUME NEW l \in {"rows", "reissue"}, Goto(c, l), \E r : req' = [req EXCEPT ![c] = r]
        PROVE  NoNewGuess
    BY <1>2, <2>2, GotoElsewhere
  <2>3. ASSUME NEW u, NEW news, NEW l \in {"rows", "reissue"}, Bump(c, u, news, l)
        PROVE  NoNewGuess
    <3>1. PICK new, ok : IF ok THEN /\ req' = [req EXCEPT ![c].target = u, ![c].role = new[u].role,
                                                          ![c].hit = Outlived(u, new[u].ver)]
                                    /\ Goto(c, l)
                         ELSE Done(c)
      BY <2>3 DEF Bump
    <3>2. PICK r : r = [req[c] EXCEPT !.target = u, !.role = new[u].role, !.hit = Outlived(u, new[u].ver)]
      OBVIOUS
    <3>3. Done(c) \/ (Goto(c, l) /\ req' = [req EXCEPT ![c] = r])
      BY <1>1, <3>1, <3>2 DEF Request
    <3>4. QED
      BY <2>1, <2>2, <3>3
  <2>4. QED
    BY <1>10, <2>3 DEF LogoutAll, RevokeUserSessions, ChangePassword
<1>11. CASE Reissue(c) \/ RevokeRows(c) \/ Delete(c)
  BY <1>2, <1>11, GotoElsewhere, DoneElsewhere DEF Reissue, RevokeRows, Delete
<1>12. CASE Logout(c)
  BY <1>12 DEF Logout, requestVars, NoNewGuess
<1>13. QED
  BY <1>3, <1>4, <1>5, <1>6, <1>7, <1>8, <1>9, <1>10, <1>11, <1>12 DEF Step

\* Allow drops buckets whose window is over, and keeps the others.
LEMMA AllowBuckets ==
    ASSUME GuessInv, NEW ip, NEW u \in Users, NEW yes \in BOOLEAN, Allow(ip, u, yes)
    PROVE  /\ ThrottleTypes'
           /\ \A x \in Users : Tally(userAttempts'[x], passed'[x]) /\ passed'[x] <= passed[x]
           /\ yes => passed'[u] < policy.maxFails
<1>1. /\ userAttempts \in [Users -> Bucket \cup {NoBucket}] /\ passed \in [Users -> Nat]
      /\ policy.maxFails \in Nat \ {0} /\ UNCHANGED <<now, policy>>
      /\ \A x \in Users : Tally(userAttempts[x], passed[x])
  BY ThrottleAssumption DEF GuessInv, ThrottleTypes, Allow
<1>2. PICK b : b = gcLocked(userAttempts)
  OBVIOUS
<1>3. b \in [Users -> Bucket \cup {NoBucket}] /\ \A x \in Users : b[x] \in {userAttempts[x], NoBucket}
  <2>1. CASE b = userAttempts
    BY <1>1, <2>1
  <2>2. CASE b = [k \in DOMAIN userAttempts |->
                    IF userAttempts[k] # NoBucket /\ now > userAttempts[k].lockedUntil /\ Stale(userAttempts[k])
                    THEN NoBucket ELSE userAttempts[k]]
    BY <1>1, <2>2
  <2>3. QED
    BY <1>2, <2>1, <2>2 DEF gcLocked
<1>4. PICK ipOK \in BOOLEAN :
        /\ yes = (ipOK /\ bucketAllows(b[u]))
        /\ userAttempts' = IF ipOK THEN [b EXCEPT ![u] = Refresh(b[u])] ELSE b
        /\ passed' = [x \in Users |-> IF userAttempts'[x] = NoBucket THEN 0 ELSE passed[x]]
  <2> DEFINE yesIP == bucketAllows(gcLocked(attempts)[ip])
  <2>1. yesIP \in BOOLEAN
    BY DEF bucketAllows
  <2>2. /\ yes = (yesIP /\ bucketAllows(b[u]))
        /\ userAttempts' = IF yesIP THEN [b EXCEPT ![u] = Refresh(b[u])] ELSE b
        /\ passed' = [x \in Users |-> IF userAttempts'[x] = NoBucket THEN 0 ELSE passed[x]]
    BY <1>2, <1>3 DEF Allow
  <2> HIDE DEF yesIP
  <2>3. QED
    BY <2>1, <2>2
<1>5. Refresh(b[u]) \in {b[u], NoBucket}
  BY DEF Refresh
<1>6. /\ userAttempts' \in [Users -> Bucket \cup {NoBucket}]
      /\ \A x \in Users : userAttempts'[x] \in {userAttempts[x], NoBucket}
  BY <1>1, <1>3, <1>4, <1>5
<1>7. /\ passed' \in [Users -> Nat]
      /\ \A x \in Users : passed'[x] = IF userAttempts'[x] = NoBucket THEN 0 ELSE passed[x]
  BY <1>1, <1>4
<1>8. ThrottleTypes'
  BY <1>1, <1>6, <1>7 DEF GuessInv, ThrottleTypes
<1>9. \A x \in Users : Tally(userAttempts'[x], passed'[x]) /\ passed'[x] <= passed[x]
  BY <1>1, <1>6, <1>7 DEF Tally
<1>10. ASSUME yes PROVE passed'[u] < policy.maxFails
  <2>1. bucketAllows(b[u]) /\ userAttempts' = [b EXCEPT ![u] = Refresh(b[u])]
    BY <1>4, <1>10
  <2>2. userAttempts'[u] = Refresh(b[u])
    BY <1>3, <2>1
  <2>3. CASE b[u] = NoBucket \/ (~Locked(b[u]) /\ Stale(b[u]))
    <3>1. userAttempts'[u] = NoBucket
      BY <2>2, <2>3 DEF Refresh
    <3>2. QED
      BY <1>1, <1>7, <3>1
  <2>4. CASE b[u] # NoBucket /\ ~Stale(b[u]) /\ b[u].fails < policy.maxFails
    <3>1. userAttempts'[u] = b[u] /\ b[u] = userAttempts[u]
      BY <1>3, <2>2, <2>4 DEF Refresh
    <3>2. passed[u] <= userAttempts[u].fails /\ userAttempts[u].fails \in Nat /\ passed[u] \in Nat
      BY <1>1, <2>4, <3>1 DEF Tally, Bucket
    <3>3. QED
      BY <1>1, <1>7, <2>4, <3>1, <3>2
  <2>5. QED
    BY <2>1, <2>3, <2>4 DEF bucketAllows
<1>11. QED
  BY <1>8, <1>9, <1>10

\* Allow lets a request through only below the limit.
LEMMA AllowBounded ==
    ASSUME AccountTypes, GuessInv, NEW c \in Clients, LoginAllow(c)
    PROVE  GuessInv'
<1>1. pc[c] = "allow" /\ ClientTypes(pc[c], req[c]) /\ UNCHANGED req /\ pc \in [Clients -> Places]
  BY DEF LoginAllow, AccountTypes
<1>2. PICK u \in Users : u = req[c].user
  BY <1>1 DEF ClientTypes, LoginPlaces
<1>3. PICK yes \in BOOLEAN : Allow(req[c].ip, u, yes) /\ pc' = [pc EXCEPT ![c] = IF yes THEN "password" ELSE "throttled"]
  BY <1>2 DEF LoginAllow, Goto
<1>4. /\ ThrottleTypes'
      /\ \A x \in Users : Tally(userAttempts'[x], passed'[x]) /\ passed'[x] <= passed[x]
      /\ yes => passed'[u] < policy.maxFails
  BY <1>3, AllowBuckets
<1>5. CASE ~yes
  <2>1. \A x \in Users : Guessing(x)' \subseteq Guessing(x)
    BY <1>1, <1>3, <1>5 DEF Guessing
  <2>2. QED
    BY <1>4, <2>1, GuessesStay
<1>6. CASE yes
  <2>1. \A x \in Users \ {u} : Guessing(x)' \subseteq Guessing(x)
    BY <1>1, <1>2, <1>3 DEF Guessing
  <2>2. ASSUME NEW x \in Users, NEW m \in Nat, \A p \in Policies : p.maxFails <= m
        PROVE  passed'[x] + Cardinality(Guessing(x)') < m + Cardinality(Clients)
    <3>1. passed[x] \in Nat /\ passed'[x] \in Nat /\ passed'[x] <= passed[x]
      BY <1>4 DEF GuessInv, ThrottleTypes
    <3>2. /\ IsFiniteSet(Guessing(x)) /\ Cardinality(Guessing(x)) \in Nat /\ Cardinality(Clients) \in Nat
      BY GuessersFinite
    <3>3. CASE x # u
      <4>1. passed[x] + Cardinality(Guessing(x)) < m + Cardinality(Clients)
        BY <2>2 DEF GuessInv
      <4>2. Cardinality(Guessing(x)') <= Cardinality(Guessing(x)) /\ Cardinality(Guessing(x)') \in Nat
        BY <2>1, <3>2, <3>3, FS_Subset, FS_CardinalityType
      <4>3. QED
        BY <3>1, <3>2, <4>1, <4>2
    <3>4. CASE x = u
      <4>1. Guessing(x)' \subseteq Clients
        BY DEF Guessing
      <4>2. Cardinality(Guessing(x)') <= Cardinality(Clients) /\ Cardinality(Guessing(x)') \in Nat
        BY <4>1, AccountsAssumption, FS_Subset, FS_CardinalityType
      <4>3. policy.maxFails <= m /\ policy.maxFails \in Nat
        BY <2>2, ThrottleAssumption DEF GuessInv, ThrottleTypes
      <4>4. QED
        BY <1>4, <1>6, <3>1, <3>2, <3>4, <4>2, <4>3
    <3>5. QED
      BY <3>3, <3>4
  <2>3. QED
    BY <1>4, <2>2 DEF GuessInv
<1>7. QED
  BY <1>5, <1>6

\* A rejected password is one more, and one request fewer to reject.
LEMMA FailedBounded ==
    ASSUME AccountTypes, GuessInv, NEW c \in Clients, LoginFailed(c)
    PROVE  GuessInv'
<1>1. /\ pc[c] \in {"throttled", "wrong"} /\ ClientTypes(pc[c], req[c]) /\ pc \in [Clients -> Places]
      /\ req \in [Clients -> Request] /\ Done(c)
  BY DEF LoginFailed, AccountTypes
<1>2. PICK u \in Users : u = req[c].user
  BY <1>1 DEF ClientTypes, LoginPlaces
<1>3. PICK n \in {0, 1} : n = IF pc[c] = "wrong" THEN 1 ELSE 0
  OBVIOUS
<1>4. RecordFailure(req[c].ip, u, n)
  BY <1>2, <1>3 DEF LoginFailed
<1>5. /\ userAttempts \in [Users -> Bucket \cup {NoBucket}] /\ passed \in [Users -> Nat]
      /\ UNCHANGED <<now, policy>> /\ Tally(userAttempts[u], passed[u])
  BY <1>4 DEF GuessInv, ThrottleTypes, RecordFailure
<1>6. PICK k : k = bumpBucket(userAttempts[u])
  OBVIOUS
<1>7. k \in Bucket /\ (k.fails = 1 \/ (userAttempts[u] # NoBucket /\ k.fails = userAttempts[u].fails + 1))
  BY <1>5, <1>6, BumpedBucket DEF GuessInv
<1>8. /\ userAttempts' = [userAttempts EXCEPT ![u] = k]
      /\ passed' = [passed EXCEPT ![u] = IF userAttempts'[u].fails = 1 THEN n ELSE @ + n]
  BY <1>4, <1>6 DEF RecordFailure
<1>9. /\ userAttempts'[u] = k /\ passed'[u] = IF k.fails = 1 THEN n ELSE passed[u] + n
      /\ passed[u] \in Nat /\ passed'[u] \in Nat /\ passed'[u] <= passed[u] + n
      /\ \A x \in Users \ {u} : userAttempts'[x] = userAttempts[x] /\ passed'[x] = passed[x]
  BY <1>5, <1>8
<1>10. ThrottleTypes'
  BY <1>5, <1>7, <1>8, <1>9 DEF GuessInv, ThrottleTypes
<1>11. k # NoBucket /\ k.fails \in Nat
  BY <1>7, ThrottleAssumption DEF Bucket
<1>12. Tally(k, passed'[u])
  BY <1>5, <1>7, <1>9, <1>11 DEF Tally, Bucket
<1>13. \A x \in Users : Tally(userAttempts'[x], passed'[x])
  BY <1>9, <1>12 DEF GuessInv
<1>14. \A x \in Users : Guessing(x)' \subseteq Guessing(x) \ {c}
  BY <1>1 DEF Guessing, Done, Goto
<1>15. ASSUME NEW x \in Users, NEW m \in Nat, \A p \in Policies : p.maxFails <= m
       PROVE  passed'[x] + Cardinality(Guessing(x)') < m + Cardinality(Clients)
  <2>1. passed[x] \in Nat /\ passed'[x] \in Nat
    BY <1>10 DEF GuessInv, ThrottleTypes
  <2>2. /\ IsFiniteSet(Guessing(x)) /\ Cardinality(Guessing(x)) \in Nat /\ Cardinality(Clients) \in Nat
    BY GuessersFinite
  <2>3. passed[x] + Cardinality(Guessing(x)) < m + Cardinality(Clients)
    BY <1>15 DEF GuessInv
  <2>4. Cardinality(Guessing(x)') <= Cardinality(Guessing(x)) /\ Cardinality(Guessing(x)') \in Nat
    BY <1>14, <2>2, FS_Subset, FS_CardinalityType
  <2>5. CASE x = u /\ pc[c] = "wrong"
    <3>1. c \in Guessing(x)
      BY <1>2, <2>5 DEF Guessing
    <3>2. Cardinality(Guessing(x) \ {c}) = Cardinality(Guessing(x)) - 1 /\ IsFiniteSet(Guessing(x) \ {c})
      BY <2>2, <3>1, FS_RemoveElement
    <3>3. Cardinality(Guessing(x)') <= Cardinality(Guessing(x) \ {c})
      BY <1>14, <3>2, FS_Subset
    <3>4. QED
      BY <1>9, <2>1, <2>2, <2>3, <2>4, <2>5, <3>2, <3>3
  <2>6. CASE ~(x = u /\ pc[c] = "wrong")
    <3>1. passed'[x] <= passed[x]
      BY <1>3, <1>9, <2>1, <2>6
    <3>2. QED
      BY <2>1, <2>2, <2>3, <2>4, <3>1
  <2>7. QED
    BY <2>5, <2>6
<1>16. QED
  BY <1>10, <1>13, <1>15 DEF GuessInv

LEMMA StepGuess ==
    ASSUME AccountTypes, GuessInv, [AccountsNext]_<<now, throttleVars, accountVars>>
    PROVE  GuessInv'
<1>1. /\ userAttempts \in [Users -> Bucket \cup {NoBucket}] /\ passed \in [Users -> Nat]
      /\ now \in 1 .. MaxTime /\ policy \in Policies
      /\ \A u \in Users : Tally(userAttempts[u], passed[u])
  BY DEF GuessInv, ThrottleTypes
<1>2. ASSUME NEW c \in Clients, LoginSuccess(c) PROVE GuessInv'
  <2>1. PICK u \in Users : u = req[c].user
    BY <1>2 DEF AccountTypes, LoginSuccess, ClientTypes, LoginPlaces
  <2>2. /\ userAttempts' = [userAttempts EXCEPT ![u] = NoBucket] /\ passed' = [passed EXCEPT ![u] = 0]
        /\ UNCHANGED <<now, policy>>
    BY <1>2, <2>1 DEF LoginSuccess, RecordSuccess
  <2>3. ThrottleTypes'
    BY <1>1, <2>2 DEF ThrottleTypes
  <2>4. \A x \in Users : Tally(userAttempts'[x], passed'[x]) /\ passed'[x] <= passed[x]
    BY <1>1, <2>2 DEF Tally
  <2>5. ~LoginAllow(c)
    BY <1>2 DEF LoginSuccess, LoginAllow
  <2>6. NoNewGuess
    BY <1>2, <2>5, OthersGuessNot DEF Step
  <2>7. \A x \in Users : Guessing(x)' \subseteq Guessing(x)
    BY <2>6 DEF NoNewGuess, Guessing
  <2>8. QED
    BY <2>3, <2>4, <2>7, GuessesStay
<1>3. ASSUME NEW c \in Clients, Step(c), ~LoginAllow(c), ~LoginFailed(c), ~LoginSuccess(c)
      PROVE  GuessInv'
  <2>1. NoNewGuess
    BY <1>3, OthersGuessNot
  <2>2. UNCHANGED <<now, throttleVars>>
    <3>1. CASE \/ LoginBegin(c) \/ LoginPassword(c) \/ registerSession(c) \/ CookieBegin(c) \/ BearerBegin(c)
               \/ LiveGet(c) \/ LiveVersion(c) \/ Has(c) \/ Touch(c) \/ Gate(c) \/ Reauth(c) \/ Answer(c)
               \/ Refuse(c) \/ Reissue(c)
      BY <3>1 DEF LoginBegin, LoginPassword, registerSession, CookieBegin, BearerBegin, LiveGet, LiveVersion,
         Has, Touch, Gate, Reauth, Answer, Refuse, Reissue, ReadOnly
    <3>2. CASE \/ Create(c) \/ SetRole(c) \/ SetFullName(c) \/ UpdatePreferences(c) \/ DismissGeoWizard(c)
               \/ ResetPassword(c) \/ LogoutAll(c) \/ RevokeUserSessions(c) \/ ChangePassword(c)
      BY <3>2 DEF Create, SetRole, SetFullName, UpdatePreferences, DismissGeoWizard, ResetPassword,
         LogoutAll, RevokeUserSessions, ChangePassword, Simple, Bump
    <3>3. CASE RevokeRows(c) \/ RevokeSession(c) \/ Logout(c) \/ Delete(c)
      BY <3>3 DEF RevokeRows, RevokeSession, Logout, Delete
    <3>4. QED
      BY <1>3, <3>1, <3>2, <3>3 DEF Step
  <2>3. QED
    BY <1>1, <2>1, <2>2, LimiterAlone DEF throttleVars
<1>4. CASE Restart
  <2>1. /\ userAttempts' = [u \in Users |-> NoBucket] /\ passed' = [u \in Users |-> 0]
        /\ UNCHANGED <<now, policy>> /\ pc' = [c \in Clients |-> "idle"]
    BY <1>4 DEF Restart, ThrottleRestart
  <2>2. ThrottleTypes' /\ \A u \in Users : Tally(userAttempts'[u], passed'[u]) /\ passed'[u] <= passed[u]
    BY <1>1, <2>1 DEF ThrottleTypes, Tally
  <2>3. \A u \in Users : Guessing(u)' \subseteq Guessing(u)
    BY <2>1 DEF Guessing
  <2>4. QED
    BY <2>2, <2>3, GuessesStay
<1>5. CASE UNCHANGED <<now, throttleVars, accountVars>> \/ Expire \/ Clock \/ Monitor \/ ChangePolicy
  <2>1. UNCHANGED <<userAttempts, passed, pc, req>> /\ policy' \in Policies
    BY <1>1, <1>5 DEF throttleVars, accountVars, Expire, Clock, Monitor, ChangePolicy, Tick,
       SnapshotFailures, SetPolicy, requestVars
  <2>2. now' = now \/ (now < MaxTime /\ now' = now + 1)
    BY <1>5 DEF Expire, Clock, Monitor, ChangePolicy, Tick, SnapshotFailures, SetPolicy
  <2>3. now' \in 1 .. MaxTime
    BY <1>1, <2>2, ThrottleAssumption
  <2>4. NoNewGuess
    BY <2>1 DEF NoNewGuess
  <2>5. QED
    BY <2>1, <2>3, <2>4, LimiterAlone
<1>6. QED
  BY <1>2, <1>3, <1>4, <1>5, AllowBounded, FailedBounded DEF AccountsNext

\* The login limiter: requests that pass Allow together overshoot the limit of
\* an account by less than their number, under every policy and interleaving.
THEOREM GuessesAreBounded == AccountsSpec => []GuessesBounded
<1>1. AccountsInit => RevokeInv /\ GuessInv
  <2> SUFFICES ASSUME AccountsInit PROVE GuessInv
    BY InitRevoke
  <2>1. /\ now = 1 /\ policy \in Policies /\ userAttempts = [u \in Users |-> NoBucket]
        /\ passed = [u \in Users |-> 0] /\ pc = [c \in Clients |-> "idle"]
    BY DEF AccountsInit, ThrottleInit
  <2>2. ThrottleTypes /\ \A u \in Users : Tally(userAttempts[u], passed[u])
    BY <2>1, ThrottleAssumption DEF ThrottleTypes, Tally
  <2>3. \A u \in Users : Guessing(u) = {} /\ passed[u] = 0
    BY <2>1 DEF Guessing
  <2>4. ASSUME NEW m \in Nat, \A p \in Policies : p.maxFails <= m PROVE m > 0
    BY <2>1, <2>4, ThrottleAssumption
  <2>5. Cardinality({}) = 0 /\ Cardinality(Clients) \in Nat
    BY FS_EmptySet, FS_CardinalityType, AccountsAssumption
  <2>6. QED
    BY <2>2, <2>3, <2>4, <2>5 DEF GuessInv
<1>2. RevokeInv /\ GuessInv /\ [AccountsNext]_<<now, throttleVars, accountVars>> => RevokeInv' /\ GuessInv'
  BY StepRevoke, StepGuess DEF RevokeInv
<1>3. GuessInv => GuessesBounded
  <2> SUFFICES ASSUME GuessInv, NEW u \in Users, NEW m \in {p.maxFails : p \in Policies},
                      \A p \in Policies : p.maxFails <= m
               PROVE  passed[u] < m + Cardinality(Clients)
    BY DEF GuessesBounded
  <2>1. m \in Nat
    BY ThrottleAssumption
  <2>2. passed[u] + Cardinality(Guessing(u)) < m + Cardinality(Clients)
    BY <2>1 DEF GuessInv
  <2>3. Cardinality(Guessing(u)) \in Nat /\ passed[u] \in Nat /\ Cardinality(Clients) \in Nat
    BY GuessersFinite DEF GuessInv, ThrottleTypes
  <2>4. QED
    BY <2>1, <2>2, <2>3
<1>4. QED
  BY <1>1, <1>2, <1>3, PTL DEF AccountsSpec
=============================================================================
