---------------------------- MODULE LoginThrottle ----------------------------
(***************************************************************************)
(* The login limiter (adapter/httpapi/loginthrottle/limiter.go): one       *)
(* bucket of failures per address and one per account, a sliding window, a *)
(* lock after too many failures, and the summary of failed logins that the *)
(* monitoring page shows.  Each operation holds the limiter's mutex, so    *)
(* each is one step; what interleaves is the sequence Allow, password      *)
(* check, RecordFailure of several requests (module Accounts).             *)
(*                                                                         *)
(* Time is a clock that starts at 1; a time of 0 stands for Go's zero time.*)
(***************************************************************************)
EXTENDS Integers, FiniteSets

CONSTANTS
    IPs,            \* client addresses
    Users,          \* account names in lower case, existing or not
    Policies,       \* the policies an administrator may set
    GcThreshold,    \* the 1024 of gcLocked
    Retain,         \* how long a failed login stays in the summary
    MaxAudit,       \* entries of the summary
    MaxTime,        \* bound of the model: last value of the clock
    NoBucket

Bucket == [fails : Nat, windowAt : 1..MaxTime, lockedUntil : Nat]

ASSUME ThrottleAssumption ==
    /\ IsFiniteSet(IPs) /\ IsFiniteSet(Users)
    /\ \A p \in Policies : p \in [maxFails : Nat \ {0}, window : Nat, lockout : Nat]
    /\ {GcThreshold, Retain, MaxAudit, MaxTime} \subseteq Nat \ {0}
    /\ NoBucket \notin Bucket

VARIABLES
    now,            \* time.Now()
    policy,         \* maxFails, window and lockout
    attempts,       \* l.attempts
    userAttempts,   \* l.userAttempts
    failures,       \* l.failures: time of the last failure of a pair, 0 when absent
    passed          \* history: rejected passwords in an account's current bucket

throttleVars == <<policy, attempts, userAttempts, failures, passed>>

Pairs == Users \X IPs

ThrottleInit ==
    /\ now = 1
    /\ policy \in Policies
    /\ attempts = [i \in IPs |-> NoBucket]
    /\ userAttempts = [u \in Users |-> NoBucket]
    /\ failures = [p \in Pairs |-> 0]
    /\ passed = [u \in Users |-> 0]

-----------------------------------------------------------------------------
Stale(b) == now - b.windowAt > policy.window

Locked(b) == b # NoBucket /\ now < b.lockedUntil

bucketAllowsOpen(b) == b = NoBucket \/ Stale(b) \/ b.fails <= policy.maxFails

bucketAllows(b) ==
    b = NoBucket \/ (~Locked(b) /\ (Stale(b) \/ b.fails < policy.maxFails))

bumpBucket(b) ==
    IF b = NoBucket \/ Stale(b)
    THEN [fails |-> 1, windowAt |-> now, lockedUntil |-> 0]
    ELSE [b EXCEPT !.fails = @ + 1,
                   !.lockedUntil = IF b.fails + 1 >= policy.maxFails
                                   THEN now + policy.lockout ELSE @]

\* The bucket that Allow leaves behind: one whose window is over is deleted.
Refresh(b) == IF b # NoBucket /\ ~Locked(b) /\ Stale(b) THEN NoBucket ELSE b

gcLocked(m) ==
    IF Cardinality({k \in DOMAIN m : m[k] # NoBucket}) < GcThreshold THEN m
    ELSE [k \in DOMAIN m |->
            IF m[k] # NoBucket /\ now > m[k].lockedUntil /\ Stale(m[k])
            THEN NoBucket ELSE m[k]]

\* The summary keeps the MaxAudit most recent pairs; among equally old ones the
\* sort is not stable, so any may go.
trimAuditLocked(f) ==
    LET recent == {p \in Pairs : f[p] # 0 /\ now - f[p] <= Retain}
        kept   == {K \in SUBSET recent :
                     /\ Cardinality(K) = IF Cardinality(recent) <= MaxAudit
                                         THEN Cardinality(recent) ELSE MaxAudit
                     /\ \A p \in K, q \in recent \ K : f[q] <= f[p]}
    IN {[p \in Pairs |-> IF p \in K THEN f[p] ELSE 0] : K \in kept}

-----------------------------------------------------------------------------
(* The address is looked at first; a refused address leaves the account's  *)
(* bucket as it was.                                                       *)
Allow(ip, u, yes) ==
    LET a == gcLocked(attempts)
        b == gcLocked(userAttempts)
        ipOK == bucketAllows(a[ip])
    IN /\ yes = (ipOK /\ bucketAllows(b[u]))
       /\ attempts' = [a EXCEPT ![ip] = Refresh(@)]
       /\ userAttempts' = IF ipOK THEN [b EXCEPT ![u] = Refresh(@)] ELSE b
       /\ passed' = [x \in Users |-> IF userAttempts'[x] = NoBucket THEN 0 ELSE passed[x]]
       /\ UNCHANGED <<now, policy, failures>>

(* n is 1 when a password was rejected and 0 when Allow refused to look.   *)
RecordFailure(ip, u, n) ==
    /\ attempts' = [attempts EXCEPT ![ip] = bumpBucket(@)]
    /\ userAttempts' = [userAttempts EXCEPT ![u] = bumpBucket(@)]
    /\ failures' \in trimAuditLocked([failures EXCEPT ![<<u, ip>>] = now])
    /\ passed' = [passed EXCEPT ![u] =
                    IF userAttempts'[u].fails = 1 THEN n ELSE @ + n]
    /\ UNCHANGED <<now, policy>>

RecordSuccess(ip, u) ==
    /\ attempts' = [attempts EXCEPT ![ip] = NoBucket]
    /\ userAttempts' = [userAttempts EXCEPT ![u] = NoBucket]
    /\ passed' = [passed EXCEPT ![u] = 0]
    /\ UNCHANGED <<now, policy, failures>>

(* The summary of the monitoring page drops what is too old.               *)
SnapshotFailures ==
    /\ failures' \in trimAuditLocked(failures)
    /\ UNCHANGED <<now, policy, attempts, userAttempts, passed>>

SetPolicy(p) ==
    /\ policy' = p
    /\ UNCHANGED <<now, attempts, userAttempts, failures, passed>>

Tick ==
    /\ now < MaxTime
    /\ now' = now + 1
    /\ UNCHANGED throttleVars

(* A new process starts with empty maps.                                   *)
ThrottleRestart(p) ==
    /\ policy' = p
    /\ attempts' = [i \in IPs |-> NoBucket]
    /\ userAttempts' = [u \in Users |-> NoBucket]
    /\ failures' = [q \in Pairs |-> 0]
    /\ passed' = [u \in Users |-> 0]
    /\ UNCHANGED now
=============================================================================
