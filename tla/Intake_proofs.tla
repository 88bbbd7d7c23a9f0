----------------------------- MODULE Intake_proofs -----------------------------
(***************************************************************************)
(* What stands at the two ends of the ingest pipeline.                     *)
(* The byte accounting of the ingest queue, for any number of lines of any *)
(* length, any depth and byte limit and any number of callers and workers. *)
(* The window of the circuit breaker, for any number of workers, any       *)
(* threshold and cooldown, and with no bound on how often they race.       *)
(* The end of Service.Run, for any number of listeners and peers.          *)
(* The lines of a connection, for any frames a peer may write.             *)
(***************************************************************************)
EXTENDS IngestQueue, CircuitBreaker, Connections, TLAPS, FiniteSetTheorems,
        FunctionTheorems, SequenceTheorems, WellFoundedInduction

-----------------------------------------------------------------------------
(* Numbers *)

\* A set of naturals that has an element has a least one.
LEMMA LeastNumber ==
    ASSUME NEW T \in SUBSET Nat, NEW n \in T
    PROVE  \E m \in T : \A k \in T : m <= k
<1> DEFINE U == {1 .. k : k \in {t \in T : t <= n}}
<1> DEFINE R == StrictSubsetOrdering(1 .. n)
<1>1. IsWellFoundedOn(R, SUBSET (1 .. n))
  <2>1. IsFiniteSet(1 .. n)
    BY FS_Interval
  <2> QED
    BY <2>1, FS_StrictSubsetOrderingWellFounded, FS_FiniteSubsetsOfFinite, Zenon
<1>2. U \subseteq SUBSET (1 .. n) /\ U # {}
  OBVIOUS
<1>3. PICK x \in U : \A y \in U : <<y, x>> \notin R
  <2> HIDE DEF U, R
  <2> QED
    BY <1>1, <1>2, WFMin, Zenon
<1>4. PICK m \in T : m <= n /\ x = 1 .. m
  BY <1>3
<1>5. ASSUME NEW k \in T, k < m
      PROVE  FALSE
  <2>1. 1 .. k \in U
    BY <1>4, <1>5
  <2>2. 1 .. k \subseteq 1 .. m /\ 1 .. k # 1 .. m
    <3>1. m \in 1 .. m /\ m \notin 1 .. k
      BY <1>5
    <3> QED
      BY <1>5, <3>1
  <2>3. 1 .. k \in SUBSET (1 .. n) /\ 1 .. m \in SUBSET (1 .. n)
    BY <1>4, <1>5
  <2>4. <<1 .. k, 1 .. m>> \in R
    BY <2>2, <2>3 DEF StrictSubsetOrdering
  <2> QED
    BY <2>1, <2>4, <1>3, <1>4
<1> QED
  BY <1>5

\* What holds of zero and of the next of every number it holds of, holds of all.
LEMMA NatInd ==
    ASSUME NEW S, 0 \in S, \A n \in Nat : n \in S => n + 1 \in S
    PROVE  Nat \subseteq S
<1>1. SUFFICES ASSUME NEW n \in Nat, n \notin S PROVE FALSE
  OBVIOUS
<1> DEFINE T == {k \in Nat : k \notin S}
<1>2. PICK m \in T : \A k \in T : m <= k
  <2>1. T \in SUBSET Nat /\ n \in T
    BY <1>1
  <2> HIDE DEF T
  <2> QED BY <2>1, LeastNumber
<1>3. m # 0 /\ m - 1 \in Nat
  OBVIOUS
<1>4. m - 1 \in S
  BY <1>2, <1>3
<1> QED
  BY <1>3, <1>4

\* A function over 0 .. n that is defined by what it was one before exists.
StaysIn(n, S, F) == \A i \in 1 .. n, v \in S : F[<<i, v>>] \in S
Recursive(g, n, base, F) == \A i \in 0 .. n : g[i] = IF i = 0 THEN base ELSE F[<<i, g[i - 1]>>]

LEMMA RecursionExists ==
    ASSUME NEW n \in Nat, NEW S, NEW base \in S, NEW F, StaysIn(n, S, F)
    PROVE  \E g \in [0 .. n -> S] : Recursive(g, n, base, F)
<1>1. \A i \in 1 .. n, v \in S : F[<<i, v>>] \in S
  BY DEF StaysIn
<1> DEFINE Upto(k) == \E g \in [0 .. k -> S] : \A i \in 0 .. k : g[i] = IF i = 0 THEN base ELSE F[<<i, g[i - 1]>>]
<1> DEFINE T == {k \in Nat : k <= n => Upto(k)}
<1>2. 0 \in T
  <2> DEFINE g == [i \in 0 .. 0 |-> base]
  <2>1. g \in [0 .. 0 -> S] /\ \A i \in 0 .. 0 : g[i] = IF i = 0 THEN base ELSE F[<<i, g[i - 1]>>]
    OBVIOUS
  <2>2. QED
    BY <2>1
<1>3. ASSUME NEW k \in Nat, k \in T
      PROVE  k + 1 \in T
  <2> SUFFICES ASSUME k + 1 <= n
               PROVE  Upto(k + 1)
    OBVIOUS
  <2>1. PICK g \in [0 .. k -> S] : \A i \in 0 .. k : g[i] = IF i = 0 THEN base ELSE F[<<i, g[i - 1]>>]
    BY <1>3
  <2> DEFINE h == [i \in 0 .. k + 1 |-> IF i = k + 1 THEN F[<<k + 1, g[k]>>] ELSE g[i]]
  <2>2. F[<<k + 1, g[k]>>] \in S
    <3>1. g[k] \in S /\ k + 1 \in 1 .. n
      OBVIOUS
    <3>2. QED
      BY <1>1, <3>1
  <2>3. h \in [0 .. k + 1 -> S]
    BY <2>2
  <2>4. \A i \in 0 .. k + 1 : h[i] = IF i = 0 THEN base ELSE F[<<i, h[i - 1]>>]
    <3> SUFFICES ASSUME NEW i \in 0 .. k + 1
                 PROVE  h[i] = IF i = 0 THEN base ELSE F[<<i, h[i - 1]>>]
      OBVIOUS
    <3>1. CASE i = k + 1
      <4>1. h[i] = F[<<i, g[k]>>] /\ h[i - 1] = g[k] /\ i # 0
        BY <3>1
      <4>2. QED
        BY <4>1
    <3>2. CASE i \in 0 .. k
      <4>1. h[i] = g[i] /\ (i # 0 => i - 1 \in 0 .. k /\ h[i - 1] = g[i - 1])
        BY <3>2
      <4>2. g[i] = IF i = 0 THEN base ELSE F[<<i, g[i - 1]>>]
        BY <2>1, <3>2
      <4>3. QED
        BY <4>1, <4>2
    <3>3. QED
      BY <3>1, <3>2
  <2>5. QED
    BY <2>3, <2>4
<1>4. Nat \subseteq T
  <2> HIDE DEF T
  <2> QED
    BY <1>2, <1>3, NatInd
<1>5. QED
  BY <1>4 DEF Recursive

-----------------------------------------------------------------------------
(* The queue *)

\* The bytes of one line.
Cells(l) == {l} \X (1 .. Size(l))

\* A line has as many bytes as its length says.
LEMMA CellsCardinality ==
    ASSUME NEW l \in Lines
    PROVE  IsFiniteSet(Cells(l)) /\ Cardinality(Cells(l)) = Size(l)
<1>1. Size(l) \in Nat
  BY QueueAssumption
<1>2. IsFiniteSet(1 .. Size(l)) /\ Cardinality(1 .. Size(l)) = Size(l)
  BY <1>1, FS_Interval
<1>3. IsFiniteSet({l}) /\ Cardinality({l}) = 1
  BY FS_Singleton
<1>4. /\ IsFiniteSet({l} \X (1 .. Size(l)))
      /\ Cardinality({l} \X (1 .. Size(l))) = 1 * Size(l)
  BY <1>2, <1>3, FS_Product
<1>5. QED
  BY <1>1, <1>4 DEF Cells

\* A set of lines has finitely many bytes.
LEMMA BytesFinite ==
    ASSUME NEW S \in SUBSET Lines
    PROVE  IsFiniteSet(Bytes(S))
<1> DEFINE T == {Cells(l) : l \in S}
           f == [l \in S |-> Cells(l)]
<1>1. IsFiniteSet(S)
  BY QueueAssumption, FS_Subset
<1>2. f \in Surjection(S, T)
  BY DEF Surjection
<1>3. IsFiniteSet(T)
  BY <1>1, <1>2, FS_Surjection
<1>4. \A t \in T : IsFiniteSet(t)
  BY CellsCardinality
<1>5. IsFiniteSet(UNION T)
  BY <1>3, <1>4, FS_UNION
<1>6. QED
  BY <1>5 DEF Bytes, Cells

\* Adding a line to a set of lines adds its length to their total size.
LEMMA TotalSizeAdd ==
    ASSUME NEW S \in SUBSET Lines, NEW l \in Lines, l \notin S
    PROVE  /\ TotalSize(S) \in Nat
           /\ TotalSize(S \cup {l}) = TotalSize(S) + Size(l)
<1>1. IsFiniteSet(Bytes(S)) /\ Cardinality(Bytes(S)) \in Nat
  BY BytesFinite, FS_CardinalityType
<1>2. Bytes(S \cup {l}) = Bytes(S) \cup Cells(l)
  BY DEF Bytes, Cells
<1>3. Bytes(S) \cap Cells(l) = {}
  BY DEF Bytes, Cells
<1>4. Cardinality(Bytes(S) \cap Cells(l)) = 0
  BY <1>3, FS_EmptySet
<1>5. Cardinality(Bytes(S) \cup Cells(l)) = Cardinality(Bytes(S)) + Size(l) - 0
  BY <1>1, <1>4, CellsCardinality, FS_Union
<1>6. Size(l) \in Nat
  BY QueueAssumption
<1>7. TotalSize(S) = Cardinality(Bytes(S)) /\ TotalSize(S \cup {l}) = Cardinality(Bytes(S \cup {l}))
  BY DEF TotalSize
<1>8. Cardinality(Bytes(S \cup {l})) = Cardinality(Bytes(S) \cup Cells(l))
  BY <1>2, Zenon
<1>9. QED
  BY <1>1, <1>5, <1>6, <1>7, <1>8

\* Taking a line out of a set of lines takes its length off their total size.
LEMMA TotalSizeRemove ==
    ASSUME NEW S \in SUBSET Lines, NEW l \in S
    PROVE  /\ TotalSize(S \ {l}) \in Nat
           /\ TotalSize(S \ {l}) = TotalSize(S) - Size(l)
<1>1. /\ TotalSize(S \ {l}) \in Nat
      /\ TotalSize((S \ {l}) \cup {l}) = TotalSize(S \ {l}) + Size(l)
  BY TotalSizeAdd
<1>2. (S \ {l}) \cup {l} = S
  OBVIOUS
<1>3. Size(l) \in Nat
  BY QueueAssumption
<1>4. QED
  BY <1>1, <1>2, <1>3

\* Sending a line that is not in the channel keeps its lines distinct.
LEMMA AppendDistinct ==
    ASSUME NEW s \in Seq(Lines), NEW l \in Lines, Distinct(s), ~Occurs(s, l)
    PROVE  /\ Append(s, l) \in Seq(Lines)
           /\ Len(Append(s, l)) = Len(s) + 1
           /\ Distinct(Append(s, l))
           /\ \A k \in Lines : Occurs(Append(s, l), k) <=> k = l \/ Occurs(s, k)
<1> DEFINE t == Append(s, l)
           n == Len(s)
<1>1. n \in Nat
  BY LenProperties
<1>2. /\ t \in Seq(Lines)
      /\ Len(t) = n + 1
      /\ \A i \in 1 .. n : t[i] = s[i]
      /\ t[n + 1] = l
  BY AppendProperties
<1> HIDE DEF t, n
<1>3. \A i \in 1 .. n : s[i] # l
  BY DEF Occurs, n
<1>4. \A i, j \in 1 .. n : s[i] = s[j] => i = j
  BY DEF Distinct, n
<1>5. \A i \in 1 .. n + 1 : i \in 1 .. n \/ i = n + 1
  BY <1>1
<1>6. ASSUME NEW i \in 1 .. n + 1, NEW j \in 1 .. n + 1, t[i] = t[j]
      PROVE  i = j
  BY <1>2, <1>3, <1>4, <1>5, <1>6
<1>7. Distinct(t)
  BY <1>2, <1>6 DEF Distinct
<1>8. ASSUME NEW k \in Lines
      PROVE  (\E i \in 1 .. n + 1 : t[i] = k) <=> (k = l \/ \E i \in 1 .. n : s[i] = k)
  <2>1. n + 1 \in 1 .. n + 1 /\ \A i \in 1 .. n : i \in 1 .. n + 1
    BY <1>1
  <2>2. QED
    BY <1>2, <1>5, <2>1
<1>9. \A k \in Lines : Occurs(t, k) <=> k = l \/ Occurs(s, k)
  BY <1>2, <1>8 DEF Occurs, n
<1>10. QED
  BY <1>2, <1>7, <1>9 DEF t, n

\* Receiving from the channel takes exactly its first line out.
LEMMA TailDistinct ==
    ASSUME NEW s \in Seq(Lines), s # <<>>, Distinct(s)
    PROVE  /\ Head(s) \in Lines /\ Occurs(s, Head(s))
           /\ Tail(s) \in Seq(Lines)
           /\ Len(Tail(s)) = Len(s) - 1
           /\ Distinct(Tail(s))
           /\ \A k \in Lines : Occurs(Tail(s), k) <=> k # Head(s) /\ Occurs(s, k)
<1> DEFINE t == Tail(s)
           n == Len(s)
           h == Head(s)
<1>1. n \in Nat \ {0}
  BY EmptySeq
<1>2. /\ h \in Lines
      /\ t \in Seq(Lines)
      /\ Len(t) = n - 1
      /\ \A i \in 1 .. n - 1 : t[i] = s[i + 1]
  BY HeadTailProperties
<1>3. h = s[1]
  OBVIOUS
<1> HIDE DEF t, n, h
<1>4. \A i, j \in 1 .. n : s[i] = s[j] => i = j
  BY DEF Distinct, n
<1>5. ASSUME NEW i \in 1 .. n - 1, NEW j \in 1 .. n - 1, t[i] = t[j]
      PROVE  i = j
  <2>1. i + 1 \in 1 .. n /\ j + 1 \in 1 .. n /\ s[i + 1] = s[j + 1]
    BY <1>1, <1>2, <1>5
  <2>2. i + 1 = j + 1
    BY <1>4, <2>1
  <2>3. QED
    BY <1>1, <2>2
<1>6. Distinct(t)
  BY <1>2, <1>5 DEF Distinct
<1>7. Occurs(s, h)
  BY <1>1, <1>3 DEF Occurs, n
<1>8. ASSUME NEW k \in Lines
      PROVE  Occurs(t, k) <=> k # h /\ Occurs(s, k)
  <2>1. ASSUME NEW i \in 1 .. n - 1, t[i] = k
        PROVE  k # h /\ Occurs(s, k)
    <3>1. i + 1 \in 1 .. n /\ s[i + 1] = k /\ i + 1 # 1 /\ 1 \in 1 .. n
      BY <1>1, <1>2, <2>1
    <3>2. QED
      BY <1>3, <1>4, <3>1 DEF Occurs, n
  <2>2. ASSUME NEW i \in 1 .. n, s[i] = k, k # h
        PROVE  Occurs(t, k)
    <3>1. i # 1
      BY <1>3, <2>2
    <3>2. i - 1 \in 1 .. n - 1 /\ (i - 1) + 1 = i
      BY <1>1, <3>1
    <3>3. t[i - 1] = k
      BY <1>2, <2>2, <3>2
    <3>4. QED
      BY <1>2, <3>2, <3>3 DEF Occurs
  <2>3. QED
    BY <1>2, <2>1, <2>2 DEF Occurs, n
<1>9. QED
  BY <1>2, <1>6, <1>7, <1>8 DEF t, n, h

-----------------------------------------------------------------------------
\* A call that is about to swap has checked that its line fits beside the
\* bytes it has loaded.
SwapFits ==
    \A l \in Lines :
        pc[l] = "cas" => cur[l] \in Nat /\ cur[l] + Size(l) <= QueueMaxBytes

QueueInv == TypeOK /\ QueueExact /\ BytesExact /\ BytesBounded /\ SwapFits

\* The accounting is exact at the start: nothing queued, nothing held.
LEMMA InitQueueInv == Init => QueueInv
<1> SUFFICES ASSUME Init PROVE QueueInv
  OBVIOUS
<1>1. Held = {}
  BY DEF Init, Held
<1>2. Bytes({}) = {}
  BY DEF Bytes
<1>3. TotalSize(Held) = 0
  BY <1>1, <1>2, FS_EmptySet DEF TotalSize
<1>4. TypeOK
  BY DEF Init, TypeOK, PC, InCall
<1>5. QueueExact
  BY EmptySeq, QueueAssumption DEF Init, QueueExact, Occurs, Distinct
<1>6. BytesExact /\ BytesBounded /\ SwapFits
  BY <1>3, QueueAssumption DEF Init, BytesExact, BytesBounded, SwapFits
<1>7. QED
  BY <1>4, <1>5, <1>6 DEF QueueInv

\* The channel and the program counters stay in step.
LEMMA StepQueueExact ==
    ASSUME TypeOK, QueueExact, [Next]_vars
    PROVE  QueueExact' /\ lineCh' \in Seq(Lines)
<1> USE DEF Goto, Drop
<1>0. lineCh \in Seq(Lines) /\ Len(lineCh) \in Nat /\ pc \in [Lines -> PC]
  BY LenProperties DEF TypeOK
<1>1. ASSUME NEW l \in Lines,
             \/ EnqueueBlank(l) \/ EnqueueOversized(l) \/ EnqueueBegin(l)
             \/ LoadBytes(l) \/ ReserveBytes(l) \/ RollBackBytes(l)
             \/ ReleaseQueueBytes(l)
      PROVE  QueueExact' /\ lineCh' \in Seq(Lines)
  <2>1. lineCh' = lineCh
    BY <1>1 DEF EnqueueBlank, EnqueueOversized, EnqueueBegin, LoadBytes,
                ReserveBytes, RollBackBytes, ReleaseQueueBytes
  <2>2. \A k \in Lines : pc'[k] = "queued" <=> pc[k] = "queued"
    BY <1>0, <1>1 DEF EnqueueBlank, EnqueueOversized, EnqueueBegin, LoadBytes,
                ReserveBytes, RollBackBytes, ReleaseQueueBytes
  <2>3. QED
    BY <1>0, <2>1, <2>2 DEF QueueExact
<1>2. ASSUME NEW l \in Lines, SendLine(l)
      PROVE  QueueExact' /\ lineCh' \in Seq(Lines)
  <2>1. CASE Len(lineCh) < QueueSize
    <3>1. /\ pc[l] = "send" /\ pc' = [pc EXCEPT ![l] = "queued"]
          /\ lineCh' = Append(lineCh, l)
      BY <1>2, <2>1 DEF SendLine
    <3>2. ~Occurs(lineCh, l) /\ Distinct(lineCh)
      BY <3>1 DEF QueueExact
    <3>3. /\ lineCh' \in Seq(Lines) /\ Len(lineCh') = Len(lineCh) + 1
          /\ Distinct(lineCh')
          /\ \A k \in Lines : Occurs(lineCh', k) <=> k = l \/ Occurs(lineCh, k)
      BY <1>0, <3>1, <3>2, AppendDistinct
    <3>4. Len(lineCh') <= QueueSize
      BY <1>0, <2>1, <3>3, QueueAssumption
    <3>5. \A k \in Lines : pc'[k] = "queued" <=> k = l \/ pc[k] = "queued"
      BY <1>0, <3>1
    <3>6. QED
      BY <3>3, <3>4, <3>5 DEF QueueExact
  <2>2. CASE ~(Len(lineCh) < QueueSize)
    <3>1. /\ pc[l] = "send" /\ pc' = [pc EXCEPT ![l] = "full"]
          /\ lineCh' = lineCh
      BY <1>2, <2>2 DEF SendLine
    <3>2. \A k \in Lines : pc'[k] = "queued" <=> pc[k] = "queued"
      BY <1>0, <3>1
    <3>3. QED
      BY <1>0, <3>1, <3>2 DEF QueueExact
  <2>3. QED
    BY <2>1, <2>2
<1>3. CASE Dequeue
  <2>1. /\ lineCh # <<>> /\ lineCh' = Tail(lineCh)
        /\ pc' = [pc EXCEPT ![Head(lineCh)] = "taken"]
    BY <1>3 DEF Dequeue
  <2>2. /\ Head(lineCh) \in Lines
        /\ lineCh' \in Seq(Lines) /\ Len(lineCh') = Len(lineCh) - 1
        /\ Distinct(lineCh')
        /\ \A k \in Lines :
              Occurs(lineCh', k) <=> k # Head(lineCh) /\ Occurs(lineCh, k)
    BY <1>0, <2>1, TailDistinct DEF QueueExact
  <2>3. Len(lineCh') <= QueueSize
    BY <1>0, <2>2, QueueAssumption DEF QueueExact
  <2>4. \A k \in Lines : pc'[k] = "queued" <=> k # Head(lineCh) /\ pc[k] = "queued"
    BY <1>0, <2>1, <2>2
  <2>5. QED
    BY <2>2, <2>3, <2>4 DEF QueueExact
<1>4. CASE Finished
  BY <1>0, <1>4 DEF Finished, vars, QueueExact
<1>5. CASE UNCHANGED vars
  BY <1>0, <1>5 DEF vars, QueueExact
<1>6. QED
  BY <1>1, <1>2, <1>3, <1>4, <1>5 DEF Next, TryEnqueue

\* A step that neither touches the counter nor moves a line in or out of Held.
LEMMA HeldUnchanged ==
    ASSUME BytesExact, BytesBounded, Held' = Held, queueBytes' = queueBytes
    PROVE  BytesExact' /\ BytesBounded' /\ queueBytes' \in Nat
<1>1. TotalSize(Held') = TotalSize(Held)
  BY Zenon
<1>2. queueBytes' = TotalSize(Held')
  BY <1>1 DEF BytesExact
<1>3. queueBytes \in 0 .. QueueMaxBytes
  BY DEF BytesBounded
<1>4. QED
  BY <1>2, <1>3, QueueAssumption DEF BytesExact, BytesBounded, TotalSize, Bytes

\* Giving a line's reservation back keeps the counter exact and in bounds.
LEMMA HeldReleased ==
    ASSUME NEW l \in Held, BytesExact, BytesBounded,
           Held' = Held \ {l}, queueBytes' = queueBytes - Size(l)
    PROVE  BytesExact' /\ BytesBounded' /\ queueBytes' \in Nat
<1>1. Held \in SUBSET Lines /\ l \in Lines
  BY DEF Held
<1>2. /\ TotalSize(Held \ {l}) \in Nat
      /\ TotalSize(Held \ {l}) = TotalSize(Held) - Size(l)
  BY <1>1, TotalSizeRemove
<1>3. TotalSize(Held') = TotalSize(Held \ {l})
  BY Zenon
<1>4. queueBytes = TotalSize(Held)
  BY DEF BytesExact
<1>5. queueBytes' = TotalSize(Held')
  BY <1>2, <1>3, <1>4
<1>6. queueBytes \in 0 .. QueueMaxBytes /\ Size(l) \in Nat /\ queueBytes' \in Nat
  BY <1>1, <1>2, <1>4, QueueAssumption DEF BytesBounded
<1>7. queueBytes' \in 0 .. QueueMaxBytes
  BY <1>6, QueueAssumption
<1>8. QED
  BY <1>5, <1>6, <1>7 DEF BytesExact, BytesBounded, TotalSize, Bytes

\* Reserving bytes that were checked to fit keeps the counter exact.
LEMMA HeldReserved ==
    ASSUME NEW l \in Lines, l \notin Held, BytesExact, BytesBounded,
           Held' = Held \cup {l}, queueBytes' = queueBytes + Size(l),
           queueBytes + Size(l) <= QueueMaxBytes
    PROVE  BytesExact' /\ BytesBounded' /\ queueBytes' \in Nat
<1>1. Held \in SUBSET Lines
  BY DEF Held
<1>2. TotalSize(Held \cup {l}) = TotalSize(Held) + Size(l)
  BY <1>1, TotalSizeAdd
<1>3. TotalSize(Held') = TotalSize(Held \cup {l})
  BY Zenon
<1>4. queueBytes' = TotalSize(Held')
  BY <1>2, <1>3 DEF BytesExact
<1>5. queueBytes \in Nat /\ Size(l) \in Nat /\ QueueMaxBytes \in Nat
  BY QueueAssumption DEF BytesBounded
<1>6. queueBytes' \in 0 .. QueueMaxBytes
  BY <1>5
<1>7. QED
  BY <1>4, <1>5, <1>6 DEF BytesExact, BytesBounded, TotalSize, Bytes

\* Every step keeps the counter exact, in bounds and the swaps checked.
LEMMA StepBytes ==
    ASSUME QueueInv, [Next]_vars
    PROVE  BytesExact' /\ BytesBounded' /\ SwapFits' /\ queueBytes' \in Nat
<1> USE DEF Goto, Drop
<1>0. /\ pc \in [Lines -> PC] /\ cur \in [Lines -> Int] /\ queueBytes \in Nat
      /\ BytesExact /\ BytesBounded /\ SwapFits
      /\ \A l \in Lines : Size(l) \in Nat
  BY QueueAssumption DEF QueueInv, TypeOK
<1>1. ASSUME NEW l \in Lines, EnqueueBlank(l) \/ EnqueueOversized(l) \/ EnqueueBegin(l)
      PROVE  BytesExact' /\ BytesBounded' /\ SwapFits' /\ queueBytes' \in Nat
  <2>1. Held' = Held /\ queueBytes' = queueBytes
    BY <1>0, <1>1 DEF EnqueueBlank, EnqueueOversized, EnqueueBegin, Held
  <2>2. SwapFits'
    BY <1>0, <1>1 DEF EnqueueBlank, EnqueueOversized, EnqueueBegin, SwapFits
  <2>3. QED
    BY <1>0, <2>1, <2>2, HeldUnchanged
<1>2. ASSUME NEW l \in Lines, LoadBytes(l)
      PROVE  BytesExact' /\ BytesBounded' /\ SwapFits' /\ queueBytes' \in Nat
  <2>1. Held' = Held /\ queueBytes' = queueBytes
    BY <1>0, <1>2 DEF LoadBytes, Held
  <2>2. CASE queueBytes + Size(l) > QueueMaxBytes
    <3>1. SwapFits'
      BY <1>0, <1>2, <2>2 DEF LoadBytes, SwapFits
    <3>2. QED
      BY <1>0, <2>1, <3>1, HeldUnchanged
  <2>3. CASE ~(queueBytes + Size(l) > QueueMaxBytes)
    <3>1. /\ pc' = [pc EXCEPT ![l] = "cas"]
          /\ cur' = [cur EXCEPT ![l] = queueBytes]
      BY <1>2, <2>3 DEF LoadBytes
    <3>2. queueBytes + Size(l) <= QueueMaxBytes
      BY <1>0, <2>3, QueueAssumption
    <3>3. SwapFits'
      BY <1>0, <3>1, <3>2 DEF SwapFits
    <3>4. QED
      BY <1>0, <2>1, <3>3, HeldUnchanged
  <2>4. QED
    BY <2>2, <2>3
<1>3. ASSUME NEW l \in Lines, ReserveBytes(l)
      PROVE  BytesExact' /\ BytesBounded' /\ SwapFits' /\ queueBytes' \in Nat
  <2>1. SwapFits'
    BY <1>0, <1>3 DEF ReserveBytes, SwapFits
  <2>2. CASE queueBytes = cur[l]
    <3>1. /\ pc[l] = "cas" /\ pc' = [pc EXCEPT ![l] = "send"]
          /\ queueBytes' = queueBytes + Size(l)
      BY <1>3, <2>2 DEF ReserveBytes
    <3>2. l \notin Held /\ Held' = Held \cup {l}
      BY <1>0, <3>1 DEF Held
    <3>3. queueBytes + Size(l) <= QueueMaxBytes
      BY <1>0, <2>2, <3>1 DEF SwapFits
    <3>4. QED
      BY <1>0, <2>1, <3>1, <3>2, <3>3, HeldReserved
  <2>3. CASE queueBytes # cur[l]
    <3>1. Held' = Held /\ queueBytes' = queueBytes
      BY <1>0, <1>3, <2>3 DEF ReserveBytes, Held
    <3>2. QED
      BY <1>0, <2>1, <3>1, HeldUnchanged
  <2>4. QED
    BY <2>2, <2>3
<1>4. ASSUME NEW l \in Lines, SendLine(l)
      PROVE  BytesExact' /\ BytesBounded' /\ SwapFits' /\ queueBytes' \in Nat
  <2>1. Held' = Held /\ queueBytes' = queueBytes
    BY <1>0, <1>4 DEF SendLine, Held
  <2>2. SwapFits'
    BY <1>0, <1>4 DEF SendLine, SwapFits
  <2>3. QED
    BY <1>0, <2>1, <2>2, HeldUnchanged
<1>5. ASSUME NEW l \in Lines, RollBackBytes(l) \/ ReleaseQueueBytes(l)
      PROVE  BytesExact' /\ BytesBounded' /\ SwapFits' /\ queueBytes' \in Nat
  <2>1. l \in Held /\ Held' = Held \ {l} /\ queueBytes' = queueBytes - Size(l)
    BY <1>0, <1>5 DEF RollBackBytes, ReleaseQueueBytes, Held
  <2>2. SwapFits'
    BY <1>0, <1>5 DEF RollBackBytes, ReleaseQueueBytes, SwapFits
  <2>3. QED
    BY <1>0, <2>1, <2>2, HeldReleased
<1>6. CASE Dequeue
  <2>1. /\ lineCh # <<>> /\ queueBytes' = queueBytes /\ cur' = cur
        /\ pc' = [pc EXCEPT ![Head(lineCh)] = "taken"]
    BY <1>6 DEF Dequeue
  <2>2. Head(lineCh) \in Lines /\ Occurs(lineCh, Head(lineCh))
    BY <2>1, TailDistinct DEF QueueInv, TypeOK, QueueExact
  <2>3. pc[Head(lineCh)] = "queued"
    BY <2>2 DEF QueueInv, QueueExact
  <2>4. Held' = Held
    BY <1>0, <2>1, <2>2, <2>3 DEF Held
  <2>5. SwapFits'
    BY <1>0, <2>1, <2>2 DEF SwapFits
  <2>6. QED
    BY <1>0, <2>1, <2>4, <2>5, HeldUnchanged
<1>7. CASE Finished \/ UNCHANGED vars
  <2>1. UNCHANGED vars
    BY <1>7 DEF Finished
  <2>2. Held' = Held /\ queueBytes' = queueBytes /\ SwapFits'
    BY <1>0, <2>1 DEF vars, Held, SwapFits
  <2>3. QED
    BY <1>0, <2>2, HeldUnchanged
<1>8. QED
  BY <1>1, <1>2, <1>3, <1>4, <1>5, <1>6, <1>7 DEF Next, TryEnqueue

\* The rest of the type invariant: program counters and loaded values.
LEMMA StepTypes ==
    ASSUME QueueInv, [Next]_vars
    PROVE  droppedTotal' \in Nat /\ pc' \in [Lines -> PC] /\ cur' \in [Lines -> Int]
<1> USE DEF Goto, Drop, PC, InCall
<1>1. droppedTotal \in Nat /\ pc \in [Lines -> PC] /\ cur \in [Lines -> Int] /\ queueBytes \in Nat
  BY DEF QueueInv, TypeOK
<1>2. ASSUME NEW l \in Lines, TryEnqueue(l) \/ ReleaseQueueBytes(l)
      PROVE  droppedTotal' \in Nat /\ pc' \in [Lines -> PC] /\ cur' \in [Lines -> Int]
  BY <1>1, <1>2 DEF TryEnqueue, EnqueueBlank, EnqueueOversized, EnqueueBegin, LoadBytes,
                    ReserveBytes, SendLine, RollBackBytes, ReleaseQueueBytes
<1>3. CASE Dequeue
  BY <1>1, <1>3 DEF Dequeue
<1>4. CASE Finished \/ UNCHANGED vars
  BY <1>1, <1>4 DEF Finished, vars
<1>5. QED
  BY <1>2, <1>3, <1>4 DEF Next

\* The inductive invariant holds in every state of every behaviour.
LEMMA QueueInvHolds == Spec => []QueueInv
<1>1. QueueInv /\ [Next]_vars => QueueInv'
  <2> SUFFICES ASSUME QueueInv, [Next]_vars PROVE QueueInv'
    OBVIOUS
  <2>1. TypeOK /\ QueueExact
    BY DEF QueueInv
  <2>2. QueueExact' /\ lineCh' \in Seq(Lines)
    BY <2>1, StepQueueExact
  <2>3. BytesExact' /\ BytesBounded' /\ SwapFits' /\ queueBytes' \in Nat
    BY StepBytes
  <2>4. TypeOK'
    BY <2>2, <2>3, StepTypes DEF TypeOK
  <2>5. QED
    BY <2>2, <2>3, <2>4 DEF QueueInv
<1>2. QED
  BY <1>1, InitQueueInv, PTL DEF Spec

-----------------------------------------------------------------------------
\* Type correctness: in particular queueBytes never becomes negative, however
\* reserve, roll back and release interleave.
THEOREM TypeCorrect == Spec => []TypeOK
<1>1. QueueInv => TypeOK
  BY DEF QueueInv
<1>2. QED
  BY <1>1, QueueInvHolds, PTL

\* The byte counter is exact at every instant: it is the size of the lines
\* that hold a reservation, for any number of concurrent TryEnqueue calls.
THEOREM ByteAccounting == Spec => []BytesExact
<1>1. QueueInv => BytesExact
  BY DEF QueueInv
<1>2. QED
  BY <1>1, QueueInvHolds, PTL

\* The queue never holds more than QueueMaxBytes bytes.
THEOREM ByteLimit == Spec => []BytesBounded
<1>1. QueueInv => BytesBounded
  BY DEF QueueInv
<1>2. QED
  BY <1>1, QueueInvHolds, PTL

\* The channel holds exactly the lines that were admitted and not received,
\* each once, and never more than QueueSize of them.
THEOREM DepthLimit == Spec => []QueueExact
<1>1. QueueInv => QueueExact
  BY DEF QueueInv
<1>2. QED
  BY <1>1, QueueInvHolds, PTL

\* A line is refused only when the queue is full by depth or by bytes.
THEOREM RefusalsJustified == Spec => RefusedOnlyWhenFull
<1> DEFINE Justified ==
      \A l \in Lines :
          /\ pc[l] = "load" /\ pc'[l] = "dropped"
                => TotalSize(Held) + Size(l) > QueueMaxBytes
          /\ pc[l] # "full" /\ pc'[l] = "full" => Len(lineCh) = QueueSize
<1>1. QueueInv /\ [Next]_vars => [Justified]_vars
  <2> SUFFICES ASSUME QueueInv, Next, NEW k \in Lines
               PROVE  /\ pc[k] = "load" /\ pc'[k] = "dropped"
                            => TotalSize(Held) + Size(k) > QueueMaxBytes
                      /\ pc[k] # "full" /\ pc'[k] = "full" => Len(lineCh) = QueueSize
    BY Zenon
  <2> USE DEF Goto, Drop
  <2>0. /\ pc \in [Lines -> PC] /\ queueBytes = TotalSize(Held)
        /\ Len(lineCh) \in Nat /\ Len(lineCh) <= QueueSize /\ QueueSize \in Nat
    BY LenProperties, QueueAssumption DEF QueueInv, TypeOK, BytesExact, QueueExact
  <2>1. ASSUME NEW l \in Lines, TryEnqueue(l) \/ ReleaseQueueBytes(l)
        PROVE  /\ pc[k] = "load" /\ pc'[k] = "dropped"
                     => TotalSize(Held) + Size(k) > QueueMaxBytes
               /\ pc[k] # "full" /\ pc'[k] = "full" => Len(lineCh) = QueueSize
    BY <2>0, <2>1 DEF TryEnqueue, EnqueueBlank, EnqueueOversized, EnqueueBegin, LoadBytes,
                      ReserveBytes, SendLine, RollBackBytes, ReleaseQueueBytes
  <2>2. CASE Dequeue
    BY <2>0, <2>2 DEF Dequeue
  <2>3. CASE Finished
    BY <2>0, <2>3 DEF Finished, vars
  <2>4. QED
    BY <2>1, <2>2, <2>3 DEF Next
<1>2. QED
  BY <1>1, QueueInvHolds, PTL DEF Spec, RefusedOnlyWhenFull

-----------------------------------------------------------------------------
(* The circuit breaker *)

\* A worker about to swap found the old window over, and no new window was
\* computed in the future.
SwapIsSafe ==
    \A w \in Inserters :
        /\ until[w] <= now + Cooldown
        /\ at[w] = "cas" => prev[w] <= now

BreakerInv == BreakerTypeOK /\ WindowBounded /\ SwapIsSafe

\* A fresh breaker, closed and with no failure counted.
LEMMA InitBreakerInv == BreakerInit => BreakerInv
BY BreakerAssumption DEF BreakerInit, BreakerInv, BreakerTypeOK, WindowBounded, SwapIsSafe, BreakerPC

\* Every atomic access of every worker preserves the types.
LEMMA BreakerTypeStep == BreakerTypeOK /\ [BreakerNext]_breakerVars => BreakerTypeOK'
<1> SUFFICES ASSUME BreakerTypeOK, [BreakerNext]_breakerVars
             PROVE  BreakerTypeOK'
  OBVIOUS
<1> USE BreakerAssumption DEF BreakerTypeOK, BreakerPC, StepTo, Forget
<1>1. CASE Tick
  BY <1>1 DEF Tick
<1>2. ASSUME NEW w \in Inserters, Step(w)
      PROVE  BreakerTypeOK'
  <2>1. CASE CheckPasses(w) \/ CheckRefuses(w)
    BY <2>1 DEF CheckPasses, CheckRefuses, breakerVars
  <2>2. CASE SuccessResetFails(w) \/ SuccessClose(w)
    BY <2>2 DEF SuccessResetFails, SuccessClose
  <2>3. CASE FailureAdd(w)
    BY <2>3 DEF FailureAdd
  <2>4. CASE FailureUntil(w)
    BY <2>4 DEF FailureUntil
  <2>5. CASE FailureLoad(w)
    BY <2>5 DEF FailureLoad
  <2>6. CASE FailureDecide(w)
    BY <2>6 DEF FailureDecide
  <2>7. CASE FailureSwap(w)
    BY <2>7 DEF FailureSwap
  <2>8. QED
    BY <1>2, <2>1, <2>2, <2>3, <2>4, <2>5, <2>6, <2>7 DEF Step
<1>3. CASE UNCHANGED breakerVars
  BY <1>3 DEF breakerVars
<1>4. QED
  BY <1>1, <1>2, <1>3 DEF BreakerNext

\* Every atomic access of every worker preserves the bounds on the window.
LEMMA BreakerWindowStep == BreakerInv /\ [BreakerNext]_breakerVars => (WindowBounded /\ SwapIsSafe)'
<1> SUFFICES ASSUME BreakerInv, [BreakerNext]_breakerVars
             PROVE  (WindowBounded /\ SwapIsSafe)'
  OBVIOUS
<1> USE BreakerAssumption DEF BreakerInv, BreakerTypeOK, WindowBounded, SwapIsSafe, BreakerPC, StepTo, Forget
<1>1. CASE Tick
  BY <1>1 DEF Tick
<1>2. ASSUME NEW w \in Inserters, Step(w)
      PROVE  (WindowBounded /\ SwapIsSafe)'
  <2>1. CASE CheckPasses(w) \/ CheckRefuses(w)
    BY <2>1 DEF CheckPasses, CheckRefuses, breakerVars
  <2>2. CASE SuccessResetFails(w) \/ SuccessClose(w)
    BY <2>2 DEF SuccessResetFails, SuccessClose
  <2>3. CASE FailureAdd(w)
    BY <2>3 DEF FailureAdd
  <2>4. CASE FailureUntil(w)
    BY <2>4 DEF FailureUntil
  <2>5. CASE FailureLoad(w)
    BY <2>5 DEF FailureLoad
  <2>6. CASE FailureDecide(w)
    BY <2>6 DEF FailureDecide
  <2>7. CASE FailureSwap(w)
    BY <2>7 DEF FailureSwap
  <2>8. QED
    BY <1>2, <2>1, <2>2, <2>3, <2>4, <2>5, <2>6, <2>7 DEF Step
<1>3. CASE UNCHANGED breakerVars
  BY <1>3 DEF breakerVars
<1>4. QED
  BY <1>1, <1>2, <1>3 DEF BreakerNext

\* The inductive invariant holds in every behaviour of the breaker.
LEMMA BreakerInvHolds == BreakerSpec => []BreakerInv
<1>1. BreakerInv /\ [BreakerNext]_breakerVars => BreakerInv'
  BY BreakerTypeStep, BreakerWindowStep DEF BreakerInv
<1>2. QED
  BY <1>1, InitBreakerInv, PTL DEF BreakerSpec

\* fails, openUntil and the locals of NoteFailure keep their types.
THEOREM BreakerTypes == BreakerSpec => []BreakerTypeOK
<1>1. BreakerInv => BreakerTypeOK
  BY DEF BreakerInv
<1>2. QED
  BY <1>1, BreakerInvHolds, PTL

\* However many workers fail together, inserts are never blocked for longer
\* than one cooldown from now.
THEOREM WindowIsBounded == BreakerSpec => []WindowBounded
<1>1. BreakerInv => WindowBounded
  BY DEF BreakerInv
<1>2. QED
  BY <1>1, BreakerInvHolds, PTL

\* No step of any worker prolongs or moves an open window: NoteFailure's
\* compare-and-swap only ever replaces a window that is over.
THEOREM WindowIsNotExtended == BreakerSpec => WindowNotExtended
<1> DEFINE Kept == Open => openUntil' \in {openUntil, 0}
<1>1. BreakerInv /\ [BreakerNext]_breakerVars => [Kept]_breakerVars
  <2> SUFFICES ASSUME BreakerInv, BreakerNext, Open
               PROVE  openUntil' \in {openUntil, 0}
    OBVIOUS
  <2> USE DEF BreakerInv, BreakerTypeOK, SwapIsSafe, Open
  <2>1. CASE Tick
    BY <2>1 DEF Tick
  <2>2. ASSUME NEW w \in Inserters, Step(w)
        PROVE  openUntil' \in {openUntil, 0}
    <3>1. CASE FailureSwap(w)
      <4>1. openUntil # prev[w]
        BY <3>1 DEF FailureSwap
      <4>2. QED
        BY <3>1, <4>1 DEF FailureSwap
    <3>2. CASE ~FailureSwap(w)
      BY <2>2, <3>2 DEF Step, CheckPasses, CheckRefuses, breakerVars, SuccessResetFails,
                        SuccessClose, FailureAdd, FailureUntil, FailureLoad, FailureDecide
    <3>3. QED
      BY <3>1, <3>2
  <2>3. QED
    BY <2>1, <2>2 DEF BreakerNext
<1>2. QED
  BY <1>1, BreakerInvHolds, PTL DEF BreakerSpec, WindowNotExtended

-----------------------------------------------------------------------------
(* The connections *)

\* Where the parts of Run can be.
ConnTypes ==
    /\ runner \in {"running", "failed", "acceptors", "conns", "returned"}
    /\ acceptor \in [Names -> {"off", "accept", "over"} \cup Conns]
    /\ conn \in [Conns -> {"new", "offered", "refused", "accepted", "closed"} \cup Served]

\* A connection that an accept loop has in hand is the loop's own, and has no
\* goroutine yet.
InHand ==
    \A b \in Names : acceptor[b] \in Conns =>
        conn[acceptor[b]] = "accepted" /\ BindingOf(acceptor[b]) = b

\* The connections that have a goroutine hold the tokens of connSem.
Serving == {c \in Conns : conn[c] \in Served}
TokensExact == IsFiniteSet(Serving) /\ connSem = Cardinality(Serving)

\* Run waits for the accept loops before it waits for the connections, so that no
\* connection is added to those it waits for.
JoinOrder ==
    /\ runner \in {"conns", "returned"} => \A b \in Names : acceptor[b] \in {"off", "over"}
    /\ runner = "returned" => Serving = {}

ConnInv == ConnTypes /\ InHand /\ TokensExact /\ JoinOrder

\* Before anything is bound nobody is served.
LEMMA InitConnInv == ConnInit => ConnInv
<1> SUFFICES ASSUME ConnInit
             PROVE  ConnInv
  OBVIOUS
<1>1. ConnTypes
  BY DEF ConnInit, ConnTypes
<1>2. InHand
  BY ConnectionsAssumption DEF ConnInit, InHand
<1>3. Serving = {}
  BY DEF ConnInit, Serving, Served
<1>4. TokensExact
  BY <1>3, FS_EmptySet DEF ConnInit, TokensExact
<1>5. JoinOrder
  BY DEF ConnInit, JoinOrder
<1>6. QED
  BY <1>1, <1>2, <1>4, <1>5 DEF ConnInv

\* A step that gives nobody a goroutine, takes none away and moves no accept loop
\* to another connection.
LEMMA QuietStep ==
    ASSUME ConnInv, ConnTypes',
           UNCHANGED connSem, Serving' = Serving,
           \A b \in Names : acceptor'[b] \in Conns =>
               conn'[acceptor'[b]] = "accepted" /\ BindingOf(acceptor'[b]) = b,
           JoinOrder'
    PROVE  ConnInv'
<1>1. TokensExact'
  BY DEF ConnInv, TokensExact
<1>2. InHand'
  BY DEF InHand
<1>3. QED
  BY <1>1, <1>2 DEF ConnInv

\* The steps of Run itself.
LEMMA RunnerStep ==
    ASSUME ConnInv, Listen \/ ListenFails \/ Cancel \/ RunStep \/ CacheExpires
    PROVE  ConnInv'
<1> USE DEF ConnInv
<1>1. UNCHANGED <<conn, connSem>>
  BY DEF Listen, ListenFails, Cancel, RunStep, CloseListeners, WaitAcceptors, WaitAll,
         WorkersLeave, CacheExpires
<1>2. Serving' = Serving
  BY <1>1 DEF Serving
<1>3. CASE Listen
  <2> DEFINE n == Bindings[Bound + 1]
  <2>1. acceptor' = [acceptor EXCEPT ![n] = "accept"] /\ runner' = runner /\ runner = "running"
    BY <1>3 DEF Listen
  <2> HIDE DEF n
  <2>2. ConnTypes'
    BY <1>1, <2>1 DEF ConnTypes
  <2>3. \A b \in Names : acceptor'[b] = acceptor[b] \/ acceptor'[b] = "accept"
    BY <2>1 DEF ConnTypes
  <2>4. \A b \in Names : acceptor'[b] \in Conns => acceptor'[b] = acceptor[b]
    BY <2>3, ConnectionsAssumption
  <2>5. JoinOrder'
    BY <2>1 DEF JoinOrder
  <2>6. QED
    BY <1>1, <1>2, <2>2, <2>4, <2>5, QuietStep DEF InHand
<1>4. CASE ~Listen
  <2>1. acceptor' = acceptor
    BY <1>4 DEF ListenFails, Cancel, RunStep, CloseListeners, WaitAcceptors, WaitAll,
                WorkersLeave, CacheExpires
  <2>2. ConnTypes'
    BY <1>1, <1>4, <2>1 DEF ConnTypes, ListenFails, Cancel, RunStep, CloseListeners,
                            WaitAcceptors, WaitAll, WorkersLeave, CacheExpires
  <2>3. JoinOrder'
    <3>1. CASE ListenFails \/ Cancel \/ CloseListeners \/ WorkersLeave \/ CacheExpires
      <4>1. runner' \in {runner, "failed", "acceptors"}
        BY <3>1 DEF ListenFails, Cancel, CloseListeners, WorkersLeave, CacheExpires
      <4>2. QED
        BY <1>2, <2>1, <4>1 DEF JoinOrder
    <3>2. CASE WaitAcceptors
      BY <3>2, <2>1 DEF JoinOrder, WaitAcceptors
    <3>3. CASE WaitAll
      BY <3>3, <1>1, <2>1 DEF JoinOrder, WaitAll, Serving
    <3>4. QED
      BY <1>4, <3>1, <3>2, <3>3 DEF RunStep
  <2>4. QED
    BY <1>1, <1>2, <2>1, <2>2, <2>3, QuietStep DEF InHand
<1>5. QED
  BY <1>3, <1>4

\* The steps of one accept loop.  Only a loop that still runs, and only with the
\* connection it has in hand, gives a connection a goroutine.
LEMMA AcceptorStep ==
    ASSUME ConnInv, NEW b \in Names, AcceptStep(b) \/ \E c \in Conns : Accept(b, c)
    PROVE  ConnInv'
<1> USE DEF ConnInv
<1>1. runner' = runner
  BY DEF AcceptStep, Accept, AcceptFails, CheckPeer, Admit
<1>2. acceptor[b] = "accept" \/ acceptor[b] \in Conns
  BY DEF AcceptStep, Accept, AcceptFails, CheckPeer, Admit
<1>3. runner \notin {"conns", "returned"}
  BY <1>2, ConnectionsAssumption DEF JoinOrder
<1>4. JoinOrder'
  BY <1>1, <1>3 DEF JoinOrder
<1>5. CASE AcceptFails(b)
  <2>1. acceptor' = [acceptor EXCEPT ![b] = "over"] /\ UNCHANGED <<conn, connSem>>
    BY <1>5 DEF AcceptFails
  <2>2. ConnTypes'
    BY <1>1, <2>1 DEF ConnTypes
  <2>3. Serving' = Serving
    BY <2>1 DEF Serving
  <2>4. \A d \in Names : acceptor'[d] \in Conns => acceptor'[d] = acceptor[d]
    BY <2>1, ConnectionsAssumption DEF ConnTypes
  <2>5. QED
    BY <1>4, <2>1, <2>2, <2>3, <2>4, QuietStep DEF InHand
<1>6. ASSUME NEW c \in Conns, Accept(b, c)
      PROVE  ConnInv'
  <2>1. /\ acceptor' = [acceptor EXCEPT ![b] = c]
        /\ conn' = [conn EXCEPT ![c] = "accepted"]
        /\ UNCHANGED connSem
        /\ conn[c] = "offered"
        /\ BindingOf(c) = b
    BY <1>6 DEF Accept
  <2>2. ConnTypes'
    BY <1>1, <2>1 DEF ConnTypes
  <2>3. Serving' = Serving
    BY <2>1 DEF Serving, Served, ConnTypes
  <2>4. \A d \in Names : acceptor'[d] \in Conns =>
            conn'[acceptor'[d]] = "accepted" /\ BindingOf(acceptor'[d]) = d
    BY <2>1 DEF ConnTypes, InHand
  <2>5. QED
    BY <1>4, <2>1, <2>2, <2>3, <2>4, QuietStep
<1>7. CASE CheckPeer(b)
  <2> DEFINE c == acceptor[b]
  <2>1. /\ c \in Conns
        /\ UNCHANGED connSem
        /\ \/ UNCHANGED <<acceptor, conn>>
           \/ /\ acceptor' = [acceptor EXCEPT ![b] = "accept"]
              /\ conn' = [conn EXCEPT ![c] = "refused"]
    BY <1>7 DEF CheckPeer
  <2>2. conn[c] = "accepted" /\ BindingOf(c) = b
    BY <2>1 DEF InHand
  <2>3. ConnTypes'
    BY <1>1, <2>1 DEF ConnTypes
  <2>4. Serving' = Serving
    BY <2>1, <2>2 DEF Serving, Served, ConnTypes
  <2>5. \A d \in Names : acceptor'[d] \in Conns =>
            conn'[acceptor'[d]] = "accepted" /\ BindingOf(acceptor'[d]) = d
    BY <2>1, <2>2, ConnectionsAssumption DEF ConnTypes, InHand
  <2>6. QED
    BY <1>4, <2>1, <2>3, <2>4, <2>5, QuietStep
<1>8. CASE Admit(b)
  <2> DEFINE c == acceptor[b]
  <2>1. /\ c \in Conns
        /\ acceptor' = [acceptor EXCEPT ![b] = "accept"]
        /\ \/ conn' = [conn EXCEPT ![c] = "reading"] /\ connSem' = connSem + 1
           \/ conn' = [conn EXCEPT ![c] = "refused"] /\ connSem' = connSem
    BY <1>8 DEF Admit
  <2>2. conn[c] = "accepted" /\ BindingOf(c) = b
    BY <2>1 DEF InHand
  <2>3. ConnTypes'
    BY <1>1, <2>1 DEF ConnTypes, Served
  <2>4. InHand'
    <3> SUFFICES ASSUME NEW d \in Names, acceptor'[d] \in Conns
                 PROVE  conn'[acceptor'[d]] = "accepted" /\ BindingOf(acceptor'[d]) = d
      BY DEF InHand
    <3>1. d # b /\ acceptor'[d] = acceptor[d]
      BY <2>1, ConnectionsAssumption DEF ConnTypes
    <3>2. conn[acceptor[d]] = "accepted" /\ BindingOf(acceptor[d]) = d /\ acceptor[d] # c
      BY <2>2, <3>1 DEF InHand
    <3>3. QED
      BY <2>1, <3>1, <3>2 DEF ConnTypes
  <2>5. TokensExact'
    <3>1. CASE conn' = [conn EXCEPT ![c] = "reading"] /\ connSem' = connSem + 1
      <4>1. c \notin Serving
        BY <2>2 DEF Serving, Served
      <4>2. Serving' = Serving \cup {c}
        BY <2>1, <3>1 DEF Serving, Served, ConnTypes
      <4>3. IsFiniteSet(Serving \cup {c}) /\ Cardinality(Serving \cup {c}) = Cardinality(Serving) + 1
        BY <4>1, FS_AddElement DEF TokensExact
      <4>4. QED
        BY <3>1, <4>2, <4>3 DEF TokensExact
    <3>2. CASE conn' = [conn EXCEPT ![c] = "refused"] /\ connSem' = connSem
      <4>1. Serving' = Serving
        BY <2>1, <2>2, <3>2 DEF Serving, Served, ConnTypes
      <4>2. QED
        BY <3>2, <4>1 DEF TokensExact
    <3>3. QED
      BY <2>1, <3>1, <3>2
  <2>6. QED
    BY <1>4, <2>3, <2>4, <2>5
<1>9. QED
  BY <1>5, <1>6, <1>7, <1>8 DEF AcceptStep

\* The steps of one peer and its goroutine.
LEMMA PeerStep ==
    ASSUME ConnInv, NEW c \in Conns, Dial(c) \/ Read(c) \/ ReadFails(c) \/ ConnStep(c)
    PROVE  ConnInv'
<1> USE DEF ConnInv
<1>1. UNCHANGED <<runner, acceptor>>
  BY DEF Dial, Read, ReadFails, ConnStep, Reset, Offer, Leave
<1>2. PICK to \in {"offered", "refused", "reading", "offering", "leaving", "closed"} :
         conn' = [conn EXCEPT ![c] = to]
  BY DEF Dial, Read, ReadFails, ConnStep, Reset, Offer, Leave
<1>3. conn[c] \in {"new", "offered"} \cup Served
  BY DEF Dial, Read, ReadFails, ConnStep, Reset, Offer, Leave, Served
<1>4. ConnTypes'
  BY <1>1, <1>2 DEF ConnTypes, Served
<1>5. \A d \in Names : acceptor'[d] \in Conns =>
          conn'[acceptor'[d]] = "accepted" /\ BindingOf(acceptor'[d]) = d
  <2> SUFFICES ASSUME NEW d \in Names, acceptor[d] \in Conns
               PROVE  conn'[acceptor[d]] = "accepted" /\ BindingOf(acceptor[d]) = d
    BY <1>1
  <2>1. conn[acceptor[d]] = "accepted" /\ acceptor[d] # c
    BY <1>3 DEF InHand, Served
  <2>2. QED
    BY <1>2, <2>1 DEF ConnTypes, InHand
<1>6. CASE Leave(c)
  <2>1. conn' = [conn EXCEPT ![c] = "closed"] /\ connSem' = connSem - 1 /\ conn[c] = "leaving"
    BY <1>6 DEF Leave
  <2>2. c \in Serving
    BY <2>1 DEF Serving, Served
  <2>3. Serving' = Serving \ {c}
    BY <2>1 DEF Serving, Served, ConnTypes
  <2>4. /\ IsFiniteSet(Serving \ {c})
        /\ Cardinality(Serving \ {c}) = Cardinality(Serving) - 1
    BY <2>2, FS_RemoveElement DEF TokensExact
  <2>5. TokensExact'
    BY <2>1, <2>3, <2>4 DEF TokensExact
  <2>6. JoinOrder'
    BY <1>1, <2>2, <2>3 DEF JoinOrder
  <2>7. InHand'
    BY <1>5 DEF InHand
  <2>8. QED
    BY <1>4, <2>5, <2>6, <2>7
<1>7. CASE ~Leave(c)
  <2>1. UNCHANGED connSem
    BY <1>7 DEF Dial, Read, ReadFails, ConnStep, Reset, Offer
  <2>2. conn[c] \in Served <=> conn'[c] \in Served
    BY <1>7 DEF Dial, Read, ReadFails, ConnStep, Reset, Offer, Served, ConnTypes
  <2>3. Serving' = Serving
    BY <1>2, <2>2 DEF Serving, ConnTypes
  <2>4. JoinOrder'
    BY <1>1, <2>3 DEF JoinOrder
  <2>5. QED
    BY <1>4, <1>5, <2>1, <2>3, <2>4, QuietStep
<1>8. QED
  BY <1>6, <1>7

\* The inductive invariant holds in every behaviour of the connections.
LEMMA ConnInvHolds == ConnSpec => []ConnInv
<1>1. ConnInv /\ [ConnNext]_connVars => ConnInv'
  <2> SUFFICES ASSUME ConnInv, [ConnNext]_connVars
               PROVE  ConnInv'
    OBVIOUS
  <2>1. CASE UNCHANGED connVars
    BY <2>1 DEF connVars, ConnInv, ConnTypes, InHand, TokensExact, JoinOrder, Serving
  <2>2. CASE ConnNext
    BY <2>2, RunnerStep, AcceptorStep, PeerStep DEF ConnNext
  <2>3. QED
    BY <2>1, <2>2
<1>2. QED
  BY <1>1, InitConnInv, PTL DEF ConnSpec

\* Service.Run: when it returns there is no accept loop, no goroutine of a
\* connection and no token left, for any listeners, peers and streams.
THEOREM NothingIsLeftBehind == ConnSpec => []NothingOutlivesRun
<1>1. ConnInv => NothingOutlivesRun
  BY FS_EmptySet DEF ConnInv, JoinOrder, TokensExact, Serving, NothingOutlivesRun, NothingLeft
<1>2. QED
  BY <1>1, ConnInvHolds, PTL

-----------------------------------------------------------------------------
(* The frames: what the reader makes of the bytes of one *)

\* The number of the first of the places where something holds.
LEMMA FirstPlace ==
    ASSUME NEW I \in SUBSET Nat, NEW k \in I, \A i \in I : k <= i
    PROVE  Min(I) = k
<1> DEFINE m == Min(I)
<1>1. m \in I /\ \A i \in I : m <= i
  BY Zenon DEF Min
<1>2. m \in Nat /\ k \in Nat /\ m <= k /\ k <= m
  BY <1>1
<1>3. QED
  BY <1>2

\* The smaller of two numbers.
LEMMA MinOfTwo ==
    ASSUME NEW a \in Nat, NEW b \in Nat
    PROVE  Min({a, b}) = IF a <= b THEN a ELSE b
<1> DEFINE I == {a, b}
<1>1. I \in SUBSET Nat /\ a \in I /\ b \in I /\ (a <= b => \A i \in I : a <= i) /\ (~(a <= b) => \A i \in I : b <= i)
  OBVIOUS
<1>2. (a <= b => Min(I) = a) /\ (~(a <= b) => Min(I) = b)
  <2> HIDE DEF I
  <2> QED
    BY <1>1, FirstPlace
<1>3. QED
  BY <1>2

\* The first line feed of a stream.
LEMMA SelectLF ==
    ASSUME NEW s \in Seq(Byte), NEW k \in 1 .. Len(s), s[k] = "lf", \A i \in 1 .. k - 1 : s[i] # "lf"
    PROVE  SelectInSeq(s, LAMBDA b : b = "lf") = k
<1> DEFINE I == {i \in 1 .. Len(s) : s[i] = "lf"}
<1>1. I \in SUBSET Nat /\ k \in I /\ \A i \in I : k <= i
  OBVIOUS
<1>2. Min(I) = k
  <2> HIDE DEF I
  <2> QED BY <1>1, FirstPlace
<1>3. QED
  BY <1>1, <1>2 DEF SelectInSeq

\* What is left when the blanks on the right are cut off.
LEMMA TrimmedAt ==
    ASSUME NEW S, NEW s \in Seq(S), NEW blanks, NEW k \in 0 .. Len(s),
           k # 0 => s[k] \notin blanks, \A i \in k + 1 .. Len(s) : s[i] \in blanks
    PROVE  TrimmedRight(s, blanks) = SubSeq(s, 1, k)
<1> DEFINE keep == {i \in DOMAIN s : s[i] \notin blanks}
<1>1. DOMAIN s = 1 .. Len(s)
  OBVIOUS
<1>2. CASE k = 0
  <2>1. keep = {}
    BY <1>1, <1>2
  <2>2. SubSeq(s, 1, k) = << >>
    BY <1>2
  <2>3. QED
    BY <2>1, <2>2 DEF TrimmedRight
<1>3. CASE k # 0
  <2>1. k \in keep /\ keep \subseteq 1 .. k
    BY <1>1, <1>3
  <2>2. Max(keep) = k
    <3> HIDE DEF keep
    <3>1. k \in keep /\ \A i \in keep : k >= i
      BY <2>1
    <3>2. PICK m \in keep : m = Max(keep) /\ \A i \in keep : m >= i
      BY <3>1, Zenon DEF Max
    <3>3. m \in 1 .. k /\ m >= k
      BY <2>1, <3>2
    <3>4. QED
      BY <3>2, <3>3
  <2>3. QED
    BY <2>1, <2>2 DEF TrimmedRight
<1>4. QED
  BY <1>2, <1>3

\* There is a last byte that is not a blank, unless all of them are.
LEMMA TrimmedPlace ==
    ASSUME NEW S, NEW s \in Seq(S), NEW blanks
    PROVE  \E k \in 0 .. Len(s) :
              /\ k # 0 => s[k] \notin blanks
              /\ \A i \in k + 1 .. Len(s) : s[i] \in blanks
<1> DEFINE T == {j \in 0 .. Len(s) : \A i \in j + 1 .. Len(s) : s[i] \in blanks}
<1>1. T \in SUBSET Nat /\ Len(s) \in T
  OBVIOUS
<1>2. PICK k \in T : \A j \in T : k <= j
  <2> HIDE DEF T
  <2> QED
    BY <1>1, LeastNumber
<1>3. ASSUME k # 0, s[k] \in blanks
      PROVE  FALSE
  <2>1. k - 1 \in 0 .. Len(s) /\ \A i \in (k - 1) + 1 .. Len(s) : s[i] \in blanks
    BY <1>3
  <2>2. k - 1 \in T
    BY <2>1
  <2>3. QED
    BY <1>2, <2>2
<1>4. QED
  BY <1>3

\* Cutting off some of the blanks first changes nothing.
LEMMA TrimmedTwice ==
    ASSUME NEW S, NEW s \in Seq(S), NEW some, NEW blanks, some \subseteq blanks
    PROVE  TrimmedRight(TrimmedRight(s, some), blanks) = TrimmedRight(s, blanks)
<1>1. PICK j \in 0 .. Len(s) :
         /\ j # 0 => s[j] \notin some
         /\ \A i \in j + 1 .. Len(s) : s[i] \in some
  BY TrimmedPlace
<1>2. PICK k \in 0 .. Len(s) :
         /\ k # 0 => s[k] \notin blanks
         /\ \A i \in k + 1 .. Len(s) : s[i] \in blanks
  BY TrimmedPlace
<1>3. k <= j
  BY <1>1, <1>2
<1> DEFINE t == SubSeq(s, 1, j)
<1>4. t \in Seq(S) /\ Len(t) = j /\ \A i \in 1 .. j : t[i] = s[i]
  BY SubSeqProperties
<1>5. SubSeq(t, 1, k) = SubSeq(s, 1, k)
  BY <1>3, <1>4
<1>6. TrimmedRight(s, some) = t
  BY <1>1, TrimmedAt
<1>7. TrimmedRight(t, blanks) = SubSeq(t, 1, k)
  <2> HIDE DEF t
  <2>1. k \in 0 .. Len(t)
    BY <1>3, <1>4
  <2>2. k # 0 => t[k] \notin blanks
    BY <1>2, <1>3, <1>4
  <2>3. \A i \in k + 1 .. Len(t) : t[i] \in blanks
    BY <1>2, <1>3, <1>4
  <2>4. QED
    BY <1>4, <2>1, <2>2, <2>3, TrimmedAt
<1>8. TrimmedRight(s, blanks) = SubSeq(s, 1, k)
  BY <1>2, TrimmedAt
<1>9. QED
  BY <1>5, <1>6, <1>7, <1>8

\* A blank at the end makes no difference.
LEMMA TrimmedAppended ==
    ASSUME NEW S, NEW s \in Seq(S), NEW b \in S, NEW blanks, b \in blanks
    PROVE  TrimmedRight(s \o <<b>>, blanks) = TrimmedRight(s, blanks)
<1>1. PICK k \in 0 .. Len(s) :
         /\ k # 0 => s[k] \notin blanks
         /\ \A i \in k + 1 .. Len(s) : s[i] \in blanks
  BY TrimmedPlace
<1> DEFINE t == s \o <<b>>
<1>2. t \in Seq(S) /\ Len(t) = Len(s) + 1 /\ t[Len(s) + 1] = b /\ \A i \in 1 .. Len(s) : t[i] = s[i]
  OBVIOUS
<1>3. SubSeq(t, 1, k) = SubSeq(s, 1, k)
  BY <1>2
<1>4. TrimmedRight(t, blanks) = SubSeq(t, 1, k)
  <2> HIDE DEF t
  <2>1. k \in 0 .. Len(t)
    BY <1>2
  <2>2. k # 0 => t[k] \notin blanks
    BY <1>1, <1>2
  <2>3. \A i \in k + 1 .. Len(t) : t[i] \in blanks
    BY <1>1, <1>2
  <2>4. QED
    BY <1>2, <2>1, <2>2, <2>3, TrimmedAt
<1>5. TrimmedRight(s, blanks) = SubSeq(s, 1, k)
  BY <1>1, TrimmedAt
<1>6. QED
  BY <1>3, <1>4, <1>5

\* A line is a message with or without the end of the line.
LEMMA LineTrimmed ==
    ASSUME NEW p \in Seq(Byte)
    PROVE  TrimSpace(TrimmedRight(p \o <<"lf">>, {"cr", "lf"})) = TrimSpace(p)
<1>1. "lf" \in Byte
  BY DEF Byte
<1>2. p \o <<"lf">> \in Seq(Byte)
  BY <1>1
<1>3. TrimmedRight(TrimmedRight(p \o <<"lf">>, {"cr", "lf"}), {"sp", "cr", "lf"})
         = TrimmedRight(p \o <<"lf">>, {"sp", "cr", "lf"})
  BY <1>2, TrimmedTwice
<1>4. TrimmedRight(p \o <<"lf">>, {"sp", "cr", "lf"}) = TrimmedRight(p, {"sp", "cr", "lf"})
  BY <1>1, TrimmedAppended
<1>5. QED
  BY <1>3, <1>4 DEF TrimSpace

\* The first byte of a stream that is not a digit.
LEMMA SelectOther ==
    ASSUME NEW s \in Seq(Byte), NEW k \in 1 .. Len(s), s[k] \notin Digit, \A i \in 1 .. k - 1 : s[i] \in Digit
    PROVE  SelectInSeq(s, LAMBDA b : b \notin Digit) = k
<1> DEFINE I == {i \in 1 .. Len(s) : s[i] \notin Digit}
<1>1. I \in SUBSET Nat /\ k \in I /\ \A i \in I : k <= i
  OBVIOUS
<1>2. Min(I) = k
  <2> HIDE DEF I
  <2> QED BY <1>1, FirstPlace
<1>3. QED
  BY <1>1, <1>2 DEF SelectInSeq

\* Among digits there is none.
LEMMA SelectNone ==
    ASSUME NEW s \in Seq(Byte), \A i \in 1 .. Len(s) : s[i] \in Digit
    PROVE  SelectInSeq(s, LAMBDA b : b \notin Digit) = 0
<1>1. {i \in 1 .. Len(s) : s[i] \notin Digit} = {}
  OBVIOUS
<1>2. QED
  BY <1>1 DEF SelectInSeq

\* A space and a line feed are no digits.
LEMMA Marks == "sp" \notin Digit /\ "lf" \notin Digit /\ Digit \subseteq Byte /\ {"sp", "cr", "lf"} \subseteq Byte
<1>1. Digit = {"0", "1", "2", "3", "4", "5", "6", "7", "8", "9"}
  BY DEF Digit, Digits, Range
<1>2. QED
  BY <1>1 DEF Byte

\* readLFLine reads a line, whatever follows it.
LEMMA ReadsLine ==
    ASSUME NEW p \in Seq(Byte), "lf" \notin Range(p), Len(p) < MaxFrameBytes, NEW rest \in Seq(Byte)
    PROVE  readLFLine(p \o <<"lf">> \o rest) = Message(TrimmedRight(p \o <<"lf">>, {"cr", "lf"}), rest)
<1> DEFINE s == p \o <<"lf">> \o rest
<1> DEFINE end == Len(p) + 1
<1>1. "lf" \in Byte
  BY Marks
<1>2. /\ s \in Seq(Byte) /\ Len(s) = Len(p) + 1 + Len(rest)
      /\ s[end] = "lf" /\ \A i \in 1 .. Len(p) : s[i] = p[i]
  BY <1>1
<1>3. \A i \in 1 .. Len(p) : p[i] # "lf"
  BY DEF Range
<1>4. SelectInSeq(s, LAMBDA b : b = "lf") = end
  <2> HIDE DEF s
  <2>1. end \in 1 .. Len(s) /\ \A i \in 1 .. end - 1 : s[i] # "lf"
    BY <1>2, <1>3
  <2>2. QED
    BY <1>2, <2>1, SelectLF
<1>5. SubSeq(s, 1, end) = p \o <<"lf">>
  BY <1>1
<1>6. SubSeq(s, end + 1, Len(s)) = rest
  BY <1>1, <1>2
<1>7. ~(end > MaxFrameBytes) /\ end # 0
  BY ConnectionsAssumption
<1>8. readLFLine(s) = Message(TrimmedRight(SubSeq(s, 1, end), {"cr", "lf"}), SubSeq(s, end + 1, Len(s)))
  <2> HIDE DEF s
  <2> QED
    BY <1>4, <1>7 DEF readLFLine
<1>9. QED
  BY <1>5, <1>6, <1>8

\* A line feed behind a counted frame belongs to it.
SkipLF(rest) == IF rest # << >> /\ Head(rest) = "lf" THEN Tail(rest) ELSE rest

\* tryOctetCounting, by the place k of the first byte that is not a digit.
LEMMA CountAt ==
    ASSUME NEW s \in Seq(Byte), NEW k \in 1 .. Len(s), s[k] \notin Digit, \A i \in 1 .. k - 1 : s[i] \in Digit,
           NEW n, n = Number(SubSeq(s, 1, k - 1))
    PROVE  tryOctetCounting(s) =
              IF k > MaxLenDigits + 1 \/ s[k] # "sp" \/ n \notin 1 .. MaxFrameBytes THEN Error("not")
              ELSE IF Len(s) < k + n THEN Error("eof")
              ELSE Message(SubSeq(s, k + 1, k + n), SkipLF(SubSeq(s, k + n + 1, Len(s))))
<1> DEFINE top == Min({Len(s), MaxLenDigits + 1})
<1> DEFINE peek == SubSeq(s, 1, top)
<1> DEFINE sp == SelectInSeq(peek, LAMBDA b : b \notin Digit)
<1>1. MaxLenDigits \in Nat /\ Len(s) \in Nat
  BY ConnectionsAssumption
<1>2. top = IF Len(s) <= MaxLenDigits + 1 THEN Len(s) ELSE MaxLenDigits + 1
  BY <1>1, MinOfTwo
<1>3. top \in 1 .. Len(s)
  <2> HIDE DEF top
  <2> QED
    BY <1>1, <1>2
<1>4. peek \in Seq(Byte) /\ Len(peek) = top /\ \A i \in 1 .. top : peek[i] = s[i]
  <2> HIDE DEF top
  <2> QED
    BY <1>3, SubSeqProperties
<1>5. CASE k > MaxLenDigits + 1
  <2>1. top = MaxLenDigits + 1
    <3> HIDE DEF top
    <3> QED
      BY <1>1, <1>2, <1>5
  <2>2. sp = 0
    <3> HIDE DEF top, peek
    <3>1. \A i \in 1 .. Len(peek) : peek[i] \in Digit
      BY <1>1, <1>4, <1>5, <2>1
    <3>2. SelectInSeq(peek, LAMBDA b : b \notin Digit) = 0
      BY <1>4, <3>1, SelectNone
    <3>3. QED
      BY <3>2
  <2>3. ~(Len(s) <= MaxLenDigits)
    BY <1>1, <1>5
  <2>4. QED
    BY <1>5, <2>2, <2>3 DEF tryOctetCounting
<1>6. CASE ~(k > MaxLenDigits + 1)
  <2>1. k \in 1 .. top
    <3> HIDE DEF top
    <3> QED
      BY <1>1, <1>2, <1>6
  <2>2. sp = k
    <3> HIDE DEF top, peek
    <3>1. k \in 1 .. Len(peek) /\ peek[k] \notin Digit /\ \A i \in 1 .. k - 1 : peek[i] \in Digit
      BY <1>3, <1>4, <2>1
    <3>2. SelectInSeq(peek, LAMBDA b : b \notin Digit) = k
      BY <1>4, <3>1, SelectOther
    <3>3. QED
      BY <3>2
  <2>3. peek[k] = s[k] /\ k # 0
    <3> HIDE DEF top, peek
    <3> QED
      BY <1>4, <2>1
  <2>4. SubSeq(peek, 1, k - 1) = SubSeq(s, 1, k - 1)
    <3> HIDE DEF top
    <3> QED
      BY <1>3, <2>1
  <2>5. sp = k /\ peek[sp] = s[k] /\ Number(SubSeq(peek, 1, sp - 1)) = n
    BY <2>2, <2>3, <2>4
  <2>6. CASE s[k] # "sp" \/ n \notin 1 .. MaxFrameBytes
    <3>1. tryOctetCounting(s) = Error("not")
      BY <2>3, <2>5, <2>6, Zenon DEF tryOctetCounting
    <3>2. QED
      BY <2>6, <3>1
  <2>7. CASE ~(s[k] # "sp" \/ n \notin 1 .. MaxFrameBytes)
    <3>1. tryOctetCounting(s) =
             IF Len(s) < k + n THEN Error("eof")
             ELSE Message(SubSeq(s, k + 1, k + n), SkipLF(SubSeq(s, k + n + 1, Len(s))))
      <4> DEFINE pk == SubSeq(s, 1, Min({Len(s), MaxLenDigits + 1}))
      <4>1. /\ SelectInSeq(pk, LAMBDA b : b \notin Digit) = k
            /\ pk[k] = "sp"
            /\ Number(SubSeq(pk, 1, k - 1)) = n
        BY <2>5, <2>7
      <4>2. QED
        BY <2>3, <2>7, <4>1 DEF tryOctetCounting, SkipLF
    <3>2. QED
      BY <1>6, <2>7, <3>1
  <2>8. QED
    BY <2>6, <2>7
<1>7. QED
  BY <1>5, <1>6

\* A counted frame is read, whatever follows it.
LEMMA ReadsCounted ==
    ASSUME NEW d \in Seq(Digit), Len(d) \in 1 .. MaxLenDigits, NEW p \in Seq(Byte),
           Number(d) = Len(p), Len(p) \in 1 .. MaxFrameBytes, NEW rest \in Seq(Byte)
    PROVE  tryOctetCounting(d \o <<"sp">> \o p \o rest) = Message(p, SkipLF(rest))
<1> DEFINE s == d \o <<"sp">> \o p \o rest
<1> DEFINE k == Len(d) + 1
<1>1. d \in Seq(Byte) /\ "sp" \in Byte /\ MaxLenDigits \in Nat
  BY Marks, ConnectionsAssumption
<1>2. /\ s \in Seq(Byte) /\ Len(s) = Len(d) + 1 + Len(p) + Len(rest)
      /\ s[k] = "sp" /\ \A i \in 1 .. Len(d) : s[i] = d[i]
  BY <1>1
<1>3. \A i \in 1 .. Len(d) : d[i] \in Digit
  OBVIOUS
<1>4. SubSeq(s, 1, k - 1) = d
  BY <1>1
<1>5. SubSeq(s, k + 1, k + Len(p)) = p
  BY <1>1
<1>6. SubSeq(s, k + Len(p) + 1, Len(s)) = rest
  BY <1>1, <1>2
<1>7. tryOctetCounting(s) = Message(SubSeq(s, k + 1, k + Len(p)), SkipLF(SubSeq(s, k + Len(p) + 1, Len(s))))
  <2> HIDE DEF s
  <2>1. k \in 1 .. Len(s)
    BY <1>2
  <2>2. s[k] \notin Digit
    BY <1>2, Marks
  <2>3. k - 1 = Len(d)
    OBVIOUS
  <2>4. \A i \in 1 .. k - 1 : s[i] \in Digit
    BY <1>2, <1>3, <2>3
  <2>5. k \in 1 .. Len(s) /\ s[k] \notin Digit /\ \A i \in 1 .. k - 1 : s[i] \in Digit
    BY <2>1, <2>2, <2>4
  <2>6. ~(k > MaxLenDigits + 1) /\ ~(Len(s) < k + Len(p))
    BY <1>1, <1>2
  <2>7. Len(p) = Number(SubSeq(s, 1, k - 1))
    BY <1>4
  <2> HIDE DEF k
  <2>8. QED
    BY <1>2, <2>5, <2>6, <2>7, CountAt
<1>8. QED
  BY <1>5, <1>6, <1>7

\* What tryOctetCounting leaves to readLFLine it leaves to it whatever follows.
LEMMA LineNotCounted ==
    ASSUME NEW p \in Seq(Byte), NEW rest \in Seq(Byte), tryOctetCounting(p \o <<"lf">>).err = "not"
    PROVE  tryOctetCounting(p \o <<"lf">> \o rest).err = "not"
<1> DEFINE f == p \o <<"lf">>
<1> DEFINE s == f \o rest
<1>1. "lf" \in Byte /\ "lf" \notin Digit
  BY Marks
<1>2. /\ f \in Seq(Byte) /\ Len(f) = Len(p) + 1 /\ f[Len(f)] = "lf"
      /\ s \in Seq(Byte) /\ Len(s) = Len(f) + Len(rest) /\ \A i \in 1 .. Len(f) : s[i] = f[i]
  BY <1>1
<1>3. PICK k \in 1 .. Len(f) : f[k] \notin Digit /\ \A i \in 1 .. k - 1 : f[i] \in Digit
  <2> DEFINE T == {i \in 1 .. Len(f) : f[i] \notin Digit}
  <2> HIDE DEF f
  <2>1. T \in SUBSET Nat /\ Len(f) \in T
    BY <1>1, <1>2
  <2>2. PICK k \in T : \A i \in T : k <= i
    <3> HIDE DEF T
    <3> QED
      BY <2>1, LeastNumber
  <2>3. QED
    BY <2>2
<1>4. PICK n : n = Number(SubSeq(f, 1, k - 1))
  OBVIOUS
<1> HIDE DEF f
<1>5. SubSeq(s, 1, k - 1) = SubSeq(f, 1, k - 1)
  BY <1>2, <1>3
<1> HIDE DEF s
<1>6. k > MaxLenDigits + 1 \/ f[k] # "sp" \/ n \notin 1 .. MaxFrameBytes
  <2>1. Error("eof").err # "not" /\ \A m, r : Message(m, r).err # "not"
    BY DEF Error, Message
  <2>2. tryOctetCounting(f).err = "not"
    BY DEF f
  <2>3. tryOctetCounting(f) =
              IF k > MaxLenDigits + 1 \/ f[k] # "sp" \/ n \notin 1 .. MaxFrameBytes THEN Error("not")
              ELSE IF Len(f) < k + n THEN Error("eof")
              ELSE Message(SubSeq(f, k + 1, k + n), SkipLF(SubSeq(f, k + n + 1, Len(f))))
    <3>1. f \in Seq(Byte) /\ k \in 1 .. Len(f) /\ f[k] \notin Digit
      BY <1>2, <1>3
    <3>2. \A i \in 1 .. k - 1 : f[i] \in Digit
      BY <1>3
    <3>3. QED
      BY <3>1, <3>2, <1>4, CountAt
  <2>4. QED
    BY <2>1, <2>2, <2>3
<1>7. k \in 1 .. Len(s) /\ s[k] = f[k] /\ \A i \in 1 .. k - 1 : s[i] \in Digit
  BY <1>2, <1>3
<1>8. tryOctetCounting(s) = Error("not")
  BY <1>2, <1>3, <1>4, <1>5, <1>6, <1>7, CountAt
<1>9. tryOctetCounting(s).err = "not"
  BY <1>8 DEF Error
<1>10. QED
  BY <1>9 DEF s, f

\* What is left is a part of what there was.
LEMMA TrimmedTyped ==
    ASSUME NEW S, NEW s \in Seq(S), NEW blanks
    PROVE  TrimmedRight(s, blanks) \in Seq(S)
<1>1. PICK k \in 0 .. Len(s) :
         /\ k # 0 => s[k] \notin blanks
         /\ \A i \in k + 1 .. Len(s) : s[i] \in blanks
  BY TrimmedPlace
<1>2. TrimmedRight(s, blanks) = SubSeq(s, 1, k)
  BY <1>1, TrimmedAt
<1>3. QED
  BY <1>2

\* So it is when both ends are trimmed.
LEMMA TrimTyped ==
    ASSUME NEW s \in Seq(Byte)
    PROVE  TrimSpace(s) \in Seq(Byte)
<1> DEFINE blanks == {"sp", "cr", "lf"}
<1>1. \A t \in Seq(Byte) : Reverse(t) \in Seq(Byte)
  BY DEF Reverse
<1>2. TrimmedRight(s, blanks) \in Seq(Byte)
  BY TrimmedTyped
<1>3. TrimmedRight(Reverse(TrimmedRight(s, blanks)), blanks) \in Seq(Byte)
  BY <1>1, <1>2, TrimmedTyped
<1>4. QED
  BY <1>1, <1>3 DEF TrimSpace

\* Bytes that stand behind others.
LEMMA Behind ==
    ASSUME NEW a \in Seq(Byte), NEW b \in Seq(Byte), NEW c \in Seq(Byte)
    PROVE  a \o b \o c = a \o (b \o c)
BY ConcatAssociative

\* A space and a line feed, as streams of one byte.
LEMMA Marked == <<"sp">> \in Seq(Byte) /\ <<"lf">> \in Seq(Byte)
BY Marks

\* A counted frame begins with its count.
LEMMA BeginsWithCount ==
    ASSUME NEW f \in Frames, f.kind \in {"counted", "countedLF"}
    PROVE  \E tail \in Seq(Byte) : FrameBytes(f) = f.count \o tail
<1>1. f.count \in Seq(Digit) /\ f.payload \in Seq(Byte)
  BY DEF Frames
<1>2. f.count \in Seq(Byte)
  BY <1>1, Marks
<1>3. /\ \E tail \in Seq(Byte) : f.count \o <<"sp">> \o f.payload = f.count \o tail
      /\ \E tail \in Seq(Byte) : f.count \o <<"sp">> \o f.payload \o <<"lf">> = f.count \o tail
  <2>1. PICK sp \in Seq(Byte) : sp = <<"sp">>
    BY Marked
  <2>2. PICK lf \in Seq(Byte) : lf = <<"lf">>
    BY Marked
  <2>3. PICK d \in Seq(Byte) : d = f.count
    BY <1>2
  <2>4. PICK p \in Seq(Byte) : p = f.payload
    BY <1>1
  <2>5. d \o sp \o p = d \o (sp \o p)
    BY Behind
  <2>6. sp \o p \in Seq(Byte)
    OBVIOUS
  <2>7. PICK q \in Seq(Byte) : q = sp \o p
    BY <2>6, Zenon
  <2>8. d \o q \o lf = d \o (q \o lf)
    BY Behind
  <2>9. d \o sp \o p \o lf = d \o (q \o lf)
    BY <2>5, <2>7, <2>8
  <2>10. q \o lf \in Seq(Byte)
    OBVIOUS
  <2>11. /\ \E tail \in Seq(Byte) : d \o sp \o p = d \o tail
        /\ \E tail \in Seq(Byte) : d \o sp \o p \o lf = d \o tail
    BY <2>5, <2>9, <2>6, <2>10, Zenon
  <2>12. QED
    BY <2>1, <2>2, <2>3, <2>4, <2>11
<1>4. CASE f.kind = "counted"
  <2>1. FrameBytes(f) = f.count \o <<"sp">> \o f.payload
    BY <1>4 DEF FrameBytes
  <2>2. QED
    BY <2>1, <1>3
<1>5. CASE f.kind = "countedLF"
  <2>1. FrameBytes(f) = f.count \o <<"sp">> \o f.payload \o <<"lf">>
    BY <1>5 DEF FrameBytes
  <2>2. QED
    BY <2>1, <1>3
<1>6. QED
  BY <1>4, <1>5

\* A frame is bytes, and it begins with a line feed only if it is a blank line.
LEMMA FrameWritten ==
    ASSUME NEW f \in Frames
    PROVE  /\ f.payload \in Seq(Byte)
           /\ FrameBytes(f) \in Seq(Byte)
           /\ FrameBytes(f) # << >>
           /\ Head(FrameBytes(f)) = "lf" => FrameBytes(f) = <<"lf">> /\ TrimSpace(f.payload) = << >>
<1>1. /\ f.kind \in {"counted", "countedLF", "line"} /\ f.count \in Seq(Digit) /\ f.payload \in Seq(Byte)
      /\ Carries(f)
  BY DEF Frames
<1>2. f.count \in Seq(Byte)
  BY <1>1, Marks
<1>3. "sp" \in Byte /\ "lf" \in Byte /\ "lf" \notin Digit
  BY Marks
<1>4. CASE f.kind = "line"
  <2>1. FrameBytes(f) = f.payload \o <<"lf">>
    BY <1>4 DEF FrameBytes
  <2>2. "lf" \notin Range(f.payload)
    BY <1>1, <1>4 DEF Carries
  <2>3. f.payload # << >> => Head(f.payload \o <<"lf">>) # "lf"
    <3>1. ASSUME f.payload # << >>
          PROVE  Head(f.payload \o <<"lf">>) = f.payload[1] /\ 1 \in DOMAIN f.payload
      BY <1>1, <1>3, <3>1
    <3>2. QED
      BY <3>1, <2>2 DEF Range
  <2>4. TrimSpace(<< >>) = << >>
    <3>1. TrimmedRight(<< >>, {"sp", "cr", "lf"}) = << >>
      BY DEF TrimmedRight
    <3>2. Reverse(<< >>) = << >>
      BY DEF Reverse
    <3>3. QED
      BY <3>1, <3>2 DEF TrimSpace
  <2>5. f.payload = << >> => FrameBytes(f) = <<"lf">>
    BY <2>1
  <2>6. FrameBytes(f) \in Seq(Byte) /\ FrameBytes(f) # << >>
    BY <1>1, <1>3, <2>1
  <2>7. QED
    BY <1>1, <2>1, <2>3, <2>4, <2>5, <2>6
<1>5. CASE f.kind \in {"counted", "countedLF"}
  <2>1. Len(f.count) \in 1 .. MaxLenDigits
    BY <1>1, <1>5 DEF Carries
  <2>2. PICK tail \in Seq(Byte) : FrameBytes(f) = f.count \o tail
    BY <1>5, BeginsWithCount
  <2>3. Head(FrameBytes(f)) = f.count[1] /\ f.count[1] \in Digit /\ FrameBytes(f) # << >> /\ FrameBytes(f) \in Seq(Byte)
    BY <1>1, <1>2, <2>1, <2>2
  <2>4. QED
    BY <1>1, <1>3, <2>3
<1>6. QED
  BY <1>1, <1>4, <1>5

\* The reader takes a frame off the stream, whatever follows it; only a counted one
\* takes a line feed that follows.
LEMMA ReadsFrame ==
    ASSUME NEW f \in Frames, NEW rest \in Seq(Byte)
    PROVE  \E m \in Seq(Byte) :
              /\ TrimSpace(m) = TrimSpace(f.payload)
              /\ ReadLine(FrameBytes(f) \o rest) =
                    Message(m, IF f.kind = "counted" THEN SkipLF(rest) ELSE rest)
<1> DEFINE s == FrameBytes(f) \o rest
<1> DEFINE d == f.count
<1> DEFINE p == f.payload
<1>1. /\ f.kind \in {"counted", "countedLF", "line"} /\ d \in Seq(Digit) /\ p \in Seq(Byte)
      /\ Carries(f)
  BY DEF Frames
<1>2. d \in Seq(Byte) /\ "sp" \in Byte /\ "lf" \in Byte /\ "lf" \notin Digit
  BY <1>1, Marks
<1>3. FrameBytes(f) \in Seq(Byte) /\ FrameBytes(f) # << >>
  BY FrameWritten
<1>4. s # << >> /\ Head(s) = Head(FrameBytes(f))
  BY <1>3
<1>5. \A m, r : Message(m, r).err # "not"
  BY DEF Message
<1>6. CASE f.kind \in {"counted", "countedLF"}
  <2> DEFINE more == IF f.kind = "counted" THEN rest ELSE <<"lf">> \o rest
  <2>1. /\ Len(d) \in 1 .. MaxLenDigits /\ Number(d) = Len(p) /\ Len(p) \in 1 .. MaxFrameBytes
    BY <1>1, <1>6 DEF Carries
  <2>2. more \in Seq(Byte) /\ SkipLF(more) = IF f.kind = "counted" THEN SkipLF(rest) ELSE rest
    <3>1. /\ <<"lf">> \o rest \in Seq(Byte) /\ <<"lf">> \o rest # << >>
          /\ Head(<<"lf">> \o rest) = "lf" /\ Tail(<<"lf">> \o rest) = rest
      BY <1>2
    <3>2. SkipLF(<<"lf">> \o rest) = rest
      BY <3>1 DEF SkipLF
    <3>3. QED
      BY <3>1, <3>2
  <2>3. s = d \o <<"sp">> \o p \o more
    <3>1. CASE f.kind = "counted"
      BY <3>1 DEF FrameBytes
    <3>2. CASE f.kind = "countedLF"
      <4>1. FrameBytes(f) = d \o <<"sp">> \o p \o <<"lf">>
        BY <3>2 DEF FrameBytes
      <4>2. d \o <<"sp">> \o p \in Seq(Byte)
        BY <1>1, <1>2
      <4>3. (d \o <<"sp">> \o p) \o <<"lf">> \o rest = (d \o <<"sp">> \o p) \o (<<"lf">> \o rest)
        <5> DEFINE a == d \o <<"sp">> \o p
        <5> HIDE DEF a
        <5>1. a \in Seq(Byte) /\ <<"lf">> \in Seq(Byte)
          BY <4>2, <1>2 DEF a
        <5>2. a \o <<"lf">> \o rest = a \o (<<"lf">> \o rest)
          BY <5>1, Behind, Zenon
        <5>3. QED
          BY <5>2 DEF a
      <4>4. QED
        BY <3>2, <4>1, <4>3
    <3>3. QED
      BY <1>6, <3>1, <3>2
  <2>4. tryOctetCounting(s) = Message(p, SkipLF(more))
    <3> HIDE DEF s, more, d, p
    <3>1. d \in Seq(Digit) /\ p \in Seq(Byte)
      BY <1>1
    <3>2. tryOctetCounting(d \o <<"sp">> \o p \o more) = Message(p, SkipLF(more))
      BY <3>1, <2>1, <2>2, ReadsCounted
    <3>3. QED
      BY <2>3, <3>2
  <2>5. Head(s) \in Digit
    <3>1. PICK tail \in Seq(Byte) : FrameBytes(f) = d \o tail
      BY <1>6, BeginsWithCount
    <3>2. Head(s) = d[1] /\ d[1] \in Digit
      <4> HIDE DEF s
      <4> QED
        BY <1>1, <1>2, <1>4, <2>1, <3>1
    <3>3. QED
      BY <3>2
  <2>6. ReadLine(s) = Message(p, SkipLF(more))
    <3> HIDE DEF s, more
    <3>1. tryOctetCounting(s).err # "not"
      BY <2>4, <1>5
    <3>2. QED
      BY <1>4, <2>4, <2>5, <3>1 DEF ReadLine
  <2>7. QED
    BY <1>1, <2>2, <2>6
<1>7. CASE f.kind = "line"
  <2>1. FrameBytes(f) = p \o <<"lf">>
    BY <1>7 DEF FrameBytes
  <2>2. /\ Len(p) < MaxFrameBytes /\ "lf" \notin Range(p)
        /\ p # << >> /\ Head(p) \in Digit => tryOctetCounting(p \o <<"lf">>).err = "not"
    BY <1>1, <1>7, <2>1 DEF Carries
  <2>3. Head(s) \in Digit => tryOctetCounting(s).err = "not"
    <3>1. SUFFICES ASSUME Head(s) \in Digit
                   PROVE  tryOctetCounting(s).err = "not"
      OBVIOUS
    <3>2. p # << >> /\ Head(p) \in Digit
      <4>1. p = << >> => Head(p \o <<"lf">>) = "lf"
        OBVIOUS
      <4>2. p # << >> => Head(p \o <<"lf">>) = Head(p)
        BY <1>1, <1>2
      <4>3. Head(p \o <<"lf">>) \in Digit
        BY <3>1, <1>4, <2>1
      <4>4. QED
        BY <4>1, <4>2, <4>3, <1>2
    <3>3. tryOctetCounting(p \o <<"lf">> \o rest).err = "not"
      BY <1>1, <2>2, <3>2, LineNotCounted
    <3>4. QED
      BY <3>3, <2>1
  <2>4. ReadLine(s) = readLFLine(s)
    <3> HIDE DEF s
    <3>1. CASE Head(s) \in Digit
      BY <3>1, <2>3, <1>4 DEF ReadLine
    <3>2. CASE Head(s) \notin Digit
      <4>1. Error("not").err = "not"
        BY DEF Error
      <4>2. QED
        BY <3>2, <4>1, <1>4 DEF ReadLine
    <3>3. QED
      BY <3>1, <3>2
  <2>5. readLFLine(s) = Message(TrimmedRight(p \o <<"lf">>, {"cr", "lf"}), rest)
    BY <1>1, <2>1, <2>2, ReadsLine
  <2>6. TrimmedRight(p \o <<"lf">>, {"cr", "lf"}) \in Seq(Byte)
    <3>1. p \o <<"lf">> \in Seq(Byte)
      BY <1>1, <1>2
    <3>2. QED
      BY <3>1, TrimmedTyped, Zenon
  <2>7. TrimSpace(TrimmedRight(p \o <<"lf">>, {"cr", "lf"})) = TrimSpace(p)
    BY <1>1, LineTrimmed
  <2>8. QED
    BY <1>7, <2>4, <2>5, <2>6, <2>7
<1>8. QED
  BY <1>1, <1>6, <1>7

\* A message that is added at the end is added at the end of the last part.
LEMMA AppendBehind ==
    ASSUME NEW S, NEW a \in Seq(S), NEW b \in Seq(S), NEW x \in S
    PROVE  Append(a \o b, x) = a \o Append(b, x) /\ Append(b, x) \in Seq(S)
<1>1. PICK e \in Seq(S) : e = <<x>>
  <2>1. <<x>> \in Seq(S)
    OBVIOUS
  <2>2. QED
    BY <2>1, Zenon
<1>2. a \o b \o e = a \o (b \o e)
  BY ConcatAssociative
<1>3. a \o b \in Seq(S) /\ Append(b, x) \in Seq(S)
  OBVIOUS
<1>4. Append(b, x) = b \o e
  BY <1>1, AppendIsConcat
<1> DEFINE ab == a \o b
<1>5. Append(ab, x) = ab \o e
  <2> HIDE DEF ab
  <2>1. ab \in Seq(S)
    BY <1>3 DEF ab
  <2>2. QED
    BY <1>1, <2>1, AppendIsConcat
<1>6. QED
  BY <1>2, <1>3, <1>4, <1>5

-----------------------------------------------------------------------------
(* The streams: so many frames, one after the other *)

\* The bytes and messages of so many frames.
Sending == [bytes : Seq(Byte), sent : Seq(Seq(Byte))]

\* What one more frame adds.
OneMore(fs, i, before) ==
    LET msg == TrimSpace(fs[i].payload)
    IN  [bytes |-> before.bytes \o FrameBytes(fs[i]),
         sent |-> IF msg = << >> THEN before.sent ELSE Append(before.sent, msg)]

\* Bytes and messages stay bytes and messages.
LEMMA OneMoreTyped ==
    ASSUME NEW fs \in Seq(Frames), NEW i \in 1 .. Len(fs), NEW before \in Sending
    PROVE  OneMore(fs, i, before) \in Sending
<1>1. fs[i] \in Frames
  OBVIOUS
<1>2. fs[i].payload \in Seq(Byte) /\ FrameBytes(fs[i]) \in Seq(Byte)
  BY <1>1, FrameWritten
<1>3. TrimSpace(fs[i].payload) \in Seq(Byte)
  BY <1>2, TrimTyped
<1>4. before.bytes \in Seq(Byte) /\ before.sent \in Seq(Seq(Byte))
  BY DEF Sending
<1>5. before.bytes \o FrameBytes(fs[i]) \in Seq(Byte)
  BY <1>2, <1>4
<1>6. Append(before.sent, TrimSpace(fs[i].payload)) \in Seq(Seq(Byte))
  BY <1>3, <1>4
<1>7. QED
  BY <1>4, <1>5, <1>6 DEF OneMore, Sending

\* What Written says, frame by frame.
LEMMA WrittenIs ==
    ASSUME NEW fs \in Seq(Frames)
    PROVE  /\ Written(fs) \in [0 .. Len(fs) -> Sending]
           /\ Written(fs)[0] = [bytes |-> << >>, sent |-> << >>]
           /\ \A i \in 1 .. Len(fs) : Written(fs)[i] = OneMore(fs, i, Written(fs)[i - 1])
<1> DEFINE n == Len(fs)
<1> DEFINE base == [bytes |-> << >>, sent |-> << >>]
<1> DEFINE F == [x \in (1 .. n) \X Sending |-> OneMore(fs, x[1], x[2])]
<1>1. n \in Nat /\ base \in Sending
  BY DEF Sending
<1>2. \A i \in 1 .. n, v \in Sending : F[<<i, v>>] \in Sending /\ F[<<i, v>>] = OneMore(fs, i, v)
  BY OneMoreTyped
<1>3. PICK g \in [0 .. n -> Sending] : \A i \in 0 .. n : g[i] = IF i = 0 THEN base ELSE F[<<i, g[i - 1]>>]
  <2> HIDE DEF n, base, F
  <2> QED
    <3>1. \A i \in 1 .. n, v \in Sending : F[<<i, v>>] \in Sending
      BY <1>2
    <3>2. PICK k \in Nat, b \in Sending : k = n /\ b = base
      BY <1>1, Zenon
    <3>3. PICK f : f = F
      OBVIOUS
    <3>4. StaysIn(k, Sending, f)
      BY <3>1, <3>2, <3>3 DEF StaysIn
    <3>5. \E g \in [0 .. k -> Sending] : Recursive(g, k, b, f)
      BY <3>4, RecursionExists
    <3>6. QED
      BY <3>2, <3>3, <3>5 DEF Recursive
<1>4. \A i \in 0 .. n : g[i] = IF i = 0 THEN base ELSE OneMore(fs, i, g[i - 1])
  <2> SUFFICES ASSUME NEW i \in 0 .. n, i # 0
               PROVE  g[i] = OneMore(fs, i, g[i - 1])
    BY <1>3
  <2>1. i \in 1 .. n /\ g[i - 1] \in Sending /\ g[i] = F[<<i, g[i - 1]>>]
    <3> HIDE DEF n, base, F
    <3> QED
      BY <1>1, <1>3
  <2>2. QED
    BY <1>2, <2>1
<1> DEFINE Is(h) == h = [i \in 0 .. n |-> IF i = 0 THEN base ELSE OneMore(fs, i, h[i - 1])]
<1>5. Is(g)
  <2> HIDE DEF n, base
  <2> QED
    BY <1>4
<1>6. Is(Written(fs))
  <2>1. Written(fs) = CHOOSE h : Is(h)
    BY Zenon DEF Written, OneMore
  <2> HIDE DEF Is
  <2>2. QED
    BY <1>5, <2>1, Zenon
<1>7. \A i \in 0 .. n : Written(fs)[i] = g[i]
  <2> DEFINE w == Written(fs)
  <2>1. \A i \in 0 .. n : w[i] = IF i = 0 THEN base ELSE OneMore(fs, i, w[i - 1])
    <3>1. w = [i \in 0 .. n |-> IF i = 0 THEN base ELSE OneMore(fs, i, w[i - 1])]
      BY <1>6
    <3> HIDE DEF n, base, w
    <3>2. QED
      BY <3>1
  <2> DEFINE T == {k \in Nat : k <= n => w[k] = g[k]}
  <2> HIDE DEF w, n, base
  <2>2. 0 \in T
    BY <1>1, <1>4, <2>1
  <2>3. ASSUME NEW k \in Nat, k \in T
        PROVE  k + 1 \in T
    <3> SUFFICES ASSUME k + 1 <= n
                 PROVE  w[k + 1] = g[k + 1]
      OBVIOUS
    <3>1. w[k] = g[k] /\ k + 1 \in 0 .. n /\ k + 1 # 0 /\ (k + 1) - 1 = k
      BY <1>1, <2>3
    <3>2. w[k + 1] = OneMore(fs, k + 1, w[k]) /\ g[k + 1] = OneMore(fs, k + 1, g[k])
      BY <3>1, <1>4, <2>1
    <3>3. QED
      BY <3>1, <3>2
  <2>4. Nat \subseteq T
    <3> HIDE DEF T
    <3> QED
      BY <2>2, <2>3, NatInd
  <2>5. QED
    BY <2>4, <1>1 DEF w
<1>8. DOMAIN Written(fs) = 0 .. n /\ Written(fs) = [i \in 0 .. n |-> Written(fs)[i]]
  BY <1>6
<1>9. Written(fs) \in [0 .. n -> Sending]
  <2>1. \A i \in 0 .. n : Written(fs)[i] \in Sending
    BY <1>7
  <2> HIDE DEF n
  <2>2. QED
    BY <2>1, <1>8
<1>10. Written(fs)[0] = base
  BY <1>1, <1>4, <1>7
<1>11. ASSUME NEW i \in 1 .. n
       PROVE  Written(fs)[i] = OneMore(fs, i, Written(fs)[i - 1])
  <2>1. i \in 0 .. n /\ i - 1 \in 0 .. n /\ i # 0
    OBVIOUS
  <2> HIDE DEF n, base
  <2>2. QED
    BY <2>1, <1>4, <1>7
<1>12. QED
  BY <1>9, <1>10, <1>11

\* What has been written stands in front of what is written next.
LEMMA WrittenGrows ==
    ASSUME NEW fs \in Seq(Frames), NEW i \in 0 .. Len(fs)
    PROVE  \A j \in i .. Len(fs) : \E t \in Seq(Byte), u \in Seq(Seq(Byte)) :
              /\ Written(fs)[j].bytes = Written(fs)[i].bytes \o t
              /\ Written(fs)[j].sent = Written(fs)[i].sent \o u
<1> DEFINE w == Written(fs)
<1> DEFINE n == Len(fs)
<1> DEFINE Grown(j) == \E t \in Seq(Byte), u \in Seq(Seq(Byte)) :
              /\ w[j].bytes = w[i].bytes \o t
              /\ w[j].sent = w[i].sent \o u
<1>1. /\ n \in Nat /\ \A j \in 0 .. n : w[j].bytes \in Seq(Byte) /\ w[j].sent \in Seq(Seq(Byte))
      /\ \A j \in 1 .. n : w[j] = OneMore(fs, j, w[j - 1])
  <2>1. /\ w \in [0 .. n -> Sending]
        /\ \A j \in 1 .. n : w[j] = OneMore(fs, j, w[j - 1])
    BY WrittenIs, Zenon
  <2>2. \A x \in Sending : x.bytes \in Seq(Byte) /\ x.sent \in Seq(Seq(Byte))
    BY DEF Sending
  <2>3. \A j \in 0 .. n : w[j] \in Sending
    <3> HIDE DEF w, n
    <3> QED
      BY <2>1, Zenon
  <2>4. n \in Nat
    OBVIOUS
  <2> HIDE DEF w, n
  <2>5. QED
    BY <2>1, <2>2, <2>3, <2>4, Zenon
<1> DEFINE T == {k \in Nat : i + k <= n => Grown(i + k)}
<1>2. 0 \in T
  <2>1. w[i].bytes = w[i].bytes \o << >> /\ w[i].sent = w[i].sent \o << >>
    <3> HIDE DEF w
    <3> QED
      BY <1>1, ConcatEmptySeq
  <2>2. << >> \in Seq(Byte) /\ << >> \in Seq(Seq(Byte))
    OBVIOUS
  <2>3. Grown(i)
    <3> HIDE DEF w
    <3> QED
      BY <2>1, <2>2, Zenon
  <2>4. i + 0 = i
    OBVIOUS
  <2> HIDE DEF Grown
  <2>5. QED
    BY <2>3, <2>4
<1>3. ASSUME NEW k \in Nat, k \in T
      PROVE  k + 1 \in T
  <2> DEFINE j == i + k + 1
  <2>1. SUFFICES ASSUME j <= n
                 PROVE  Grown(j)
    <3>1. j = i + (k + 1)
      OBVIOUS
    <3> HIDE DEF Grown, j, n
    <3>2. QED
      BY <3>1
  <2>2. i + k \in 0 .. n /\ j \in 1 .. n /\ j - 1 = i + k
    BY <1>1, <2>1
  <2>3. PICK t \in Seq(Byte), u \in Seq(Seq(Byte)) :
           /\ w[i + k].bytes = w[i].bytes \o t
           /\ w[i + k].sent = w[i].sent \o u
    <3>1. Grown(i + k)
      <4> HIDE DEF Grown
      <4> QED
        BY <1>3, <2>2
    <3>2. QED
      BY <3>1
  <2>4. w[j] = OneMore(fs, j, w[i + k])
    <3> HIDE DEF w, n, j
    <3> QED
      BY <1>1, <2>2
  <2>5. fs[j] \in Frames
    BY <2>2
  <2>6. PICK e \in Seq(Byte) : e = FrameBytes(fs[j])
    BY <2>5, FrameWritten, Zenon
  <2>7. PICK m \in Seq(Byte) : m = TrimSpace(fs[j].payload)
    BY <2>5, FrameWritten, TrimTyped, Zenon
  <2>8. PICK a \in Seq(Byte), b \in Seq(Seq(Byte)) : a = w[i].bytes /\ b = w[i].sent
    <3> HIDE DEF w
    <3> QED
      BY <1>1, Zenon
  <2>9. w[j].bytes = a \o t \o e /\ w[j].sent = IF m = << >> THEN b \o u ELSE Append(b \o u, m)
    <3> HIDE DEF w, j
    <3> QED
      <4>1. w[j] = [bytes |-> w[i + k].bytes \o e, sent |-> IF m = << >> THEN w[i + k].sent ELSE Append(w[i + k].sent, m)]
        BY <2>4, <2>6, <2>7 DEF OneMore
      <4>2. w[j].bytes = w[i + k].bytes \o e /\ w[j].sent = IF m = << >> THEN w[i + k].sent ELSE Append(w[i + k].sent, m)
        BY <4>1
      <4>3. QED
        BY <2>3, <2>8, <4>2
  <2>10. a \o t \o e = a \o (t \o e)
    BY Behind
  <2>11. t \o e \in Seq(Byte)
    OBVIOUS
  <2>12. Append(b \o u, m) = b \o Append(u, m) /\ Append(u, m) \in Seq(Seq(Byte))
    BY AppendBehind
  <2>13. QED
    <3> HIDE DEF w, j
    <3>1. CASE m = << >>
      <4>1. w[j].bytes = w[i].bytes \o (t \o e) /\ w[j].sent = w[i].sent \o u
        BY <3>1, <2>8, <2>9, <2>10
      <4>2. QED
        BY <4>1, <2>11, Zenon
    <3>2. CASE m # << >>
      <4>1. w[j].bytes = w[i].bytes \o (t \o e) /\ w[j].sent = w[i].sent \o Append(u, m)
        BY <3>2, <2>8, <2>9, <2>10, <2>12
      <4>2. QED
        BY <4>1, <2>11, <2>12, Zenon
    <3>3. QED
      BY <3>1, <3>2
<1>4. Nat \subseteq T
  <2> HIDE DEF T
  <2> QED
    BY <1>2, <1>3, NatInd
<1>5. ASSUME NEW j \in i .. n
      PROVE  Grown(j)
  <2>1. j - i \in Nat /\ i + (j - i) = j /\ j <= n
    BY <1>1
  <2>2. j - i \in T
    BY <1>4, <2>1
  <2>3. Grown(i + (j - i))
    BY <2>1, <2>2
  <2> HIDE DEF Grown
  <2>4. QED
    BY <2>1, <2>3
<1>6. QED
  BY <1>5

\* The bytes that are still to come are the next frame and those behind it.
LEMMA NextFrame ==
    ASSUME NEW fs \in Seq(Frames), NEW i \in 0 .. Len(fs) - 1, NEW w \in Seq(Byte),
           Written(fs)[i].bytes \o w = Written(fs)[Len(fs)].bytes
    PROVE  \E t \in Seq(Byte) :
              /\ w = FrameBytes(fs[i + 1]) \o t
              /\ Written(fs)[i + 1].bytes \o t = Written(fs)[Len(fs)].bytes
<1>1. /\ Len(fs) \in Nat /\ i + 1 \in 0 .. Len(fs) /\ i + 1 \in 1 .. Len(fs) /\ i \in 0 .. Len(fs)
      /\ (i + 1) - 1 = i /\ Len(fs) \in i + 1 .. Len(fs)
  OBVIOUS
<1>2. Written(fs)[i] \in Sending /\ Written(fs)[i + 1] = OneMore(fs, i + 1, Written(fs)[i])
  <2>1. /\ Written(fs) \in [0 .. Len(fs) -> Sending]
        /\ \A j \in 1 .. Len(fs) : Written(fs)[j] = OneMore(fs, j, Written(fs)[j - 1])
    BY WrittenIs, Zenon
  <2>2. QED
    BY <1>1, <2>1
<1>3. PICK a \in Seq(Byte) : a = Written(fs)[i].bytes
  BY <1>2 DEF Sending
<1>4. fs[i + 1] \in Frames
  BY <1>1
<1>5. PICK e \in Seq(Byte) : e = FrameBytes(fs[i + 1])
  BY <1>4, FrameWritten, Zenon
<1>6. Written(fs)[i + 1].bytes = a \o e
  <2>1. OneMore(fs, i + 1, Written(fs)[i]).bytes = Written(fs)[i].bytes \o FrameBytes(fs[i + 1])
    BY DEF OneMore
  <2>2. QED
    BY <1>2, <1>3, <1>5, <2>1
<1>7. PICK t \in Seq(Byte) : Written(fs)[Len(fs)].bytes = Written(fs)[i + 1].bytes \o t
  BY <1>1, WrittenGrows, Zenon
<1>8. a \o w = a \o e \o t
  BY <1>3, <1>6, <1>7
<1>9. PICK et \in Seq(Byte) : et = e \o t
  <2>1. e \o t \in Seq(Byte)
    OBVIOUS
  <2>2. QED
    BY <2>1, Zenon
<1>10. a \o w = a \o et
  <2>1. a \o e \o t = a \o (e \o t)
    BY Behind, Zenon
  <2>2. QED
    BY <1>8, <1>9, <2>1, Zenon
<1>11. w = et
  <2>1. \A s, v, u \in Seq(Byte) : s \o v = s \o u => v = u
    BY ConcatSimplifications
  <2>2. QED
    BY <1>10, <2>1, Zenon
<1>12. QED
  BY <1>5, <1>7, <1>9, <1>11

\* Nothing is left to come when all of the frames have been read, and only then.
LEMMA NothingToCome ==
    ASSUME NEW fs \in Seq(Frames), NEW i \in 0 .. Len(fs), NEW w \in Seq(Byte),
           Written(fs)[i].bytes \o w = Written(fs)[Len(fs)].bytes
    PROVE  w = << >> <=> i = Len(fs)
<1>1. CASE i = Len(fs)
  <2>1. PICK a \in Seq(Byte) : a = Written(fs)[i].bytes
    <3>1. Written(fs)[i] \in Sending
      <4>1. Written(fs) \in [0 .. Len(fs) -> Sending]
        BY WrittenIs, Zenon
      <4>2. QED
        BY <4>1
    <3>2. QED
      BY <3>1 DEF Sending
  <2>2. a \o w = a
    BY <1>1, <2>1
  <2>3. w = << >>
    BY <2>2, ConcatEqualIffEmpty
  <2>4. QED
    BY <1>1, <2>3
<1>2. CASE i # Len(fs)
  <2>1. i \in 0 .. Len(fs) - 1 /\ i + 1 \in 1 .. Len(fs)
    BY <1>2
  <2>2. PICK t \in Seq(Byte) : w = FrameBytes(fs[i + 1]) \o t
    BY <2>1, NextFrame, Zenon
  <2>3. fs[i + 1] \in Frames
    BY <2>1
  <2>4. FrameBytes(fs[i + 1]) \in Seq(Byte) /\ FrameBytes(fs[i + 1]) # << >>
    BY <2>3, FrameWritten, Zenon
  <2>5. w # << >>
    BY <2>2, <2>4
  <2>6. QED
    BY <1>2, <2>5
<1>3. QED
  BY <1>1, <1>2

\* What one reading of the rest of a stream gives: the message of the next frame.
\* A counted frame takes with it the blank line that follows it, if one does.
LEMMA ReadsNext ==
    ASSUME NEW fs \in Seq(Frames), NEW i \in 0 .. Len(fs), NEW w \in Seq(Byte), w # << >>,
           Written(fs)[i].bytes \o w = Written(fs)[Len(fs)].bytes
    PROVE  \E k \in 0 .. Len(fs), m \in Seq(Byte), r \in Seq(Byte) :
              /\ ReadLine(w) = Message(m, r)
              /\ Written(fs)[k].bytes \o r = Written(fs)[Len(fs)].bytes
              /\ Written(fs)[k].sent = IF TrimSpace(m) = << >> THEN Written(fs)[i].sent
                                       ELSE Append(Written(fs)[i].sent, TrimSpace(m))
<1>1. i # Len(fs)
  BY NothingToCome
<1>2. /\ i \in 0 .. Len(fs) - 1 /\ i + 1 \in 1 .. Len(fs) /\ i + 1 \in 0 .. Len(fs) /\ Len(fs) \in Nat
      /\ (i + 1) - 1 = i
  BY <1>1
<1>3. PICK t \in Seq(Byte) :
         /\ w = FrameBytes(fs[i + 1]) \o t
         /\ Written(fs)[i + 1].bytes \o t = Written(fs)[Len(fs)].bytes
  BY <1>2, NextFrame, Zenon
<1>4. PICK f \in Frames : f = fs[i + 1]
  <2>1. fs[i + 1] \in Frames
    BY <1>2
  <2>2. QED
    BY <2>1, Zenon
<1>5. PICK m \in Seq(Byte) :
         /\ TrimSpace(m) = TrimSpace(f.payload)
         /\ ReadLine(FrameBytes(f) \o t) = Message(m, IF f.kind = "counted" THEN SkipLF(t) ELSE t)
  BY ReadsFrame
<1>6. \A j \in 1 .. Len(fs) : Written(fs)[j] = OneMore(fs, j, Written(fs)[j - 1])
  BY WrittenIs, Zenon
<1>7. Written(fs)[i + 1].sent = IF TrimSpace(m) = << >> THEN Written(fs)[i].sent
                                ELSE Append(Written(fs)[i].sent, TrimSpace(m))
  <2>1. Written(fs)[i + 1] = OneMore(fs, i + 1, Written(fs)[i])
    BY <1>2, <1>6
  <2>2. QED
    BY <2>1, <1>4, <1>5 DEF OneMore
<1>8. CASE ~(f.kind = "counted" /\ t # << >> /\ Head(t) = "lf")
  <2>1. ReadLine(w) = Message(m, t)
    BY <1>3, <1>4, <1>5, <1>8 DEF SkipLF
  <2>2. QED
    BY <1>2, <1>3, <1>7, <2>1, Zenon
<1>9. CASE f.kind = "counted" /\ t # << >> /\ Head(t) = "lf"
  <2>1. ReadLine(w) = Message(m, Tail(t)) /\ Tail(t) \in Seq(Byte)
    BY <1>3, <1>4, <1>5, <1>9 DEF SkipLF
  <2>2. i + 1 # Len(fs)
    <3>1. t # << >>
      BY <1>9
    <3>2. QED
      BY <1>2, <1>3, <3>1, NothingToCome, Zenon
  <2>3. /\ i + 1 \in 0 .. Len(fs) - 1 /\ i + 2 \in 1 .. Len(fs) /\ i + 2 \in 0 .. Len(fs)
        /\ (i + 2) - 1 = i + 1 /\ (i + 1) + 1 = i + 2
    BY <1>2, <2>2
  <2>4. PICK u \in Seq(Byte) :
           /\ t = FrameBytes(fs[i + 2]) \o u
           /\ Written(fs)[i + 2].bytes \o u = Written(fs)[Len(fs)].bytes
    <3>1. \E u \in Seq(Byte) :
             /\ t = FrameBytes(fs[(i + 1) + 1]) \o u
             /\ Written(fs)[(i + 1) + 1].bytes \o u = Written(fs)[Len(fs)].bytes
      BY <1>3, <2>3, NextFrame, Zenon
    <3>2. QED
      BY <2>3, <3>1
  <2>5. PICK g \in Frames : g = fs[i + 2]
    <3>1. fs[i + 2] \in Frames
      BY <2>3
    <3>2. QED
      BY <3>1, Zenon
  <2>6. PICK e \in Seq(Byte) : e = FrameBytes(g) /\ e # << >>
    BY FrameWritten, Zenon
  <2>7. Head(e) = "lf"
    BY <1>9, <2>4, <2>5, <2>6
  <2>8. e = <<"lf">> /\ TrimSpace(g.payload) = << >>
    BY <2>6, <2>7, FrameWritten
  <2>9. Tail(t) = u
    BY <2>4, <2>5, <2>6, <2>8
  <2>10. Written(fs)[i + 2].sent = Written(fs)[i + 1].sent
    <3>1. Written(fs)[i + 2] = OneMore(fs, i + 2, Written(fs)[i + 1])
      BY <1>6, <2>3
    <3>2. QED
      BY <3>1, <2>5, <2>8 DEF OneMore
  <2>11. ReadLine(w) = Message(m, u)
    BY <2>1, <2>9
  <2>12. Written(fs)[i + 2].sent = IF TrimSpace(m) = << >> THEN Written(fs)[i].sent
                                   ELSE Append(Written(fs)[i].sent, TrimSpace(m))
    BY <2>10, <1>7
  <2>13. QED
    BY <2>3, <2>4, <2>11, <2>12, Zenon
<1>10. QED
  BY <1>8, <1>9

-----------------------------------------------------------------------------
(* The lines of a connection *)

\* Where a connection is in what its peer wrote: so many frames have been read and
\* the rest of the bytes is still to come.  All of their messages have been
\* offered, but for the one that is held, and but for one that came after the
\* context was cancelled.
Reached(c, fs, i) ==
    /\ Written(fs)[i].bytes \o wire[c].bytes = Written(fs)[Len(fs)].bytes
    /\ wire[c].sent = Written(fs)[Len(fs)].sent
    /\ conn[c] = "offering" =>
          Written(fs)[i].sent = IF held[c] = << >> THEN got[c] ELSE Append(got[c], held[c])
    /\ conn[c] # "offering" => held[c] = << >> /\ IsPrefix(got[c], Written(fs)[i].sent)
    /\ conn[c] # "offering" /\ ~(ctxDone /\ conn[c] \in {"leaving", "closed"})
          => got[c] = Written(fs)[i].sent

\* The bytes to come, the message held and the messages offered.
LineTypes ==
    /\ wire \in [Conns -> Sending]
    /\ held \in [Conns -> Seq(Byte)]
    /\ got \in [Conns -> Seq(Seq(Byte))]

\* A connection has read some of the frames of some peer.
InPlace(c) == \E fs \in Seq(Frames) : \E i \in 0 .. Len(fs) : Reached(c, fs, i)

\* The inductive invariant of what the connections read.
LineInv == LineTypes /\ \A c \in Conns : InPlace(c)

\* A beginning stays one when more comes behind.
LEMMA PrefixLonger ==
    ASSUME NEW S, NEW a \in Seq(S), NEW b \in Seq(S), NEW c \in Seq(S), IsPrefix(a, b)
    PROVE  IsPrefix(a, b \o c)
<1>1. Len(a) <= Len(b) /\ SubSeq(a, 1, Len(a)) = SubSeq(b, 1, Len(a))
  BY DEF IsPrefix
<1>2. SubSeq(b \o c, 1, Len(a)) = SubSeq(b, 1, Len(a)) /\ Len(a) <= Len(b \o c)
  BY <1>1
<1>3. QED
  BY <1>1, <1>2 DEF IsPrefix

\* What has been written is bytes and messages.
LEMMA ReachedTyped ==
    ASSUME NEW fs \in Seq(Frames), NEW i \in 0 .. Len(fs)
    PROVE  Written(fs)[i].bytes \in Seq(Byte) /\ Written(fs)[i].sent \in Seq(Seq(Byte))
<1>1. Written(fs) \in [0 .. Len(fs) -> Sending]
  BY WrittenIs, Zenon
<1>2. QED
  BY <1>1 DEF Sending

\* At first no frame has been read.
LEMMA InitLineInv == ConnInit => LineInv
<1> SUFFICES ASSUME ConnInit
             PROVE  LineInv
  OBVIOUS
<1>1. PICK peer \in Peers : wire = [c \in Conns |-> Stream(peer[c])]
  BY DEF ConnInit
<1>2. ASSUME NEW c \in Conns
      PROVE  wire[c] \in Sending /\ InPlace(c)
  <2>1. PICK fs \in Seq(Frames) : fs = peer[c]
    <3>1. peer[c] \in Seq(Frames)
      BY ConnectionsAssumption
    <3>2. QED
      BY <3>1, Zenon
  <2>2. /\ Written(fs) \in [0 .. Len(fs) -> Sending]
        /\ Written(fs)[0] = [bytes |-> << >>, sent |-> << >>]
    BY WrittenIs, Zenon
  <2>3. 0 \in 0 .. Len(fs) /\ Len(fs) \in 0 .. Len(fs)
    OBVIOUS
  <2>4. wire[c] = Written(fs)[Len(fs)] /\ wire[c] \in Sending
    BY <1>1, <2>1, <2>2, <2>3 DEF Stream
  <2>5. wire[c].bytes \in Seq(Byte)
    BY <2>4 DEF Sending
  <2>6. Written(fs)[0].bytes \o wire[c].bytes = Written(fs)[Len(fs)].bytes
    BY <2>2, <2>4, <2>5
  <2>7. conn[c] = "new" /\ held[c] = << >> /\ got[c] = << >>
    BY DEF ConnInit
  <2>8. Reached(c, fs, 0)
    <3>1. IsPrefix(got[c], Written(fs)[0].sent) /\ got[c] = Written(fs)[0].sent
      BY <2>2, <2>7 DEF IsPrefix
    <3>2. QED
      BY <2>4, <2>6, <2>7, <3>1 DEF Reached
  <2>9. QED
    BY <2>3, <2>4, <2>8 DEF InPlace
<1>3. LineTypes
  <2>1. held = [c \in Conns |-> << >>] /\ got = [c \in Conns |-> << >>] /\ wire = [c \in Conns |-> Stream(peer[c])]
    BY <1>1 DEF ConnInit
  <2>2. wire \in [Conns -> Sending]
    BY <1>2, <2>1
  <2>3. held \in [Conns -> Seq(Byte)] /\ got \in [Conns -> Seq(Seq(Byte))]
    BY <2>1
  <2>4. QED
    BY <2>2, <2>3 DEF LineTypes
<1>4. QED
  BY <1>2, <1>3 DEF LineInv

\* A step that reads and offers nothing, starts nothing and revokes no cancelling.
LEMMA NothingRead ==
    ASSUME LineInv, UNCHANGED <<wire, held, got>>, ctxDone => ctxDone',
           \A c \in Conns : \/ conn'[c] = conn[c]
                            \/ /\ conn[c] \in {"new", "offered", "accepted"}
                               /\ conn'[c] \in {"offered", "accepted", "refused", "reading"}
                            \/ conn[c] = "reading" /\ conn'[c] = "leaving"
                            \/ conn[c] = "leaving" /\ conn'[c] = "closed"
    PROVE  LineInv'
<1>1. LineTypes'
  BY DEF LineInv, LineTypes
<1>2. ASSUME NEW c \in Conns
      PROVE  InPlace(c)'
  <2>1. PICK fs \in Seq(Frames) : \E i \in 0 .. Len(fs) : Reached(c, fs, i)
    BY DEF LineInv, InPlace
  <2>2. PICK i \in 0 .. Len(fs) : Reached(c, fs, i)
    BY <2>1
  <2>3. Written(fs)[i].sent \in Seq(Seq(Byte)) /\ got[c] \in Seq(Seq(Byte))
    BY ReachedTyped DEF LineInv, LineTypes
  <2>4. conn[c] = conn'[c] \/ (conn[c] # "offering" /\ conn'[c] # "offering")
    OBVIOUS
  <2>5. Reached(c, fs, i)'
    BY <2>2, <2>4 DEF Reached
  <2>6. QED
    BY <2>5 DEF InPlace
<1>3. QED
  BY <1>1, <1>2 DEF LineInv

\* Reading gives the next message, or ends with the stream.
LEMMA ReadStep ==
    ASSUME ConnTypes, LineInv, NEW c \in Conns, Read(c)
    PROVE  LineInv'
<1> DEFINE w == wire[c].bytes
<1> DEFINE rd == ReadLine(w)
<1>1. /\ conn[c] = "reading" /\ UNCHANGED <<ctxDone, got>>
      /\ IF rd.err = "none"
         THEN /\ conn' = [conn EXCEPT ![c] = "offering"]
              /\ held' = [held EXCEPT ![c] = TrimSpace(rd.msg)]
              /\ wire' = [wire EXCEPT ![c].bytes = rd.rest]
         ELSE conn' = [conn EXCEPT ![c] = "leaving"] /\ UNCHANGED <<held, wire>>
  BY DEF Read
<1>2. conn \in [Conns -> {"new", "offered", "refused", "accepted", "closed"} \cup Served]
  BY DEF ConnTypes
<1>3. CASE rd.err # "none"
  <2>1. \A d \in Conns : conn'[d] = conn[d] \/ (conn[d] = "reading" /\ conn'[d] = "leaving")
    BY <1>1, <1>2, <1>3
  <2>2. UNCHANGED <<wire, held, got>> /\ (ctxDone => ctxDone')
    BY <1>1, <1>3
  <2>3. QED
    BY <2>1, <2>2, NothingRead
<1>4. CASE rd.err = "none"
  <2>1. /\ wire \in [Conns -> Sending] /\ held \in [Conns -> Seq(Byte)] /\ got \in [Conns -> Seq(Seq(Byte))]
        /\ w \in Seq(Byte)
    BY DEF LineInv, LineTypes, Sending
  <2>2. PICK fs \in Seq(Frames) : \E i \in 0 .. Len(fs) : Reached(c, fs, i)
    BY DEF LineInv, InPlace
  <2>3. PICK i \in 0 .. Len(fs) : Reached(c, fs, i)
    BY <2>2
  <2>4. w # << >>
    BY <1>4 DEF ReadLine, Error
  <2>5. Written(fs)[i].bytes \o w = Written(fs)[Len(fs)].bytes
    BY <2>3 DEF Reached
  <2>6. PICK k \in 0 .. Len(fs), m \in Seq(Byte), r \in Seq(Byte) :
              /\ ReadLine(w) = Message(m, r)
              /\ Written(fs)[k].bytes \o r = Written(fs)[Len(fs)].bytes
              /\ Written(fs)[k].sent = IF TrimSpace(m) = << >> THEN Written(fs)[i].sent
                                       ELSE Append(Written(fs)[i].sent, TrimSpace(m))
    <3> HIDE DEF w
    <3> QED
      BY <2>1, <2>4, <2>5, ReadsNext, Zenon
  <2>7. rd.msg = m /\ rd.rest = r
    BY <2>6 DEF Message
  <2>8. PICK msg \in Seq(Byte) : msg = TrimSpace(m)
    BY TrimTyped, Zenon
  <2>9. /\ conn' = [conn EXCEPT ![c] = "offering"]
        /\ held' = [held EXCEPT ![c] = msg]
        /\ wire' = [wire EXCEPT ![c].bytes = r]
    BY <1>1, <1>4, <2>7, <2>8
  <2>10. wire'[c].bytes = r /\ wire'[c].sent = wire[c].sent /\ wire'[c] \in Sending
    BY <2>1, <2>9 DEF Sending
  <2>11. LineTypes'
    <3>1. \A d \in Conns : wire'[d] \in Sending
      BY <2>1, <2>9, <2>10
    <3>2. wire' \in [Conns -> Sending]
      BY <2>1, <2>9, <3>1
    <3>3. held' \in [Conns -> Seq(Byte)] /\ got' \in [Conns -> Seq(Seq(Byte))]
      BY <1>1, <2>1, <2>9
    <3>4. QED
      BY <3>2, <3>3 DEF LineTypes
  <2>12. InPlace(c)'
    <3>1. conn'[c] = "offering" /\ held'[c] = msg /\ got'[c] = got[c] /\ got[c] = Written(fs)[i].sent
      BY <1>1, <1>2, <2>1, <2>3, <2>9 DEF Reached
    <3>2. Written(fs)[k].sent = IF held'[c] = << >> THEN got'[c] ELSE Append(got'[c], held'[c])
      BY <2>6, <2>8, <3>1
    <3>3. Reached(c, fs, k)'
      BY <2>3, <2>6, <2>10, <3>1, <3>2 DEF Reached
    <3>4. QED
      BY <3>3 DEF InPlace
  <2>13. ASSUME NEW d \in Conns, d # c
         PROVE  InPlace(d)'
    <3>1. conn'[d] = conn[d] /\ held'[d] = held[d] /\ wire'[d] = wire[d] /\ got'[d] = got[d] /\ ctxDone' = ctxDone
      BY <1>1, <1>2, <2>1, <2>9, <2>13
    <3>2. InPlace(d)
      BY DEF LineInv
    <3>3. QED
      BY <3>1, <3>2 DEF InPlace, Reached
  <2>14. QED
    BY <2>11, <2>12, <2>13 DEF LineInv
<1>5. QED
  BY <1>3, <1>4

\* What is held is offered, or is dropped once the context is cancelled.
LEMMA OfferStep ==
    ASSUME ConnTypes, LineInv, NEW c \in Conns, Offer(c)
    PROVE  LineInv'
<1>1. /\ conn[c] = "offering" /\ UNCHANGED <<ctxDone, wire>>
      /\ IF ctxDone
         THEN conn' = [conn EXCEPT ![c] = "leaving"] /\ UNCHANGED got
         ELSE /\ conn' = [conn EXCEPT ![c] = "reading"]
              /\ got' = IF held[c] = << >> THEN got ELSE [got EXCEPT ![c] = Append(@, held[c])]
      /\ held' = [held EXCEPT ![c] = << >>]
  BY DEF Offer
<1>2. conn \in [Conns -> {"new", "offered", "refused", "accepted", "closed"} \cup Served]
  BY DEF ConnTypes
<1>3. wire \in [Conns -> Sending] /\ held \in [Conns -> Seq(Byte)] /\ got \in [Conns -> Seq(Seq(Byte))]
  BY DEF LineInv, LineTypes
<1>4. PICK fs \in Seq(Frames) : \E i \in 0 .. Len(fs) : Reached(c, fs, i)
  BY DEF LineInv, InPlace
<1>5. PICK i \in 0 .. Len(fs) : Reached(c, fs, i)
  BY <1>4
<1>6. PICK all \in Seq(Seq(Byte)) : all = Written(fs)[i].sent
  BY ReachedTyped, Zenon
<1>7. PICK have \in Seq(Seq(Byte)), msg \in Seq(Byte) : have = got[c] /\ msg = held[c]
  <2>1. got[c] \in Seq(Seq(Byte)) /\ held[c] \in Seq(Byte)
    BY <1>3
  <2>2. QED
    BY <2>1, Zenon
<1>8. all = IF msg = << >> THEN have ELSE Append(have, msg)
  BY <1>1, <1>5, <1>6, <1>7 DEF Reached
<1>9. IsPrefix(have, all) /\ IsPrefix(all, all) /\ Append(have, msg) \in Seq(Seq(Byte))
  BY <1>8 DEF IsPrefix
<1>10. held'[c] = << >> /\ got'[c] = IF ctxDone THEN have ELSE all
  BY <1>1, <1>3, <1>7, <1>8
<1>11. LineTypes'
  <2>1. held' \in [Conns -> Seq(Byte)]
    BY <1>1, <1>3
  <2>2. got' \in [Conns -> Seq(Seq(Byte))]
    BY <1>1, <1>3, <1>7, <1>9
  <2>3. QED
    BY <1>1, <1>3, <2>1, <2>2 DEF LineTypes
<1>12. InPlace(c)'
  <2>1. Reached(c, fs, i)'
    <3>1. conn'[c] = IF ctxDone THEN "leaving" ELSE "reading"
      BY <1>1, <1>2
    <3>2. IsPrefix(got'[c], Written(fs)[i].sent)
      BY <1>6, <1>9, <1>10
    <3>3. ~ctxDone => got'[c] = Written(fs)[i].sent
      BY <1>6, <1>10
    <3>4. QED
      BY <1>1, <1>5, <1>10, <3>1, <3>2, <3>3 DEF Reached
  <2>2. QED
    BY <2>1 DEF InPlace
<1>13. ASSUME NEW d \in Conns, d # c
       PROVE  InPlace(d)'
  <2>1. conn'[d] = conn[d] /\ held'[d] = held[d] /\ wire'[d] = wire[d] /\ got'[d] = got[d] /\ ctxDone' = ctxDone
    BY <1>1, <1>2, <1>3, <1>13
  <2>2. InPlace(d)
    BY DEF LineInv
  <2>3. QED
    BY <2>1, <2>2 DEF InPlace, Reached
<1>14. QED
  BY <1>11, <1>12, <1>13 DEF LineInv

\* The inductive step, action by action.
LEMMA LineStep == ConnInv /\ LineInv /\ [ConnNext]_connVars => LineInv'
<1> SUFFICES ASSUME ConnInv, LineInv, [ConnNext]_connVars
             PROVE  LineInv'
  OBVIOUS
<1>1. ConnTypes /\ InHand
  BY DEF ConnInv
<1>2. conn \in [Conns -> {"new", "offered", "refused", "accepted", "closed"} \cup Served]
  BY <1>1 DEF ConnTypes
<1>3. CASE UNCHANGED connVars
  BY <1>3, NothingRead DEF connVars
<1>4. CASE Listen \/ ListenFails \/ Cancel \/ RunStep \/ CacheExpires
  <2>1. UNCHANGED <<wire, held, got, conn>> /\ (ctxDone => ctxDone')
    BY <1>4 DEF Listen, ListenFails, Cancel, RunStep, CloseListeners, WaitAcceptors, WaitAll, WorkersLeave,
                CacheExpires
  <2>2. QED
    BY <2>1, NothingRead
<1>5. ASSUME NEW b \in Names, AcceptStep(b)
      PROVE  LineInv'
  <2>1. UNCHANGED <<wire, held, got>> /\ (ctxDone => ctxDone')
    BY <1>5 DEF AcceptStep, AcceptFails, CheckPeer, Admit
  <2>2. ASSUME NEW c \in Conns
        PROVE  conn'[c] = conn[c] \/ (conn[c] = "accepted" /\ conn'[c] \in {"refused", "reading"})
    <3>1. CASE AcceptFails(b)
      BY <3>1 DEF AcceptFails
    <3>2. CASE CheckPeer(b)
      <4>1. conn' = conn \/ (acceptor[b] \in Conns /\ conn' = [conn EXCEPT ![acceptor[b]] = "refused"])
        BY <3>2 DEF CheckPeer
      <4>2. acceptor[b] \in Conns => conn[acceptor[b]] = "accepted"
        BY <1>1 DEF InHand
      <4>3. QED
        BY <1>2, <4>1, <4>2
    <3>3. CASE Admit(b)
      <4>1. \/ acceptor[b] \in Conns /\ conn' = [conn EXCEPT ![acceptor[b]] = "refused"]
            \/ acceptor[b] \in Conns /\ conn' = [conn EXCEPT ![acceptor[b]] = "reading"]
        BY <3>3 DEF Admit
      <4>2. acceptor[b] \in Conns => conn[acceptor[b]] = "accepted"
        BY <1>1 DEF InHand
      <4>3. QED
        BY <1>2, <4>1, <4>2
    <3>4. QED
      BY <1>5, <3>1, <3>2, <3>3 DEF AcceptStep
  <2>3. QED
    BY <2>1, <2>2, NothingRead
<1>6. ASSUME NEW b \in Names, NEW c \in Conns, Accept(b, c)
      PROVE  LineInv'
  <2>1. /\ UNCHANGED <<wire, held, got>> /\ (ctxDone => ctxDone')
        /\ conn[c] = "offered" /\ conn' = [conn EXCEPT ![c] = "accepted"]
    BY <1>6 DEF Accept
  <2>2. \A d \in Conns : conn'[d] = conn[d] \/ (conn[d] = "offered" /\ conn'[d] = "accepted")
    BY <1>2, <2>1
  <2>3. QED
    BY <2>1, <2>2, NothingRead
<1>7. ASSUME NEW c \in Conns, Dial(c) \/ ReadFails(c) \/ Reset(c) \/ Leave(c)
      PROVE  LineInv'
  <2>1. /\ UNCHANGED <<wire, held, got>> /\ (ctxDone => ctxDone')
        /\ \/ conn[c] = "new" /\ conn' = [conn EXCEPT ![c] = "offered"]
           \/ conn[c] = "offered" /\ conn' = [conn EXCEPT ![c] = "refused"]
           \/ conn[c] = "reading" /\ conn' = [conn EXCEPT ![c] = "leaving"]
           \/ conn[c] = "leaving" /\ conn' = [conn EXCEPT ![c] = "closed"]
    BY <1>7 DEF Dial, ReadFails, Reset, Leave
  <2>2. \A d \in Conns \ {c} : conn'[d] = conn[d]
    BY <1>2, <2>1
  <2>3. \/ conn[c] = "new" /\ conn'[c] = "offered"
        \/ conn[c] = "offered" /\ conn'[c] = "refused"
        \/ conn[c] = "reading" /\ conn'[c] = "leaving"
        \/ conn[c] = "leaving" /\ conn'[c] = "closed"
    BY <1>2, <2>1
  <2>4. QED
    BY <2>1, <2>2, <2>3, NothingRead
<1>8. ASSUME NEW c \in Conns, Read(c) \/ Offer(c)
      PROVE  LineInv'
  BY <1>1, <1>8, ReadStep, OfferStep
<1>9. QED
  BY <1>3, <1>4, <1>5, <1>6, <1>7, <1>8 DEF ConnNext, ConnStep

\* The invariant holds in every state of the connections.
LEMMA LineInvHolds == ConnSpec => []LineInv
<1>1. QED
  BY InitLineInv, LineStep, ConnInvHolds, PTL DEF ConnSpec

\* Where every connection is in the stream of its peer, the messages are as they were sent.
LEMMA LinesFromInv == LineInv => LinesAsSent
<1> SUFFICES ASSUME LineInv, NEW c \in Conns
             PROVE  /\ IsPrefix(got[c], wire[c].sent)
                    /\ conn[c] \in Served /\ wire[c].bytes = << >> /\ held[c] = << >> /\ ~ctxDone
                          => got[c] = wire[c].sent
  BY DEF LinesAsSent
<1>1. PICK fs \in Seq(Frames) : \E i \in 0 .. Len(fs) : Reached(c, fs, i)
  BY DEF LineInv, InPlace
<1>2. PICK i \in 0 .. Len(fs) : Reached(c, fs, i)
  BY <1>1
<1>3. PICK have \in Seq(Seq(Byte)), msg \in Seq(Byte), w \in Seq(Byte) :
         have = got[c] /\ msg = held[c] /\ w = wire[c].bytes
  <2>1. got[c] \in Seq(Seq(Byte)) /\ held[c] \in Seq(Byte) /\ wire[c].bytes \in Seq(Byte)
    BY DEF LineInv, LineTypes, Sending
  <2>2. QED
    BY <2>1, Zenon
<1>4. PICK all \in Seq(Seq(Byte)) : all = Written(fs)[i].sent
  BY ReachedTyped, Zenon
<1>5. IsPrefix(have, all)
  <2>1. CASE conn[c] = "offering"
    <3>1. all = IF msg = << >> THEN have ELSE Append(have, msg)
      BY <1>2, <1>3, <1>4, <2>1 DEF Reached
    <3>2. QED
      BY <3>1 DEF IsPrefix
  <2>2. CASE conn[c] # "offering"
    BY <1>2, <1>3, <1>4, <2>2 DEF Reached
  <2>3. QED
    BY <2>1, <2>2
<1>6. PICK u \in Seq(Seq(Byte)) : Written(fs)[Len(fs)].sent = all \o u
  <2>1. Len(fs) \in i .. Len(fs)
    OBVIOUS
  <2>2. QED
    BY <1>4, <2>1, WrittenGrows, Zenon
<1>7. IsPrefix(got[c], wire[c].sent)
  <2>1. IsPrefix(have, all \o u)
    BY <1>5, PrefixLonger
  <2>2. QED
    BY <1>2, <1>3, <1>6, <2>1 DEF Reached
<1>8. ASSUME conn[c] \in Served, w = << >>, msg = << >>, ~ctxDone
      PROVE  got[c] = wire[c].sent
  <2>1. Written(fs)[i].bytes \o w = Written(fs)[Len(fs)].bytes
    BY <1>2, <1>3 DEF Reached
  <2>2. i = Len(fs)
    BY <1>8, <2>1, NothingToCome, Zenon
  <2>3. got[c] = Written(fs)[i].sent
    BY <1>2, <1>3, <1>8 DEF Reached
  <2>4. QED
    BY <1>2, <2>2, <2>3 DEF Reached
<1>9. QED
  BY <1>3, <1>7, <1>8

\* What a connection offers to the queue are the messages of its peer in their order
\* and whole, and all of them at the end of the stream: for any frames of any
\* framing, any limits and any interleaving with the listeners and the end of Run.
THEOREM LinesArriveAsSent == ConnSpec => []LinesAsSent
<1>1. QED
  BY LineInvHolds, LinesFromInv, PTL
=============================================================================
