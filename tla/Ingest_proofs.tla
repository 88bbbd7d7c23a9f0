---------------------------- MODULE Ingest_proofs ----------------------------
(***************************************************************************)
(* The ingest pipeline for any number of workers and lines and any sizes   *)
(* of the queue, of batches and of buffers: every line is accounted for,   *)
(* the drain leaves nothing behind, and the pipeline is the at-most-once   *)
(* channel of module Delivery as long as acknowledgements are not lost.    *)
(***************************************************************************)
EXTENDS Ingest, TLAPS, FiniteSetTheorems, FunctionTheorems, SequenceTheorems,
        WellFoundedInduction, NaturalsInduction

(* Sequences without repetitions *)

\* No line occurs twice in a queue or a buffer.
Distinct(s) == \A i, j \in 1 .. Len(s) : s[i] = s[j] => i = j

\* A sequence without repetitions has as many elements as its length.
LEMMA DistinctCardinality ==
    ASSUME NEW s \in Seq(Lines), Distinct(s)
    PROVE  /\ Elements(s) \in SUBSET Lines
           /\ IsFiniteSet(Elements(s))
           /\ Cardinality(Elements(s)) = Len(s)
           /\ Len(s) \in Nat
<1>1. Len(s) \in Nat /\ s \in [1 .. Len(s) -> Lines]
  BY LenProperties
<1>2. IsFiniteSet(1 .. Len(s)) /\ Cardinality(1 .. Len(s)) = Len(s)
  BY <1>1, FS_Interval
<1>3. s \in Bijection(1 .. Len(s), Elements(s))
  BY <1>1 DEF Bijection, Injection, Surjection, IsInjective, Elements, Distinct
<1>4. ExistsBijection(1 .. Len(s), Elements(s))
  BY <1>3 DEF ExistsBijection
<1>5. QED
  BY <1>1, <1>2, <1>4, FS_Bijection DEF Elements

\* Append adds one element.
LEMMA DistinctAppend ==
    ASSUME NEW s \in Seq(Lines), NEW l \in Lines, Distinct(s), l \notin Elements(s)
    PROVE  /\ Append(s, l) \in Seq(Lines)
           /\ Distinct(Append(s, l))
           /\ Elements(Append(s, l)) = Elements(s) \cup {l}
           /\ Len(Append(s, l)) = Len(s) + 1
<1>1. /\ Append(s, l) \in Seq(Lines) /\ Len(s) \in Nat
      /\ Len(Append(s, l)) = Len(s) + 1
      /\ \A i \in 1 .. Len(s) : Append(s, l)[i] = s[i]
      /\ Append(s, l)[Len(s) + 1] = l
  BY AppendProperties, LenProperties
<1>2. Distinct(Append(s, l))
  BY <1>1 DEF Distinct, Elements
<1>3. Elements(Append(s, l)) = Elements(s) \cup {l}
  <2>1. Elements(s) \cup {l} \subseteq Elements(Append(s, l))
    BY <1>1 DEF Elements
  <2>2. ASSUME NEW x \in Elements(Append(s, l)) PROVE x \in Elements(s) \cup {l}
    <3>1. PICK i \in 1 .. Len(s) + 1 : x = Append(s, l)[i]
      BY <1>1 DEF Elements
    <3>2. CASE i = Len(s) + 1
      BY <1>1, <3>1, <3>2
    <3>3. CASE i \in 1 .. Len(s)
      BY <1>1, <3>1, <3>3 DEF Elements
    <3>4. QED
      BY <1>1, <3>2, <3>3
  <2>3. QED
    BY <2>1, <2>2
<1>4. QED
  BY <1>1, <1>2, <1>3

\* Receiving takes the head, and only the head, out of the queue.
LEMMA DistinctTail ==
    ASSUME NEW s \in Seq(Lines), s # <<>>, Distinct(s)
    PROVE  /\ Head(s) \in Elements(s) /\ Head(s) \in Lines
           /\ Tail(s) \in Seq(Lines)
           /\ Distinct(Tail(s))
           /\ Elements(Tail(s)) = Elements(s) \ {Head(s)}
           /\ Len(Tail(s)) = Len(s) - 1
<1>1. /\ Len(s) \in Nat \ {0} /\ Head(s) = s[1] /\ Tail(s) \in Seq(Lines)
      /\ Len(Tail(s)) = Len(s) - 1
      /\ \A i \in 1 .. Len(s) - 1 : Tail(s)[i] = s[i + 1]
  BY HeadTailProperties, EmptySeq
<1>2. Head(s) \in Elements(s) /\ Head(s) \in Lines
  BY <1>1, LenProperties DEF Elements
<1>3. Distinct(Tail(s))
  BY <1>1 DEF Distinct
<1>4. Elements(Tail(s)) = Elements(s) \ {Head(s)}
  <2>1. Elements(Tail(s)) \subseteq Elements(s) \ {Head(s)}
    BY <1>1 DEF Elements, Distinct
  <2>2. ASSUME NEW x \in Elements(s) \ {Head(s)} PROVE x \in Elements(Tail(s))
    <3>1. PICK i \in 1 .. Len(s) : x = s[i]
      BY DEF Elements
    <3>2. i # 1
      BY <1>1, <3>1
    <3>3. i - 1 \in 1 .. Len(s) - 1 /\ Tail(s)[i - 1] = s[i]
      BY <1>1, <3>2
    <3>4. QED
      BY <1>1, <3>1, <3>3 DEF Elements
  <2>3. QED
    BY <2>1, <2>2
<1>5. QED
  BY <1>1, <1>2, <1>3, <1>4

\* Dropping the oldest entries leaves a suffix.
LEMMA DistinctSuffix ==
    ASSUME NEW s \in Seq(Lines), Distinct(s), NEW k \in 1 .. Len(s) + 1
    PROVE  /\ SubSeq(s, k, Len(s)) \in Seq(Lines)
           /\ Distinct(SubSeq(s, k, Len(s)))
           /\ Elements(SubSeq(s, k, Len(s))) \subseteq Elements(s)
<1>1. Len(s) \in Nat /\ s \in [1 .. Len(s) -> Lines]
  BY LenProperties
<1> DEFINE t == SubSeq(s, k, Len(s))
<1>2. /\ t \in Seq(Lines) /\ Len(t) = Len(s) - k + 1
      /\ \A i \in 1 .. Len(t) : t[i] = s[k + i - 1] /\ k + i - 1 \in 1 .. Len(s)
  <2>1. \A i \in k .. Len(s) : s[i] \in Lines
    BY <1>1
  <2>2. /\ t \in Seq(Lines)
        /\ Len(t) = IF k <= Len(s) THEN Len(s) - k + 1 ELSE 0
        /\ \A i \in 1 .. Len(s) - k + 1 : t[i] = s[k + i - 1]
    BY <1>1, <2>1, SubSeqProperties
  <2>3. Len(t) = Len(s) - k + 1
    BY <1>1, <2>2
  <2>4. QED
    BY <1>1, <2>2, <2>3
<1>3. Distinct(t)
  BY <1>1, <1>2 DEF Distinct
<1>4. Elements(t) \subseteq Elements(s)
  BY <1>1, <1>2 DEF Elements
<1>5. QED
  BY <1>2, <1>3, <1>4

\* A set of naturals that is not empty has a least element.
LEMMA LeastOf ==
    ASSUME NEW T \in SUBSET Nat, T # {}
    PROVE  \E k \in T : \A j \in T : k <= j
<1>1. PICK n \in T : TRUE
  OBVIOUS
<1> DEFINE R == OpToRel(<, Nat)
<1>2. IsWellFoundedOn(R, Nat)
  BY NatLessThanWellFounded
<1> HIDE DEF R
<1>3. PICK k \in T : \A j \in T : ~(<<j, k>> \in R)
  BY <1>2, WFMin
<1>4. \A j \in Nat : j < k => <<j, k>> \in R
  BY DEF R, OpToRel
<1>5. \A j \in T : k \in Nat /\ j \in Nat /\ ~(j < k)
  BY <1>3, <1>4
<1>6. \A j \in T : k <= j
  BY <1>5
<1>7. QED
  BY <1>6

-----------------------------------------------------------------------------
(* Making room in a buffer *)

\* b is what a buffer s becomes when line l is taken in: l at the end, and the
\* oldest entries gone, each of them counted.
Takes(s, l, b) ==
    /\ b \in Seq(Lines) /\ Distinct(b) /\ b # <<>>
    /\ l \in Elements(b) /\ Elements(b) \subseteq Elements(s) \cup {l}
    /\ Len(s) + 1 - Len(b) \in Nat
    /\ Cardinality(Elements(s) \ Elements(b)) = Len(s) + 1 - Len(b)

\* Whatever suffix is kept, the number of evicted lines is the difference of
\* the lengths.
LEMMA SuffixTakes ==
    ASSUME NEW s \in Seq(Lines), Distinct(s), NEW k \in 1 .. Len(s) + 1,
           NEW l \in Lines, l \notin Elements(s)
    PROVE  Takes(s, l, Append(SubSeq(s, k, Len(s)), l))
<1> DEFINE t == SubSeq(s, k, Len(s))
           b == Append(t, l)
<1>1. t \in Seq(Lines) /\ Distinct(t) /\ Elements(t) \subseteq Elements(s)
  BY DistinctSuffix
<1> HIDE DEF t
<1>2. /\ b \in Seq(Lines) /\ Distinct(b) /\ Elements(b) = Elements(t) \cup {l}
      /\ Len(b) = Len(t) + 1
  BY <1>1, DistinctAppend
<1> HIDE DEF b
<1>3. /\ IsFiniteSet(Elements(s)) /\ Cardinality(Elements(s)) = Len(s) /\ Len(s) \in Nat
      /\ IsFiniteSet(Elements(t)) /\ Cardinality(Elements(t)) = Len(t) /\ Len(t) \in Nat
  BY <1>1, DistinctCardinality
<1>4. Elements(s) \ Elements(b) = Elements(s) \ Elements(t)
  BY <1>2
<1>5. Cardinality(Elements(s) \ Elements(t)) = Len(s) - Len(t)
  <2>1. Elements(s) \cap Elements(t) = Elements(t)
    BY <1>1
  <2>2. Cardinality(Elements(s) \ Elements(t))
          = Cardinality(Elements(s)) - Cardinality(Elements(s) \cap Elements(t))
    BY <1>3, FS_Difference
  <2>3. QED
    BY <1>3, <2>1, <2>2
<1>6. Cardinality(Elements(t)) <= Cardinality(Elements(s))
  BY <1>1, <1>3, FS_Subset
<1>7. b # <<>>
  BY <1>2, <1>3, EmptySeq
<1>8. Takes(s, l, b)
  <2>1. Len(s) + 1 - Len(b) \in Nat /\ Len(s) + 1 - Len(b) = Len(s) - Len(t)
    BY <1>2, <1>3, <1>6
  <2>2. Cardinality(Elements(s) \ Elements(b)) = Len(s) + 1 - Len(b)
    BY <1>4, <1>5, <2>1
  <2>3. QED
    BY <1>1, <1>2, <1>7, <2>1, <2>2 DEF Takes
<1>9. QED
  BY <1>8 DEF b, t

\* dropOldest of the log buffer.
LEMMA LogBufferTakes ==
    ASSUME NEW s \in Seq(Lines), Distinct(s), NEW l \in Lines, l \notin Elements(s)
    PROVE  Takes(s, l, Append(DropOldest(s), l))
<1>1. Len(s) \in Nat
  BY LenProperties
<1>2. /\ BufFactor \in Nat \ {0} /\ BatchSize \in Nat \ {0} /\ BufMin \in Nat \ {0}
      /\ BufHardCap \in Nat \ {0}
  BY IngestAssumption
<1>3. BufFactor * BatchSize \in Nat
  BY <1>2
<1>4. MaxIngestBuf \in Nat \ {0}
  BY <1>2, <1>3 DEF MaxIngestBuf, Min2, Max2
<1> DEFINE k == Max2(Len(s) - MaxIngestBuf + 1, 0) + 1
<1>5. k \in 1 .. Len(s) + 1
  BY <1>1, <1>4 DEF Max2
<1>6. Takes(s, l, Append(SubSeq(s, k, Len(s)), l))
  BY <1>5, SuffixTakes
<1>7. QED
  BY <1>6 DEF DropOldest

\* The parse errors are cut at the first place from which the rest fits, or
\* all dropped.
LEMMA ErrBufferTakes ==
    ASSUME NEW s \in Seq(Lines), Distinct(s), NEW l \in Lines, l \notin Elements(s)
    PROVE  Takes(s, l, Append(DropOldestErrors(s, l), l))
<1>1. Len(s) \in Nat
  BY LenProperties
<1> DEFINE kept(k) == SubSeq(s, k, Len(s))
           fits(k) == /\ Len(kept(k)) < MaxIngestBuf
                      /\ MapThenSumSet(RawSize, Elements(kept(k))) + RawSize(l) <= ErrBufBytes
           cut(k)  == /\ fits(k) \/ k = Len(s) + 1
                      /\ \A j \in 1 .. k - 1 : ~fits(j)
           first   == CHOOSE k \in 1 .. Len(s) + 1 : cut(k)
           T       == {k \in 1 .. Len(s) + 1 : fits(k) \/ k = Len(s) + 1}
<1> HIDE DEF fits
<1>2. T \in SUBSET Nat /\ Len(s) + 1 \in T
  BY <1>1
<1>3. PICK m \in T : \A j \in T : m <= j
  BY <1>2, LeastOf
<1>4. cut(m)
  BY <1>1, <1>3
<1>5. first \in 1 .. Len(s) + 1
  BY <1>3, <1>4
<1>6. Takes(s, l, Append(SubSeq(s, first, Len(s)), l))
  <2> HIDE DEF first
  <2> QED
    BY <1>5, SuffixTakes
<1>7. DropOldestErrors(s, l) = SubSeq(s, first, Len(s))
  BY Zenon DEF DropOldestErrors, fits
<1>8. QED
  BY <1>6, <1>7

-----------------------------------------------------------------------------
(* The inductive invariant *)

Modes == {"run", "drain", "final", "stopped"}

Places == {"top", "select", "logs", "next", "errors", "probe"}

Counters == [received : Nat, parsed : Nat, skipped : Nat, parseErrors : Nat,
             inserted : Nat, buffered : Int, dropped : Nat, bufferDrops : Nat,
             authRejected : Nat]

\* The types of what says where lines are ...
PlaceTypes ==
    /\ unread \in SUBSET Lines /\ lineCh \in Seq(Lines)
    /\ late \in SUBSET Lines /\ blank \in SUBSET Lines
    /\ buf \in [Workers -> Seq(Lines)] /\ errBuf \in [Workers -> Seq(Lines)]
    /\ stats \in Counters
    /\ rows \in [Lines -> Nat]
    /\ flushed \in SUBSET Lines /\ evicted \in SUBSET Lines

\* ... and of what says where the workers are.
WorkerTypes ==
    /\ mode \in [Workers -> Modes] /\ pc \in [Workers -> Places]
    /\ attempt \in [Workers -> Nat]
    /\ fails \in Nat /\ circuit \in {"closed", "open", "expired"}
    /\ ctxDone \in BOOLEAN /\ drainDead \in SUBSET Workers /\ failed \in BOOLEAN

\* The types of the state of Ingest.
TypeOK == PlaceTypes /\ WorkerTypes

LogLine == {l \in Lines : Kind(l) = "log"}
BadLine == {l \in Lines : Kind(l) = "bad"}

\* Two workers never hold the same line.
Apart(f) == \A v, w \in Workers : v # w => Elements(f[v]) \cap Elements(f[w]) = {}

\* No line is twice in a buffer or in two buffers, or in one of the wrong kind.
Sorted ==
    /\ Distinct(lineCh)
    /\ \A w \in Workers : Distinct(buf[w])
    /\ \A w \in Workers : Distinct(errBuf[w])
    /\ Apart(buf) /\ Apart(errBuf)
    /\ InBuf \subseteq LogLine /\ InErrBuf \subseteq BadLine
    /\ \A l \in blank : Kind(l) = "empty"

\* A line is on its way, in the queue, in a buffer, stored or evicted, and one
\* that was found blank has left the queue.
Disjoint ==
    /\ unread \cap Elements(lineCh) = {}
    /\ blank \cap (unread \cup Elements(lineCh)) = {}
    /\ (InBuf \cup InErrBuf) \cap (unread \cup Elements(lineCh)) = {}
    /\ flushed \cap (unread \cup Elements(lineCh) \cup InBuf \cup InErrBuf) = {}
    /\ evicted \cap (unread \cup Elements(lineCh) \cup InBuf \cup InErrBuf \cup flushed) = {}

\* A line is in one place at a time.
OnePlace == Sorted /\ Disjoint

\* The lines in a family of buffers.
Held(f) == UNION {Elements(f[w]) : w \in Workers}

\* One buffer of a family is replaced.
LEMMA HeldReplaced ==
    ASSUME NEW f \in [Workers -> Seq(Lines)], NEW w \in Workers, NEW b \in Seq(Lines),
           Apart(f)
    PROVE  Held([f EXCEPT ![w] = b]) = (Held(f) \ Elements(f[w])) \cup Elements(b)
<1> DEFINE g == [f EXCEPT ![w] = b]
<1>1. g[w] = b /\ \A v \in Workers \ {w} : g[v] = f[v]
  OBVIOUS
<1> HIDE DEF g
<1>2. ASSUME NEW x \in Held(g) PROVE x \in (Held(f) \ Elements(f[w])) \cup Elements(b)
  <2>1. PICK v \in Workers : x \in Elements(g[v])
    BY DEF Held
  <2>2. CASE v = w
    BY <1>1, <2>1, <2>2
  <2>3. CASE v # w
    BY <1>1, <2>1, <2>3 DEF Held, Apart
  <2>4. QED
    BY <2>2, <2>3
<1>3. ASSUME NEW x \in (Held(f) \ Elements(f[w])) \cup Elements(b) PROVE x \in Held(g)
  <2>1. CASE x \in Elements(b)
    BY <1>1, <2>1 DEF Held
  <2>2. CASE x \notin Elements(b)
    <3>1. PICK v \in Workers : x \in Elements(f[v])
      BY <2>2 DEF Held
    <3>2. v # w
      BY <2>2, <3>1
    <3>3. QED
      BY <1>1, <3>1, <3>2 DEF Held
  <2>3. QED
    BY <2>1, <2>2
<1>4. QED
  BY <1>2, <1>3 DEF g

\* Cardinalities when part of a finite set is exchanged.
LEMMA ExchangeCardinality ==
    ASSUME NEW U, NEW A, NEW B, IsFiniteSet(U), A \subseteq U, IsFiniteSet(B),
           B \cap (U \ A) = {}
    PROVE  Cardinality((U \ A) \cup B) = Cardinality(U) - Cardinality(A) + Cardinality(B)
<1>1. IsFiniteSet(A) /\ IsFiniteSet(U \ A)
  BY FS_Subset
<1>2. U \cap A = A
  OBVIOUS
<1>3. Cardinality(U \ A) = Cardinality(U) - Cardinality(A)
  BY <1>2, FS_Difference
<1>4. (U \ A) \cap B = {} /\ Cardinality({}) = 0
  BY FS_EmptySet
<1>5. Cardinality((U \ A) \cup B) = Cardinality(U \ A) + Cardinality(B) - 0
  BY <1>1, <1>4, FS_Union
<1>6. Cardinality(U) \in Nat /\ Cardinality(A) \in Nat /\ Cardinality(B) \in Nat
  BY <1>1, FS_CardinalityType
<1>7. QED
  BY <1>3, <1>5, <1>6

\* What receiving a line does to the places lines can be in and to the
\* counters.
ReceiveEffect(w, l) ==
    \/ /\ Kind(l) = "log"
       /\ \E b \in Seq(Lines) :
            /\ Takes(buf[w], l, b)
            /\ buf' = [buf EXCEPT ![w] = b] /\ UNCHANGED errBuf
            /\ evicted' = evicted \cup (Elements(buf[w]) \ Elements(b))
            /\ stats' = [stats EXCEPT !.received = @ + 1, !.parsed = @ + 1,
                                      !.bufferDrops = @ + (Len(buf[w]) + 1 - Len(b)),
                                      !.buffered = @ + 1 - (Len(buf[w]) + 1 - Len(b))]
            /\ UNCHANGED blank
    \/ /\ Kind(l) = "bad"
       /\ \E b \in Seq(Lines) :
            /\ Takes(errBuf[w], l, b)
            /\ errBuf' = [errBuf EXCEPT ![w] = b] /\ UNCHANGED buf
            /\ evicted' = evicted \cup (Elements(errBuf[w]) \ Elements(b))
            /\ stats' = [stats EXCEPT !.received = @ + 1, !.parseErrors = @ + 1,
                                      !.bufferDrops = @ + (Len(errBuf[w]) + 1 - Len(b))]
            /\ UNCHANGED blank
    \/ /\ Kind(l) \in {"skip", "reject"}
       /\ UNCHANGED <<buf, errBuf, evicted, blank>>
       /\ \/ stats' = [stats EXCEPT !.received = @ + 1, !.skipped = @ + 1]
          \/ stats' = [stats EXCEPT !.authRejected = @ + 1]
    \/ /\ Kind(l) = "empty"
       /\ UNCHANGED <<buf, errBuf, evicted, stats>>
       /\ blank' = blank \cup {l}

LEMMA ReceiveMoves ==
    ASSUME TypeOK, OnePlace, NEW w \in Workers, Receive(w)
    PROVE  /\ Head(lineCh) \in Lines /\ Head(lineCh) \in Elements(lineCh)
           /\ lineCh' = Tail(lineCh) /\ lineCh' \in Seq(Lines) /\ Distinct(lineCh')
           /\ Elements(lineCh') = Elements(lineCh) \ {Head(lineCh)}
           /\ Len(lineCh') = Len(lineCh) - 1
           /\ UNCHANGED <<unread, late, rows, flushed, ctxDone, drainDead>>
           /\ ReceiveEffect(w, Head(lineCh))
<1> DEFINE l == Head(lineCh)
<1>1. /\ lineCh \in Seq(Lines) /\ lineCh # <<>> /\ Distinct(lineCh) /\ lineCh' = Tail(lineCh)
  BY DEF Receive, TypeOK, PlaceTypes, OnePlace, Sorted
<1>2. /\ l \in Lines /\ l \in Elements(lineCh) /\ Tail(lineCh) \in Seq(Lines)
      /\ Distinct(Tail(lineCh)) /\ Len(Tail(lineCh)) = Len(lineCh) - 1
      /\ Elements(Tail(lineCh)) = Elements(lineCh) \ {l}
  BY <1>1, DistinctTail
<1>3. UNCHANGED <<unread, late, rows, flushed, ctxDone, drainDead>>
  BY DEF Receive, envVars
<1>4. ReceiveEffect(w, l)
  <2>1. /\ buf[w] \in Seq(Lines) /\ Distinct(buf[w]) /\ l \notin Elements(buf[w])
        /\ errBuf[w] \in Seq(Lines) /\ Distinct(errBuf[w]) /\ l \notin Elements(errBuf[w])
        /\ IF Kind(l) = "empty" THEN blank' = blank \cup {l} ELSE blank' = blank
    BY <1>2 DEF Receive, TypeOK, PlaceTypes, OnePlace, Sorted, Disjoint, InBuf, InErrBuf
  <2>2. CASE Kind(l) = "log" /\ ProcessLog(w, l)
    <3>1. Takes(buf[w], l, Append(DropOldest(buf[w]), l))
      BY <1>2, <2>1, LogBufferTakes
    <3>2. Append(DropOldest(buf[w]), l) \in Seq(Lines)
      BY <3>1 DEF Takes
    <3>3. QED
      BY <2>1, <2>2, <3>1, <3>2 DEF ProcessLog, ReceiveEffect
  <2>3. CASE Kind(l) = "bad" /\ ProcessBad(w, l)
    <3>1. Takes(errBuf[w], l, Append(DropOldestErrors(errBuf[w], l), l))
      BY <1>2, <2>1, ErrBufferTakes
    <3>2. Append(DropOldestErrors(errBuf[w], l), l) \in Seq(Lines)
      BY <3>1 DEF Takes
    <3>3. QED
      BY <2>1, <2>3, <3>1, <3>2 DEF ProcessBad, ReceiveEffect
  <2>4. CASE Kind(l) \in {"skip", "reject", "empty"} /\ ProcessNothing(w, l)
    BY <2>1, <2>4 DEF ProcessNothing, ReceiveEffect, bufferVars
  <2>5. QED
    BY <2>2, <2>3, <2>4 DEF Receive
<1>5. QED
  BY <1>1, <1>2, <1>3, <1>4

\* The state that says where lines are.
placeVars == <<unread, lineCh, blank, buf, errBuf, flushed, evicted, stats>>

\* Only four kinds of step move a line.
LEMMA MovesOrKeeps ==
    ASSUME [Next]_vars
    PROVE  \/ \E l \in Lines : TryEnqueue(l)
           \/ \E w \in Workers : Receive(w) \/ InsertLogsOK(w) \/ InsertErrorsOK(w)
           \/ UNCHANGED placeVars
<1> USE DEF placeVars, vars, queueVars, workerVars, bufferVars, circuitVars, envVars,
            insertVars, systemVars
<1>1. CASE \E w \in Workers : Worker(w)
  <2>1. PICK w \in Workers : Worker(w)
    BY <1>1
  <2>2. CASE TickerFlush(w) \/ FlushErrors(w) \/ InsertFails(w) \/ DrainProbeFlush(w)
    BY <2>2 DEF TickerFlush, FlushErrors, InsertFails, DrainProbeFlush
  <2>3. CASE \/ SeesCircuitClosed(w) \/ DrainProbe(w) \/ DrainLastFlush(w)
             \/ DrainGivesUp(w) \/ StartDrain(w)
    BY <2>3 DEF SeesCircuitClosed, DrainProbe, DrainLastFlush, DrainGivesUp, StartDrain
  <2>4. QED
    BY <2>1, <2>2, <2>3 DEF Worker, Step, InsertOK
<1>2. CASE \E w \in Workers : DrainExpires(w)
  BY <1>2 DEF DrainExpires
<1>3. CASE CooldownEnds \/ Shutdown \/ Terminated \/ UNCHANGED vars
  BY <1>3 DEF CooldownEnds, Shutdown, Terminated
<1>4. QED
  BY <1>1, <1>2, <1>3 DEF Next

\* The lines in the buffers are those of the two families.
LEMMA HeldIsBuffered ==
    /\ InBuf = Held(buf) /\ InErrBuf = Held(errBuf)
    /\ InBuf' = Held(buf') /\ InErrBuf' = Held(errBuf')
BY DEF InBuf, InErrBuf, Held

\* What a family of buffers holds is a finite set of lines.
LEMMA HeldFinite ==
    ASSUME NEW f \in [Workers -> Seq(Lines)]
    PROVE  /\ Held(f) \in SUBSET Lines /\ IsFiniteSet(Held(f)) /\ Cardinality(Held(f)) \in Nat
           /\ \A w \in Workers : Elements(f[w]) \subseteq Held(f)
<1>1. ASSUME NEW w \in Workers PROVE Elements(f[w]) \subseteq Lines /\ Elements(f[w]) \subseteq Held(f)
  <2>1. f[w] \in Seq(Lines)
    OBVIOUS
  <2>2. \A i \in 1 .. Len(f[w]) : f[w][i] \in Lines
    BY <2>1, LenProperties
  <2>3. QED
    BY <2>2 DEF Elements, Held
<1>2. Held(f) \in SUBSET Lines
  BY <1>1 DEF Held
<1>3. IsFiniteSet(Held(f)) /\ Cardinality(Held(f)) \in Nat
  BY <1>2, FS_Subset, FS_CardinalityType, IngestAssumption
<1>4. QED
  BY <1>1, <1>2, <1>3

\* g is f after worker w has taken line l into its buffer, now b.
TakenInto(f, w, l, b, g) ==
    /\ g \in [Workers -> Seq(Lines)] /\ Apart(g) /\ \A v \in Workers : Distinct(g[v])
    /\ Held(g) = (Held(f) \ (Elements(f[w]) \ Elements(b))) \cup {l}
    /\ Cardinality(Held(g)) = Cardinality(Held(f)) + 1 - (Len(f[w]) + 1 - Len(b))

\* A line is taken into one of the buffers.
LEMMA HeldTakes ==
    ASSUME NEW f \in [Workers -> Seq(Lines)], NEW w \in Workers, NEW l \in Lines,
           NEW b \in Seq(Lines), Apart(f), \A v \in Workers : Distinct(f[v]),
           l \notin Held(f), Takes(f[w], l, b), NEW g, g = [f EXCEPT ![w] = b]
    PROVE  TakenInto(f, w, l, b, g)
<1>1. /\ g \in [Workers -> Seq(Lines)]
      /\ g[w] = b /\ \A v \in Workers \ {w} : g[v] = f[v]
  OBVIOUS
<1>2. Held(g) = (Held(f) \ Elements(f[w])) \cup Elements(b)
  BY HeldReplaced
<1>3. /\ Held(f) \in SUBSET Lines /\ IsFiniteSet(Held(f)) /\ Cardinality(Held(f)) \in Nat
      /\ \A v \in Workers : Elements(f[v]) \subseteq Held(f)
  BY HeldFinite
<1>4. /\ Distinct(b) /\ l \in Elements(b) /\ Elements(b) \subseteq Elements(f[w]) \cup {l}
  BY DEF Takes
<1>6. \A v \in Workers : Distinct(g[v])
  BY <1>1, <1>4
<1>7. Apart(g)
  <2> SUFFICES ASSUME NEW u \in Workers, NEW v \in Workers, u # v
               PROVE  Elements(g[u]) \cap Elements(g[v]) = {}
    BY DEF Apart
  <2>1. /\ Elements(f[u]) \cap Elements(f[v]) = {}
        /\ l \notin Elements(f[u]) /\ l \notin Elements(f[v])
    BY <1>3 DEF Apart
  <2>2. CASE u = w
    BY <1>1, <1>4, <2>1, <2>2
  <2>3. CASE v = w
    BY <1>1, <1>4, <2>1, <2>3
  <2>4. CASE u # w /\ v # w
    BY <1>1, <2>1, <2>4
  <2>5. QED
    BY <2>2, <2>3, <2>4
<1>8. Held(g) = (Held(f) \ (Elements(f[w]) \ Elements(b))) \cup {l}
  BY <1>2, <1>3, <1>4
<1>9. /\ IsFiniteSet(Elements(b)) /\ Cardinality(Elements(b)) = Len(b) /\ Len(b) \in Nat
      /\ Cardinality(Elements(f[w])) = Len(f[w]) /\ Len(f[w]) \in Nat
  BY <1>4, DistinctCardinality
<1>10. Elements(b) \cap (Held(f) \ Elements(f[w])) = {}
  BY <1>4
<1>11. Cardinality(Held(g)) = Cardinality(Held(f)) - Len(f[w]) + Len(b)
  <2>1. Cardinality((Held(f) \ Elements(f[w])) \cup Elements(b))
          = Cardinality(Held(f)) - Cardinality(Elements(f[w])) + Cardinality(Elements(b))
    <3>1. Elements(f[w]) \subseteq Held(f)
      BY <1>3
    <3>2. QED
      BY ONLY <1>3, <1>9, <1>10, <3>1, ExchangeCardinality
  <2>2. QED
    BY <1>2, <1>9, <2>1
<1>12. Cardinality(Held(g)) = Cardinality(Held(f)) + 1 - (Len(f[w]) + 1 - Len(b))
  <2>1. \A c, m, n \in Int : c - m + n = c + 1 - (m + 1 - n)
    OBVIOUS
  <2>2. QED
    BY <1>3, <1>9, <1>11, <2>1
<1>13. QED
  BY <1>1, <1>6, <1>7, <1>8, <1>12 DEF TakenInto

\* An acknowledged insert empties one buffer.
LEMMA HeldEmptied ==
    ASSUME NEW f \in [Workers -> Seq(Lines)], NEW w \in Workers,
           Apart(f), \A v \in Workers : Distinct(f[v]), NEW g, g = [f EXCEPT ![w] = <<>>]
    PROVE  /\ g \in [Workers -> Seq(Lines)] /\ Apart(g) /\ \A v \in Workers : Distinct(g[v])
           /\ Held(g) = Held(f) \ Elements(f[w])
           /\ Cardinality(Held(g)) = Cardinality(Held(f)) - Len(f[w])
<1>1. <<>> \in Seq(Lines) /\ Len(<<>>) = 0
  BY EmptySeq
<1>2. Elements(<<>>) = {} /\ Distinct(<<>>)
  BY <1>1 DEF Elements, Distinct
<1>3. /\ g \in [Workers -> Seq(Lines)]
      /\ g[w] = <<>> /\ \A v \in Workers \ {w} : g[v] = f[v]
  BY <1>1
<1>4. Held(g) = (Held(f) \ Elements(f[w])) \cup Elements(<<>>)
  BY <1>1, HeldReplaced
<1>5. Held(g) = Held(f) \ Elements(f[w])
  BY <1>2, <1>4
<1>6. \A v \in Workers : Elements(g[v]) \subseteq Elements(f[v]) /\ Distinct(g[v])
  BY <1>2, <1>3
<1>7. Apart(g)
  BY <1>6 DEF Apart
<1>8. /\ IsFiniteSet(Held(f)) /\ Held(f) \cap Elements(f[w]) = Elements(f[w])
  BY HeldFinite
<1>9. Cardinality(Elements(f[w])) = Len(f[w]) /\ f[w] \in Seq(Lines)
  BY DistinctCardinality
<1>10. Cardinality(Held(f) \ Elements(f[w]))
         = Cardinality(Held(f)) - Cardinality(Held(f) \cap Elements(f[w]))
  BY <1>8, FS_Difference
<1>11. QED
  BY <1>3, <1>5, <1>6, <1>7, <1>8, <1>9, <1>10

\* No step puts a line in two places or in the wrong buffer.
LEMMA StepOnePlace ==
    ASSUME TypeOK, OnePlace, [Next]_vars
    PROVE  OnePlace'
<1> USE HeldIsBuffered
<1>1. /\ buf \in [Workers -> Seq(Lines)] /\ errBuf \in [Workers -> Seq(Lines)]
      /\ lineCh \in Seq(Lines) /\ Distinct(lineCh)
      /\ Apart(buf) /\ Apart(errBuf)
      /\ \A v \in Workers : Distinct(buf[v])
      /\ \A v \in Workers : Distinct(errBuf[v])
      /\ Held(buf) \subseteq LogLine /\ Held(errBuf) \subseteq BadLine
      /\ \A x \in blank : Kind(x) = "empty"
      /\ Disjoint
  BY DEF TypeOK, PlaceTypes, OnePlace, Sorted
<1>2. /\ \A v \in Workers : Elements(buf[v]) \subseteq Held(buf)
      /\ \A v \in Workers : Elements(errBuf[v]) \subseteq Held(errBuf)
      /\ Held(buf) \cap Held(errBuf) = {}
  BY <1>1, HeldFinite DEF LogLine, BadLine
<1>3. ASSUME NEW l \in Lines, TryEnqueue(l) PROVE OnePlace'
  <2>1. /\ l \in unread /\ l \notin Elements(lineCh) /\ UNCHANGED <<blank, buf, errBuf, flushed, evicted>>
        /\ unread' = unread \ {l}
    BY <1>1, <1>3 DEF TryEnqueue, Disjoint, bufferVars, insertVars
  <2>2. CASE lineCh' = Append(lineCh, l)
    <3>1. Distinct(lineCh') /\ Elements(lineCh') = Elements(lineCh) \cup {l}
      BY <1>1, <2>1, <2>2, DistinctAppend
    <3>2. Sorted'
      BY <1>1, <2>1, <3>1 DEF Sorted, Apart
    <3>3. Disjoint'
      BY <1>1, <2>1, <3>1 DEF Disjoint
    <3>4. QED
      BY <3>2, <3>3 DEF OnePlace
  <2>3. CASE UNCHANGED lineCh
    <3>1. Sorted'
      BY <1>1, <2>1, <2>3 DEF Sorted, Apart
    <3>2. Disjoint'
      BY <1>1, <2>1, <2>3 DEF Disjoint
    <3>3. QED
      BY <3>1, <3>2 DEF OnePlace
  <2>4. QED
    BY <1>3, <2>2, <2>3 DEF TryEnqueue
<1>4. ASSUME NEW w \in Workers, Receive(w) PROVE OnePlace'
  <2>1. PICK l \in Lines :
          /\ l = Head(lineCh) /\ l \in Elements(lineCh) /\ Distinct(lineCh')
          /\ Elements(lineCh') = Elements(lineCh) \ {l}
          /\ UNCHANGED <<unread, flushed>> /\ ReceiveEffect(w, l)
    BY <1>4, ReceiveMoves
  <2>2. l \notin Held(buf) /\ l \notin Held(errBuf)
    BY <1>1, <2>1 DEF Disjoint
  <2>7. /\ \A x \in blank' : Kind(x) = "empty"
        /\ blank' \cap (unread' \cup Elements(lineCh')) = {}
    <3>1. \/ UNCHANGED blank
          \/ Kind(l) = "empty" /\ blank' = blank \cup {l}
      BY <2>1 DEF ReceiveEffect
    <3>2. blank \cap (unread \cup Elements(lineCh)) = {} /\ l \notin unread
      BY <1>1, <2>1 DEF Disjoint
    <3>3. QED
      BY <1>1, <2>1, <3>1, <3>2
  <2>3. CASE Kind(l) = "log"
    <3>1. PICK b \in Seq(Lines) :
            /\ Takes(buf[w], l, b) /\ buf' = [buf EXCEPT ![w] = b] /\ UNCHANGED errBuf
            /\ evicted' = evicted \cup (Elements(buf[w]) \ Elements(b))
      BY <2>1, <2>3 DEF ReceiveEffect
    <3>2. l \in LogLine /\ l \in Elements(b)
      BY <2>1, <2>3, <3>1 DEF LogLine, Takes
    <3>3. TakenInto(buf, w, l, b, buf')
      <4>1. /\ buf \in [Workers -> Seq(Lines)] /\ Apart(buf) /\ Takes(buf[w], l, b)
            /\ \A v \in Workers : Distinct(buf[v])
            /\ l \in Lines /\ l \notin Held(buf) /\ buf' = [buf EXCEPT ![w] = b]
        BY <1>1, <2>1, <2>2, <3>1
      <4>2. QED
        BY <4>1, HeldTakes, Zenon
    <3>4. /\ Apart(buf') /\ \A v \in Workers : Distinct(buf'[v])
          /\ Held(buf') = (Held(buf) \ (Elements(buf[w]) \ Elements(b))) \cup {l}
          /\ Elements(buf[w]) \subseteq Held(buf)
      BY <1>2, <3>3 DEF TakenInto
    <3>5. Sorted'
      BY <1>1, <2>1, <2>7, <3>1, <3>2, <3>4 DEF Sorted, Apart
    <3>6. Disjoint'
      <4> DEFINE D == Elements(buf[w]) \ Elements(b)
      <4>1. /\ D \subseteq Held(buf) /\ l \notin D /\ evicted' = evicted \cup D
            /\ Held(buf') = (Held(buf) \ D) \cup {l} /\ Held(errBuf') = Held(errBuf)
        BY <3>1, <3>2, <3>4
      <4>2. /\ unread \cap Elements(lineCh) = {}
            /\ Held(buf) \cap (unread \cup Elements(lineCh)) = {}
            /\ Held(errBuf) \cap (unread \cup Elements(lineCh)) = {}
            /\ flushed \cap (unread \cup Elements(lineCh) \cup Held(buf) \cup Held(errBuf)) = {}
            /\ evicted \cap (unread \cup Elements(lineCh) \cup Held(buf) \cup Held(errBuf) \cup flushed) = {}
        BY <1>1 DEF Disjoint
      <4> HIDE DEF D
      <4>3. /\ Held(buf') \cap (unread' \cup Elements(lineCh')) = {}
            /\ flushed' \cap (unread' \cup Elements(lineCh') \cup Held(buf') \cup Held(errBuf')) = {}
        BY <2>1, <4>1, <4>2
      <4>4. evicted' \cap (unread' \cup Elements(lineCh') \cup Held(buf') \cup Held(errBuf') \cup flushed') = {}
        BY <1>2, <2>1, <4>1, <4>2
      <4>5. QED
        BY <2>1, <2>7, <4>1, <4>2, <4>3, <4>4 DEF Disjoint
    <3>7. QED
      BY <3>5, <3>6 DEF OnePlace
  <2>4. CASE Kind(l) = "bad"
    <3>1. PICK b \in Seq(Lines) :
            /\ Takes(errBuf[w], l, b) /\ errBuf' = [errBuf EXCEPT ![w] = b] /\ UNCHANGED buf
            /\ evicted' = evicted \cup (Elements(errBuf[w]) \ Elements(b))
      BY <2>1, <2>4 DEF ReceiveEffect
    <3>2. l \in BadLine /\ l \in Elements(b)
      BY <2>1, <2>4, <3>1 DEF BadLine, Takes
    <3>3. TakenInto(errBuf, w, l, b, errBuf')
      <4>1. /\ errBuf \in [Workers -> Seq(Lines)] /\ Apart(errBuf) /\ Takes(errBuf[w], l, b)
            /\ \A v \in Workers : Distinct(errBuf[v])
            /\ l \in Lines /\ l \notin Held(errBuf) /\ errBuf' = [errBuf EXCEPT ![w] = b]
        BY <1>1, <2>1, <2>2, <3>1
      <4>2. QED
        BY <4>1, HeldTakes, Zenon
    <3>4. /\ Apart(errBuf') /\ \A v \in Workers : Distinct(errBuf'[v])
          /\ Held(errBuf') = (Held(errBuf) \ (Elements(errBuf[w]) \ Elements(b))) \cup {l}
          /\ Elements(errBuf[w]) \subseteq Held(errBuf)
      BY <1>2, <3>3 DEF TakenInto
    <3>5. Sorted'
      BY <1>1, <2>1, <2>7, <3>1, <3>2, <3>4 DEF Sorted, Apart
    <3>6. Disjoint'
      <4> DEFINE D == Elements(errBuf[w]) \ Elements(b)
      <4>1. /\ D \subseteq Held(errBuf) /\ l \notin D /\ evicted' = evicted \cup D
            /\ Held(errBuf') = (Held(errBuf) \ D) \cup {l} /\ Held(buf') = Held(buf)
        BY <3>1, <3>2, <3>4
      <4>2. /\ unread \cap Elements(lineCh) = {}
            /\ Held(errBuf) \cap (unread \cup Elements(lineCh)) = {}
            /\ Held(buf) \cap (unread \cup Elements(lineCh)) = {}
            /\ flushed \cap (unread \cup Elements(lineCh) \cup Held(errBuf) \cup Held(buf)) = {}
            /\ evicted \cap (unread \cup Elements(lineCh) \cup Held(errBuf) \cup Held(buf) \cup flushed) = {}
        BY <1>1 DEF Disjoint
      <4> HIDE DEF D
      <4>3. /\ Held(errBuf') \cap (unread' \cup Elements(lineCh')) = {}
            /\ flushed' \cap (unread' \cup Elements(lineCh') \cup Held(errBuf') \cup Held(buf')) = {}
        BY <2>1, <4>1, <4>2
      <4>4. evicted' \cap (unread' \cup Elements(lineCh') \cup Held(errBuf') \cup Held(buf') \cup flushed') = {}
        BY <1>2, <2>1, <4>1, <4>2
      <4>5. QED
        BY <2>1, <2>7, <4>1, <4>2, <4>3, <4>4 DEF Disjoint
    <3>7. QED
      BY <3>5, <3>6 DEF OnePlace
  <2>5. CASE Kind(l) \in {"skip", "reject", "empty"}
    <3>1. UNCHANGED <<buf, errBuf, evicted>>
      BY <2>1, <2>5 DEF ReceiveEffect
    <3>2. Sorted'
      BY <1>1, <2>1, <2>7, <3>1 DEF Sorted, Apart
    <3>3. Disjoint'
      BY <1>1, <2>1, <2>7, <3>1 DEF Disjoint
    <3>4. QED
      BY <3>2, <3>3 DEF OnePlace
  <2>6. QED
    BY <2>1, <2>3, <2>4, <2>5 DEF ReceiveEffect
<1>5. ASSUME NEW w \in Workers, InsertLogsOK(w) PROVE OnePlace'
  <2>1. /\ buf' = [buf EXCEPT ![w] = <<>>] /\ flushed' = flushed \cup Elements(buf[w])
        /\ UNCHANGED <<unread, lineCh, blank, errBuf, evicted>>
    BY <1>5 DEF InsertLogsOK, queueVars
  <2>2. /\ Apart(buf') /\ \A v \in Workers : Distinct(buf'[v])
        /\ Held(buf') = Held(buf) \ Elements(buf[w])
    BY <1>1, <2>1, HeldEmptied
  <2>3. Elements(buf[w]) \subseteq Held(buf)
    BY <1>2
  <2>4. Sorted'
    BY <1>1, <2>1, <2>2 DEF Sorted, Apart
  <2>5. Disjoint'
    BY <1>1, <1>2, <2>1, <2>2, <2>3 DEF Disjoint
  <2>6. QED
    BY <2>4, <2>5 DEF OnePlace
<1>6. ASSUME NEW w \in Workers, InsertErrorsOK(w) PROVE OnePlace'
  <2>1. /\ errBuf' = [errBuf EXCEPT ![w] = <<>>] /\ flushed' = flushed \cup Elements(errBuf[w])
        /\ UNCHANGED <<unread, lineCh, blank, buf, evicted>>
    BY <1>6 DEF InsertErrorsOK, queueVars
  <2>2. /\ Apart(errBuf') /\ \A v \in Workers : Distinct(errBuf'[v])
        /\ Held(errBuf') = Held(errBuf) \ Elements(errBuf[w])
    BY <1>1, <2>1, HeldEmptied
  <2>3. Elements(errBuf[w]) \subseteq Held(errBuf)
    BY <1>2
  <2>4. Sorted'
    BY <1>1, <2>1, <2>2 DEF Sorted, Apart
  <2>5. Disjoint'
    BY <1>1, <1>2, <2>1, <2>2, <2>3 DEF Disjoint
  <2>6. QED
    BY <2>4, <2>5 DEF OnePlace
<1>7. CASE UNCHANGED placeVars
  BY <1>1, <1>7 DEF placeVars, OnePlace, Sorted, Disjoint, Apart
<1>8. QED
  BY <1>3, <1>4, <1>5, <1>6, <1>7, MovesOrKeeps

-----------------------------------------------------------------------------
(* Types *)

\* The end of a flush, or its beginning, keeps the types of the workers.
LEMMA FlushTypes ==
    ASSUME WorkerTypes, NEW w \in Workers, NEW logs, NEW errs,
           \/ BeginFlush(w, logs, errs)
           \/ FlushReturns(w) /\ UNCHANGED <<circuitVars, failed>>
           \/ FlushReturns(w) /\ NoteFailure
    PROVE  /\ mode' \in [Workers -> Modes] /\ pc' \in [Workers -> Places]
           /\ attempt' \in [Workers -> Nat]
           /\ fails' \in Nat /\ circuit' \in {"closed", "open", "expired"} /\ failed' \in BOOLEAN
<1> USE IngestAssumption DEF WorkerTypes, Modes, Places
<1>1. ASSUME FlushReturns(w)
      PROVE  mode' \in [Workers -> Modes] /\ pc' \in [Workers -> Places] /\ attempt' \in [Workers -> Nat]
  <2>1. "stopped" \in Modes /\ "top" \in Places /\ 0 \in Nat
    OBVIOUS
  <2>2. (IF mode[w] = "final" THEN "stopped" ELSE mode[w]) \in Modes
    OBVIOUS
  <2> HIDE DEF Modes, Places
  <2>3. QED
    BY <1>1, <2>1, <2>2 DEF FlushReturns
<1>2. ASSUME NoteFailure
      PROVE  fails' \in Nat /\ circuit' \in {"closed", "open", "expired"} /\ failed' \in BOOLEAN
  BY <1>2 DEF NoteFailure, Min2
<1>3. ASSUME UNCHANGED <<circuitVars, failed>>
      PROVE  fails' \in Nat /\ circuit' \in {"closed", "open", "expired"} /\ failed' \in BOOLEAN
  BY <1>3 DEF circuitVars
<1>4. ASSUME NEW which \in {"logs", "errors"}, pc' = [pc EXCEPT ![w] = which],
             attempt' = [attempt EXCEPT ![w] = 1], UNCHANGED mode
      PROVE  mode' \in [Workers -> Modes] /\ pc' \in [Workers -> Places] /\ attempt' \in [Workers -> Nat]
  BY <1>4
<1> HIDE DEF Modes, Places, WorkerTypes
<1>5. ASSUME NEW which \in {"logs", "errors"}, BeginInsert(w, which)
      PROVE  /\ mode' \in [Workers -> Modes] /\ pc' \in [Workers -> Places]
             /\ attempt' \in [Workers -> Nat]
             /\ fails' \in Nat /\ circuit' \in {"closed", "open", "expired"} /\ failed' \in BOOLEAN
  <2>1. CASE FlushReturns(w) /\ UNCHANGED <<circuitVars, failed>>
    BY <1>1, <1>3, <2>1
  <2>2. CASE NoteFailure /\ FlushReturns(w)
    BY <1>1, <1>2, <2>2
  <2>3. CASE /\ pc' = [pc EXCEPT ![w] = which] /\ attempt' = [attempt EXCEPT ![w] = 1]
             /\ UNCHANGED <<mode, circuitVars, failed>>
    BY <1>3, <1>4, <2>3
  <2>4. QED
    BY <1>5, <2>1, <2>2, <2>3 DEF BeginInsert
<1>6. QED
  BY <1>1, <1>2, <1>3, <1>5 DEF BeginFlush

\* Every step keeps the types of the workers.
LEMMA StepWorkerTypes ==
    ASSUME TypeOK, [Next]_vars
    PROVE  WorkerTypes'
<1>0. WorkerTypes
  BY DEF TypeOK
<1> USE DEF queueVars, workerVars, bufferVars, circuitVars, envVars, insertVars, systemVars
<1>1. ASSUME NEW w \in Workers, Receive(w) PROVE WorkerTypes'
  <2> DEFINE l == Head(lineCh)
  <2>1. /\ \/ \E logs, errs : BeginFlush(w, logs, errs)
           \/ FlushReturns(w) /\ UNCHANGED <<circuitVars, failed>>
        /\ UNCHANGED envVars
    BY <1>1 DEF Receive, ProcessLog, ProcessBad, ProcessNothing
  <2>2. QED
    BY <1>0, <2>1, FlushTypes DEF WorkerTypes
<1>2. ASSUME NEW w \in Workers, FlushErrors(w) \/ TickerFlush(w) \/ DrainProbeFlush(w)
      PROVE  WorkerTypes'
  <2>1. (\E logs, errs : BeginFlush(w, logs, errs)) /\ UNCHANGED envVars
    BY <1>2 DEF FlushErrors, TickerFlush, DrainProbeFlush
  <2>2. QED
    BY <1>0, <2>1, FlushTypes DEF WorkerTypes
<1>3. ASSUME NEW w \in Workers, InsertFails(w) PROVE WorkerTypes'
  <2>1. CASE attempt' = [attempt EXCEPT ![w] = @ + 1] /\ UNCHANGED <<mode, pc, circuitVars, failed>>
    BY <1>0, <1>3, <2>1 DEF InsertFails, WorkerTypes
  <2>2. CASE NoteFailure /\ FlushReturns(w)
    BY <1>0, <1>3, <2>2, FlushTypes DEF InsertFails, WorkerTypes
  <2>3. QED
    BY <1>3, <2>1, <2>2 DEF InsertFails
<1>4. ASSUME NEW w \in Workers, InsertLogsOK(w) PROVE WorkerTypes'
  BY <1>0, <1>4 DEF InsertLogsOK, NoteSuccess, WorkerTypes, Places
<1>5. ASSUME NEW w \in Workers, InsertErrorsOK(w) PROVE WorkerTypes'
  <2>1. mode' \in [Workers -> Modes]
    BY <1>0, <1>5 DEF InsertErrorsOK, FlushReturns, WorkerTypes, Modes
  <2>2. QED
    BY <1>0, <1>5, <2>1 DEF InsertErrorsOK, NoteSuccess, FlushReturns, WorkerTypes, Places
<1>6. ASSUME NEW w \in Workers,
             SeesCircuitClosed(w) \/ DrainProbe(w) \/ DrainLastFlush(w) \/ DrainGivesUp(w) \/ StartDrain(w)
      PROVE  WorkerTypes'
  BY <1>0, <1>6
     DEF SeesCircuitClosed, DrainProbe, DrainLastFlush, DrainGivesUp, StartDrain, WorkerTypes, Modes, Places
<1>7. ASSUME NEW l \in Lines, TryEnqueue(l) PROVE WorkerTypes'
  BY <1>0, <1>7 DEF TryEnqueue, WorkerTypes
<1>8. CASE (\E w \in Workers : DrainExpires(w)) \/ CooldownEnds \/ Shutdown \/ Terminated \/ UNCHANGED vars
  BY <1>0, <1>8 DEF DrainExpires, CooldownEnds, Shutdown, Terminated, vars, WorkerTypes
<1>9. QED
  BY <1>1, <1>2, <1>3, <1>4, <1>5, <1>6, <1>7, <1>8 DEF Next, Worker, Step, InsertOK

\* Every step keeps the types of the places.
LEMMA StepPlaceTypes ==
    ASSUME TypeOK, OnePlace, [Next]_vars
    PROVE  PlaceTypes'
<1>0. PlaceTypes /\ WorkerTypes
  BY DEF TypeOK
<1>t. stats \in Counters /\ rows \in [Lines -> Nat] /\ MaxRows \in Nat
  BY <1>0, IngestAssumption DEF PlaceTypes
<1>s. ASSUME NEW d \in Nat
      PROVE  /\ [stats EXCEPT !.received = @ + 1, !.parsed = @ + 1,
                              !.bufferDrops = @ + d, !.buffered = @ + 1 - d] \in Counters
             /\ [stats EXCEPT !.received = @ + 1, !.parseErrors = @ + 1,
                              !.bufferDrops = @ + d] \in Counters
             /\ [stats EXCEPT !.received = @ + 1, !.skipped = @ + 1] \in Counters
             /\ [stats EXCEPT !.authRejected = @ + 1] \in Counters
             /\ [stats EXCEPT !.dropped = @ + 1] \in Counters
             /\ [stats EXCEPT !.inserted = @ + d, !.buffered = @ - d] \in Counters
  <2>1. /\ stats.received + 1 \in Nat /\ stats.parsed + 1 \in Nat /\ stats.bufferDrops + d \in Nat
        /\ stats.buffered + 1 - d \in Int /\ stats.parseErrors + 1 \in Nat
        /\ stats.skipped + 1 \in Nat /\ stats.authRejected + 1 \in Nat /\ stats.dropped + 1 \in Nat
        /\ stats.inserted + d \in Nat /\ stats.buffered - d \in Int
    BY <1>t DEF Counters
  <2>2. [stats EXCEPT !.received = @ + 1, !.parsed = @ + 1,
                      !.bufferDrops = @ + d, !.buffered = @ + 1 - d] \in Counters
    BY <1>t, <2>1 DEF Counters
  <2>3. [stats EXCEPT !.received = @ + 1, !.parseErrors = @ + 1, !.bufferDrops = @ + d] \in Counters
    BY <1>t, <2>1 DEF Counters
  <2>4. /\ [stats EXCEPT !.received = @ + 1, !.skipped = @ + 1] \in Counters
        /\ [stats EXCEPT !.authRejected = @ + 1] \in Counters
        /\ [stats EXCEPT !.dropped = @ + 1] \in Counters
    BY <1>t, <2>1 DEF Counters
  <2>5. [stats EXCEPT !.inserted = @ + d, !.buffered = @ - d] \in Counters
    BY <1>t, <2>1 DEF Counters
  <2>6. QED
    BY <2>2, <2>3, <2>4, <2>5
<1>r. ASSUME NEW batch, AddRows(batch) PROVE rows' \in [Lines -> Nat]
  <2>1. \A l \in Lines : Min2(rows[l] + 1, MaxRows) \in Nat /\ rows[l] \in Nat
    BY <1>t DEF Min2
  <2>2. QED
    BY <1>r, <2>1 DEF AddRows
<1>1. ASSUME NEW l \in Lines, TryEnqueue(l) PROVE PlaceTypes'
  <2>1. unread' \in SUBSET Lines /\ UNCHANGED <<blank, buf, errBuf, rows, flushed, evicted>>
    BY <1>0, <1>1 DEF TryEnqueue, PlaceTypes, bufferVars, insertVars
  <2>2. lineCh' \in Seq(Lines) /\ late' \in SUBSET Lines /\ stats' \in Counters
    <3>1. lineCh \in Seq(Lines) /\ late \in SUBSET Lines /\ Append(lineCh, l) \in Seq(Lines)
      BY <1>0, AppendProperties DEF PlaceTypes
    <3>2. [stats EXCEPT !.dropped = @ + 1] \in Counters
      BY <1>s
    <3>3. QED
      BY <1>1, <1>t, <3>1, <3>2 DEF TryEnqueue
  <2>3. QED
    BY <1>0, <2>1, <2>2 DEF PlaceTypes
<1>2. ASSUME NEW w \in Workers, Receive(w) PROVE PlaceTypes'
  <2>1. /\ lineCh' \in Seq(Lines) /\ UNCHANGED <<unread, late, rows, flushed>>
        /\ ReceiveEffect(w, Head(lineCh)) /\ Head(lineCh) \in Lines
    BY <1>2, ReceiveMoves
  <2>2. buf' \in [Workers -> Seq(Lines)] /\ errBuf' \in [Workers -> Seq(Lines)]
    BY <1>0, <2>1 DEF ReceiveEffect, PlaceTypes
  <2>3. evicted' \in SUBSET Lines
    <3>1. \A v \in Workers : Elements(buf[v]) \subseteq Lines /\ Elements(errBuf[v]) \subseteq Lines
      BY <1>0, HeldFinite DEF PlaceTypes
    <3>2. QED
      BY <1>0, <2>1, <3>1 DEF ReceiveEffect, PlaceTypes
  <2>4. stats' \in Counters
    BY <1>s, <1>t, <2>1 DEF ReceiveEffect, Takes
  <2>6. blank' \in SUBSET Lines
    BY <1>0, <2>1 DEF ReceiveEffect, PlaceTypes
  <2>5. QED
    BY <1>0, <2>1, <2>2, <2>3, <2>4, <2>6 DEF PlaceTypes
<1>3. ASSUME NEW w \in Workers, InsertLogsOK(w) \/ InsertErrorsOK(w) PROVE PlaceTypes'
  <2>1. /\ \A v \in Workers : Elements(buf[v]) \subseteq Lines /\ Elements(errBuf[v]) \subseteq Lines
        /\ \A v \in Workers : Len(buf[v]) \in Nat
    BY <1>0, HeldFinite, LenProperties DEF PlaceTypes
  <2>2. buf' \in [Workers -> Seq(Lines)] /\ errBuf' \in [Workers -> Seq(Lines)]
    <3>1. <<>> \in Seq(Lines)
      BY EmptySeq
    <3>2. QED
      BY <1>0, <1>3, <3>1 DEF InsertLogsOK, InsertErrorsOK, PlaceTypes
  <2>3. flushed' \in SUBSET Lines /\ UNCHANGED <<unread, lineCh, late, blank, evicted>>
    BY <1>0, <1>3, <2>1 DEF InsertLogsOK, InsertErrorsOK, PlaceTypes, queueVars
  <2>4. rows' \in [Lines -> Nat]
    BY <1>3, <1>r DEF InsertLogsOK, InsertErrorsOK
  <2>5. stats' \in Counters
    BY <1>3, <1>s, <1>t, <2>1 DEF InsertLogsOK, InsertErrorsOK
  <2>6. QED
    BY <1>0, <2>2, <2>3, <2>4, <2>5 DEF PlaceTypes
<1>4. ASSUME UNCHANGED placeVars PROVE PlaceTypes'
  <2>1. CASE UNCHANGED <<rows, late>>
    BY <1>0, <1>4, <2>1 DEF placeVars, PlaceTypes
  <2>2. ASSUME NEW w \in Workers, InsertFails(w) PROVE PlaceTypes'
    <3>1. rows' \in [Lines -> Nat]
      BY <1>r, <1>t, <2>2 DEF InsertFails
    <3>2. QED
      BY <1>0, <1>4, <2>2, <3>1 DEF placeVars, PlaceTypes, InsertFails, queueVars
  <2>3. ASSUME NEW w \in Workers, FlushErrors(w) \/ TickerFlush(w) \/ DrainProbeFlush(w)
        PROVE  UNCHANGED <<rows, late>>
    BY <2>3 DEF FlushErrors, TickerFlush, DrainProbeFlush, queueVars
  <2>4. ASSUME NEW w \in Workers,
               SeesCircuitClosed(w) \/ DrainProbe(w) \/ DrainLastFlush(w) \/ DrainGivesUp(w) \/ StartDrain(w)
        PROVE  UNCHANGED <<rows, late>>
    BY <2>4 DEF SeesCircuitClosed, DrainProbe, DrainLastFlush, DrainGivesUp, StartDrain, insertVars, queueVars
  <2>5. CASE (\E w \in Workers : DrainExpires(w)) \/ CooldownEnds \/ Shutdown \/ Terminated \/ UNCHANGED vars
    BY <2>1, <2>5 DEF DrainExpires, CooldownEnds, Shutdown, Terminated, vars, systemVars, insertVars, queueVars
  <2>6. QED
    BY <1>1, <1>2, <1>3, <2>1, <2>2, <2>3, <2>4, <2>5 DEF Next, Worker, Step, InsertOK
<1>5. QED
  BY <1>1, <1>2, <1>3, <1>4, MovesOrKeeps

-----------------------------------------------------------------------------
(* The counters *)

\* Adding what is new to a finite set.
LEMMA GrownCardinality ==
    ASSUME NEW A \in SUBSET Lines, NEW B \in SUBSET Lines, A \cap B = {}
    PROVE  /\ Cardinality(A) \in Nat /\ Cardinality(B) \in Nat
           /\ Cardinality(A \cup B) = Cardinality(A) + Cardinality(B)
<1>1. IsFiniteSet(A) /\ IsFiniteSet(B)
  BY FS_Subset, IngestAssumption
<1>2. Cardinality(A) \in Nat /\ Cardinality(B) \in Nat /\ Cardinality(A \cap B) = 0
  BY <1>1, FS_CardinalityType, FS_EmptySet
<1>3. Cardinality(A \cup B) = Cardinality(A) + Cardinality(B) - Cardinality(A \cap B)
  BY <1>1, FS_Union
<1>4. QED
  BY <1>2, <1>3

\* The arrived lines are as many as those refused, queued, rejected, skipped,
\* buffered, kept as parse errors, stored and evicted.
Balance(u, d, q, a, s, b, e, f, x) == u = d + q + a + s + b + e + f + x

\* How each kind of step moves lines from one column to another.
LEMMA BalanceMoves ==
    ASSUME NEW u \in Int, NEW d \in Int, NEW q \in Int, NEW a \in Int, NEW s \in Int,
           NEW b \in Int, NEW e \in Int, NEW f \in Int, NEW x \in Int, NEW n \in Int,
           Balance(u, d, q, a, s, b, e, f, x)
    PROVE  /\ Balance(u + 1, d, q + 1, a, s, b, e, f, x)
           /\ Balance(u + 1, d + 1, q, a, s, b, e, f, x)
           /\ Balance(u, d, q - 1, a, s, b + 1 - n, e, f, x + n)
           /\ Balance(u, d, q - 1, a, s, b, e + 1 - n, f, x + n)
           /\ Balance(u, d, q - 1, a + 1, s, b, e, f, x)
           /\ Balance(u, d, q - 1, a, s + 1, b, e, f, x)
           /\ Balance(u, d, q, a, s, b - n, e, f + n, x)
           /\ Balance(u, d, q, a, s, b, e - n, f + n, x)
BY DEF Balance

\* Each step moves the counters by as much as it moves lines.
LEMMA StepAccounts ==
    ASSUME TypeOK, OnePlace, EveryLineAccounted, [Next]_vars
    PROVE  EveryLineAccounted'
<1> DEFINE stored == {l \in flushed : Kind(l) = "log"}
           passed == stats.skipped + Cardinality(blank)
<1>1. /\ PlaceTypes /\ Disjoint
      /\ buf \in [Workers -> Seq(Lines)] /\ errBuf \in [Workers -> Seq(Lines)]
      /\ lineCh \in Seq(Lines) /\ Len(lineCh) \in Nat /\ Distinct(lineCh)
      /\ Apart(buf) /\ Apart(errBuf)
      /\ \A v \in Workers : Distinct(buf[v])
      /\ \A v \in Workers : Distinct(errBuf[v])
      /\ Held(buf) \subseteq LogLine /\ Held(errBuf) \subseteq BadLine
      /\ stats \in Counters
      /\ blank \in SUBSET Lines /\ blank \cap Elements(lineCh) = {}
      /\ \A x \in blank : Kind(x) = "empty"
  BY LenProperties, HeldIsBuffered DEF TypeOK, PlaceTypes, OnePlace, Sorted, Disjoint
<1>d. /\ Held(buf) \cap Elements(lineCh) = {} /\ Held(errBuf) \cap Elements(lineCh) = {}
      /\ flushed \cap Held(buf) = {} /\ flushed \cap Held(errBuf) = {}
      /\ evicted \cap Held(buf) = {} /\ evicted \cap Held(errBuf) = {}
  BY <1>1, HeldIsBuffered DEF Disjoint
<1>2. /\ stats.buffered = Cardinality(Held(buf))
      /\ stats.inserted = Cardinality(stored)
      /\ stats.bufferDrops = Cardinality(evicted)
      /\ Balance(Cardinality(Lines \ unread), stats.dropped, Len(lineCh), stats.authRejected,
                 passed, stats.buffered, Cardinality(Held(errBuf)), Cardinality(flushed),
                 stats.bufferDrops)
  BY HeldIsBuffered DEF EveryLineAccounted, Balance
<1>e. ASSUME /\ stats'.buffered = Cardinality(Held(buf'))
             /\ stats'.inserted = Cardinality(stored')
             /\ stats'.bufferDrops = Cardinality(evicted')
             /\ Balance(Cardinality(Lines \ unread'), stats'.dropped, Len(lineCh'),
                        stats'.authRejected, passed', stats'.buffered,
                        Cardinality(Held(errBuf')), Cardinality(flushed'), stats'.bufferDrops)
             /\ \A x \in blank' : Kind(x) = "empty"
      PROVE  EveryLineAccounted'
  BY <1>e, HeldIsBuffered DEF EveryLineAccounted, Balance
<1>b. /\ stats.skipped \in Nat /\ Cardinality(blank) \in Nat /\ passed \in Nat
      /\ stats'.skipped = stats.skipped /\ UNCHANGED blank => passed' = passed
      /\ stats'.skipped = stats.skipped + 1 /\ UNCHANGED blank => passed' = passed + 1
  <2>1. IsFiniteSet(Lines)
    BY IngestAssumption
  <2>2. IsFiniteSet(blank)
    BY <1>1, <2>1, FS_Subset
  <2>3. Cardinality(blank) \in Nat
    BY <2>2, FS_CardinalityType
  <2>4. stats.skipped \in Nat
    BY <1>1 DEF Counters
  <2>5. UNCHANGED blank => Cardinality(blank') = Cardinality(blank)
    OBVIOUS
  <2>6. QED
    BY <2>3, <2>4, <2>5
<1>3. /\ Cardinality(Held(buf)) \in Nat /\ Cardinality(Held(errBuf)) \in Nat
      /\ Cardinality(flushed) \in Nat /\ Cardinality(evicted) \in Nat /\ Cardinality(stored) \in Nat
      /\ Cardinality(Lines \ unread) \in Nat /\ Len(lineCh) \in Nat
      /\ stats.dropped \in Nat /\ stats.authRejected \in Nat /\ passed \in Nat
      /\ stats.inserted \in Nat /\ stats.bufferDrops \in Nat /\ stats.buffered \in Int
  <2>1. flushed \in SUBSET Lines /\ evicted \in SUBSET Lines /\ stored \in SUBSET Lines
    BY <1>1 DEF PlaceTypes
  <2>2. /\ Cardinality(flushed) \in Nat /\ Cardinality(evicted) \in Nat
        /\ Cardinality(stored) \in Nat /\ Cardinality(Lines \ unread) \in Nat
    BY <2>1, FS_Subset, FS_CardinalityType, IngestAssumption
  <2>3. QED
    BY <1>1, <1>b, <2>2, HeldFinite DEF Counters
<1>m. ASSUME NEW n \in Int
      PROVE  /\ Balance(Cardinality(Lines \ unread) + 1, stats.dropped, Len(lineCh) + 1, stats.authRejected,
                        passed, stats.buffered, Cardinality(Held(errBuf)),
                        Cardinality(flushed), stats.bufferDrops)
             /\ Balance(Cardinality(Lines \ unread) + 1, stats.dropped + 1, Len(lineCh), stats.authRejected,
                        passed, stats.buffered, Cardinality(Held(errBuf)),
                        Cardinality(flushed), stats.bufferDrops)
             /\ Balance(Cardinality(Lines \ unread), stats.dropped, Len(lineCh) - 1, stats.authRejected,
                        passed, stats.buffered + 1 - n, Cardinality(Held(errBuf)),
                        Cardinality(flushed), stats.bufferDrops + n)
             /\ Balance(Cardinality(Lines \ unread), stats.dropped, Len(lineCh) - 1, stats.authRejected,
                        passed, stats.buffered, Cardinality(Held(errBuf)) + 1 - n,
                        Cardinality(flushed), stats.bufferDrops + n)
             /\ Balance(Cardinality(Lines \ unread), stats.dropped, Len(lineCh) - 1, stats.authRejected + 1,
                        passed, stats.buffered, Cardinality(Held(errBuf)),
                        Cardinality(flushed), stats.bufferDrops)
             /\ Balance(Cardinality(Lines \ unread), stats.dropped, Len(lineCh) - 1, stats.authRejected,
                        passed + 1, stats.buffered, Cardinality(Held(errBuf)),
                        Cardinality(flushed), stats.bufferDrops)
             /\ Balance(Cardinality(Lines \ unread), stats.dropped, Len(lineCh), stats.authRejected,
                        passed, stats.buffered - n, Cardinality(Held(errBuf)),
                        Cardinality(flushed) + n, stats.bufferDrops)
             /\ Balance(Cardinality(Lines \ unread), stats.dropped, Len(lineCh), stats.authRejected,
                        passed, stats.buffered, Cardinality(Held(errBuf)) - n,
                        Cardinality(flushed) + n, stats.bufferDrops)
  <2>1. /\ Cardinality(Lines \ unread) \in Int /\ stats.dropped \in Int /\ Len(lineCh) \in Int
        /\ stats.authRejected \in Int /\ passed \in Int /\ stats.buffered \in Int
        /\ Cardinality(Held(errBuf)) \in Int /\ Cardinality(flushed) \in Int
        /\ stats.bufferDrops \in Int
    BY <1>3
  <2>2. QED
    BY ONLY <1>2, <2>1, n \in Int, BalanceMoves
<1>k. UNCHANGED flushed => stored' = stored
  OBVIOUS
<1> HIDE DEF stored, passed
<1>4. ASSUME NEW l \in Lines, TryEnqueue(l) PROVE EveryLineAccounted'
  <2>1. /\ l \in unread /\ unread' = unread \ {l}
        /\ UNCHANGED <<blank, buf, errBuf, flushed, evicted>>
    BY <1>4 DEF TryEnqueue, bufferVars, insertVars
  <2>2. Cardinality(Lines \ unread') = Cardinality(Lines \ unread) + 1
    <3>1. Lines \ unread' = (Lines \ unread) \cup {l} /\ l \notin Lines \ unread
      BY <2>1
    <3>2. IsFiniteSet(Lines \ unread)
      BY FS_Subset, IngestAssumption
    <3>3. QED
      BY <3>1, <3>2, FS_AddElement
  <2>3. CASE lineCh' = Append(lineCh, l) /\ UNCHANGED stats
    <3>1. Len(lineCh') = Len(lineCh) + 1
      BY <1>1, <2>3, AppendProperties
    <3>2. QED
      BY <1>1, <1>2, <1>3, <1>b, <1>e, <1>k, <1>m, <2>1, <2>2, <2>3, <3>1
  <2>4. CASE stats' = [stats EXCEPT !.dropped = @ + 1] /\ UNCHANGED lineCh
    <3>1. /\ stats'.dropped = stats.dropped + 1 /\ stats'.authRejected = stats.authRejected
          /\ stats'.skipped = stats.skipped /\ stats'.buffered = stats.buffered
          /\ stats'.inserted = stats.inserted /\ stats'.bufferDrops = stats.bufferDrops
      BY <1>1, <2>4 DEF Counters
    <3>2. QED
      BY <1>1, <1>2, <1>3, <1>b, <1>e, <1>k, <1>m, <2>1, <2>2, <2>4, <3>1
  <2>5. QED
    BY <1>4, <2>3, <2>4 DEF TryEnqueue
<1>5. ASSUME NEW w \in Workers, Receive(w) PROVE EveryLineAccounted'
  <2>1. PICK l \in Lines :
          /\ l = Head(lineCh) /\ l \in Elements(lineCh) /\ Len(lineCh') = Len(lineCh) - 1
          /\ UNCHANGED <<unread, flushed>> /\ ReceiveEffect(w, l)
    BY <1>5, ReceiveMoves
  <2>2. l \notin Held(buf) /\ l \notin Held(errBuf)
    BY <1>d, <2>1
  <2>3. CASE Kind(l) = "log"
    <3>1. PICK b \in Seq(Lines) :
            /\ Takes(buf[w], l, b) /\ buf' = [buf EXCEPT ![w] = b] /\ UNCHANGED errBuf
            /\ evicted' = evicted \cup (Elements(buf[w]) \ Elements(b))
            /\ stats' = [stats EXCEPT !.received = @ + 1, !.parsed = @ + 1,
                                      !.bufferDrops = @ + (Len(buf[w]) + 1 - Len(b)),
                                      !.buffered = @ + 1 - (Len(buf[w]) + 1 - Len(b))]
            /\ UNCHANGED blank
      BY <2>1, <2>3 DEF ReceiveEffect
    <3>2. PICK d \in Nat : /\ d = Len(buf[w]) + 1 - Len(b)
                           /\ Cardinality(Elements(buf[w]) \ Elements(b)) = d
      BY <3>1 DEF Takes
    <3>3. TakenInto(buf, w, l, b, buf')
      <4>1. /\ buf \in [Workers -> Seq(Lines)] /\ Apart(buf) /\ Takes(buf[w], l, b)
            /\ \A v \in Workers : Distinct(buf[v])
            /\ l \in Lines /\ l \notin Held(buf) /\ buf' = [buf EXCEPT ![w] = b]
        BY <1>1, <2>1, <2>2, <3>1
      <4>2. QED
        BY <4>1, HeldTakes, Zenon
    <3>4. Cardinality(Held(buf')) = Cardinality(Held(buf)) + 1 - d
      BY <3>2, <3>3 DEF TakenInto
    <3>5. Cardinality(evicted') = Cardinality(evicted) + d
      <4>1. /\ evicted \in SUBSET Lines /\ Elements(buf[w]) \ Elements(b) \in SUBSET Lines
            /\ evicted \cap (Elements(buf[w]) \ Elements(b)) = {}
        BY <1>1, <1>d, HeldFinite DEF PlaceTypes
      <4>2. QED
        BY <3>1, <3>2, <4>1, GrownCardinality
    <3>6. /\ stats'.dropped = stats.dropped /\ stats'.authRejected = stats.authRejected
          /\ stats'.skipped = stats.skipped /\ stats'.inserted = stats.inserted
          /\ stats'.buffered = stats.buffered + 1 - d /\ stats'.bufferDrops = stats.bufferDrops + d
      BY <1>1, <3>1, <3>2 DEF Counters
    <3>7. Balance(Cardinality(Lines \ unread), stats.dropped, Len(lineCh) - 1, stats.authRejected,
                  passed, stats.buffered + 1 - d, Cardinality(Held(errBuf)),
                  Cardinality(flushed), stats.bufferDrops + d)
      <4>1. d \in Int
        OBVIOUS
      <4>2. QED
        BY <1>m, <4>1, Zenon
    <3>8. QED
      BY <1>1, <1>2, <1>b, <1>e, <1>k, <2>1, <3>1, <3>4, <3>5, <3>6, <3>7
  <2>4. CASE Kind(l) = "bad"
    <3>1. PICK b \in Seq(Lines) :
            /\ Takes(errBuf[w], l, b) /\ errBuf' = [errBuf EXCEPT ![w] = b] /\ UNCHANGED buf
            /\ evicted' = evicted \cup (Elements(errBuf[w]) \ Elements(b))
            /\ stats' = [stats EXCEPT !.received = @ + 1, !.parseErrors = @ + 1,
                                      !.bufferDrops = @ + (Len(errBuf[w]) + 1 - Len(b))]
            /\ UNCHANGED blank
      BY <2>1, <2>4 DEF ReceiveEffect
    <3>2. PICK d \in Nat : /\ d = Len(errBuf[w]) + 1 - Len(b)
                           /\ Cardinality(Elements(errBuf[w]) \ Elements(b)) = d
      BY <3>1 DEF Takes
    <3>3. TakenInto(errBuf, w, l, b, errBuf')
      <4>1. /\ errBuf \in [Workers -> Seq(Lines)] /\ Apart(errBuf) /\ Takes(errBuf[w], l, b)
            /\ \A v \in Workers : Distinct(errBuf[v])
            /\ l \in Lines /\ l \notin Held(errBuf) /\ errBuf' = [errBuf EXCEPT ![w] = b]
        BY <1>1, <2>1, <2>2, <3>1
      <4>2. QED
        BY <4>1, HeldTakes, Zenon
    <3>4. Cardinality(Held(errBuf')) = Cardinality(Held(errBuf)) + 1 - d
      BY <3>2, <3>3 DEF TakenInto
    <3>5. Cardinality(evicted') = Cardinality(evicted) + d
      <4>1. /\ evicted \in SUBSET Lines /\ Elements(errBuf[w]) \ Elements(b) \in SUBSET Lines
            /\ evicted \cap (Elements(errBuf[w]) \ Elements(b)) = {}
        BY <1>1, <1>d, HeldFinite DEF PlaceTypes
      <4>2. QED
        BY <3>1, <3>2, <4>1, GrownCardinality
    <3>6. /\ stats'.dropped = stats.dropped /\ stats'.authRejected = stats.authRejected
          /\ stats'.skipped = stats.skipped /\ stats'.inserted = stats.inserted
          /\ stats'.buffered = stats.buffered /\ stats'.bufferDrops = stats.bufferDrops + d
      BY <1>1, <3>1, <3>2 DEF Counters
    <3>7. Balance(Cardinality(Lines \ unread), stats.dropped, Len(lineCh) - 1, stats.authRejected,
                  passed, stats.buffered, Cardinality(Held(errBuf)) + 1 - d,
                  Cardinality(flushed), stats.bufferDrops + d)
      <4>1. d \in Int
        OBVIOUS
      <4>2. QED
        BY <1>m, <4>1, Zenon
    <3>8. QED
      BY <1>1, <1>2, <1>b, <1>e, <1>k, <2>1, <3>1, <3>4, <3>5, <3>6, <3>7
  <2>5. CASE Kind(l) \in {"skip", "reject"}
    <3>1. /\ UNCHANGED <<buf, errBuf, evicted, blank>>
          /\ \/ stats' = [stats EXCEPT !.received = @ + 1, !.skipped = @ + 1]
             \/ stats' = [stats EXCEPT !.authRejected = @ + 1]
      BY <2>1, <2>5 DEF ReceiveEffect
    <3>2. /\ stats'.dropped = stats.dropped /\ stats'.inserted = stats.inserted
          /\ stats'.buffered = stats.buffered /\ stats'.bufferDrops = stats.bufferDrops
          /\ \/ stats'.skipped = stats.skipped + 1 /\ stats'.authRejected = stats.authRejected
             \/ stats'.skipped = stats.skipped /\ stats'.authRejected = stats.authRejected + 1
      BY <1>1, <3>1 DEF Counters
    <3>3. QED
      BY <1>1, <1>2, <1>3, <1>b, <1>e, <1>k, <1>m, <2>1, <3>1, <3>2
  <2>7. CASE Kind(l) = "empty"
    <3>1. UNCHANGED <<buf, errBuf, evicted, stats>> /\ blank' = blank \cup {l}
      BY <2>1, <2>7 DEF ReceiveEffect
    <3>2. l \notin blank
      BY <1>1, <2>1
    <3>3. Cardinality(blank') = Cardinality(blank) + 1
      <4>1. IsFiniteSet(blank)
        BY <1>1, FS_Subset, IngestAssumption
      <4>2. QED
        BY <3>1, <3>2, <4>1, FS_AddElement
    <3>4. passed' = passed + 1
      BY <1>b, <3>1, <3>3 DEF passed
    <3>5. \A x \in blank' : Kind(x) = "empty"
      BY <1>1, <2>7, <3>1
    <3>6. QED
      BY <1>2, <1>3, <1>e, <1>k, <1>m, <2>1, <3>1, <3>4, <3>5
  <2>6. QED
    BY <2>1, <2>3, <2>4, <2>5, <2>7 DEF ReceiveEffect
<1>6. ASSUME NEW w \in Workers, InsertLogsOK(w) PROVE EveryLineAccounted'
  <2>1. /\ buf' = [buf EXCEPT ![w] = <<>>] /\ flushed' = flushed \cup Elements(buf[w])
        /\ UNCHANGED <<unread, lineCh, blank, errBuf, evicted>>
        /\ stats' = [stats EXCEPT !.inserted = @ + Len(buf[w]), !.buffered = @ - Len(buf[w])]
    BY <1>6 DEF InsertLogsOK, queueVars
  <2>2. Cardinality(Held(buf')) = Cardinality(Held(buf)) - Len(buf[w])
    BY <1>1, <2>1, HeldEmptied
  <2>3. Cardinality(Elements(buf[w])) = Len(buf[w]) /\ Len(buf[w]) \in Nat
    BY <1>1, DistinctCardinality
  <2>4. Elements(buf[w]) \subseteq Held(buf) /\ Elements(buf[w]) \in SUBSET Lines
    BY <1>1, HeldFinite
  <2>5. Cardinality(flushed') = Cardinality(flushed) + Len(buf[w])
    <3>1. flushed \in SUBSET Lines /\ flushed \cap Elements(buf[w]) = {}
      BY <1>1, <1>d, <2>4 DEF PlaceTypes
    <3>2. QED
      BY <2>1, <2>3, <2>4, <3>1, GrownCardinality
  <2>6. Cardinality(stored') = Cardinality(stored) + Len(buf[w])
    <3>1. stored \in SUBSET Lines /\ stored \cap Elements(buf[w]) = {}
      BY <1>1, <1>d, <2>4 DEF PlaceTypes, stored
    <3>2. \A x \in Elements(buf[w]) : Kind(x) = "log"
      BY <1>1, <2>4 DEF LogLine
    <3>3. stored' = stored \cup Elements(buf[w])
      BY <2>1, <3>2 DEF stored
    <3>4. QED
      BY <2>3, <2>4, <3>1, <3>3, GrownCardinality
  <2>7. /\ stats'.dropped = stats.dropped /\ stats'.authRejected = stats.authRejected
        /\ stats'.skipped = stats.skipped /\ stats'.inserted = stats.inserted + Len(buf[w])
        /\ stats'.buffered = stats.buffered - Len(buf[w]) /\ stats'.bufferDrops = stats.bufferDrops
    BY <1>1, <2>1, <2>3 DEF Counters
  <2>8. Balance(Cardinality(Lines \ unread), stats.dropped, Len(lineCh), stats.authRejected,
                passed, stats.buffered - Len(buf[w]), Cardinality(Held(errBuf)),
                Cardinality(flushed) + Len(buf[w]), stats.bufferDrops)
    <3>1. Len(buf[w]) \in Int
      BY <2>3
    <3>2. QED
      BY <1>m, <3>1, Zenon
  <2>9. QED
    BY <1>1, <1>2, <1>b, <1>e, <2>1, <2>2, <2>5, <2>6, <2>7, <2>8
<1>7. ASSUME NEW w \in Workers, InsertErrorsOK(w) PROVE EveryLineAccounted'
  <2>1. /\ errBuf' = [errBuf EXCEPT ![w] = <<>>] /\ flushed' = flushed \cup Elements(errBuf[w])
        /\ UNCHANGED <<unread, lineCh, blank, buf, evicted, stats>>
    BY <1>7 DEF InsertErrorsOK, queueVars
  <2>2. Cardinality(Held(errBuf')) = Cardinality(Held(errBuf)) - Len(errBuf[w])
    BY <1>1, <2>1, HeldEmptied
  <2>3. Cardinality(Elements(errBuf[w])) = Len(errBuf[w]) /\ Len(errBuf[w]) \in Nat
    BY <1>1, DistinctCardinality
  <2>4. Elements(errBuf[w]) \subseteq Held(errBuf) /\ Elements(errBuf[w]) \in SUBSET Lines
    BY <1>1, HeldFinite
  <2>5. Cardinality(flushed') = Cardinality(flushed) + Len(errBuf[w])
    <3>1. flushed \in SUBSET Lines /\ flushed \cap Elements(errBuf[w]) = {}
      BY <1>1, <1>d, <2>4 DEF PlaceTypes
    <3>2. QED
      BY <2>1, <2>3, <2>4, <3>1, GrownCardinality
  <2>6. stored' = stored
    BY <1>1, <2>1, <2>4 DEF BadLine, stored
  <2>7. Balance(Cardinality(Lines \ unread), stats.dropped, Len(lineCh), stats.authRejected,
                passed, stats.buffered, Cardinality(Held(errBuf)) - Len(errBuf[w]),
                Cardinality(flushed) + Len(errBuf[w]), stats.bufferDrops)
    <3>1. Len(errBuf[w]) \in Int
      BY <2>3
    <3>2. QED
      BY <1>m, <3>1, Zenon
  <2>8. QED
    BY <1>1, <1>2, <1>b, <1>e, <2>1, <2>2, <2>5, <2>6, <2>7
<1>8. CASE UNCHANGED placeVars
  BY <1>1, <1>2, <1>b, <1>e, <1>k, <1>8 DEF placeVars
<1>9. QED
  BY <1>4, <1>5, <1>6, <1>7, <1>8, MovesOrKeeps

-----------------------------------------------------------------------------
(* The drain *)

\* Once the shutdown has begun, what is in the queue from before only leaves it.
Emptied == ctxDone /\ Elements(lineCh) \subseteq late

\* Where a worker may be once it drains, and what it has left behind: it enters
\* its last flush with an empty queue, and leaves it with empty buffers unless
\* an insert has failed.
DrainOf(w) ==
    /\ mode[w] # "run" => ctxDone
    /\ mode[w] \in {"final", "stopped"} /\ w \notin drainDead => Emptied
    /\ mode[w] = "stopped" => pc[w] = "top"
    /\ mode[w] = "final" => pc[w] \in {"probe", "logs", "next", "errors"}
    /\ pc[w] = "next" => buf[w] = <<>>
    /\ mode[w] = "final" /\ pc[w] = "errors" => buf[w] = <<>>
    /\ mode[w] = "stopped" /\ w \notin drainDead /\ ~failed => buf[w] = <<>> /\ errBuf[w] = <<>>

\* The breaker opens only after a failure.
DrainInv ==
    /\ ~failed => circuit = "closed"
    /\ \A w \in Workers : DrainOf(w)

\* The inductive invariant of the pipeline.
IngestInv == TypeOK /\ OnePlace /\ EveryLineAccounted /\ DrainInv

\* What the shutdown has reached is not undone.
LEMMA DrainIsMonotone ==
    ASSUME TypeOK, OnePlace, [Next]_vars
    PROVE  /\ ctxDone => ctxDone'
           /\ drainDead \subseteq drainDead'
           /\ failed => failed'
           /\ Emptied => Emptied'
<1> USE DEF queueVars, workerVars, bufferVars, circuitVars, envVars, insertVars, systemVars
<1>1. ASSUME NEW l \in Lines, TryEnqueue(l)
      PROVE  /\ UNCHANGED <<ctxDone, drainDead, failed>>
             /\ Emptied => Emptied'
  <2>1. lineCh \in Seq(Lines) /\ Distinct(lineCh) /\ l \notin Elements(lineCh)
    BY <1>1 DEF TypeOK, PlaceTypes, OnePlace, Sorted, Disjoint, TryEnqueue
  <2>2. Elements(Append(lineCh, l)) = Elements(lineCh) \cup {l}
    BY <2>1, DistinctAppend
  <2>3. QED
    BY <1>1, <2>2 DEF TryEnqueue, Emptied
<1>2. ASSUME NEW w \in Workers, Receive(w)
      PROVE  /\ UNCHANGED <<ctxDone, drainDead>>
             /\ failed => failed'
             /\ Emptied => Emptied'
  <2>1. UNCHANGED <<ctxDone, drainDead, late>> /\ Elements(lineCh') \subseteq Elements(lineCh)
    BY <1>2, ReceiveMoves
  <2>2. failed => failed'
    BY <1>2 DEF Receive, ProcessLog, ProcessBad, ProcessNothing, BeginFlush, BeginInsert, NoteFailure
  <2>3. QED
    BY <2>1, <2>2 DEF Emptied
<1>3. ASSUME NEW w \in Workers, Step(w) \/ TickerFlush(w) \/ StartDrain(w)
      PROVE  /\ UNCHANGED <<ctxDone, drainDead, lineCh, late>>
             /\ failed => failed'
  <2>1. CASE FlushErrors(w) \/ TickerFlush(w) \/ DrainProbeFlush(w) \/ InsertFails(w)
    BY <2>1 DEF FlushErrors, TickerFlush, DrainProbeFlush, InsertFails, BeginFlush, BeginInsert, NoteFailure
  <2>2. CASE InsertLogsOK(w) \/ InsertErrorsOK(w)
    BY <2>2 DEF InsertLogsOK, InsertErrorsOK
  <2>3. CASE \/ SeesCircuitClosed(w) \/ DrainProbe(w) \/ DrainLastFlush(w)
             \/ DrainGivesUp(w) \/ StartDrain(w)
    BY <2>3 DEF SeesCircuitClosed, DrainProbe, DrainLastFlush, DrainGivesUp, StartDrain
  <2>4. QED
    BY <1>3, <2>1, <2>2, <2>3 DEF Step, InsertOK
<1>4. CASE (\E w \in Workers : DrainExpires(w)) \/ CooldownEnds \/ Shutdown \/ Terminated \/ UNCHANGED vars
  BY <1>4 DEF DrainExpires, CooldownEnds, Shutdown, Terminated, vars, Emptied
<1>5. QED
  BY <1>1, <1>2, <1>3, <1>4 DEF Next, Worker, Emptied

\* A worker that does nothing keeps its part of the drain invariant.
LEMMA IdleDrain ==
    ASSUME TypeOK, OnePlace, [Next]_vars, NEW v \in Workers, DrainOf(v),
           mode'[v] = mode[v], pc'[v] = pc[v], buf'[v] = buf[v], errBuf'[v] = errBuf[v]
    PROVE  DrainOf(v)'
BY DrainIsMonotone DEF DrainOf

\* The step of one worker leaves the others where they are.
LEMMA OthersIdle ==
    ASSUME TypeOK, [Next]_vars, NEW w \in Workers, Worker(w), NEW v \in Workers, v # w
    PROVE  mode'[v] = mode[v] /\ pc'[v] = pc[v] /\ buf'[v] = buf[v] /\ errBuf'[v] = errBuf[v]
<1> USE DEF workerVars, bufferVars, TypeOK, PlaceTypes, WorkerTypes
<1>1. ASSUME NEW logs, NEW errs, BeginFlush(w, logs, errs)
      PROVE  mode'[v] = mode[v] /\ pc'[v] = pc[v]
  BY <1>1 DEF BeginFlush, BeginInsert, FlushReturns
<1>2. CASE Receive(w)
  <2>1. mode'[v] = mode[v] /\ pc'[v] = pc[v]
    BY <1>1, <1>2 DEF Receive, ProcessLog, ProcessBad, ProcessNothing, FlushReturns
  <2>2. buf'[v] = buf[v] /\ errBuf'[v] = errBuf[v]
    BY <1>2 DEF Receive, ProcessLog, ProcessBad, ProcessNothing
  <2>3. QED
    BY <2>1, <2>2
<1>3. CASE FlushErrors(w) \/ TickerFlush(w) \/ DrainProbeFlush(w)
  BY <1>1, <1>3 DEF FlushErrors, TickerFlush, DrainProbeFlush
<1>4. CASE InsertFails(w) \/ InsertLogsOK(w) \/ InsertErrorsOK(w)
  BY <1>4 DEF InsertFails, InsertLogsOK, InsertErrorsOK, FlushReturns
<1>5. CASE \/ SeesCircuitClosed(w) \/ DrainProbe(w) \/ DrainLastFlush(w)
           \/ DrainGivesUp(w) \/ StartDrain(w)
  BY <1>5 DEF SeesCircuitClosed, DrainProbe, DrainLastFlush, DrainGivesUp, StartDrain
<1>6. QED
  BY <1>2, <1>3, <1>4, <1>5 DEF Worker, Step, InsertOK

\* What beginning a flush does to the worker, the breaker and the record of
\* failures.
FlushOutcome(w, logs, errs) ==
    \/ \* the flush has nothing to do, or the breaker stops it
       /\ pc'[w] = "top" /\ mode'[w] = IF mode[w] = "final" THEN "stopped" ELSE mode[w]
       /\ UNCHANGED <<circuit, failed>>
       /\ circuit = "open" \/ (logs = <<>> /\ errs = <<>>)
    \/ \* the context is dead
       /\ pc'[w] = "top" /\ mode'[w] = IF mode[w] = "final" THEN "stopped" ELSE mode[w]
       /\ failed'
    \/ \* an insert begins
       /\ \/ pc'[w] = "logs" /\ logs # <<>>
          \/ pc'[w] = "errors" /\ logs = <<>>
       /\ mode'[w] = mode[w] /\ UNCHANGED <<circuit, failed>>

LEMMA FlushHasOutcome ==
    ASSUME TypeOK, NEW w \in Workers, NEW logs, NEW errs, BeginFlush(w, logs, errs)
    PROVE  FlushOutcome(w, logs, errs)
<1>1. mode \in [Workers -> Modes] /\ pc \in [Workers -> Places] /\ failed \in BOOLEAN
  BY DEF TypeOK, WorkerTypes
<1>2. QED
  BY <1>1 DEF BeginFlush, BeginInsert, FlushReturns, NoteFailure, FlushOutcome, Open, circuitVars

\* A worker that drains moves from one flush to the last.
LEMMA StepDrain ==
    ASSUME TypeOK, OnePlace, DrainInv, [Next]_vars
    PROVE  DrainInv'
<1> USE DEF queueVars, workerVars, bufferVars, circuitVars, envVars, insertVars, systemVars
<1>1. /\ mode \in [Workers -> Modes] /\ pc \in [Workers -> Places]
      /\ buf \in [Workers -> Seq(Lines)] /\ errBuf \in [Workers -> Seq(Lines)]
      /\ failed \in BOOLEAN /\ ctxDone \in BOOLEAN
  BY DEF TypeOK, WorkerTypes, PlaceTypes
<1>2. /\ ~failed => circuit = "closed"
      /\ \A v \in Workers : DrainOf(v)
  BY DEF DrainInv
<1>3. /\ ctxDone => ctxDone'
      /\ drainDead \subseteq drainDead'
      /\ failed => failed'
      /\ Emptied => Emptied'
  BY DrainIsMonotone
<1>h. ASSUME NEW w \in Workers,
             mode'[w] = mode[w] \/ (mode[w] = "final" /\ mode'[w] = "stopped")
      PROVE  /\ mode'[w] # "run" => ctxDone'
             /\ mode'[w] \in {"final", "stopped"} /\ w \notin drainDead' => Emptied'
  <2>1. /\ mode[w] # "run" => ctxDone
        /\ mode[w] \in {"final", "stopped"} /\ w \notin drainDead => Emptied
    BY <1>2 DEF DrainOf
  <2>2. mode'[w] # "run" => ctxDone'
    BY <1>3, <1>h, <2>1
  <2>3. ASSUME mode'[w] \in {"final", "stopped"}, w \notin drainDead' PROVE Emptied'
    <3>1. mode[w] \in {"final", "stopped"}
      BY <1>h, <2>3
    <3>2. w \notin drainDead
      BY <1>3, <2>3
    <3>3. QED
      BY <1>3, <2>1, <3>1, <3>2
  <2>4. QED
    BY <2>2, <2>3
<1>4. ASSUME NEW w \in Workers, Receive(w)
      PROVE  DrainOf(w)' /\ (~failed' => circuit' = "closed")
  <2>1. pc[w] = "select" /\ mode[w] \notin {"final", "stopped"} /\ (mode[w] # "run" => ctxDone)
    BY <1>2, <1>4 DEF Receive, DrainOf
  <2>2. \/ \E logs, errs : FlushOutcome(w, logs, errs)
        \/ pc'[w] = "top" /\ mode'[w] = mode[w] /\ UNCHANGED <<circuit, failed>>
    <3>1. \/ \E logs, errs : BeginFlush(w, logs, errs)
          \/ FlushReturns(w) /\ UNCHANGED <<circuit, failed>>
      BY <1>4 DEF Receive, ProcessLog, ProcessBad, ProcessNothing
    <3>2. QED
      BY <1>1, <2>1, <3>1, FlushHasOutcome DEF FlushReturns
  <2>3. pc'[w] # "next" /\ mode'[w] = mode[w]
    BY <2>1, <2>2 DEF FlushOutcome
  <2>4. ~failed' => circuit' = "closed"
    BY <1>2, <2>2 DEF FlushOutcome
  <2>5. QED
    BY <1>3, <2>1, <2>3, <2>4 DEF DrainOf
<1>5. ASSUME NEW w \in Workers, NEW logs, FlushOutcome(w, logs, errBuf[w]),
             UNCHANGED <<buf, errBuf, ctxDone, drainDead>>,
             logs = buf[w], mode[w] # "stopped"
      PROVE  DrainOf(w)' /\ (~failed' => circuit' = "closed")
  <2>1. DrainOf(w)
    BY <1>2
  <2>2. ~failed' => circuit' = "closed"
    BY <1>2, <1>5 DEF FlushOutcome
  <2>3. mode'[w] = mode[w] \/ (mode[w] = "final" /\ mode'[w] = "stopped")
    BY <1>5 DEF FlushOutcome
  <2>4. /\ mode'[w] # "run" => ctxDone'
        /\ mode'[w] \in {"final", "stopped"} /\ w \notin drainDead' => Emptied'
    BY <1>h, <2>3
  <2>5. /\ mode'[w] = "stopped" => pc'[w] = "top"
        /\ mode'[w] = "final" => pc'[w] \in {"probe", "logs", "next", "errors"}
        /\ pc'[w] = "next" => buf'[w] = <<>>
        /\ mode'[w] = "final" /\ pc'[w] = "errors" => buf'[w] = <<>>
    BY <1>5, <2>1 DEF DrainOf, FlushOutcome
  <2>6. mode'[w] = "stopped" /\ w \notin drainDead' /\ ~failed' => buf'[w] = <<>> /\ errBuf'[w] = <<>>
    BY <1>2, <1>3, <1>5, <2>1 DEF DrainOf, FlushOutcome
  <2>7. QED
    BY <2>2, <2>4, <2>5, <2>6 DEF DrainOf
<1>6. ASSUME NEW w \in Workers, TickerFlush(w) \/ DrainProbeFlush(w) \/ FlushErrors(w)
      PROVE  DrainOf(w)' /\ (~failed' => circuit' = "closed")
  <2>1. BeginFlush(w, buf[w], errBuf[w]) /\ UNCHANGED <<buf, errBuf, ctxDone, drainDead>>
    BY <1>2, <1>6 DEF TickerFlush, DrainProbeFlush, FlushErrors, DrainOf
  <2>2. FlushOutcome(w, buf[w], errBuf[w])
    BY <2>1, FlushHasOutcome
  <2>3. mode[w] # "stopped"
    BY <1>2, <1>6 DEF TickerFlush, DrainProbeFlush, FlushErrors, DrainOf
  <2>4. QED
    BY <1>5, <2>1, <2>2, <2>3
<1>7. ASSUME NEW w \in Workers, InsertLogsOK(w)
      PROVE  DrainOf(w)' /\ (~failed' => circuit' = "closed")
  <2>1. /\ pc[w] = "logs" /\ pc'[w] = "next" /\ buf'[w] = <<>> /\ mode'[w] = mode[w]
        /\ circuit' = "closed" /\ UNCHANGED <<ctxDone, drainDead>>
    BY <1>1, <1>7 DEF InsertLogsOK, NoteSuccess
  <2>2. DrainOf(w) /\ mode[w] # "stopped"
    BY <1>2, <2>1 DEF DrainOf
  <2>3. mode'[w] = mode[w] \/ (mode[w] = "final" /\ mode'[w] = "stopped")
    BY <2>1
  <2>4. /\ mode'[w] # "run" => ctxDone'
        /\ mode'[w] \in {"final", "stopped"} /\ w \notin drainDead' => Emptied'
    BY <1>h, <2>3
  <2>5. ~failed' => circuit' = "closed"
    BY <1>2, <2>1
  <2>6. /\ mode'[w] = "stopped" => pc'[w] = "top"
        /\ mode'[w] = "final" => pc'[w] \in {"probe", "logs", "next", "errors"}
        /\ pc'[w] = "next" => buf'[w] = <<>>
        /\ mode'[w] = "final" /\ pc'[w] = "errors" => buf'[w] = <<>>
        /\ mode'[w] = "stopped" /\ w \notin drainDead' /\ ~failed'
             => buf'[w] = <<>> /\ errBuf'[w] = <<>>
    BY <2>1, <2>2 DEF DrainOf
  <2>7. QED
    BY <2>4, <2>5, <2>6 DEF DrainOf
<1>8. ASSUME NEW w \in Workers, InsertErrorsOK(w)
      PROVE  DrainOf(w)' /\ (~failed' => circuit' = "closed")
  <2>1. /\ pc[w] = "errors" /\ pc'[w] = "top" /\ errBuf'[w] = <<>> /\ buf'[w] = buf[w]
        /\ mode'[w] = (IF mode[w] = "final" THEN "stopped" ELSE mode[w])
        /\ circuit' = "closed" /\ UNCHANGED <<ctxDone, drainDead>>
    BY <1>1, <1>8 DEF InsertErrorsOK, NoteSuccess, FlushReturns
  <2>2. DrainOf(w) /\ mode[w] # "stopped"
    BY <1>2, <2>1 DEF DrainOf
  <2>3. mode'[w] = mode[w] \/ (mode[w] = "final" /\ mode'[w] = "stopped")
    BY <2>1
  <2>4. /\ mode'[w] # "run" => ctxDone'
        /\ mode'[w] \in {"final", "stopped"} /\ w \notin drainDead' => Emptied'
    BY <1>h, <2>3
  <2>5. ~failed' => circuit' = "closed"
    BY <1>2, <2>1
  <2>6. /\ mode'[w] = "stopped" => pc'[w] = "top"
        /\ mode'[w] = "final" => pc'[w] \in {"probe", "logs", "next", "errors"}
        /\ pc'[w] = "next" => buf'[w] = <<>>
        /\ mode'[w] = "final" /\ pc'[w] = "errors" => buf'[w] = <<>>
        /\ mode'[w] = "stopped" /\ w \notin drainDead' /\ ~failed'
             => buf'[w] = <<>> /\ errBuf'[w] = <<>>
    BY <2>1, <2>2 DEF DrainOf
  <2>7. QED
    BY <2>4, <2>5, <2>6 DEF DrainOf
<1>9. ASSUME NEW w \in Workers, InsertFails(w)
      PROVE  DrainOf(w)' /\ (~failed' => circuit' = "closed")
  <2>1. /\ pc[w] \in {"logs", "errors"} /\ UNCHANGED <<buf, errBuf, ctxDone, drainDead>>
        /\ \/ mode'[w] = mode[w] /\ pc'[w] = pc[w] /\ UNCHANGED <<circuit, failed>>
           \/ /\ pc'[w] = "top" /\ mode'[w] = (IF mode[w] = "final" THEN "stopped" ELSE mode[w])
              /\ failed'
    BY <1>1, <1>9 DEF InsertFails, NoteFailure, FlushReturns
  <2>2. DrainOf(w) /\ mode[w] # "stopped"
    BY <1>2, <2>1 DEF DrainOf
  <2>3. mode'[w] = mode[w] \/ (mode[w] = "final" /\ mode'[w] = "stopped")
    BY <2>1
  <2>4. /\ mode'[w] # "run" => ctxDone'
        /\ mode'[w] \in {"final", "stopped"} /\ w \notin drainDead' => Emptied'
    BY <1>h, <2>3
  <2>5. ~failed' => circuit' = "closed"
    BY <1>2, <2>1
  <2>6. /\ mode'[w] = "stopped" => pc'[w] = "top"
        /\ mode'[w] = "final" => pc'[w] \in {"probe", "logs", "next", "errors"}
        /\ pc'[w] = "next" => buf'[w] = <<>>
        /\ mode'[w] = "final" /\ pc'[w] = "errors" => buf'[w] = <<>>
        /\ mode'[w] = "stopped" /\ w \notin drainDead' /\ ~failed'
             => buf'[w] = <<>> /\ errBuf'[w] = <<>>
    BY <2>1, <2>2 DEF DrainOf
  <2>7. QED
    BY <2>4, <2>5, <2>6 DEF DrainOf
<1>10. ASSUME NEW w \in Workers, DrainLastFlush(w)
       PROVE  DrainOf(w)' /\ (~failed' => circuit' = "closed")
  <2>1. /\ mode[w] = "drain" /\ lineCh = <<>> /\ mode'[w] = "final" /\ pc'[w] = "probe"
        /\ UNCHANGED <<lineCh, late, circuit, failed, ctxDone, drainDead>>
    BY <1>1, <1>10 DEF DrainLastFlush
  <2>2. Elements(<<>>) = {}
    BY EmptySeq DEF Elements
  <2>3. ctxDone
    BY <1>2, <2>1 DEF DrainOf
  <2>4. Emptied'
    BY <2>1, <2>2, <2>3 DEF Emptied
  <2>5. QED
    BY <1>2, <2>1, <2>3, <2>4 DEF DrainOf
<1>11. ASSUME NEW w \in Workers,
              SeesCircuitClosed(w) \/ DrainProbe(w) \/ DrainGivesUp(w) \/ StartDrain(w)
       PROVE  DrainOf(w)' /\ (~failed' => circuit' = "closed")
  <2>1. /\ mode[w] \in {"run", "drain"}
        /\ \/ mode'[w] = mode[w] /\ pc'[w] \in {"select", "probe"}
           \/ mode'[w] = "stopped" /\ mode[w] = "drain" /\ w \in drainDead /\ pc'[w] = "top"
           \/ mode'[w] = "drain" /\ ctxDone /\ pc'[w] = "top"
        /\ UNCHANGED <<circuit, failed, ctxDone, drainDead>>
    BY <1>1, <1>11 DEF SeesCircuitClosed, DrainProbe, DrainGivesUp, StartDrain
  <2>2. QED
    BY <1>2, <2>1 DEF DrainOf
<1>12. ASSUME NEW w \in Workers, Worker(w) PROVE DrainInv'
  <2>1. DrainOf(w)' /\ (~failed' => circuit' = "closed")
    BY <1>4, <1>6, <1>7, <1>8, <1>9, <1>10, <1>11, <1>12 DEF Worker, Step, InsertOK
  <2>2. \A v \in Workers : v # w => DrainOf(v)'
    BY <1>2, <1>12, OthersIdle, IdleDrain
  <2>3. QED
    BY <2>1, <2>2 DEF DrainInv
<1>13. CASE \/ \E l \in Lines : TryEnqueue(l)
            \/ \E w \in Workers : DrainExpires(w)
            \/ CooldownEnds \/ Shutdown \/ Terminated \/ UNCHANGED vars
  <2>1. UNCHANGED <<mode, pc, buf, errBuf>>
    BY <1>13 DEF TryEnqueue, DrainExpires, CooldownEnds, Shutdown, Terminated, vars
  <2>2. \A v \in Workers : DrainOf(v)'
    BY <1>2, <2>1, IdleDrain
  <2>3. ~failed' => circuit' = "closed"
    BY <1>2, <1>13 DEF TryEnqueue, DrainExpires, CooldownEnds, Shutdown, Terminated, vars, Open
  <2>4. QED
    BY <2>2, <2>3 DEF DrainInv
<1>14. QED
  BY <1>12, <1>13 DEF Next

\* The invariant holds at the start ...
LEMMA InitIngest ==
    ASSUME Init PROVE IngestInv
<1>1. <<>> \in Seq(Lines) /\ Len(<<>>) = 0
  BY EmptySeq
<1>2. Elements(<<>>) = {} /\ Distinct(<<>>)
  BY <1>1 DEF Elements, Distinct
<1>3. InBuf = {} /\ InErrBuf = {}
  BY <1>2 DEF Init, InBuf, InErrBuf
<1>4. PlaceTypes
  BY <1>1 DEF Init, PlaceTypes, Counters, ZeroStats
<1>5. WorkerTypes
  BY DEF Init, WorkerTypes, Modes, Places
<1>6. OnePlace
  BY <1>2, <1>3 DEF Init, OnePlace, Sorted, Disjoint, Apart
<1>7. EveryLineAccounted
  <2>1. Lines \ unread = {} /\ {l \in flushed : Kind(l) = "log"} = {} /\ flushed = {} /\ evicted = {} /\ blank = {}
    BY DEF Init
  <2>2. Cardinality({}) = 0
    BY FS_EmptySet
  <2>3. /\ stats.buffered = 0 /\ stats.inserted = 0 /\ stats.bufferDrops = 0 /\ stats.dropped = 0
        /\ stats.authRejected = 0 /\ stats.skipped = 0 /\ Len(lineCh) = 0
    BY <1>1 DEF Init, ZeroStats
  <2>4. /\ Cardinality(InBuf) = 0 /\ Cardinality(InErrBuf) = 0 /\ Cardinality(Lines \ unread) = 0
        /\ Cardinality({l \in flushed : Kind(l) = "log"}) = 0
        /\ Cardinality(flushed) = 0 /\ Cardinality(evicted) = 0 /\ Cardinality(blank) = 0
    BY <1>3, <2>1, <2>2, Zenon
  <2>5. 0 = 0 + 0 + 0 + (0 + 0) + 0 + 0 + 0 + 0
    OBVIOUS
  <2>6. QED
    BY <2>1, <2>3, <2>4, <2>5 DEF EveryLineAccounted
<1>8. DrainInv
  BY DEF Init, DrainInv, DrainOf
<1>9. QED
  BY <1>4, <1>5, <1>6, <1>7, <1>8 DEF IngestInv, TypeOK

\* ... and every step keeps it.
LEMMA StepIngest ==
    ASSUME IngestInv, [Next]_vars PROVE IngestInv'
<1>1. TypeOK /\ OnePlace /\ EveryLineAccounted /\ DrainInv
  BY DEF IngestInv
<1>2. TypeOK'
  BY <1>1, StepPlaceTypes, StepWorkerTypes DEF TypeOK
<1>3. OnePlace' /\ EveryLineAccounted' /\ DrainInv'
  BY <1>1, StepOnePlace, StepAccounts, StepDrain
<1>4. QED
  BY <1>2, <1>3 DEF IngestInv

\* What the pipeline does in any number of workers, whatever ClickHouse does:
\* types, one place per line, books that balance, and the course of the drain.
THEOREM IngestInvariant == Spec => []IngestInv
<1>1. Init => IngestInv
  BY InitIngest
<1>2. IngestInv /\ [Next]_vars => IngestInv'
  BY StepIngest
<1>3. QED
  BY <1>1, <1>2, PTL DEF Spec

\* The counters of /api/ingest/stats with the queue and the buffers account for
\* every line that arrived, at every instant.
THEOREM LinesAccounted == Spec => []EveryLineAccounted
<1>1. IngestInv => EveryLineAccounted
  BY DEF IngestInv
<1>2. QED
  BY <1>1, IngestInvariant, PTL

\* drainWorker leaves no old line in the queue unless its budget ran out, and
\* nothing in a buffer unless an insert has failed.
THEOREM DrainLeavesNothing == Spec => []Drained
<1>1. ASSUME IngestInv, AllStopped, drainDead = {}
      PROVE  /\ Elements(lineCh) \subseteq late
             /\ ~failed => InBuf = {} /\ InErrBuf = {}
  <2>1. \A w \in Workers : mode[w] = "stopped" /\ DrainOf(w) /\ w \notin drainDead
    BY <1>1 DEF IngestInv, DrainInv, AllStopped
  <2>2. PICK w \in Workers : TRUE
    BY IngestAssumption
  <2>3. Elements(lineCh) \subseteq late
    BY <2>1, <2>2 DEF DrainOf, Emptied
  <2>4. ASSUME ~failed PROVE InBuf = {} /\ InErrBuf = {}
    <3>1. \A v \in Workers : buf[v] = <<>> /\ errBuf[v] = <<>>
      BY <2>1, <2>4 DEF DrainOf
    <3>2. Elements(<<>>) = {}
      BY EmptySeq DEF Elements
    <3>3. QED
      BY <3>1, <3>2 DEF InBuf, InErrBuf
  <2>5. QED
    BY <2>3, <2>4
<1>2. IngestInv => Drained
  BY <1>1 DEF Drained
<1>3. QED
  BY <1>2, IngestInvariant, PTL

-----------------------------------------------------------------------------
(* The contract *)

\* As long as no acknowledgement is lost, the table holds each flushed line
\* once and no other.
RowsExact == \A l \in Lines : rows[l] = IF l \in flushed THEN 1 ELSE 0

\* A batch that is inserted gets its row, and was not there before.
LEMMA BatchStored ==
    ASSUME PlaceTypes, RowsExact, NEW b, AddRows(b), Elements(b) \cap flushed = {},
           flushed' = flushed \cup Elements(b)
    PROVE  /\ RowsExact'
           /\ rows' = [l \in Lines |-> IF l \in Elements(b) THEN rows[l] + 1 ELSE rows[l]]
<1>1. MaxRows \in Nat /\ MaxRows # 0 /\ MaxRows # 1 /\ MaxRows > 1
  BY IngestAssumption
<1>2. \A l \in Lines : l \in Elements(b) => rows[l] = 0
  BY DEF RowsExact
<1>3. Min2(0 + 1, MaxRows) = 1 /\ 0 + 1 = 1
  BY <1>1 DEF Min2
<1>4. \A l \in Lines : l \in Elements(b) => Min2(rows[l] + 1, MaxRows) = 1 /\ rows[l] + 1 = 1
  BY <1>2, <1>3
<1>5. rows' = [l \in Lines |-> IF l \in Elements(b) THEN rows[l] + 1 ELSE rows[l]]
  BY <1>4 DEF AddRows
<1>6. RowsExact'
  <2> SUFFICES ASSUME NEW l \in Lines PROVE rows'[l] = IF l \in flushed' THEN 1 ELSE 0
    BY DEF RowsExact
  <2>1. rows'[l] = IF l \in Elements(b) THEN 1 ELSE rows[l]
    BY <1>4 DEF AddRows
  <2>2. rows[l] = IF l \in flushed THEN 1 ELSE 0
    BY DEF RowsExact
  <2>3. QED
    BY <2>1, <2>2
<1>7. QED
  BY <1>5, <1>6

\* The lines the contract calls pending.
Pending == Elements(lineCh) \cup InBuf \cup InErrBuf

\* The steps of the contract, in terms of the pipeline.
LEMMA ContractSteps ==
    /\ \A l \in unread : Contract!Accept(l) \/ Contract!Refuse(l) => Contract!Next
    /\ \A S \in SUBSET Pending :
         /\ Pending' = Pending \ S /\ UNCHANGED unread
         /\ \/ rows' = [l \in Lines |-> IF l \in S THEN rows[l] + 1 ELSE rows[l]]
            \/ UNCHANGED rows
         => Contract!Next
    /\ UNCHANGED <<unread, rows>> /\ Pending' = Pending => UNCHANGED Contract!vars
BY DEF Contract!Next, Contract!Store, Contract!Lose, Contract!vars, Pending

\* Without lost acknowledgements, every step of the pipeline is a step of the
\* at-most-once channel or leaves it alone.
LEMMA StepContract ==
    ASSUME ~AckLoss, IngestInv, RowsExact, [Next]_vars
    PROVE  RowsExact' /\ [Contract!Next]_(Contract!vars)
<1>1. /\ TypeOK /\ OnePlace /\ PlaceTypes /\ Disjoint
      /\ buf \in [Workers -> Seq(Lines)] /\ errBuf \in [Workers -> Seq(Lines)]
      /\ lineCh \in Seq(Lines) /\ Distinct(lineCh)
      /\ Apart(buf) /\ Apart(errBuf)
      /\ \A v \in Workers : Distinct(buf[v])
      /\ \A v \in Workers : Distinct(errBuf[v])
      /\ Held(buf) \subseteq LogLine /\ Held(errBuf) \subseteq BadLine
  BY HeldIsBuffered DEF IngestInv, TypeOK, PlaceTypes, OnePlace, Sorted
<1>2. /\ Pending = Elements(lineCh) \cup Held(buf) \cup Held(errBuf)
      /\ Pending' = Elements(lineCh') \cup Held(buf') \cup Held(errBuf')
      /\ Held(buf) \cap Elements(lineCh) = {} /\ Held(errBuf) \cap Elements(lineCh) = {}
      /\ flushed \cap Held(buf) = {} /\ flushed \cap Held(errBuf) = {}
      /\ Held(buf) \cap Held(errBuf) = {}
      /\ \A v \in Workers : Elements(buf[v]) \subseteq Held(buf) /\ Elements(errBuf[v]) \subseteq Held(errBuf)
  BY <1>1, HeldIsBuffered, HeldFinite DEF Pending, Disjoint, LogLine, BadLine
<1>3. UNCHANGED <<rows, flushed>> => RowsExact'
  BY DEF RowsExact
<1>4. ASSUME NEW l \in Lines, TryEnqueue(l) PROVE RowsExact' /\ [Contract!Next]_(Contract!vars)
  <2>1. /\ l \in unread /\ unread' = unread \ {l} /\ UNCHANGED <<buf, errBuf, rows, flushed>>
        /\ lineCh' \in {lineCh, Append(lineCh, l)}
    BY <1>4 DEF TryEnqueue, bufferVars, insertVars
  <2>2. l \notin Elements(lineCh)
    BY <1>1, <2>1 DEF Disjoint
  <2>3. Elements(Append(lineCh, l)) = Elements(lineCh) \cup {l}
    BY <1>1, <2>2, DistinctAppend
  <2>4. Pending' = Pending \cup {l} \/ Pending' = Pending
    BY <1>2, <2>1, <2>3
  <2>5. Contract!Accept(l) \/ Contract!Refuse(l)
    BY <2>1, <2>4 DEF Contract!Accept, Contract!Refuse, Pending
  <2>6. QED
    BY <1>3, <2>1, <2>5, ContractSteps
<1>5. ASSUME NEW w \in Workers, Receive(w) PROVE RowsExact' /\ [Contract!Next]_(Contract!vars)
  <2>1. PICK l \in Lines :
          /\ l = Head(lineCh) /\ l \in Elements(lineCh)
          /\ Elements(lineCh') = Elements(lineCh) \ {l}
          /\ UNCHANGED <<unread, flushed, rows>> /\ ReceiveEffect(w, l)
    BY <1>1, <1>5, ReceiveMoves
  <2>2. l \notin Held(buf) /\ l \notin Held(errBuf)
    BY <1>2, <2>1
  <2>3. PICK S \in SUBSET Pending : Pending' = Pending \ S
    <3>1. CASE Kind(l) = "log"
      <4>1. PICK b \in Seq(Lines) :
              Takes(buf[w], l, b) /\ buf' = [buf EXCEPT ![w] = b] /\ UNCHANGED errBuf
        BY <2>1, <3>1 DEF ReceiveEffect
      <4>2. TakenInto(buf, w, l, b, buf')
        <5>1. /\ buf \in [Workers -> Seq(Lines)] /\ Apart(buf) /\ Takes(buf[w], l, b)
              /\ \A v \in Workers : Distinct(buf[v])
              /\ l \in Lines /\ l \notin Held(buf) /\ buf' = [buf EXCEPT ![w] = b]
          BY <1>1, <2>1, <2>2, <4>1
        <5>2. QED
          BY <5>1, HeldTakes, Zenon
      <4>3. PICK D : D = Elements(buf[w]) \ Elements(b)
        OBVIOUS
      <4>4. Held(buf') = (Held(buf) \ D) \cup {l} /\ D \subseteq Held(buf)
        BY <1>2, <4>2, <4>3 DEF TakenInto
      <4>5. Pending' = Pending \ D /\ D \in SUBSET Pending
        BY <1>2, <2>1, <4>1, <4>4
      <4>6. QED
        BY <4>5
    <3>2. CASE Kind(l) = "bad"
      <4>1. PICK b \in Seq(Lines) :
              Takes(errBuf[w], l, b) /\ errBuf' = [errBuf EXCEPT ![w] = b] /\ UNCHANGED buf
        BY <2>1, <3>2 DEF ReceiveEffect
      <4>2. TakenInto(errBuf, w, l, b, errBuf')
        <5>1. /\ errBuf \in [Workers -> Seq(Lines)] /\ Apart(errBuf) /\ Takes(errBuf[w], l, b)
              /\ \A v \in Workers : Distinct(errBuf[v])
              /\ l \in Lines /\ l \notin Held(errBuf) /\ errBuf' = [errBuf EXCEPT ![w] = b]
          BY <1>1, <2>1, <2>2, <4>1
        <5>2. QED
          BY <5>1, HeldTakes, Zenon
      <4>3. PICK D : D = Elements(errBuf[w]) \ Elements(b)
        OBVIOUS
      <4>4. Held(errBuf') = (Held(errBuf) \ D) \cup {l} /\ D \subseteq Held(errBuf)
        BY <1>2, <4>2, <4>3 DEF TakenInto
      <4>5. Pending' = Pending \ D /\ D \in SUBSET Pending
        BY <1>2, <2>1, <4>1, <4>4
      <4>6. QED
        BY <4>5
    <3>3. CASE Kind(l) \in {"skip", "reject", "empty"}
      <4>1. UNCHANGED <<buf, errBuf>>
        BY <2>1, <3>3 DEF ReceiveEffect
      <4>2. Pending' = Pending \ {l} /\ {l} \in SUBSET Pending
        BY <1>2, <2>1, <2>2, <4>1
      <4>3. QED
        BY <4>2
    <3>4. QED
      BY <2>1, <3>1, <3>2, <3>3 DEF ReceiveEffect
  <2>4. Contract!Next
    BY <2>1, <2>3, ContractSteps
  <2>5. QED
    BY <1>3, <2>1, <2>4
<1>6. ASSUME NEW w \in Workers, InsertLogsOK(w) PROVE RowsExact' /\ [Contract!Next]_(Contract!vars)
  <2>1. /\ buf' = [buf EXCEPT ![w] = <<>>] /\ flushed' = flushed \cup Elements(buf[w])
        /\ AddRows(buf[w]) /\ UNCHANGED <<unread, lineCh, errBuf>>
    BY <1>6 DEF InsertLogsOK, queueVars
  <2>2. Elements(buf[w]) \cap flushed = {}
    BY <1>2
  <2>3. /\ RowsExact'
        /\ rows' = [l \in Lines |-> IF l \in Elements(buf[w]) THEN rows[l] + 1 ELSE rows[l]]
    BY <1>1, <2>1, <2>2, BatchStored
  <2>4. Held(buf') = Held(buf) \ Elements(buf[w])
    BY <1>1, <2>1, HeldEmptied
  <2>5. Pending' = Pending \ Elements(buf[w]) /\ Elements(buf[w]) \in SUBSET Pending
    BY <1>2, <2>1, <2>4
  <2>6. QED
    BY <2>1, <2>3, <2>5, ContractSteps
<1>7. ASSUME NEW w \in Workers, InsertErrorsOK(w) PROVE RowsExact' /\ [Contract!Next]_(Contract!vars)
  <2>1. /\ errBuf' = [errBuf EXCEPT ![w] = <<>>] /\ flushed' = flushed \cup Elements(errBuf[w])
        /\ AddRows(errBuf[w]) /\ UNCHANGED <<unread, lineCh, buf>>
    BY <1>7 DEF InsertErrorsOK, queueVars
  <2>2. Elements(errBuf[w]) \cap flushed = {}
    BY <1>2
  <2>3. /\ RowsExact'
        /\ rows' = [l \in Lines |-> IF l \in Elements(errBuf[w]) THEN rows[l] + 1 ELSE rows[l]]
    BY <1>1, <2>1, <2>2, BatchStored
  <2>4. Held(errBuf') = Held(errBuf) \ Elements(errBuf[w])
    BY <1>1, <2>1, HeldEmptied
  <2>5. Pending' = Pending \ Elements(errBuf[w]) /\ Elements(errBuf[w]) \in SUBSET Pending
    BY <1>2, <2>1, <2>4
  <2>6. QED
    BY <2>1, <2>3, <2>5, ContractSteps
<1>8. ASSUME UNCHANGED placeVars, UNCHANGED rows PROVE RowsExact' /\ [Contract!Next]_(Contract!vars)
  <2>1. UNCHANGED <<unread, lineCh, buf, errBuf, flushed, rows>>
    BY <1>8 DEF placeVars
  <2>2. Pending' = Pending
    BY <1>2, <2>1
  <2>3. QED
    BY <1>3, <2>1, <2>2, ContractSteps
<1>9. \/ \E l \in Lines : TryEnqueue(l)
      \/ \E w \in Workers : Receive(w) \/ InsertLogsOK(w) \/ InsertErrorsOK(w)
      \/ UNCHANGED placeVars /\ UNCHANGED rows
  <2>1. ASSUME NEW w \in Workers, FlushErrors(w) \/ TickerFlush(w) \/ DrainProbeFlush(w) \/ InsertFails(w)
        PROVE  UNCHANGED rows
    BY <2>1 DEF FlushErrors, TickerFlush, DrainProbeFlush, InsertFails
  <2>2. ASSUME NEW w \in Workers,
               SeesCircuitClosed(w) \/ DrainProbe(w) \/ DrainLastFlush(w) \/ DrainGivesUp(w) \/ StartDrain(w)
        PROVE  UNCHANGED rows
    BY <2>2 DEF SeesCircuitClosed, DrainProbe, DrainLastFlush, DrainGivesUp, StartDrain, insertVars
  <2>3. ASSUME (\E w \in Workers : DrainExpires(w)) \/ CooldownEnds \/ Shutdown \/ Terminated \/ UNCHANGED vars
        PROVE  UNCHANGED rows
    BY <2>3 DEF DrainExpires, CooldownEnds, Shutdown, Terminated, vars, systemVars, insertVars
  <2>4. QED
    BY <2>1, <2>2, <2>3, MovesOrKeeps DEF Next, Worker, Step, InsertOK
<1>10. QED
  BY <1>4, <1>5, <1>6, <1>7, <1>8, <1>9

\* The pipeline implements the at-most-once channel of Delivery when ClickHouse
\* applies an insert only if it also acknowledges it: no retry, eviction or
\* drain stores a line twice or brings a lost one back.
THEOREM ContractImplemented == ~AckLoss => (Spec => ImplementsContract)
<1> SUFFICES ASSUME ~AckLoss PROVE Spec => ImplementsContract
  OBVIOUS
<1>1. Init => Contract!Init /\ RowsExact
  <2>1. Elements(<<>>) = {}
    BY EmptySeq DEF Elements
  <2>2. QED
    BY <2>1 DEF Init, Contract!Init, RowsExact, InBuf, InErrBuf
<1>2. IngestInv /\ RowsExact /\ [Next]_vars => RowsExact' /\ [Contract!Next]_(Contract!vars)
  BY StepContract
<1>3. QED
  BY <1>1, <1>2, IngestInvariant, PTL DEF Spec, ImplementsContract, Contract!Spec

\* Under the same assumption no line has two rows.
THEOREM StoredAtMostOnce == ~AckLoss => (Spec => []AtMostOnce)
<1> SUFFICES ASSUME ~AckLoss PROVE Spec => []AtMostOnce
  OBVIOUS
<1>1. Init => RowsExact
  BY DEF Init, RowsExact
<1>2. IngestInv /\ RowsExact /\ [Next]_vars => RowsExact'
  BY StepContract
<1>3. RowsExact => AtMostOnce
  BY DEF RowsExact, AtMostOnce
<1>4. QED
  BY <1>1, <1>2, <1>3, IngestInvariant, PTL DEF Spec
=============================================================================
