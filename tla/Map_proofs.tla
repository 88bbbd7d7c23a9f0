------------------------------ MODULE Map_proofs ------------------------------
(***************************************************************************)
(* Map requests, for any length of the hour and the day, any retention,    *)
(* any rows, any index and any hints of the logs: the period and the table *)
(* that answers it, the lines and points of a map and what they count, the *)
(* nodes of addresses, the addresses without a place, the filter by        *)
(* reputation.  Induction over rows and over finite sets is by the set of  *)
(* the numbers, or of the sets, of which something holds.                  *)
(***************************************************************************)
EXTENDS Requests, Functions, TLAPS, FiniteSetTheorems, WellFoundedInduction

-----------------------------------------------------------------------------
(* Numbers *)

\* A set of naturals that has an element has a least one.
LEMMA LeastNumber ==
    ASSUME NEW T \in SUBSET Nat, NEW n \in T
    PROVE  \E m \in T : \A k \in T : m <= k
<1> DEFINE U == {1 .. k : k \in {t \in T : t <= n}}
<1> DEFINE R == StrictSubsetOrdering(1 .. n)
<1>1. IsWellFoundedOn(R, SUBSET (1 .. n))
  <2>1. IsFiniteSet(1 .. n)
    BY FS_Interval
  <2> QED
    BY <2>1, FS_StrictSubsetOrderingWellFounded, FS_FiniteSubsetsOfFinite, Zenon
<1>2. U \subseteq SUBSET (1 .. n) /\ U # {}
  OBVIOUS
<1>3. PICK x \in U : \A y \in U : <<y, x>> \notin R
  <2> HIDE DEF U, R
  <2> QED
    BY <1>1, <1>2, WFMin, Zenon
<1>4. PICK m \in T : m <= n /\ x = 1 .. m
  BY <1>3
<1>5. ASSUME NEW k \in T, k < m
      PROVE  FALSE
  <2>1. 1 .. k \in U
    BY <1>4, <1>5
  <2>2. 1 .. k \subseteq 1 .. m /\ 1 .. k # 1 .. m
    <3>1. m \in 1 .. m /\ m \notin 1 .. k
      BY <1>5
    <3> QED
      BY <1>5, <3>1
  <2>3. 1 .. k \in SUBSET (1 .. n) /\ 1 .. m \in SUBSET (1 .. n)
    BY <1>4, <1>5
  <2>4. <<1 .. k, 1 .. m>> \in R
    BY <2>2, <2>3 DEF StrictSubsetOrdering
  <2> QED
    BY <2>1, <2>4, <1>3, <1>4
<1> QED
  BY <1>5

\* What holds of zero and of the next of every number it holds of, holds of all.
LEMMA NatInd ==
    ASSUME NEW S, 0 \in S, \A n \in Nat : n \in S => n + 1 \in S
    PROVE  Nat \subseteq S
<1>1. SUFFICES ASSUME NEW n \in Nat, n \notin S PROVE FALSE
  OBVIOUS
<1> DEFINE T == {k \in Nat : k \notin S}
<1>2. PICK m \in T : \A k \in T : m <= k
  <2>1. T \in SUBSET Nat /\ n \in T
    BY <1>1
  <2> HIDE DEF T
  <2> QED BY <2>1, LeastNumber
<1>3. m # 0 /\ m - 1 \in Nat
  OBVIOUS
<1>4. m - 1 \in S
  BY <1>2, <1>3
<1> QED
  BY <1>3, <1>4

-----------------------------------------------------------------------------
(* Finite sets *)

\* What holds of no elements and, with them, of one more, holds of all subsets.
LEMMA SetInd ==
    ASSUME NEW S, IsFiniteSet(S), NEW T, {} \in T,
           \A s \in SUBSET S, x \in S : s \in T /\ x \notin s => s \cup {x} \in T
    PROVE  SUBSET S \subseteq T
<1> DEFINE N == {n \in Nat : \A s \in SUBSET S : Cardinality(s) = n => s \in T}
<1>1. \A s \in SUBSET S : IsFiniteSet(s) /\ Cardinality(s) \in Nat
  BY FS_Subset, FS_CardinalityType
<1>2. 0 \in N
  BY <1>1, FS_EmptySet
<1>3. ASSUME NEW n \in Nat, n \in N
      PROVE  n + 1 \in N
  <2> SUFFICES ASSUME NEW s \in SUBSET S, Cardinality(s) = n + 1
               PROVE  s \in T
    OBVIOUS
  <2>1. PICK x \in s : TRUE
    BY <1>1, FS_EmptySet
  <2>2. Cardinality(s \ {x}) = n /\ s \ {x} \in SUBSET S
    <3>1. IsFiniteSet(s)
      BY <1>1
    <3>2. Cardinality(s \ {x}) = Cardinality(s) - 1
      BY <2>1, <3>1, FS_RemoveElement
    <3> QED
      BY <3>2
  <2>3. s \ {x} \in T
    BY <1>3, <2>2
  <2>4. s = (s \ {x}) \cup {x}
    BY <2>1
  <2> QED
    BY <2>1, <2>2, <2>3, <2>4
<1>4. Nat \subseteq N
  <2> HIDE DEF N
  <2> QED
    BY <1>2, <1>3, NatInd
<1> QED
  BY <1>1, <1>4

-----------------------------------------------------------------------------
(* Sums *)

Numbers(f, S) == IsFiniteSet(S) /\ \A x \in S : f[x] \in Int

\* h is the recursion that SumFunctionOnSet(f, S) ends.
Sums(h, f, S) ==
    h = [s \in SUBSET S |-> IF s = {} THEN 0 ELSE f[CHOOSE x \in s : TRUE] + h[s \ {CHOOSE x \in s : TRUE}]]

LEMMA SumsExist ==
    ASSUME NEW f, NEW S, Numbers(f, S)
    PROVE  \E h \in [SUBSET S -> Int] : Sums(h, f, S)
<1> DEFINE c(s) == CHOOSE x \in s : TRUE
           Small(n) == {s \in SUBSET S : Cardinality(s) <= n}
           Sum(h, s) == IF s = {} THEN 0 ELSE f[c(s)] + h[s \ {c(s)}]
           N == {n \in Nat : \E h \in [Small(n) -> Int] : \A s \in Small(n) : h[s] = Sum(h, s)}
<1>1. \A s \in SUBSET S : IsFiniteSet(s) /\ Cardinality(s) \in Nat /\ (Cardinality(s) = 0 <=> s = {})
  BY FS_Subset, FS_CardinalityType, FS_EmptySet DEF Numbers
<1>2. ASSUME NEW s \in SUBSET S, s # {}
      PROVE  c(s) \in s /\ s \ {c(s)} \in SUBSET S /\ Cardinality(s \ {c(s)}) = Cardinality(s) - 1
             /\ f[c(s)] \in Int
  <2>1. c(s) \in s
    BY <1>2
  <2> HIDE DEF c
  <2>2. f[c(s)] \in Int
    BY <2>1 DEF Numbers
  <2> QED
    BY <1>1, <2>1, <2>2, FS_RemoveElement
<1>3. 0 \in N
  <2> DEFINE h == [s \in Small(0) |-> 0]
  <2>1. \A s \in Small(0) : s = {}
    BY <1>1
  <2>2. h \in [Small(0) -> Int] /\ \A s \in Small(0) : h[s] = Sum(h, s)
    BY <2>1
  <2> QED
    BY <2>2
<1>4. ASSUME NEW n \in Nat, n \in N
      PROVE  n + 1 \in N
  <2>1. PICK h \in [Small(n) -> Int] : \A s \in Small(n) : h[s] = Sum(h, s)
    BY <1>4
  <2> DEFINE k == [s \in Small(n + 1) |-> Sum(h, s)]
  <2>2. ASSUME NEW s \in Small(n + 1), s # {}
        PROVE  s \ {c(s)} \in Small(n) /\ s \ {c(s)} \in Small(n + 1) /\ f[c(s)] \in Int
    <3> HIDE DEF c
    <3> QED
      BY <1>1, <1>2, <2>2
  <2>3. k \in [Small(n + 1) -> Int]
    <3> SUFFICES ASSUME NEW s \in Small(n + 1), s # {}
                 PROVE  f[c(s)] + h[s \ {c(s)}] \in Int
      OBVIOUS
    <3> HIDE DEF c, Small
    <3> QED
      BY <2>2
  <2>4. ASSUME NEW s \in Small(n)
        PROVE  s \in Small(n + 1) /\ k[s] = h[s]
    <3>1. s \in Small(n + 1)
      BY <1>1
    <3> QED
      BY <2>1, <3>1
  <2>5. ASSUME NEW s \in Small(n + 1)
        PROVE  k[s] = Sum(k, s)
    <3>1. CASE s = {}
      BY <3>1
    <3>2. CASE s # {}
      <4>1. k[s \ {c(s)}] = h[s \ {c(s)}]
        <5> HIDE DEF c, Small, k
        <5> QED
          BY <2>2, <2>4, <3>2
      <4> QED
        BY <3>2, <4>1
    <3> QED
      BY <3>1, <3>2
  <2> HIDE DEF k, Small, Sum
  <2>6. \E g \in [Small(n + 1) -> Int] : \A s \in Small(n + 1) : g[s] = Sum(g, s)
    BY <2>3, <2>5
  <2> QED
    BY <2>6
<1>5. Cardinality(S) \in N
  <2>1. Nat \subseteq N
    <3> HIDE DEF N
    <3> QED
      BY <1>3, <1>4, NatInd
  <2> QED
    BY <1>1, <2>1
<1>6. Small(Cardinality(S)) = SUBSET S
  <2>1. \A s \in SUBSET S : Cardinality(s) <= Cardinality(S)
    BY FS_Subset DEF Numbers
  <2> QED
    BY <2>1
<1>7. PICK h \in [SUBSET S -> Int] : \A s \in SUBSET S : h[s] = Sum(h, s)
  <2> HIDE DEF Small, Sum
  <2> QED
    BY <1>5, <1>6
<1>8. Sums(h, f, S)
  BY <1>7 DEF Sums
<1> QED
  BY <1>8

\* Two such recursions agree where both say something.
LEMMA SumsAgree ==
    ASSUME NEW f, NEW S, Numbers(f, S), NEW h, Sums(h, f, S), NEW R \in SUBSET S, NEW k, Sums(k, f, R)
    PROVE  \A s \in SUBSET R : h[s] = k[s]
<1> DEFINE c(s) == CHOOSE x \in s : TRUE
           N == {n \in Nat : \A s \in SUBSET R : Cardinality(s) = n => h[s] = k[s]}
<1>1. \A s \in SUBSET R : s \in SUBSET S /\ IsFiniteSet(s) /\ Cardinality(s) \in Nat
                          /\ (Cardinality(s) = 0 <=> s = {})
  BY FS_Subset, FS_CardinalityType, FS_EmptySet DEF Numbers
<1>2. ASSUME NEW s \in SUBSET R
      PROVE  /\ h[s] = IF s = {} THEN 0 ELSE f[c(s)] + h[s \ {c(s)}]
             /\ k[s] = IF s = {} THEN 0 ELSE f[c(s)] + k[s \ {c(s)}]
  <2>1. s \in SUBSET S
    OBVIOUS
  <2> QED
    BY <2>1 DEF Sums
<1>3. 0 \in N
  <2> HIDE DEF c
  <2> QED
    BY <1>1, <1>2
<1>4. ASSUME NEW n \in Nat, n \in N
      PROVE  n + 1 \in N
  <2> SUFFICES ASSUME NEW s \in SUBSET R, Cardinality(s) = n + 1
               PROVE  h[s] = k[s]
    OBVIOUS
  <2>1. s # {}
    BY <1>1
  <2>2. c(s) \in s
    BY <2>1
  <2> HIDE DEF c
  <2>3. s \ {c(s)} \in SUBSET R /\ Cardinality(s \ {c(s)}) = n
    BY <1>1, <2>2, FS_RemoveElement
  <2>4. h[s \ {c(s)}] = k[s \ {c(s)}]
    BY <1>4, <2>3
  <2> QED
    BY <1>2, <2>1, <2>4
<1>5. Nat \subseteq N
  <2> HIDE DEF N
  <2> QED
    BY <1>3, <1>4, NatInd
<1> QED
  BY <1>1, <1>5

\* The sum is what any such recursion ends in.
LEMMA SumIs ==
    ASSUME NEW f, NEW S, Numbers(f, S), NEW h, Sums(h, f, S), NEW R \in SUBSET S
    PROVE  SumFunctionOnSet(f, R) = h[R]
<1> DEFINE k == CHOOSE g : Sums(g, f, R)
<1>1. Numbers(f, R)
  BY FS_Subset DEF Numbers
<1>2. Sums(k, f, R)
  <2>1. \E g : Sums(g, f, R)
    BY <1>1, SumsExist
  <2> QED
    BY <2>1, Zenon
<1>3. SumFunctionOnSet(f, R) = k[R]
  BY Zenon DEF SumFunctionOnSet, FoldFunctionOnSet, MapThenFoldSet, Sums
<1> HIDE DEF k
<1> QED
  BY <1>2, <1>3, SumsAgree

\* The sum of one element more.
LEMMA SumOfNone ==
    ASSUME NEW f
    PROVE  SumFunctionOnSet(f, {}) = 0
<1>1. Numbers(f, {})
  BY FS_EmptySet DEF Numbers
<1>2. PICK h \in [SUBSET {} -> Int] : Sums(h, f, {})
  BY <1>1, SumsExist
<1>3. h[{}] = 0
  BY <1>2 DEF Sums
<1> QED
  BY <1>1, <1>2, <1>3, SumIs

LEMMA SumOfOneMore ==
    ASSUME NEW f, NEW S, Numbers(f, S), NEW x \in S
    PROVE  /\ SumFunctionOnSet(f, S) \in Int
           /\ SumFunctionOnSet(f, S) = f[x] + SumFunctionOnSet(f, S \ {x})
<1> DEFINE c(s) == CHOOSE y \in s : TRUE
<1>1. PICK h \in [SUBSET S -> Int] : Sums(h, f, S)
  BY SumsExist
<1> DEFINE AnyTerm(s) == \A y \in s : h[s] = f[y] + h[s \ {y}]
           M == {n \in Nat : \A s \in SUBSET S : Cardinality(s) = n => AnyTerm(s)}
<1>2. \A s \in SUBSET S : IsFiniteSet(s) /\ Cardinality(s) \in Nat /\ (Cardinality(s) = 0 <=> s = {})
  BY FS_Subset, FS_CardinalityType, FS_EmptySet DEF Numbers
<1>3. ASSUME NEW s \in SUBSET S, s # {}
      PROVE  c(s) \in s /\ h[s] = f[c(s)] + h[s \ {c(s)}]
  BY <1>1, <1>3 DEF Sums
<1>4. \A s \in SUBSET S : h[s] \in Int
  BY <1>1
<1>5. \A y \in S : f[y] \in Int
  BY DEF Numbers
<1> HIDE DEF c
<1>6. 0 \in M
  BY <1>2
<1>7. ASSUME NEW n \in Nat, n \in M
      PROVE  n + 1 \in M
  <2> SUFFICES ASSUME NEW s \in SUBSET S, Cardinality(s) = n + 1, NEW y \in s
               PROVE  h[s] = f[y] + h[s \ {y}]
    OBVIOUS
  <2>1. c(s) \in s /\ h[s] = f[c(s)] + h[s \ {c(s)}]
    BY <1>3
  <2>2. CASE y = c(s)
    BY <2>1, <2>2
  <2>3. CASE y # c(s)
    <3>1. \A z \in s : Cardinality(s \ {z}) = n /\ s \ {z} \in SUBSET S
      <4> SUFFICES ASSUME NEW z \in s
                   PROVE  Cardinality(s \ {z}) = n
        OBVIOUS
      <4>1. IsFiniteSet(s)
        BY <1>2
      <4>2. Cardinality(s \ {z}) = Cardinality(s) - 1
        BY <4>1, FS_RemoveElement
      <4> QED
        BY <4>2
    <3>2. AnyTerm(s \ {y}) /\ AnyTerm(s \ {c(s)})
      <4> HIDE DEF AnyTerm
      <4> QED
        BY <1>7, <2>1, <3>1
    <3>3. h[s \ {c(s)}] = f[y] + h[(s \ {c(s)}) \ {y}]
      BY <2>3, <3>2
    <3>4. h[s \ {y}] = f[c(s)] + h[(s \ {y}) \ {c(s)}]
      BY <2>1, <2>3, <3>2
    <3>5. (s \ {c(s)}) \ {y} = (s \ {y}) \ {c(s)}
      OBVIOUS
    <3>6. PICK a \in Int, b \in Int, d \in Int : a = f[y] /\ b = f[c(s)] /\ d = h[(s \ {y}) \ {c(s)}]
      BY <1>4, <1>5, <2>1
    <3>7. h[s \ {c(s)}] = a + d /\ h[s \ {y}] = b + d /\ h[s] = b + h[s \ {c(s)}]
      BY <2>1, <3>3, <3>4, <3>5, <3>6
    <3> QED
      BY <3>6, <3>7
  <2> QED
    BY <2>2, <2>3
<1>8. AnyTerm(S)
  <2>1. Nat \subseteq M
    <3> HIDE DEF M
    <3> QED
      BY <1>6, <1>7, NatInd
  <2> HIDE DEF AnyTerm
  <2> QED
    BY <1>2, <2>1
<1>9. S \in SUBSET S /\ S \ {x} \in SUBSET S
  OBVIOUS
<1>10. SumFunctionOnSet(f, S) = h[S] /\ SumFunctionOnSet(f, S \ {x}) = h[S \ {x}]
  BY <1>1, <1>9, SumIs
<1> QED
  BY <1>4, <1>8, <1>9, <1>10

LEMMA SumTyped ==
    ASSUME NEW f, NEW S, Numbers(f, S)
    PROVE  SumFunctionOnSet(f, S) \in Int
<1>1. CASE S = {}
  BY <1>1, SumOfNone
<1>2. CASE S # {}
  BY <1>2, SumOfOneMore
<1> QED
  BY <1>1, <1>2

LEMMA SumWith ==
    ASSUME NEW f, NEW S, NEW x, x \notin S, Numbers(f, S), f[x] \in Int
    PROVE  SumFunctionOnSet(f, S \cup {x}) = f[x] + SumFunctionOnSet(f, S)
<1>1. Numbers(f, S \cup {x})
  BY FS_AddElement DEF Numbers
<1>2. (S \cup {x}) \ {x} = S
  OBVIOUS
<1> QED
  BY <1>1, <1>2, SumOfOneMore

\* Smaller values have a smaller sum.
LEMMA SumGrows ==
    ASSUME NEW f, NEW g, NEW S, Numbers(f, S), Numbers(g, S), \A x \in S : f[x] <= g[x]
    PROVE  SumFunctionOnSet(f, S) <= SumFunctionOnSet(g, S)
<1> DEFINE T == {s \in SUBSET S : SumFunctionOnSet(f, s) <= SumFunctionOnSet(g, s)}
<1>1. {} \in T
  BY SumOfNone
<1>2. ASSUME NEW s \in SUBSET S, NEW x \in S, s \in T, x \notin s
      PROVE  s \cup {x} \in T
  <2>1. Numbers(f, s) /\ Numbers(g, s)
    BY FS_Subset DEF Numbers
  <2>2. f[x] \in Int /\ g[x] \in Int
    BY DEF Numbers
  <2>3. SumFunctionOnSet(f, s) \in Int /\ SumFunctionOnSet(g, s) \in Int
    BY <2>1, SumTyped
  <2>4. SumFunctionOnSet(f, s \cup {x}) = f[x] + SumFunctionOnSet(f, s)
    BY <1>2, <2>1, <2>2, SumWith
  <2>5. SumFunctionOnSet(g, s \cup {x}) = g[x] + SumFunctionOnSet(g, s)
    BY <1>2, <2>1, <2>2, SumWith
  <2>6. SumFunctionOnSet(f, s) <= SumFunctionOnSet(g, s) /\ f[x] <= g[x]
    BY <1>2
  <2> QED
    BY <2>2, <2>3, <2>4, <2>5, <2>6
<1>3. SUBSET S \subseteq T
  <2>1. IsFiniteSet(S)
    BY DEF Numbers
  <2> HIDE DEF T
  <2> QED
    BY <1>1, <1>2, <2>1, SetInd
<1> QED
  BY <1>3

\* Equal values have the same sum.
LEMMA SumSame ==
    ASSUME NEW f, NEW g, NEW S, Numbers(f, S), \A x \in S : f[x] = g[x]
    PROVE  SumFunctionOnSet(f, S) = SumFunctionOnSet(g, S)
<1>1. Numbers(g, S) /\ \A x \in S : f[x] <= g[x] /\ g[x] <= f[x]
  BY DEF Numbers
<1>2. SumFunctionOnSet(f, S) <= SumFunctionOnSet(g, S) /\ SumFunctionOnSet(g, S) <= SumFunctionOnSet(f, S)
  BY <1>1, SumGrows
<1>3. SumFunctionOnSet(f, S) \in Int /\ SumFunctionOnSet(g, S) \in Int
  BY <1>1, SumTyped
<1> QED
  BY <1>2, <1>3

\* The sum of two sets apart.
LEMMA SumApart ==
    ASSUME NEW f, NEW S, NEW R, S \cap R = {}, Numbers(f, S), Numbers(f, R)
    PROVE  SumFunctionOnSet(f, S \cup R) = SumFunctionOnSet(f, S) + SumFunctionOnSet(f, R)
<1> DEFINE T == {s \in SUBSET R : SumFunctionOnSet(f, S \cup s) = SumFunctionOnSet(f, S) + SumFunctionOnSet(f, s)}
<1>1. SumFunctionOnSet(f, S) \in Int
  BY SumTyped
<1>2. {} \in T
  BY <1>1, SumOfNone
<1>3. ASSUME NEW s \in SUBSET R, NEW x \in R, s \in T, x \notin s
      PROVE  s \cup {x} \in T
  <2>1. Numbers(f, s) /\ Numbers(f, S \cup s) /\ f[x] \in Int
    BY FS_Subset, FS_Union DEF Numbers
  <2>2. SumFunctionOnSet(f, s) \in Int
    BY <2>1, SumTyped
  <2>3. SumFunctionOnSet(f, s \cup {x}) = f[x] + SumFunctionOnSet(f, s)
    BY <1>3, <2>1, SumWith
  <2>4. x \notin S \cup s /\ S \cup (s \cup {x}) = (S \cup s) \cup {x}
    BY <1>3
  <2>5. SumFunctionOnSet(f, S \cup (s \cup {x})) = f[x] + SumFunctionOnSet(f, S \cup s)
    BY <2>1, <2>4, SumWith
  <2>6. SumFunctionOnSet(f, S \cup s) = SumFunctionOnSet(f, S) + SumFunctionOnSet(f, s)
    BY <1>3
  <2> QED
    BY <1>1, <2>1, <2>2, <2>3, <2>5, <2>6
<1>4. SUBSET R \subseteq T
  <2>1. IsFiniteSet(R)
    BY DEF Numbers
  <2> HIDE DEF T
  <2>2. \A s \in SUBSET R, x \in R : s \in T /\ x \notin s => s \cup {x} \in T
    BY <1>3
  <2>3. PICK Q, U : Q = R /\ U = T
    OBVIOUS
  <2>4. IsFiniteSet(Q) /\ {} \in U /\ \A s \in SUBSET Q, x \in Q : s \in U /\ x \notin s => s \cup {x} \in U
    BY <1>2, <2>1, <2>2, <2>3
  <2>5. SUBSET Q \subseteq U
    BY <2>4, SetInd
  <2> QED
    BY <2>3, <2>5
<1> QED
  BY <1>4

\* Natural numbers have a natural sum, and fewer of them a smaller one.
LEMMA SumOfPart ==
    ASSUME NEW f, NEW S, IsFiniteSet(S), \A x \in S : f[x] \in Nat, NEW R \in SUBSET S
    PROVE  SumFunctionOnSet(f, R) \in Nat /\ SumFunctionOnSet(f, R) <= SumFunctionOnSet(f, S)
<1>1. \A P \in SUBSET S : SumFunctionOnSet(f, P) \in Nat
  <2> DEFINE T == {s \in SUBSET S : SumFunctionOnSet(f, s) \in Nat}
  <2>1. {} \in T
    BY SumOfNone
  <2>2. ASSUME NEW s \in SUBSET S, NEW x \in S, s \in T, x \notin s
        PROVE  s \cup {x} \in T
    <3>1. Numbers(f, s) /\ f[x] \in Nat
      BY FS_Subset DEF Numbers
    <3>2. SumFunctionOnSet(f, s \cup {x}) = f[x] + SumFunctionOnSet(f, s)
      BY <2>2, <3>1, SumWith
    <3> QED
      BY <2>2, <3>1, <3>2
  <2>3. SUBSET S \subseteq T
    <3> HIDE DEF T
    <3> QED
      BY <2>1, <2>2, SetInd
  <2> QED
    BY <2>3
<1>2. Numbers(f, R) /\ Numbers(f, S \ R)
  BY FS_Subset DEF Numbers
<1>3. R \cap (S \ R) = {} /\ R \cup (S \ R) = S
  OBVIOUS
<1>4. SumFunctionOnSet(f, S) = SumFunctionOnSet(f, R) + SumFunctionOnSet(f, S \ R)
  BY <1>2, <1>3, SumApart
<1>5. SumFunctionOnSet(f, R) \in Nat /\ SumFunctionOnSet(f, S \ R) \in Nat
  BY <1>1
<1> QED
  BY <1>4, <1>5

\* W is parted into the sets A[k], and g[k] is the sum of A[k].
Parted(W, K, A) ==
    IsFiniteSet(K) /\ W = UNION {A[k] : k \in K} /\ \A j, k \in K : j # k => A[j] \cap A[k] = {}
Summed(f, g, K, A) == \A k \in K : Numbers(f, A[k]) /\ g[k] = SumFunctionOnSet(f, A[k])

\* The sum of sets apart is the sum of their sums.
LEMMA SumOfUnion ==
    ASSUME NEW W, NEW K, NEW A, Parted(W, K, A), NEW f, NEW g, Summed(f, g, K, A)
    PROVE  /\ Numbers(f, W) /\ Numbers(g, K)
           /\ SumFunctionOnSet(f, W) = SumFunctionOnSet(g, K)
<1>1. /\ IsFiniteSet(K) /\ \A j, k \in K : j # k => A[j] \cap A[k] = {}
      /\ \A k \in K : Numbers(f, A[k]) /\ g[k] = SumFunctionOnSet(f, A[k])
  BY DEF Parted, Summed
<1> DEFINE U(s) == UNION {A[k] : k \in s}
           T == {s \in SUBSET K : Numbers(f, U(s)) /\ SumFunctionOnSet(f, U(s)) = SumFunctionOnSet(g, s)}
<1>2. Numbers(g, K)
  BY <1>1, SumTyped DEF Numbers
<1>3. {} \in T
  <2>1. U({}) = {}
    OBVIOUS
  <2> QED
    BY <2>1, SumOfNone, FS_EmptySet DEF Numbers
<1>4. ASSUME NEW s \in SUBSET K, NEW x \in K, s \in T, x \notin s
      PROVE  s \cup {x} \in T
  <2>1. U(s \cup {x}) = U(s) \cup A[x] /\ U(s) \cap A[x] = {}
    BY <1>4, <1>1
  <2>2. Numbers(f, U(s)) /\ Numbers(f, A[x]) /\ Numbers(g, s) /\ g[x] \in Int
    BY <1>2, <1>4, <1>1, FS_Subset DEF Numbers
  <2>3. SumFunctionOnSet(f, U(s)) = SumFunctionOnSet(g, s)
    BY <1>4
  <2> HIDE DEF U
  <2>4. PICK B, C : B = U(s) /\ C = A[x]
    OBVIOUS
  <2>5. Numbers(f, B \cup C)
    BY <2>2, <2>4, FS_Union DEF Numbers
  <2>6. SumFunctionOnSet(f, B \cup C) = SumFunctionOnSet(f, B) + SumFunctionOnSet(f, C)
    BY <2>1, <2>2, <2>4, SumApart
  <2>7. SumFunctionOnSet(g, s \cup {x}) = g[x] + SumFunctionOnSet(g, s)
    BY <1>4, <2>2, SumWith
  <2>8. g[x] = SumFunctionOnSet(f, C) /\ SumFunctionOnSet(g, s) \in Int
    BY <1>1, <2>2, <2>4, SumTyped
  <2>9. SumFunctionOnSet(f, B \cup C) = SumFunctionOnSet(g, s \cup {x})
    BY <2>2, <2>3, <2>4, <2>6, <2>7, <2>8
  <2>10. Numbers(f, U(s \cup {x})) /\ SumFunctionOnSet(f, U(s \cup {x})) = SumFunctionOnSet(g, s \cup {x})
    BY <2>1, <2>4, <2>5, <2>9
  <2> QED
    BY <2>10
<1>5. SUBSET K \subseteq T
  <2> HIDE DEF T
  <2>1. PICK Q, V : Q = K /\ V = T
    OBVIOUS
  <2>2. IsFiniteSet(Q) /\ {} \in V /\ \A s \in SUBSET Q, x \in Q : s \in V /\ x \notin s => s \cup {x} \in V
    BY <1>3, <1>4, <1>1, <2>1
  <2>3. SUBSET Q \subseteq V
    BY <2>2, SetInd
  <2> QED
    BY <2>1, <2>3
<1>6. K \in T
  BY <1>5
<1>7. W = U(K)
  BY DEF Parted
<1> QED
  BY <1>2, <1>6, <1>7

-----------------------------------------------------------------------------
(* Requests: periods *)

\* Whatever numbers a request gives, its period is one of these.
LEMMA ParsedPeriods ==
    ASSUME NEW n \in Int, NEW a \in Int, NEW b \in Int
    PROVE  {parseMinutes(n), parseHours(n), parseDays(n), parseAbsolute(a, b)} \subseteq TimeRanges
<1>1. PICK d \in Int : d = MaxDays * DayTicks /\ d >= 0
  BY ClockAssumption DEF DayTicks
<1>2. PICK h \in Int : h = MaxDays * Day /\ h >= 0
  BY ClockAssumption
<1>3. PICK q \in Nat : q = Hour \div 4
  BY ClockAssumption
<1>4. \A m \in Nat, x \in Int : Clamp(x, 1, m) \in Nat
  BY DEF Clamp
<1>5. parseMinutes(n) \in TimeRanges
  BY <1>1, <1>3, <1>4 DEF parseMinutes, TimeRanges
<1>6. parseHours(n) \in TimeRanges
  BY <1>2, <1>4 DEF parseHours, TimeRanges
<1>7. parseDays(n) \in TimeRanges
  BY <1>4, ClockAssumption DEF parseDays, TimeRanges
<1>8. parseAbsolute(a, b) \in TimeRanges
  BY <1>1 DEF parseAbsolute, TimeRanges
<1>9. QED
  BY <1>5, <1>6, <1>7, <1>8

\* The bucket of a tick begins less than one bucket before it.
LEMMA BucketAround ==
    ASSUME NEW t \in Nat, NEW unit \in Nat \ {0}
    PROVE  /\ StartOf(t, unit) \in Int
           /\ StartOf(t, unit) <= t
           /\ t < StartOf(t, unit) + unit
<1>1. /\ t \div unit \in Int
      /\ t % unit \in 0 .. unit - 1
      /\ t = unit * (t \div unit) + (t % unit)
  OBVIOUS
<1>2. PICK q \in Int : q = t \div unit
  BY <1>1
<1>3. PICK m \in 0 .. unit - 1 : m = t % unit
  BY <1>1
<1>4. q * unit \in Int /\ q * unit = unit * q
  OBVIOUS
<1>5. t = q * unit + m
  BY <1>1, <1>2, <1>3, <1>4
<1>6. StartOf(t, unit) = q * unit
  BY <1>2 DEF StartOf
<1>7. QED
  BY <1>3, <1>4, <1>5, <1>6

\* A multiple of a unit is the number of its units times the unit.
LEMMA WholeUnits ==
    ASSUME NEW n \in Nat, NEW unit \in Nat \ {0}, n % unit = 0
    PROVE  n \div unit \in Nat /\ (n \div unit) * unit = n
<1>1. n \div unit \in Nat /\ n = unit * (n \div unit) + (n % unit)
  OBVIOUS
<1>2. PICK q \in Nat : q = n \div unit
  BY <1>1
<1>3. q * unit \in Int /\ q * unit = unit * q
  OBVIOUS
<1>4. QED
  BY <1>1, <1>2, <1>3

\* An hour and a day have ticks, and a number of hours that makes whole days has
\* the ticks of those days.
LEMMA DayTicksPositive == DayTicks \in Nat \ {0} /\ Hour \in Nat \ {0} /\ Day \in Nat \ {0}
BY ClockAssumption DEF DayTicks

\* A period has an oldest and a newest tick, and asks for the ticks in between.
LEMMA PeriodEnds ==
    ASSUME NEW tr \in TimeRanges
    PROVE  /\ Oldest(tr) \in Int /\ Newest(tr) \in Int
           /\ Requested(tr) = {t \in Ticks : t >= Oldest(tr) /\ t < Newest(tr)}
<1> USE ClockAssumption, DayTicksPositive
<1>1. CASE tr.mode = "absolute"
  <2>1. tr.from \in Int /\ tr.to \in Int
    BY <1>1 DEF TimeRanges
  <2>2. Oldest(tr) = tr.from /\ Newest(tr) = tr.to
    BY <1>1 DEF Oldest, Newest
  <2>3. Requested(tr) = {t \in Ticks : t >= tr.from /\ t < tr.to}
    BY <1>1 DEF Requested
  <2>4. QED
    BY <2>1, <2>2, <2>3
<1>2. CASE tr.mode # "absolute"
  <2>1. tr.amount \in Nat /\ tr.mode \in {"minutes", "hours", "days"}
    BY <1>2 DEF TimeRanges
  <2>2. PICK o : o = Oldest(tr)
    OBVIOUS
  <2>3. o \in Int
    <3>1. tr.amount * Hour \in Int /\ tr.amount * DayTicks \in Int
      BY <2>1
    <3>2. QED
      BY <2>1, <2>2, <3>1 DEF Oldest
  <2>4. Newest(tr) = Now + 1
    BY <1>2 DEF Newest
  <2>5. Requested(tr) = {t \in Ticks : t >= o}
    BY <2>1, <2>2 DEF Requested, Oldest
  <2>6. \A t \in Ticks : t \in Int /\ t < Now + 1
    BY DEF Ticks
  <2>7. QED
    BY <2>2, <2>3, <2>4, <2>5, <2>6
<1>3. QED
  BY <1>1, <1>2

\* The periods that a and b stand for are the same.
SamePeriod(a, b) == Oldest(a) = Oldest(b) /\ Newest(a) = Newest(b)

\* promoteHoursToDays and promoteMinutesToHours change the unit and not the period.
LEMMA PromotionKeepsPeriod ==
    ASSUME NEW tr \in TimeRanges, NEW prefer
    PROVE  /\ promoteHoursToDays(tr, prefer) \in TimeRanges
           /\ SamePeriod(promoteHoursToDays(tr, prefer), tr)
           /\ promoteMinutesToHours(tr, prefer) \in TimeRanges
           /\ SamePeriod(promoteMinutesToHours(tr, prefer), tr)
<1> USE DayTicksPositive
<1>1. /\ promoteHoursToDays(tr, prefer) \in TimeRanges
      /\ SamePeriod(promoteHoursToDays(tr, prefer), tr)
  <2>1. CASE promoteHoursToDays(tr, prefer) = tr
    BY <2>1 DEF SamePeriod
  <2>2. CASE promoteHoursToDays(tr, prefer) # tr
    <3> DEFINE new == [mode |-> "days", amount |-> tr.amount \div Day]
    <3>1. tr.mode = "hours" /\ tr.amount % Day = 0 /\ promoteHoursToDays(tr, prefer) = new
      BY <2>2 DEF promoteHoursToDays
    <3>2. tr.amount \in Nat
      BY <3>1 DEF TimeRanges
    <3>3. tr.amount \div Day \in Nat /\ (tr.amount \div Day) * Day = tr.amount
      BY <3>1, <3>2, WholeUnits
    <3>4. PICK q \in Nat : q = tr.amount \div Day
      BY <3>3
    <3>5. q * (Hour * Day) = (q * Day) * Hour
      OBVIOUS
    <3>6. q * DayTicks = tr.amount * Hour
      BY <3>3, <3>4, <3>5 DEF DayTicks
    <3>7. new \in TimeRanges
      BY <3>3 DEF TimeRanges
    <3>8. Oldest(new) = Now - q * DayTicks /\ Newest(new) = Now + 1
      BY <3>4 DEF Oldest, Newest
    <3>9. Oldest(tr) = Now - tr.amount * Hour /\ Newest(tr) = Now + 1
      BY <3>1 DEF Oldest, Newest
    <3>10. QED
      BY <3>1, <3>6, <3>7, <3>8, <3>9 DEF SamePeriod
  <2>3. QED
    BY <2>1, <2>2
<1>2. /\ promoteMinutesToHours(tr, prefer) \in TimeRanges
      /\ SamePeriod(promoteMinutesToHours(tr, prefer), tr)
  <2>1. CASE promoteMinutesToHours(tr, prefer) = tr
    BY <2>1 DEF SamePeriod
  <2>2. CASE promoteMinutesToHours(tr, prefer) # tr
    <3> DEFINE new == [mode |-> "hours", amount |-> tr.amount \div Hour]
    <3>1. tr.mode = "minutes" /\ tr.amount % Hour = 0 /\ promoteMinutesToHours(tr, prefer) = new
      BY <2>2 DEF promoteMinutesToHours
    <3>2. tr.amount \in Nat
      BY <3>1 DEF TimeRanges
    <3>3. tr.amount \div Hour \in Nat /\ (tr.amount \div Hour) * Hour = tr.amount
      BY <3>1, <3>2, WholeUnits
    <3>4. new \in TimeRanges
      BY <3>3 DEF TimeRanges
    <3>5. Oldest(new) = Now - (tr.amount \div Hour) * Hour /\ Newest(new) = Now + 1
      BY DEF Oldest, Newest
    <3>6. Oldest(tr) = Now - tr.amount /\ Newest(tr) = Now + 1
      BY <3>1 DEF Oldest, Newest
    <3>7. QED
      BY <3>1, <3>3, <3>4, <3>5, <3>6 DEF SamePeriod
  <2>3. QED
    BY <2>1, <2>2
<1>3. QED
  BY <1>1, <1>2

\* The logs and the daily tables go back as far, the hourly one less.
LEMMA HeldTicks ==
    /\ Held("daily") = Held("logs")
    /\ Held("logs") \subseteq Ticks /\ Held("hourly") \subseteq Ticks
    /\ \A t \in Ticks : t \in Held("hourly") <=> t >= Now - HourlyKept * DayTicks
    /\ HourlyKept * DayTicks \in Int
<1>1. PICK k \in Int : k = HourlyKept * DayTicks
  BY ClockAssumption, DayTicksPositive
<1>2. DayTicks * HourlyKept = HourlyKept * DayTicks
  BY ClockAssumption, DayTicksPositive
<1>3. Held("hourly") = {t \in Ticks : t >= Now - k}
  BY <1>1, <1>2 DEF Held
<1>4. QED
  BY <1>1, <1>3 DEF Held

\* An answer to a period is one to every way of writing that period.
LEMMA SameAnswer ==
    ASSUME NEW p \in TimeRanges, NEW tr \in TimeRanges, SamePeriod(p, tr), NEW a,
           WithinABucket(p, a)
    PROVE  WithinABucket(tr, a)
<1>1. Requested(p) = Requested(tr)
  BY PeriodEnds DEF SamePeriod
<1>2. QED
  BY <1>1 DEF SamePeriod, WithinABucket

\* The days of a daily table: the first one is whole or the period begins in it.
LEMMA DaysWithinABucket ==
    ASSUME NEW tr \in TimeRanges, tr.mode = "days",
           NEW a, a.table \in {"edges", "geo"}, a.ticks = ScanDays(tr.amount)
    PROVE  WithinABucket(tr, a)
<1>1. PICK o \in Int : o = tr.amount * DayTicks
  BY DayTicksPositive DEF TimeRanges
<1>2. Oldest(tr) = Now - o
  BY <1>1 DEF Oldest
<1>3. Bucket(a.table) = DayTicks
  BY DEF Bucket
<1>4. SUFFICES ASSUME NEW t \in Held("logs"), (t \in a.ticks) # (t \in Requested(tr))
               PROVE  t >= Now - o - DayTicks /\ t < Now - o + DayTicks
  BY <1>2, <1>3 DEF WithinABucket
<1>5. t \in Ticks /\ t \in Nat /\ Now \in Nat /\ t <= Now
  BY HeldTicks, ClockAssumption DEF Ticks
<1>6. PICK s \in Int : s = StartOf(t, DayTicks) /\ s <= t /\ t < s + DayTicks
  BY <1>5, BucketAround, DayTicksPositive
<1>7. PICK n \in Int : n = StartOf(Now, DayTicks) /\ n <= Now /\ Now < n + DayTicks
  BY <1>5, BucketAround, DayTicksPositive
<1>8. t \in a.ticks <=> s >= n - o
  BY <1>1, <1>6, <1>7, HeldTicks DEF ScanDays
<1>9. t \in Requested(tr) <=> t >= Now - o
  BY <1>1, <1>5 DEF Requested
<1>10. CASE s >= n - o /\ t < Now - o
  BY <1>1, <1>5, <1>6, <1>7, <1>10, DayTicksPositive
<1>11. CASE s < n - o /\ t >= Now - o
  BY <1>1, <1>5, <1>6, <1>7, <1>11, DayTicksPositive
<1>12. QED
  BY <1>1, <1>4, <1>5, <1>6, <1>7, <1>8, <1>9, <1>10, <1>11

\* The hours of the hourly table, counted back from now.
LEMMA HoursWithinABucket ==
    ASSUME NEW tr \in TimeRanges, tr.mode = "hours",
           NEW a, a.table = "hourly", a.ticks = ScanHours(tr.amount)
    PROVE  WithinABucket(tr, a)
<1>1. PICK o \in Int : o = tr.amount * Hour
  BY DayTicksPositive DEF TimeRanges
<1>2. Oldest(tr) = Now - o
  BY <1>1 DEF Oldest
<1>3. Bucket(a.table) = Hour
  BY DEF Bucket
<1>4. SUFFICES ASSUME Now - o >= Now - HourlyKept * DayTicks,
                      NEW t \in Held("logs"), (t \in a.ticks) # (t \in Requested(tr))
               PROVE  t >= Now - o - Hour /\ t < Now - o + Hour
  BY <1>2, <1>3 DEF WithinABucket
<1>5. t \in Ticks /\ t \in Nat /\ Now \in Nat
  BY HeldTicks, ClockAssumption DEF Ticks
<1>6. PICK s \in Int : s = StartOf(t, Hour) /\ s <= t /\ t < s + Hour
  BY <1>5, BucketAround, DayTicksPositive
<1>7. PICK k \in Int : k = HourlyKept * DayTicks
  BY HeldTicks
<1>8. t \in a.ticks <=> t >= Now - k /\ s >= Now - o
  BY <1>1, <1>5, <1>6, <1>7, HeldTicks DEF ScanHours
<1>9. t \in Requested(tr) <=> t >= Now - o
  BY <1>1, <1>5 DEF Requested
<1>10. t >= Now - o /\ s < Now - o
  BY <1>1, <1>4, <1>5, <1>6, <1>7, <1>8, <1>9
<1>11. QED
  BY <1>1, <1>5, <1>6, <1>10, DayTicksPositive

\* The hours of the hourly table between two times.
LEMMA AbsoluteWithinABucket ==
    ASSUME NEW tr \in TimeRanges, tr.mode = "absolute",
           NEW a, a.table = "hourly", a.ticks = ScanHoursAbsolute(tr.from, tr.to)
    PROVE  WithinABucket(tr, a)
<1>1. /\ tr.from \in Int /\ tr.to \in Int
      /\ Oldest(tr) = tr.from /\ Newest(tr) = tr.to
  BY DEF TimeRanges, Oldest, Newest
<1>2. Bucket(a.table) = Hour
  BY DEF Bucket
<1>3. SUFFICES ASSUME tr.from >= Now - HourlyKept * DayTicks,
                      NEW t \in Held("logs"), (t \in a.ticks) # (t \in Requested(tr))
               PROVE  \/ t >= tr.from - Hour /\ t < tr.from + Hour
                      \/ t >= tr.to - Hour /\ t < tr.to + Hour
  BY <1>1, <1>2 DEF WithinABucket
<1>4. t \in Ticks /\ t \in Nat /\ Now \in Nat
  BY HeldTicks, ClockAssumption DEF Ticks
<1>5. PICK s \in Int : s = StartOf(t, Hour) /\ s <= t /\ t < s + Hour
  BY <1>4, BucketAround, DayTicksPositive
<1>6. PICK k \in Int : k = HourlyKept * DayTicks
  BY HeldTicks
<1>7. t \in a.ticks <=> t >= Now - k /\ s >= tr.from /\ s < tr.to
  BY <1>4, <1>5, <1>6, HeldTicks DEF ScanHoursAbsolute
<1>8. t \in Requested(tr) <=> t >= tr.from /\ t < tr.to
  BY <1>4 DEF Requested
<1>9. QED
  BY <1>1, <1>3, <1>4, <1>5, <1>6, <1>7, <1>8, DayTicksPositive

\* The logs are exact as far as they go back.
LEMMA LogsWithinABucket ==
    ASSUME NEW tr \in TimeRanges, NEW a, a.table = "logs", a.ticks = ScanLogs(tr)
    PROVE  WithinABucket(tr, a)
BY DEF WithinABucket, ScanLogs

\* What ScanGeoEdgesForTimeRange answers, with its fall back on the logs.
LEMMA GeoEdgesWithinABucket ==
    ASSUME NEW tr \in TimeRanges, NEW group, NEW ready, NEW broken
    PROVE  /\ WithinABucket(tr, ScanGeoEdgesForTimeRange(tr, group, ready, broken))
<1> DEFINE daily == IF group \in {"ip", "subnet"} THEN "edges" ELSE "geo"
           days == promoteHoursToDays(tr, daily \in ready)
           p == promoteMinutesToHours(days, "hourly" \in ready)
           a == ScanGeoEdgesForTimeRange(tr, group, ready, broken)
<1>1. daily \in {"edges", "geo"}
  OBVIOUS
<1>2. days \in TimeRanges /\ SamePeriod(days, tr)
  BY PromotionKeepsPeriod
<1>3. p \in TimeRanges /\ SamePeriod(p, days)
  BY <1>2, PromotionKeepsPeriod
<1>4. SamePeriod(p, tr)
  BY <1>2, <1>3 DEF SamePeriod
<1>5. \/ p.mode = "days" /\ a = [table |-> daily, ticks |-> ScanDays(p.amount)]
      \/ p.mode = "hours" /\ a = [table |-> "hourly", ticks |-> ScanHours(p.amount)]
      \/ p.mode = "absolute" /\ a = [table |-> "hourly", ticks |-> ScanHoursAbsolute(p.from, p.to)]
      \/ a = [table |-> "logs", ticks |-> ScanLogs(p)]
  BY DEF ScanGeoEdgesForTimeRange
<1> HIDE DEF a, p, days, daily
<1>6. WithinABucket(p, a)
  BY <1>1, <1>3, <1>5, DaysWithinABucket, HoursWithinABucket, AbsoluteWithinABucket, LogsWithinABucket
<1>7. WithinABucket(tr, a)
  BY <1>3, <1>4, <1>6, SameAnswer
<1>8. QED
  BY <1>7 DEF a

\* ScanMapAggs: a period is answered up to one bucket of the table at either end,
\* whichever tables aggstate prefers and whichever scans fail, as long as the hourly
\* table, if it answers, still holds the period.
THEOREM PeriodsAnswered ==
    \A tr \in TimeRanges, group \in Groups :
        \A ready, broken : WithinABucket(tr, ScanMapAggs(tr, group, ready, broken))
<1> SUFFICES ASSUME NEW tr \in TimeRanges, NEW group \in Groups, NEW ready, NEW broken
             PROVE  WithinABucket(tr, ScanMapAggs(tr, group, ready, broken))
  OBVIOUS
<1> DEFINE g == IF group = "city_country" THEN "ip" ELSE group
           geo == ScanGeoEdgesForTimeRange(tr, g, ready, broken)
           raw == ScanRawAggsForTimeRange(tr, ready, broken)
<1>1. WithinABucket(tr, geo)
  BY GeoEdgesWithinABucket
<1>2. WithinABucket(tr, raw)
  <2>1. \/ tr.mode = "days" /\ raw = [table |-> "edges", ticks |-> ScanDays(tr.amount)]
        \/ raw = [table |-> "logs", ticks |-> ScanLogs(tr)]
    BY DEF ScanRawAggsForTimeRange
  <2> HIDE DEF raw
  <2>2. QED
    BY <2>1, DaysWithinABucket, LogsWithinABucket
<1>3. ScanMapAggs(tr, group, ready, broken) \in {geo, raw}
  BY DEF ScanMapAggs
<1>4. QED
  BY <1>1, <1>2, <1>3

\* The topic of a report of addresses without GeoIP.
LEMMA MissingTopic ==
    ASSUME AskMissing
    PROVE  req'.topic = "missing"
<1>1. \E table, cut : req' = [topic |-> "missing", rows |-> table, cut |-> cut]
  BY Zenon DEF AskMissing
<1> QED
  BY <1>1

\* What requests about ranges are about.
LEMMA RangesTopic ==
    ASSUME AskRanges
    PROVE  req'.topic \in {"table", "file", "append", "update"}
<1>1. CASE AskTable
  BY <1>1 DEF AskTable
<1>2. CASE AskFile
  BY <1>2 DEF AskFile
<1>3. CASE AskAppend
  BY <1>3 DEF AskAppend
<1>4. CASE AskUpdate
  BY <1>4 DEF AskUpdate
<1> QED
  BY <1>1, <1>2, <1>3, <1>4 DEF AskRanges

\* ScanMapAggs: PeriodsAnswered of every request, for the periods it may ask for.
THEOREM WindowsAnswered == RequestSpec => []PeriodAnswered
<1>1. RequestInit => PeriodAnswered
  BY DEF RequestInit, PeriodAnswered, Idle
<1>2. PeriodAnswered /\ [RequestNext]_<<req, ans>> => PeriodAnswered'
  <2> SUFFICES ASSUME PeriodAnswered, [RequestNext]_<<req, ans>> PROVE PeriodAnswered'
    OBVIOUS
  <2>1. CASE AskWindow
    <3>1. PICK tr \in Periods, group \in Groups, ready \in SUBSET {"edges", "geo", "hourly"},
               broken \in {{}, {"edges", "geo"}, {"hourly", "grouping"}, {"grouping"}} :
            req' = [topic |-> "window", tr |-> tr, group |-> group] /\ ans' = ScanMapAggs(tr, group, ready, broken)
      BY <2>1 DEF AskWindow
    <3>2. tr \in TimeRanges
      BY RequestsAssumption
    <3>3. WithinABucket(tr, ans')
      BY <3>1, <3>2, PeriodsAnswered
    <3>4. req'.tr = tr
      BY <3>1
    <3> QED
      BY <3>3, <3>4 DEF PeriodAnswered
  <2>2. CASE AskBuild
    BY <2>2 DEF AskBuild, PeriodAnswered
  <2>3. CASE AskGrouped
    BY <2>3 DEF AskGrouped, PeriodAnswered
  <2>4. CASE AskMissing
    <3>1. req'.topic = "missing"
      BY <2>4, MissingTopic
    <3> QED
      BY <3>1 DEF PeriodAnswered
  <2>5. CASE AskNodes
    BY <2>5 DEF AskNodes, PeriodAnswered
  <2>6. CASE AskRanges
    <3>1. req'.topic # "window"
      BY <2>6, RangesTopic
    <3> QED
      BY <3>1 DEF PeriodAnswered
  <2>7. CASE UNCHANGED <<req, ans>>
    BY <2>7 DEF PeriodAnswered
  <2> QED
    BY <2>1, <2>2, <2>3, <2>4, <2>5, <2>6, <2>7 DEF RequestNext, AskMap
<1> QED
  BY <1>1, <1>2, PTL DEF RequestSpec

-----------------------------------------------------------------------------
(* Requests: edges, points and caches row by row *)

\* What EdgesOf says, row by row.
LEMMA EdgesAre ==
    ASSUME NEW rows, NEW ms, Len(rows) \in Nat
    PROVE  /\ EdgesOf(rows, ms)[0] = Nothing
           /\ \A i \in 1 .. Len(rows) : EdgesOf(rows, ms)[i] = EdgeOf(EdgesOf(rows, ms)[i - 1], rows[i], ms[i].s, ms[i].d)
<1> DEFINE n == Len(rows)
           New(i, v) == EdgeOf(v, rows[i], ms[i].s, ms[i].d)
           Is(h, k) == h = [i \in 0 .. k |-> IF i = 0 THEN Nothing ELSE New(i, h[i - 1])]
           T == {k \in Nat : \E h : Is(h, k)}
<1>1. 0 \in T
  <2>1. Is([i \in 0 .. 0 |-> Nothing], 0)
    OBVIOUS
  <2> HIDE DEF Is
  <2> QED
    BY <2>1
<1>2. ASSUME NEW k \in Nat, k \in T
      PROVE  k + 1 \in T
  <2>1. PICK h : Is(h, k)
    <3> HIDE DEF Is
    <3> QED
      BY <1>2
  <2> DEFINE g == [i \in 0 .. k + 1 |-> IF i = k + 1 THEN New(k + 1, h[k]) ELSE h[i]]
  <2> HIDE DEF New
  <2>2. Is(g, k + 1)
    <3>1. \A i \in 0 .. k + 1 : g[i] = IF i = 0 THEN Nothing ELSE New(i, g[i - 1])
      <4> SUFFICES ASSUME NEW i \in 0 .. k + 1
                   PROVE  g[i] = IF i = 0 THEN Nothing ELSE New(i, g[i - 1])
        OBVIOUS
      <4>1. CASE i = k + 1
        <5>1. k \in 0 .. k + 1 /\ k # k + 1 /\ i # 0 /\ i - 1 = k
          BY <4>1
        <5> QED
          BY <4>1, <5>1
      <4>2. CASE i \in 0 .. k
        <5>1. h[i] = IF i = 0 THEN Nothing ELSE New(i, h[i - 1])
          BY <2>1, <4>2
        <5>2. g[i] = h[i] /\ (i # 0 => g[i - 1] = h[i - 1])
          BY <4>2
        <5> QED
          BY <5>1, <5>2
      <4> QED
        BY <4>1, <4>2
    <3>2. g = [i \in 0 .. k + 1 |-> g[i]]
      OBVIOUS
    <3> HIDE DEF g
    <3> QED
      BY <3>1, <3>2
  <2> HIDE DEF Is, g
  <2> QED
    BY <2>2
<1>3. \E h : Is(h, n)
  <2>1. Nat \subseteq T
    <3> HIDE DEF T
    <3> QED
      BY <1>1, <1>2, NatInd
  <2> HIDE DEF Is
  <2> QED
    BY <2>1
<1>4. Is(EdgesOf(rows, ms), n)
  <2>1. EdgesOf(rows, ms) = CHOOSE h : Is(h, n)
    BY Zenon DEF EdgesOf
  <2> HIDE DEF Is
  <2> QED
    BY <1>3, <2>1, Zenon
<1> HIDE DEF New
<1>5. \A i \in 0 .. n : EdgesOf(rows, ms)[i] = IF i = 0 THEN Nothing ELSE New(i, EdgesOf(rows, ms)[i - 1])
  BY <1>4
<1> HIDE DEF Is
<1>6. \A i \in 1 .. n : EdgesOf(rows, ms)[i] = New(i, EdgesOf(rows, ms)[i - 1])
  BY <1>5
<1>7. EdgesOf(rows, ms)[0] = Nothing
  BY <1>5
<1> QED
  BY <1>6, <1>7 DEF New

\* What PointsOf says, row by row.
LEMMA PointsAre ==
    ASSUME NEW rows, NEW ms, NEW active, Len(rows) \in Nat
    PROVE  /\ PointsOf(rows, ms, active)[0] = Nothing
           /\ \A i \in 1 .. Len(rows) : 
                 PointsOf(rows, ms, active)[i]
                     = PointOf(PointOf(PointsOf(rows, ms, active)[i - 1], active, ms[i].s, rows[i].count),
                               active, ms[i].d, rows[i].count)
<1> DEFINE n == Len(rows)
           New(i, v) == PointOf(PointOf(v, active, ms[i].s, rows[i].count), active, ms[i].d, rows[i].count)
           Is(h, k) == h = [i \in 0 .. k |-> IF i = 0 THEN Nothing ELSE New(i, h[i - 1])]
           T == {k \in Nat : \E h : Is(h, k)}
<1>1. 0 \in T
  <2>1. Is([i \in 0 .. 0 |-> Nothing], 0)
    OBVIOUS
  <2> HIDE DEF Is
  <2> QED
    BY <2>1
<1>2. ASSUME NEW k \in Nat, k \in T
      PROVE  k + 1 \in T
  <2>1. PICK h : Is(h, k)
    <3> HIDE DEF Is
    <3> QED
      BY <1>2
  <2> DEFINE g == [i \in 0 .. k + 1 |-> IF i = k + 1 THEN New(k + 1, h[k]) ELSE h[i]]
  <2> HIDE DEF New
  <2>2. Is(g, k + 1)
    <3>1. \A i \in 0 .. k + 1 : g[i] = IF i = 0 THEN Nothing ELSE New(i, g[i - 1])
      <4> SUFFICES ASSUME NEW i \in 0 .. k + 1
                   PROVE  g[i] = IF i = 0 THEN Nothing ELSE New(i, g[i - 1])
        OBVIOUS
      <4>1. CASE i = k + 1
        <5>1. k \in 0 .. k + 1 /\ k # k + 1 /\ i # 0 /\ i - 1 = k
          BY <4>1
        <5> QED
          BY <4>1, <5>1
      <4>2. CASE i \in 0 .. k
        <5>1. h[i] = IF i = 0 THEN Nothing ELSE New(i, h[i - 1])
          BY <2>1, <4>2
        <5>2. g[i] = h[i] /\ (i # 0 => g[i - 1] = h[i - 1])
          BY <4>2
        <5> QED
          BY <5>1, <5>2
      <4> QED
        BY <4>1, <4>2
    <3>2. g = [i \in 0 .. k + 1 |-> g[i]]
      OBVIOUS
    <3> HIDE DEF g
    <3> QED
      BY <3>1, <3>2
  <2> HIDE DEF Is, g
  <2> QED
    BY <2>2
<1>3. \E h : Is(h, n)
  <2>1. Nat \subseteq T
    <3> HIDE DEF T
    <3> QED
      BY <1>1, <1>2, NatInd
  <2> HIDE DEF Is
  <2> QED
    BY <2>1
<1>4. Is(PointsOf(rows, ms, active), n)
  <2>1. PointsOf(rows, ms, active) = CHOOSE h : Is(h, n)
    BY Zenon DEF PointsOf
  <2> HIDE DEF Is
  <2> QED
    BY <1>3, <2>1, Zenon
<1> HIDE DEF New
<1>5. \A i \in 0 .. n : PointsOf(rows, ms, active)[i] = IF i = 0 THEN Nothing ELSE New(i, PointsOf(rows, ms, active)[i - 1])
  BY <1>4
<1> HIDE DEF Is
<1>6. \A i \in 1 .. n : PointsOf(rows, ms, active)[i] = New(i, PointsOf(rows, ms, active)[i - 1])
  BY <1>5
<1>7. PointsOf(rows, ms, active)[0] = Nothing
  BY <1>5
<1> QED
  BY <1>6, <1>7 DEF New

\* What CachesOf says, row by row.
LEMMA CachesAre ==
    ASSUME NEW caches, NEW rows, NEW group, NEW nets, Len(rows) \in Nat
    PROVE  /\ CachesOf(caches, rows, group, nets)[0] = caches
           /\ \A i \in 1 .. Len(rows) : 
                 CachesOf(caches, rows, group, nets)[i]
                     = [src |-> metaFor(rows[i].src, rows[i].srcHint, CachesOf(caches, rows, group, nets)[i - 1].src, group, nets),
                        dst |-> metaFor(rows[i].dst, rows[i].dstHint, CachesOf(caches, rows, group, nets)[i - 1].dst, group, nets)]
<1> DEFINE n == Len(rows)
           New(i, v) == [src |-> metaFor(rows[i].src, rows[i].srcHint, v.src, group, nets),
                 dst |-> metaFor(rows[i].dst, rows[i].dstHint, v.dst, group, nets)]
           Is(h, k) == h = [i \in 0 .. k |-> IF i = 0 THEN caches ELSE New(i, h[i - 1])]
           T == {k \in Nat : \E h : Is(h, k)}
<1>1. 0 \in T
  <2>1. Is([i \in 0 .. 0 |-> caches], 0)
    OBVIOUS
  <2> HIDE DEF Is
  <2> QED
    BY <2>1
<1>2. ASSUME NEW k \in Nat, k \in T
      PROVE  k + 1 \in T
  <2>1. PICK h : Is(h, k)
    <3> HIDE DEF Is
    <3> QED
      BY <1>2
  <2> DEFINE g == [i \in 0 .. k + 1 |-> IF i = k + 1 THEN New(k + 1, h[k]) ELSE h[i]]
  <2> HIDE DEF New
  <2>2. Is(g, k + 1)
    <3>1. \A i \in 0 .. k + 1 : g[i] = IF i = 0 THEN caches ELSE New(i, g[i - 1])
      <4> SUFFICES ASSUME NEW i \in 0 .. k + 1
                   PROVE  g[i] = IF i = 0 THEN caches ELSE New(i, g[i - 1])
        OBVIOUS
      <4>1. CASE i = k + 1
        <5>1. k \in 0 .. k + 1 /\ k # k + 1 /\ i # 0 /\ i - 1 = k
          BY <4>1
        <5> QED
          BY <4>1, <5>1
      <4>2. CASE i \in 0 .. k
        <5>1. h[i] = IF i = 0 THEN caches ELSE New(i, h[i - 1])
          BY <2>1, <4>2
        <5>2. g[i] = h[i] /\ (i # 0 => g[i - 1] = h[i - 1])
          BY <4>2
        <5> QED
          BY <5>1, <5>2
      <4> QED
        BY <4>1, <4>2
    <3>2. g = [i \in 0 .. k + 1 |-> g[i]]
      OBVIOUS
    <3> HIDE DEF g
    <3> QED
      BY <3>1, <3>2
  <2> HIDE DEF Is, g
  <2> QED
    BY <2>2
<1>3. \E h : Is(h, n)
  <2>1. Nat \subseteq T
    <3> HIDE DEF T
    <3> QED
      BY <1>1, <1>2, NatInd
  <2> HIDE DEF Is
  <2> QED
    BY <2>1
<1>4. Is(CachesOf(caches, rows, group, nets), n)
  <2>1. CachesOf(caches, rows, group, nets) = CHOOSE h : Is(h, n)
    BY Zenon DEF CachesOf
  <2> HIDE DEF Is
  <2> QED
    BY <1>3, <2>1, Zenon
<1> HIDE DEF New
<1>5. \A i \in 0 .. n : CachesOf(caches, rows, group, nets)[i] = IF i = 0 THEN caches ELSE New(i, CachesOf(caches, rows, group, nets)[i - 1])
  BY <1>4
<1> HIDE DEF Is
<1>6. \A i \in 1 .. n : CachesOf(caches, rows, group, nets)[i] = New(i, CachesOf(caches, rows, group, nets)[i - 1])
  BY <1>5
<1>7. CachesOf(caches, rows, group, nets)[0] = caches
  BY <1>5
<1> QED
  BY <1>6, <1>7 DEF New

-----------------------------------------------------------------------------
(* The edges *)

Fields == {"count", "allowed", "blocked", "bytes"}

\* Amounts of a row or of an edge.
Amounts(r) ==
    r.count \in Nat \ {0} /\ r.allowed \in Nat /\ r.blocked \in Nat /\ r.bytes \in Nat
    /\ r.allowed + r.blocked <= r.count
Counted(rows) == Len(rows) \in Nat /\ DOMAIN rows = 1 .. Len(rows) /\ \A i \in 1 .. Len(rows) : Amounts(rows[i])

\* The rows that become part of an edge, and the edge's key.
Joined(m) == m.s.valid /\ m.d.valid
KeyOf(m) == <<m.s.key, m.d.key>>
RowsInto(ms, i, K) == {j \in 1 .. i : Joined(ms[j]) /\ KeyOf(ms[j]) \in K}

\* What the first i rows make of the edges.
Keyed(edges, ms, i) ==
    /\ DOMAIN edges = {KeyOf(ms[j]) : j \in {j \in 1 .. i : Joined(ms[j])}}
    /\ \A k \in DOMAIN edges : /\ edges[k].src = k[1] /\ edges[k].dst = k[2]
                               /\ Amounts(edges[k]) /\ edges[k].weight = edges[k].count
Gathered(edges, rows, ms, i) ==
    /\ IsFiniteSet(DOMAIN edges)
    /\ \A K : \A field \in Fields :
          SumFunctionOnSet(Column(edges, field), K \cap DOMAIN edges)
              = SumFunctionOnSet(Column(rows, field), RowsInto(ms, i, K))

\* The amounts of a row or an edge are numbers.
LEMMA AmountsAre ==
    ASSUME NEW r, Amounts(r)
    PROVE  \A field \in Fields : r[field] \in Nat
<1>1. r["count"] \in Nat /\ r["allowed"] \in Nat /\ r["blocked"] \in Nat /\ r["bytes"] \in Nat
  BY DEF Amounts
<1> QED
  BY <1>1 DEF Fields

\* An edge without rows has no amounts.
LEMMA EmptyAmounts == \A field \in Fields : EmptyEdge[field] = 0
<1>1. EmptyEdge["count"] = 0 /\ EmptyEdge["allowed"] = 0 /\ EmptyEdge["blocked"] = 0 /\ EmptyEdge["bytes"] = 0
  BY DEF EmptyEdge
<1> QED
  BY <1>1, Zenon DEF Fields

\* EdgeAggAdd adds the amounts of a row.
LEMMA AmountsAdd ==
    ASSUME NEW e, NEW row, NEW s, NEW d, NEW new, new = EdgeAggAdd(e, row, s, d)
    PROVE  \A field \in Fields : new[field] = e[field] + row[field]
<1>1. /\ new["count"] = e["count"] + row["count"] /\ new["allowed"] = e["allowed"] + row["allowed"]
      /\ new["blocked"] = e["blocked"] + row["blocked"] /\ new["bytes"] = e["bytes"] + row["bytes"]
  BY DEF EdgeAggAdd
<1> QED
  BY <1>1, Zenon DEF Fields

\* EdgeAggAdd: what is allowed and blocked remains a part of what is counted.
LEMMA AmountsStay ==
    ASSUME NEW e, Amounts(e) \/ e = EmptyEdge, NEW row, Amounts(row), NEW s, NEW d,
           NEW new, new = EdgeAggAdd(e, row, s, d)
    PROVE  Amounts(new)
<1>1. PICK c \in Nat, a \in Nat, b \in Nat, y \in Nat :
        c = e.count /\ a = e.allowed /\ b = e.blocked /\ y = e.bytes /\ a + b <= c
  <2>1. CASE Amounts(e)
    BY <2>1 DEF Amounts
  <2>2. CASE e = EmptyEdge
    <3>1. e.count = 0 /\ e.allowed = 0 /\ e.blocked = 0 /\ e.bytes = 0
      BY <2>2 DEF EmptyEdge
    <3> QED
      BY <3>1
  <2> QED
    BY <2>1, <2>2
<1>2. PICK rc \in Nat \ {0}, ra \in Nat, rb \in Nat, ry \in Nat :
        rc = row.count /\ ra = row.allowed /\ rb = row.blocked /\ ry = row.bytes /\ ra + rb <= rc
  BY DEF Amounts
<1>3. new.count = c + rc /\ new.allowed = a + ra /\ new.blocked = b + rb /\ new.bytes = y + ry
  BY <1>1, <1>2 DEF EdgeAggAdd
<1>4. c + rc \in Nat \ {0} /\ a + ra \in Nat /\ b + rb \in Nat /\ y + ry \in Nat /\ (a + ra) + (b + rb) <= c + rc
  BY <1>1, <1>2
<1> QED
  BY <1>3, <1>4, Zenon DEF Amounts

\* After i rows there is an edge for each pair of nodes that i rows join, of that pair.
LEMMA EdgesKeyed ==
    ASSUME NEW rows, Counted(rows), NEW ms
    PROVE  \A i \in 0 .. Len(rows) : Keyed(EdgesOf(rows, ms)[i], ms, i)
<1> DEFINE n == Len(rows)
           E(i) == EdgesOf(rows, ms)[i]
           T == {i \in Nat : i <= n => Keyed(E(i), ms, i)}
<1>1. n \in Nat /\ E(0) = Nothing
      /\ \A i \in 1 .. n : E(i) = EdgeOf(E(i - 1), rows[i], ms[i].s, ms[i].d)
  BY EdgesAre DEF Counted
<1> HIDE DEF E
<1>2. 0 \in T
  <2>1. DOMAIN E(0) = {}
    BY <1>1 DEF Nothing
  <2>2. 1 .. 0 = {}
    OBVIOUS
  <2> QED
    BY <2>1, <2>2 DEF Keyed
<1>3. ASSUME NEW i \in Nat, i \in T
      PROVE  i + 1 \in T
  <2> SUFFICES ASSUME i + 1 <= n
               PROVE  Keyed(E(i + 1), ms, i + 1)
    OBVIOUS
  <2>1. Keyed(E(i), ms, i) /\ i + 1 \in 1 .. n /\ (i + 1) - 1 = i
    BY <1>1, <1>3
  <2>2. PICK j \in 1 .. n : j = i + 1 /\ 1 .. j = (1 .. i) \cup {j}
    BY <2>1
  <2>3. PICK m : m = ms[j]
    OBVIOUS
  <2>4. PICK e : e = E(i)
    OBVIOUS
  <2>5. E(j) = EdgeOf(e, rows[j], m.s, m.d)
    BY <1>1, <2>1, <2>2, <2>3, <2>4
  <2>6. CASE ~Joined(m)
    <3>1. E(j) = e
      BY <2>5, <2>6 DEF EdgeOf, Joined
    <3>2. {KeyOf(ms[x]) : x \in {x \in 1 .. j : Joined(ms[x])}} = {KeyOf(ms[x]) : x \in {x \in 1 .. i : Joined(ms[x])}}
      BY <2>2, <2>3, <2>6
    <3> QED
      BY <2>1, <2>2, <2>4, <3>1, <3>2 DEF Keyed
  <2>7. CASE Joined(m)
    <3>1. PICK k : k = KeyOf(m)
      OBVIOUS
    <3>2. k[1] = m.s.key /\ k[2] = m.d.key
      BY <3>1 DEF KeyOf
    <3>3. PICK old : old = Get(e, k, EmptyEdge)
      OBVIOUS
    <3>4. PICK new : new = EdgeAggAdd(old, rows[j], m.s, m.d)
      OBVIOUS
    <3>5. E(j) = Put(e, k, new)
      BY <2>5, <2>7, <3>1, <3>3, <3>4 DEF EdgeOf, Joined, KeyOf
    <3>6. DOMAIN E(j) = DOMAIN e \cup {k} /\ E(j)[k] = new /\ \A x \in DOMAIN e : x # k => E(j)[x] = e[x]
      <4>1. /\ DOMAIN Put(e, k, new) = DOMAIN e \cup {k} /\ Put(e, k, new)[k] = new
            /\ \A x \in DOMAIN e : x # k => Put(e, k, new)[x] = e[x]
        BY DEF Put
      <4> QED
        BY <3>5, <4>1
    <3>7. {KeyOf(ms[x]) : x \in {x \in 1 .. j : Joined(ms[x])}} = {KeyOf(ms[x]) : x \in {x \in 1 .. i : Joined(ms[x])}} \cup {k}
      BY <2>2, <2>3, <2>7, <3>1
    <3>8. DOMAIN E(j) = {KeyOf(ms[x]) : x \in {x \in 1 .. j : Joined(ms[x])}}
      BY <2>1, <2>4, <3>6, <3>7 DEF Keyed
    <3>9. Amounts(rows[j]) /\ rows[j].count \in Nat
      BY DEF Counted, Amounts
    <3>10. (Amounts(old) \/ old = EmptyEdge) /\ old.weight = old.count
      BY <2>1, <2>4, <3>3 DEF Keyed, Get, EmptyEdge
    <3>11. Amounts(new)
      BY <3>4, <3>9, <3>10, AmountsStay
    <3>12. new.src = k[1] /\ new.dst = k[2] /\ new.weight = new.count
      BY <2>7, <3>2, <3>4, <3>10 DEF EdgeAggAdd, Joined
    <3>13. \A x \in DOMAIN E(j) : /\ E(j)[x].src = x[1] /\ E(j)[x].dst = x[2]
                                  /\ Amounts(E(j)[x]) /\ E(j)[x].weight = E(j)[x].count
      BY <2>1, <2>4, <3>6, <3>11, <3>12 DEF Keyed
    <3> QED
      BY <2>2, <3>8, <3>13 DEF Keyed
  <2> QED
    BY <2>6, <2>7
<1>4. Nat \subseteq T
  <2> HIDE DEF T
  <2> QED
    BY <1>2, <1>3, NatInd
<1> QED
  BY <1>1, <1>4 DEF E

\* Edges h are edges e and a row of key k.
Grown(h, e, k, row) ==
    /\ DOMAIN h = DOMAIN e \cup {k}
    /\ \A x \in DOMAIN e : Amounts(e[x]) /\ (x # k => h[x] = e[x])
    /\ Amounts(h[k])
    /\ \A field \in Fields : h[k][field] = (IF k \in DOMAIN e THEN e[k][field] ELSE 0) + row[field]

\* One row adds its amounts to the edge of its key.
LEMMA RowGathered ==
    ASSUME NEW rows, Counted(rows), NEW ms, NEW i \in 1 .. Len(rows), Joined(ms[i]),
           NEW e, Gathered(e, rows, ms, i - 1), NEW h, Grown(h, e, KeyOf(ms[i]), rows[i]),
           NEW field \in Fields, NEW K
    PROVE  SumFunctionOnSet(Column(h, field), K \cap DOMAIN h)
              = SumFunctionOnSet(Column(rows, field), RowsInto(ms, i, K))
<1>1. PICK k : k = KeyOf(ms[i])
  OBVIOUS
<1>2. DOMAIN h = DOMAIN e \cup {k} /\ \A x \in DOMAIN e : x # k => h[x] = e[x]
  BY <1>1 DEF Grown
<1>3. Amounts(h[k]) /\ \A x \in DOMAIN e : Amounts(e[x])
  BY <1>1 DEF Grown
<1>4. h[k][field] = (IF k \in DOMAIN e THEN e[k][field] ELSE 0) + rows[i][field]
  BY <1>1 DEF Grown
<1> DEFINE D == K \cap DOMAIN e
           C == Column(e, field)
           H == Column(h, field)
           R == Column(rows, field)
<1>5. i \in Nat /\ i >= 1 /\ Len(rows) \in Nat /\ DOMAIN rows = 1 .. Len(rows)
  BY DEF Counted
<1>6. IsFiniteSet(DOMAIN e) /\ IsFiniteSet(D)
  BY FS_Subset DEF Gathered
<1>7. \A x \in DOMAIN e : C[x] = e[x][field] /\ C[x] \in Nat
  BY <1>3, AmountsAre DEF Column
<1>8. \A x \in DOMAIN h : H[x] = h[x][field] /\ H[x] \in Nat
  <2>1. \A x \in DOMAIN h : Amounts(h[x])
    BY <1>2, <1>3
  <2> QED
    BY <2>1, AmountsAre DEF Column
<1>9. \A x \in 1 .. Len(rows) : R[x] = rows[x][field] /\ R[x] \in Nat
  <2>1. \A x \in 1 .. Len(rows) : Amounts(rows[x])
    BY DEF Counted
  <2>2. \A x \in 1 .. Len(rows) : rows[x][field] \in Nat
    BY <2>1, AmountsAre
  <2>3. \A x \in 1 .. Len(rows) : R[x] = rows[x][field]
    BY <1>5 DEF Column
  <2> QED
    BY <2>2, <2>3
<1>10. SumFunctionOnSet(C, D) = SumFunctionOnSet(R, RowsInto(ms, i - 1, K))
  BY Zenon DEF Gathered
<1>11. \A x \in DOMAIN e : x # k => H[x] = C[x]
  <2> SUFFICES ASSUME NEW x \in DOMAIN e, x # k
               PROVE  H[x] = C[x]
    OBVIOUS
  <2>1. x \in DOMAIN h /\ h[x] = e[x]
    BY <1>2
  <2> HIDE DEF C, H
  <2> QED
    BY <1>7, <1>8, <2>1
<1>12. H[k] = (IF k \in DOMAIN e THEN C[k] ELSE 0) + R[i]
  <2> HIDE DEF C, H, R
  <2> QED
    BY <1>7, <1>8, <1>9, <1>2, <1>4
<1> HIDE DEF C, H, R
<1>13. 1 .. i = (1 .. i - 1) \cup {i} /\ i \notin 1 .. i - 1
  BY <1>5
<1>14. CASE k \notin K
  <2>1. K \cap DOMAIN h = D
    BY <1>14, <1>2
  <2>2. SumFunctionOnSet(C, D) = SumFunctionOnSet(H, D)
    <3>1. Numbers(C, D) /\ \A x \in D : C[x] = H[x]
      BY <1>6, <1>7, <1>11, <1>14 DEF Numbers
    <3> HIDE DEF D
    <3> QED
      BY <3>1, SumSame
  <2>3. RowsInto(ms, i, K) = RowsInto(ms, i - 1, K)
    BY <1>13, <1>14, <1>1 DEF RowsInto
  <2> QED
    BY <1>10, <2>1, <2>2, <2>3 DEF H, R
<1>15. CASE k \in K
  <2> DEFINE B == D \ {k}
  <2>1. K \cap DOMAIN h = B \cup {k} /\ k \notin B
    BY <1>15, <1>2
  <2>2. Numbers(C, B) /\ Numbers(H, B) /\ \A x \in B : C[x] = H[x]
    <3>1. IsFiniteSet(B)
      BY <1>6, FS_RemoveElement
    <3> QED
      BY <1>7, <1>8, <1>11, <3>1 DEF Numbers
  <2>3. H[k] \in Nat /\ R[i] \in Nat /\ (k \in DOMAIN e => C[k] \in Nat)
    BY <1>7, <1>8, <1>9, <1>2
  <2>4. SumFunctionOnSet(H, B \cup {k}) = H[k] + SumFunctionOnSet(H, B)
    <3> HIDE DEF B
    <3> QED
      BY <2>1, <2>2, <2>3, SumWith
  <2>5. SumFunctionOnSet(C, B) = SumFunctionOnSet(H, B) /\ SumFunctionOnSet(C, B) \in Int
    <3> HIDE DEF B
    <3> QED
      BY <2>2, SumSame, SumTyped
  <2>6. SumFunctionOnSet(C, D) = (IF k \in DOMAIN e THEN C[k] ELSE 0) + SumFunctionOnSet(C, B)
    <3>1. CASE k \in DOMAIN e
      <4>1. D = B \cup {k}
        BY <1>15, <3>1
      <4>2. SumFunctionOnSet(C, B \cup {k}) = C[k] + SumFunctionOnSet(C, B)
        <5> HIDE DEF B
        <5>1. C[k] \in Int /\ k \notin B
          BY <2>1, <2>3, <3>1
        <5> QED
          BY <2>2, <5>1, SumWith
      <4> QED
        BY <3>1, <4>1, <4>2
    <3>2. CASE k \notin DOMAIN e
      <4>1. D = B
        BY <3>2
      <4> HIDE DEF B, D
      <4> QED
        BY <2>5, <3>2, <4>1
    <3> QED
      BY <3>1, <3>2
  <2>7. RowsInto(ms, i, K) = RowsInto(ms, i - 1, K) \cup {i} /\ i \notin RowsInto(ms, i - 1, K)
    BY <1>13, <1>15, <1>1 DEF RowsInto
  <2>8. Numbers(R, RowsInto(ms, i - 1, K))
    <3>1. IsFiniteSet(1 .. i - 1) /\ RowsInto(ms, i - 1, K) \in SUBSET (1 .. i - 1)
      BY <1>5, FS_Interval DEF RowsInto
    <3>2. IsFiniteSet(RowsInto(ms, i - 1, K))
      BY <3>1, FS_Subset
    <3> QED
      BY <1>5, <1>9, <3>1, <3>2 DEF Numbers
  <2>9. SumFunctionOnSet(R, RowsInto(ms, i, K)) = R[i] + SumFunctionOnSet(R, RowsInto(ms, i - 1, K))
    <3>1. PICK Q : Q = RowsInto(ms, i - 1, K)
      OBVIOUS
    <3>2. R[i] \in Int /\ i \notin Q /\ Numbers(R, Q)
      BY <2>3, <2>7, <2>8, <3>1
    <3>3. SumFunctionOnSet(R, Q \cup {i}) = R[i] + SumFunctionOnSet(R, Q)
      BY <3>2, SumWith
    <3> QED
      BY <2>7, <3>1, <3>3
  <2>10. PICK a \in Int, b \in Nat, r \in Nat : /\ a = SumFunctionOnSet(C, B) /\ r = R[i]
                                                /\ b = IF k \in DOMAIN e THEN C[k] ELSE 0
    BY <2>3, <2>5
  <2>11. SumFunctionOnSet(H, K \cap DOMAIN h) = (b + r) + a
    BY <1>12, <2>1, <2>4, <2>5, <2>10
  <2>12. SumFunctionOnSet(R, RowsInto(ms, i, K)) = r + (b + a)
    BY <1>10, <2>6, <2>9, <2>10
  <2> QED
    BY <2>11, <2>12 DEF H, R
<1> QED
  BY <1>14, <1>15

\* After i rows the edges of any set of keys carry the amounts of the rows with these keys.
LEMMA EdgesGathered ==
    ASSUME NEW rows, Counted(rows), NEW ms
    PROVE  \A i \in 0 .. Len(rows) : Gathered(EdgesOf(rows, ms)[i], rows, ms, i)
<1> DEFINE n == Len(rows)
           E(i) == EdgesOf(rows, ms)[i]
           T == {i \in Nat : i <= n => Gathered(E(i), rows, ms, i)}
<1>1. n \in Nat /\ E(0) = Nothing
      /\ \A i \in 1 .. n : E(i) = EdgeOf(E(i - 1), rows[i], ms[i].s, ms[i].d)
  BY EdgesAre DEF Counted
<1>2. \A i \in 0 .. n : Keyed(E(i), ms, i)
  BY EdgesKeyed
<1> HIDE DEF E
<1>3. 0 \in T
  <2>1. DOMAIN E(0) = {}
    BY <1>1 DEF Nothing
  <2>2. \A K : K \cap DOMAIN E(0) = {} /\ RowsInto(ms, 0, K) = {}
    BY <2>1 DEF RowsInto
  <2>3. IsFiniteSet(DOMAIN E(0))
    BY <2>1, FS_EmptySet
  <2>4. \A K : \A field \in Fields : SumFunctionOnSet(Column(E(0), field), K \cap DOMAIN E(0))
                                   = SumFunctionOnSet(Column(rows, field), RowsInto(ms, 0, K))
    BY <2>2, SumOfNone
  <2> QED
    BY <2>3, <2>4 DEF Gathered
<1>4. ASSUME NEW i \in Nat, i \in T
      PROVE  i + 1 \in T
  <2> SUFFICES ASSUME i + 1 <= n
               PROVE  Gathered(E(i + 1), rows, ms, i + 1)
    OBVIOUS
  <2>1. PICK j \in 1 .. n : j = i + 1 /\ j - 1 = i /\ i \in 0 .. n /\ j \in 0 .. n
    BY <1>1
  <2>2. PICK e : e = E(i) /\ Gathered(e, rows, ms, i) /\ Keyed(e, ms, i)
    BY <1>2, <1>4, <2>1
  <2>3. PICK h : h = E(j) /\ Keyed(h, ms, j)
    BY <1>2, <2>1
  <2>4. h = EdgeOf(e, rows[j], ms[j].s, ms[j].d)
    BY <1>1, <2>1, <2>2, <2>3
  <2>5. CASE ~Joined(ms[j])
    <3>1. h = e
      BY <2>4, <2>5 DEF EdgeOf, Joined
    <3>2. \A K : RowsInto(ms, j, K) = RowsInto(ms, i, K)
      <4>1. 1 .. j = (1 .. i) \cup {j}
        BY <2>1
      <4> QED
        BY <2>5, <4>1 DEF RowsInto
    <3> QED
      BY <2>1, <2>2, <2>3, <3>1, <3>2 DEF Gathered
  <2>6. CASE Joined(ms[j])
    <3>1. PICK k : k = KeyOf(ms[j])
      OBVIOUS
    <3>2. PICK old : old = Get(e, k, EmptyEdge)
      OBVIOUS
    <3>3. PICK new : new = EdgeAggAdd(old, rows[j], ms[j].s, ms[j].d)
      OBVIOUS
    <3>4. h = Put(e, k, new)
      BY <2>4, <2>6, <3>1, <3>2, <3>3 DEF EdgeOf, Joined, KeyOf
    <3>5. DOMAIN h = DOMAIN e \cup {k} /\ h[k] = new /\ \A x \in DOMAIN e : x # k => h[x] = e[x]
      BY <3>4 DEF Put
    <3>6. \A field \in Fields : old[field] = IF k \in DOMAIN e THEN e[k][field] ELSE 0
      BY <3>2, EmptyAmounts DEF Get
    <3>7. \A field \in Fields : h[k][field] = old[field] + rows[j][field]
      BY <3>3, <3>5, AmountsAdd
    <3>8. Amounts(h[k]) /\ \A x \in DOMAIN e : Amounts(e[x])
      BY <2>2, <2>3, <3>5 DEF Keyed
    <3>9. Grown(h, e, KeyOf(ms[j]), rows[j])
      BY <3>1, <3>5, <3>6, <3>7, <3>8 DEF Grown
    <3>10. Gathered(e, rows, ms, j - 1)
      BY <2>1, <2>2
    <3>11. \A field \in Fields : \A K :
              SumFunctionOnSet(Column(h, field), K \cap DOMAIN h)
                 = SumFunctionOnSet(Column(rows, field), RowsInto(ms, j, K))
      BY <2>6, <3>9, <3>10, RowGathered
    <3>12. IsFiniteSet(DOMAIN h)
      BY <2>2, <3>5, FS_AddElement DEF Gathered
    <3>13. Gathered(h, rows, ms, j)
      BY <3>11, <3>12 DEF Gathered
    <3> QED
      BY <2>1, <2>3, <3>13
  <2> QED
    BY <2>5, <2>6
<1>5. Nat \subseteq T
  <2> HIDE DEF T
  <2> QED
    BY <1>3, <1>4, NatInd
<1> QED
  BY <1>1, <1>5 DEF E

-----------------------------------------------------------------------------
(* The lines of the edges *)

\* An edge is one line with what the edge carries, or two that share it.
Parts(e, l, m) ==
    /\ \A field \in Fields : l[field] \in Int /\ m[field] \in Int
    /\ \A field \in Fields \ {"count"} : l[field] + m[field] = e[field]
    /\ l["count"] \in Nat /\ m["count"] \in Nat /\ l["count"] + m["count"] <= e["count"]
EndsOfEdge(l, e) == l.src = e.src /\ l.dst = e.dst

\* makeLine and ToLines: a mixed edge is split into an allowed and a blocked line.
LEMMA LinesShare ==
    ASSUME NEW e, Amounts(e)
    PROVE  \/ \E l : ToLines(e) = {l} /\ EndsOfEdge(l, e) /\ \A field \in Fields : l[field] = e[field]
           \/ \E l, m : ToLines(e) = {l, m} /\ l # m /\ EndsOfEdge(l, e) /\ EndsOfEdge(m, e) /\ Parts(e, l, m)
<1>1. PICK c \in Nat \ {0}, a \in Nat, b \in Nat, y \in Nat :
        c = e.count /\ a = e.allowed /\ b = e.blocked /\ y = e.bytes /\ a + b <= c
  BY DEF Amounts
<1>2. PICK p \in Int : p = y * a
  OBVIOUS
<1>3. PICK share \in Int : share = p \div c
  BY <1>1
<1>4. CASE ~(e.blocked > 0 /\ e.allowed > 0)
  <2>1. PICK l : l = makeLine(e, Status(e), e.count, e.allowed, e.blocked, e.bytes)
    OBVIOUS
  <2>2. ToLines(e) = {l}
    BY <1>4, <2>1 DEF ToLines
  <2>3. /\ EndsOfEdge(l, e) /\ l["count"] = e["count"] /\ l["allowed"] = e["allowed"]
        /\ l["blocked"] = e["blocked"] /\ l["bytes"] = e["bytes"]
    BY <2>1 DEF makeLine, EndsOfEdge
  <2> QED
    BY <2>2, <2>3, Zenon DEF Fields
<1>5. CASE e.blocked > 0 /\ e.allowed > 0
  <2>1. PICK l : l = makeLine(e, "allowed", a, a, 0, share)
    OBVIOUS
  <2>2. PICK m : m = makeLine(e, "blocked", b, 0, b, y - share)
    OBVIOUS
  <2>3. (e.bytes * e.allowed) \div e.count = share
    BY <1>1, <1>2, <1>3
  <2>4. ToLines(e) = {l, m}
    BY <1>1, <1>5, <2>1, <2>2, <2>3 DEF ToLines
  <2>5. /\ l["count"] = a /\ l["allowed"] = a /\ l["blocked"] = 0 /\ l["bytes"] = share
        /\ EndsOfEdge(l, e) /\ l.status = "allowed"
    BY <2>1 DEF makeLine, EndsOfEdge
  <2>6. /\ m["count"] = b /\ m["allowed"] = 0 /\ m["blocked"] = b /\ m["bytes"] = y - share
        /\ EndsOfEdge(m, e) /\ m.status = "blocked"
    BY <2>2 DEF makeLine, EndsOfEdge
  <2>7. l # m
    BY <2>5, <2>6
  <2>8. e["count"] = c /\ e["allowed"] = a /\ e["blocked"] = b /\ e["bytes"] = y
    BY <1>1
  <2>9. \A field \in Fields : l[field] \in Int /\ m[field] \in Int
    BY <2>5, <2>6 DEF Fields
  <2>10. /\ l["allowed"] + m["allowed"] = e["allowed"] /\ l["blocked"] + m["blocked"] = e["blocked"]
         /\ l["bytes"] + m["bytes"] = e["bytes"] /\ l["count"] + m["count"] <= e["count"]
    BY <1>1, <2>5, <2>6, <2>8
  <2>11. \A field \in Fields \ {"count"} : l[field] + m[field] = e[field]
    BY <2>10, Zenon DEF Fields
  <2>12. l["count"] \in Nat /\ m["count"] \in Nat
    BY <2>5, <2>6
  <2> QED
    BY <2>4, <2>5, <2>6, <2>7, <2>9, <2>10, <2>11, <2>12 DEF Parts
<1> QED
  BY <1>4, <1>5

\* What the lines of an edge carry together.
Carried(L, e, f, field) ==
    /\ Numbers(f, L)
    /\ field # "count" => SumFunctionOnSet(f, L) = e[field]
    /\ field = "count" => SumFunctionOnSet(f, L) <= e[field]

\* Sums over one and over two.
LEMMA SumOfTwo ==
    ASSUME NEW f, NEW l, NEW m, l # m, f[l] \in Int, f[m] \in Int
    PROVE  /\ Numbers(f, {l}) /\ SumFunctionOnSet(f, {l}) = f[l]
           /\ Numbers(f, {l, m}) /\ SumFunctionOnSet(f, {l, m}) = f[l] + f[m]
<1>1. {} \cup {l} = {l} /\ {l} \cup {m} = {l, m}
  OBVIOUS
<1>2. IsFiniteSet({l})
  BY FS_Singleton, Zenon
<1>3. IsFiniteSet({l, m})
  BY <1>1, <1>2, FS_AddElement
<1>4. IsFiniteSet({})
  BY FS_EmptySet
<1>5. Numbers(f, {}) /\ Numbers(f, {l}) /\ Numbers(f, {l, m})
  BY <1>2, <1>3, <1>4 DEF Numbers
<1>6. SumFunctionOnSet(f, {l}) = f[l] + SumFunctionOnSet(f, {})
  BY <1>5, <1>1, SumWith
<1>7. SumFunctionOnSet(f, {l, m}) = f[m] + SumFunctionOnSet(f, {l})
  BY <1>5, <1>1, SumWith
<1> QED
  BY <1>5, <1>6, <1>7, SumOfNone

\* The lines of an edge carry its bytes and verdicts, and no more events than it has.
LEMMA LinesCarry ==
    ASSUME NEW e, Amounts(e), NEW field \in Fields, NEW f, \A l \in ToLines(e) : f[l] = l[field]
    PROVE  Carried(ToLines(e), e, f, field)
<1>1. e[field] \in Nat
  BY AmountsAre
<1>2. CASE \E l : ToLines(e) = {l} /\ EndsOfEdge(l, e) /\ \A g \in Fields : l[g] = e[g]
  <2>1. PICK l : ToLines(e) = {l} /\ l[field] = e[field]
    BY <1>2
  <2>2. f[l] = e[field]
    BY <2>1
  <2>3. SumFunctionOnSet(f, {l}) = f[l] /\ Numbers(f, {l})
    <3>1. IsFiniteSet({l})
      BY FS_Singleton, Zenon
    <3>2. IsFiniteSet({})
      BY FS_EmptySet
    <3>3. Numbers(f, {}) /\ Numbers(f, {l})
      BY <1>1, <2>2, <3>1, <3>2 DEF Numbers
    <3>4. {} \cup {l} = {l} /\ f[l] \in Int
      BY <1>1, <2>2
    <3>5. SumFunctionOnSet(f, {} \cup {l}) = f[l] + SumFunctionOnSet(f, {})
      BY <3>3, <3>4, SumWith
    <3> QED
      BY <3>3, <3>4, <3>5, SumOfNone
  <2> QED
    BY <1>1, <2>1, <2>2, <2>3 DEF Carried
<1>3. CASE \E l, m : ToLines(e) = {l, m} /\ l # m /\ EndsOfEdge(l, e) /\ EndsOfEdge(m, e) /\ Parts(e, l, m)
  <2>1. PICK l, m : ToLines(e) = {l, m} /\ l # m /\ Parts(e, l, m)
    BY <1>3
  <2>2. f[l] = l[field] /\ f[m] = m[field] /\ f[l] \in Int /\ f[m] \in Int
    BY <2>1 DEF Parts
  <2>3. Numbers(f, {l, m}) /\ SumFunctionOnSet(f, {l, m}) = f[l] + f[m]
    BY <2>1, <2>2, SumOfTwo
  <2>4. /\ field # "count" => l[field] + m[field] = e[field]
        /\ field = "count" => l[field] + m[field] <= e[field]
    BY <2>1 DEF Parts
  <2> QED
    BY <2>1, <2>2, <2>3, <2>4 DEF Carried
<1> QED
  BY <1>2, <1>3, LinesShare, Zenon

\* An edge has a line, and its lines have its ends.
LEMMA LinesEnds ==
    ASSUME NEW e, Amounts(e)
    PROVE  ToLines(e) # {} /\ \A l \in ToLines(e) : EndsOfEdge(l, e) /\ l.count \in Nat
<1>1. e["count"] \in Nat
  BY DEF Amounts
<1>2. CASE \E l : ToLines(e) = {l} /\ EndsOfEdge(l, e) /\ \A g \in Fields : l[g] = e[g]
  <2>1. "count" \in Fields
    BY DEF Fields
  <2>2. PICK l : ToLines(e) = {l} /\ EndsOfEdge(l, e) /\ l["count"] = e["count"]
    BY <1>2, <2>1
  <2> QED
    BY <1>1, <2>2
<1>3. CASE \E l, m : ToLines(e) = {l, m} /\ l # m /\ EndsOfEdge(l, e) /\ EndsOfEdge(m, e) /\ Parts(e, l, m)
  BY <1>3 DEF Parts
<1> QED
  BY <1>2, <1>3, LinesShare, Zenon

-----------------------------------------------------------------------------
(* The points *)

\* The rows with an end at k.
AtEnd(m, k) == k \in {m.s.key, m.d.key}
Touching(ms, i, k) == {j \in 1 .. i : AtEnd(ms[j], k)}

\* What the first i rows make of the points.
Pointed(points, rows, ms, active, i) ==
    /\ DOMAIN points = {k \in active : Touching(ms, i, k) # {}}
    /\ \A k \in DOMAIN points : /\ points[k].count \in Nat
                                /\ SumFunctionOnSet(Column(rows, "count"), Touching(ms, i, k)) <= points[k].count

\* One end of a row.
CountAt(points, k) == IF k \in DOMAIN points THEN points[k].count ELSE 0

\* Points of active keys, and what becomes of them with an end of a row more.
Countable(points, active) == DOMAIN points \subseteq active /\ \A k \in DOMAIN points : points[k].count \in Nat
Ended(w, v, active, m, c) ==
    /\ DOMAIN w = DOMAIN v \cup ({m.key} \cap active)
    /\ \A k \in DOMAIN w : /\ w[k].count \in Nat
                           /\ w[k].count = CountAt(v, k) + (IF k = m.key THEN c ELSE 0)

\* PointOf counts the events of a row at one end of it.
LEMMA OneEnd ==
    ASSUME NEW c \in Nat, NEW v, NEW active, Countable(v, active), NEW m
    PROVE  Ended(PointOf(v, active, m, c), v, active, m, c)
<1> DEFINE w == PointOf(v, active, m, c)
<1>1. \A k \in DOMAIN v : k \in active /\ v[k].count \in Nat
  BY DEF Countable
<1> SUFFICES /\ DOMAIN w = DOMAIN v \cup ({m.key} \cap active)
             /\ \A k \in DOMAIN w : /\ w[k].count \in Nat
                                    /\ w[k].count = CountAt(v, k) + (IF k = m.key THEN c ELSE 0)
  BY DEF Ended
<1>2. CASE m.key \notin active
  <2>1. w = v
    BY <1>2 DEF PointOf
  <2>2. DOMAIN w = DOMAIN v \cup ({m.key} \cap active)
    BY <1>2, <2>1
  <2> QED
    BY <1>2, <1>1, <2>1, <2>2 DEF CountAt
<1>3. CASE m.key \in active
  <2>1. PICK old : old = Get(v, m.key, EmptyNode)
    OBVIOUS
  <2>2. PICK new : new = NodeAggAdd(old, m, c)
    OBVIOUS
  <2>3. w = Put(v, m.key, new)
    BY <1>3, <2>1, <2>2 DEF PointOf
  <2>4. /\ DOMAIN w = DOMAIN v \cup {m.key} /\ w[m.key] = new
        /\ \A x \in DOMAIN v : x # m.key => w[x] = v[x]
    BY <2>3 DEF Put
  <2>5. old.count = CountAt(v, m.key) /\ old.count \in Nat
    BY <1>1, <2>1 DEF Get, EmptyNode, CountAt
  <2>6. new.count = old.count + c
    BY <2>2 DEF NodeAggAdd
  <2>7. DOMAIN w = DOMAIN v \cup ({m.key} \cap active)
    BY <1>3, <2>4
  <2>8. ASSUME NEW k \in DOMAIN w
        PROVE  w[k].count \in Nat /\ w[k].count = CountAt(v, k) + (IF k = m.key THEN c ELSE 0)
    <3>1. CASE k = m.key
      BY <2>4, <2>5, <2>6, <3>1
    <3>2. CASE k # m.key
      <4>1. k \in DOMAIN v /\ w[k] = v[k] /\ v[k].count \in Nat
        BY <1>1, <2>4, <3>2
      <4> QED
        BY <3>2, <4>1 DEF CountAt
    <3> QED
      BY <3>1, <3>2
  <2> QED
    BY <2>7, <2>8
<1> QED
  BY <1>2, <1>3

\* After i rows there is a point for each active key that they touch, with their events.
LEMMA PointsCount ==
    ASSUME NEW rows, Counted(rows), NEW ms, NEW active
    PROVE  \A i \in 0 .. Len(rows) : Pointed(PointsOf(rows, ms, active)[i], rows, ms, active, i)
<1> DEFINE n == Len(rows)
           E(i) == PointsOf(rows, ms, active)[i]
           T == {i \in Nat : i <= n => Pointed(E(i), rows, ms, active, i)}
<1>1. /\ n \in Nat /\ E(0) = Nothing
      /\ \A i \in 1 .. n : E(i) = PointOf(PointOf(E(i - 1), active, ms[i].s, rows[i].count), active, ms[i].d, rows[i].count)
  BY PointsAre DEF Counted
<1>2. \A i \in 1 .. n : rows[i].count \in Nat
  BY DEF Counted, Amounts
<1>3. PICK C : C = Column(rows, "count")
  OBVIOUS
<1>4. \A i \in 1 .. n : C[i] = rows[i].count /\ C[i] \in Nat
  BY <1>2, <1>3 DEF Column, Counted
<1> HIDE DEF E
<1>5. 0 \in T
  <2>1. DOMAIN E(0) = {}
    BY <1>1 DEF Nothing
  <2>2. \A k : Touching(ms, 0, k) = {}
    BY DEF Touching
  <2> QED
    BY <2>1, <2>2 DEF Pointed
<1>6. ASSUME NEW i \in Nat, i \in T
      PROVE  i + 1 \in T
  <2> SUFFICES ASSUME i + 1 <= n
               PROVE  Pointed(E(i + 1), rows, ms, active, i + 1)
    OBVIOUS
  <2>1. PICK j \in 1 .. n : j = i + 1 /\ j - 1 = i /\ i \in 0 .. n /\ 1 .. j = (1 .. i) \cup {j} /\ j \notin 1 .. i
    BY <1>1
  <2>2. PICK v : v = E(i) /\ Pointed(v, rows, ms, active, i)
    BY <1>1, <1>6, <2>1
  <2>3. PICK c \in Nat : c = rows[j].count /\ c = C[j]
    BY <1>2, <1>4
  <2>4. PICK s, d : s = ms[j].s /\ d = ms[j].d
    OBVIOUS
  <2>5. PICK u : u = PointOf(v, active, s, c)
    OBVIOUS
  <2>6. PICK w : w = PointOf(u, active, d, c)
    OBVIOUS
  <2>7. E(j) = w
    BY <1>1, <2>1, <2>2, <2>3, <2>4, <2>5, <2>6
  <2>8. /\ DOMAIN u = DOMAIN v \cup ({s.key} \cap active)
        /\ \A k \in DOMAIN u : u[k].count \in Nat /\ u[k].count = CountAt(v, k) + (IF k = s.key THEN c ELSE 0)
    <3>1. Countable(v, active)
      BY <2>2 DEF Pointed, Countable
    <3>2. Ended(u, v, active, s, c)
      BY <2>5, <3>1, OneEnd
    <3> QED
      BY <3>2 DEF Ended
  <2>9. /\ DOMAIN w = DOMAIN u \cup ({d.key} \cap active)
        /\ \A k \in DOMAIN w : w[k].count \in Nat /\ w[k].count = CountAt(u, k) + (IF k = d.key THEN c ELSE 0)
    <3>1. Countable(u, active)
      BY <2>2, <2>8 DEF Pointed, Countable
    <3>2. Ended(w, u, active, d, c)
      BY <2>6, <3>1, OneEnd
    <3> QED
      BY <3>2 DEF Ended
  <2>10. \A k : Touching(ms, j, k) = IF k \in {s.key, d.key} THEN Touching(ms, i, k) \cup {j} ELSE Touching(ms, i, k)
    BY <2>1, <2>4 DEF Touching, AtEnd
  <2>11. DOMAIN w = {k \in active : Touching(ms, j, k) # {}}
    BY <2>2, <2>8, <2>9, <2>10 DEF Pointed
  <2>12. ASSUME NEW k \in DOMAIN w
         PROVE  SumFunctionOnSet(C, Touching(ms, j, k)) <= w[k].count
    <3>1. PICK Q : Q = Touching(ms, i, k)
      OBVIOUS
    <3>2. Numbers(C, Q)
      <4>1. IsFiniteSet(1 .. i) /\ Q \in SUBSET (1 .. i)
        BY <3>1, FS_Interval DEF Touching
      <4>2. IsFiniteSet(Q)
        BY <4>1, FS_Subset
      <4> QED
        BY <1>4, <2>1, <4>1, <4>2 DEF Numbers
    <3>3. PICK a \in Int : a = SumFunctionOnSet(C, Q)
      BY <3>2, SumTyped
    <3>4. PICK o \in Nat : o = CountAt(v, k) /\ a <= o
      <4>1. CASE k \in DOMAIN v
        BY <1>3, <2>2, <3>1, <3>3, <4>1 DEF Pointed, CountAt
      <4>2. CASE k \notin DOMAIN v
        <5>1. k \in active
          BY <2>11
        <5>2. Q = {}
          BY <2>2, <3>1, <4>2, <5>1 DEF Pointed
        <5> QED
          BY <3>3, <4>2, <5>2, SumOfNone DEF CountAt
      <4> QED
        BY <4>1, <4>2
    <3>5. PICK p \in Nat : p = CountAt(u, k) /\ p = o + (IF k = s.key THEN c ELSE 0)
      <4>1. CASE k \in DOMAIN u
        BY <2>8, <3>4, <4>1 DEF CountAt
      <4>2. CASE k \notin DOMAIN u
        <5>1. k \in active
          BY <2>11
        <5>2. k \notin DOMAIN v /\ k # s.key
          BY <2>8, <4>2, <5>1
        <5> QED
          BY <3>4, <4>2, <5>2 DEF CountAt
      <4> QED
        BY <4>1, <4>2
    <3>6. w[k].count = p + (IF k = d.key THEN c ELSE 0)
      BY <2>9, <3>5
    <3>7. CASE k \notin {s.key, d.key}
      <4>1. Touching(ms, j, k) = Q
        BY <2>10, <3>1, <3>7
      <4>2. w[k].count = o
        BY <3>4, <3>5, <3>6, <3>7
      <4> QED
        BY <3>3, <3>4, <4>1, <4>2
    <3>8. CASE k \in {s.key, d.key}
      <4>1. Touching(ms, j, k) = Q \cup {j} /\ j \notin Q
        BY <2>1, <2>10, <3>1, <3>8 DEF Touching
      <4>2. SumFunctionOnSet(C, Q \cup {j}) = c + a
        <5>1. C[j] \in Int /\ j \notin Q
          BY <2>3, <4>1
        <5> QED
          BY <2>3, <3>2, <3>3, <5>1, SumWith
      <4>3. w[k].count >= o + c
        BY <3>4, <3>5, <3>6, <3>8
      <4>4. w[k].count \in Nat
        BY <2>9
      <4> QED
        BY <3>4, <4>1, <4>2, <4>3, <4>4
    <3> QED
      BY <3>7, <3>8
  <2> QED
    BY <1>3, <2>1, <2>7, <2>9, <2>11, <2>12 DEF Pointed
<1>7. Nat \subseteq T
  <2> HIDE DEF T
  <2> QED
    BY <1>5, <1>6, NatInd
<1> QED
  BY <1>1, <1>7 DEF E

-----------------------------------------------------------------------------
(* Lines and points drawn *)

LinesAt(edges, Q) == UNION {ToLines(edges[q]) : q \in Q}

\* The edges of all rows.
WholeEdges(edges, rows, ms) ==
    Keyed(edges, ms, Len(rows)) /\ Gathered(edges, rows, ms, Len(rows))

\* Every edge has a weight, so each is drawn.
LEMMA AllLines ==
    ASSUME NEW edges, NEW ms, NEW n, Keyed(edges, ms, n)
    PROVE  LinesOf(edges) = LinesAt(edges, DOMAIN edges)
<1>1. \A k \in DOMAIN edges : edges[k].weight > 0
  BY DEF Keyed, Amounts
<1>2. {k \in DOMAIN edges : edges[k].weight > 0} = DOMAIN edges
  BY <1>1
<1> QED
  BY <1>2 DEF LinesOf, LinesAt

\* A line of an edge has the ends of the rows that made it.
LEMMA EndsOfLines ==
    ASSUME NEW edges, NEW ms, NEW n, Keyed(edges, ms, n), NEW q \in DOMAIN edges
    PROVE  /\ Amounts(edges[q]) /\ ToLines(edges[q]) # {}
           /\ \A l \in ToLines(edges[q]) : q = <<l.src, l.dst>>
           /\ \E j \in 1 .. n : Joined(ms[j]) /\ q = KeyOf(ms[j])
<1>1. PICK j \in 1 .. n : Joined(ms[j]) /\ q = KeyOf(ms[j])
  BY DEF Keyed
<1>2. PICK a, b : q = <<a, b>>
  BY <1>1 DEF KeyOf
<1>3. Amounts(edges[q]) /\ edges[q].src = a /\ edges[q].dst = b
  BY <1>2 DEF Keyed
<1> QED
  BY <1>1, <1>2, <1>3, LinesEnds DEF EndsOfEdge

\* Lines of some edges carry what the rows of those edges had; of events no more,
\* because a mixed edge counts only its verdicts.
LEMMA LinesSum ==
    ASSUME NEW rows, Counted(rows), NEW ms, NEW edges, WholeEdges(edges, rows, ms),
           NEW Q \in SUBSET DOMAIN edges, NEW field \in Fields, NEW L, L = LinesAt(edges, Q)
    PROVE  /\ Total(L, field) \in Int /\ IsFiniteSet(L)
           /\ field # "count" => Total(L, field) = SumFunctionOnSet(Column(rows, field), RowsInto(ms, Len(rows), Q))
           /\ field = "count" => Total(L, field) <= SumFunctionOnSet(Column(rows, field), RowsInto(ms, Len(rows), Q))
<1>1. PICK n : n = Len(rows)
  OBVIOUS
<1>2. Keyed(edges, ms, n) /\ Gathered(edges, rows, ms, n)
  BY <1>1 DEF WholeEdges
<1>3. IsFiniteSet(Q)
  BY <1>2, FS_Subset DEF Gathered
<1>4. PICK f : f = [l \in L |-> l[field]]
  OBVIOUS
<1>5. PICK A : A = [q \in Q |-> ToLines(edges[q])]
  OBVIOUS
<1>6. PICK g : g = [q \in Q |-> SumFunctionOnSet(f, A[q])]
  OBVIOUS
<1>7. PICK C : C = Column(edges, field)
  OBVIOUS
<1>8. L = UNION {A[q] : q \in Q}
  BY <1>5 DEF LinesAt
<1>9. ASSUME NEW q \in Q
      PROVE  /\ Numbers(f, A[q]) /\ g[q] = SumFunctionOnSet(f, A[q]) /\ C[q] \in Int
             /\ (field # "count" => g[q] = C[q]) /\ (field = "count" => g[q] <= C[q])
  <2>1. PICK e : e = edges[q]
    OBVIOUS
  <2>2. Amounts(e)
    BY <1>2, <2>1 DEF Keyed
  <2>3. A[q] = ToLines(e) /\ A[q] \subseteq L
    BY <1>5, <1>8, <2>1
  <2>4. \A l \in ToLines(e) : f[l] = l[field]
    BY <1>4, <2>3
  <2>5. Carried(ToLines(e), e, f, field)
    BY <2>2, <2>4, LinesCarry
  <2>6. g[q] = SumFunctionOnSet(f, ToLines(e))
    BY <1>6, <2>3
  <2>7. C[q] = e[field]
    BY <1>7, <2>1 DEF Column
  <2>8. e[field] \in Nat
    BY <2>2, AmountsAre
  <2> QED
    BY <2>3, <2>5, <2>6, <2>7, <2>8 DEF Carried
<1>10. \A j, k \in Q : j # k => A[j] \cap A[k] = {}
  <2>1. \A q \in Q : \A l \in A[q] : q = <<l.src, l.dst>>
    BY <1>2, <1>5, EndsOfLines
  <2> QED
    BY <2>1
<1>11. /\ Numbers(f, L) /\ Numbers(g, Q)
       /\ SumFunctionOnSet(f, L) = SumFunctionOnSet(g, Q)
  <2>1. Summed(f, g, Q, A)
    BY <1>9 DEF Summed
  <2>2. Parted(L, Q, A)
    BY <1>3, <1>8, <1>10 DEF Parted
  <2> QED
    BY <2>1, <2>2, SumOfUnion
<1>12. Total(L, field) = SumFunctionOnSet(g, Q)
  BY <1>4, <1>11 DEF Total
<1>13. Total(L, field) \in Int /\ IsFiniteSet(L)
  BY <1>11, <1>12, SumTyped DEF Numbers
<1>14. SumFunctionOnSet(C, Q) = SumFunctionOnSet(Column(rows, field), RowsInto(ms, n, Q))
  <2>1. Q \cap DOMAIN edges = Q
    OBVIOUS
  <2> QED
    BY <1>2, <1>7, <2>1 DEF Gathered
<1>15. Numbers(C, Q)
  BY <1>3, <1>9 DEF Numbers
<1>16. CASE field # "count"
  <2>1. \A q \in Q : g[q] = C[q]
    BY <1>9, <1>16
  <2>2. SumFunctionOnSet(g, Q) = SumFunctionOnSet(C, Q)
    BY <1>11, <2>1, SumSame
  <2> QED
    BY <1>1, <1>12, <1>14, <1>16, <1>13, <2>2
<1>17. CASE field = "count"
  <2>1. \A q \in Q : g[q] <= C[q]
    BY <1>9, <1>17
  <2>2. SumFunctionOnSet(g, Q) <= SumFunctionOnSet(C, Q)
    BY <1>11, <1>15, <2>1, SumGrows
  <2> QED
    BY <1>1, <1>12, <1>14, <1>17, <1>13, <2>2
<1> QED
  BY <1>16, <1>17

\* The nodes that points are made of are those of the edges, wherever a row is part
\* of an edge.
SameEnds(ms, later, n) ==
    \A j \in 1 .. n : Joined(ms[j]) => later[j].s.key = ms[j].s.key /\ later[j].d.key = ms[j].d.key

\* A map whose points and lines can be counted.
MapCounted(map) ==
    /\ IsFiniteSet(map.lines) /\ \A l \in map.lines : l["count"] \in Nat
    /\ \A k \in DOMAIN map.points : map.points[k].count \in Nat
Sound(map) == EndsArePoints(map) /\ PointsCarryLines(map) /\ MapCounted(map)

\* The points of edges are the ends of their lines, and count at least as much.
THEOREM DrawnAsCounted ==
    ASSUME NEW rows, Counted(rows), NEW ms, NEW later, SameEnds(ms, later, Len(rows)),
           NEW edges, edges = EdgesOf(rows, ms)[Len(rows)], NEW map, map = Drawn(edges, rows, later)
    PROVE  /\ Sound(map)
           /\ (\A j \in 1 .. Len(rows) : Joined(ms[j])) => NothingLost(map, rows)
<1>1. PICK n \in Nat : n = Len(rows) /\ DOMAIN rows = 1 .. n /\ n \in 0 .. n
  <2>1. Len(rows) \in Nat /\ DOMAIN rows = 1 .. Len(rows)
    BY DEF Counted
  <2>2. \A m \in Nat : m \in 0 .. m
    OBVIOUS
  <2> QED
    BY <2>1, <2>2
<1>2. Keyed(edges, ms, n) /\ Gathered(edges, rows, ms, n) /\ WholeEdges(edges, rows, ms)
  BY <1>1, EdgesKeyed, EdgesGathered DEF WholeEdges
<1>3. PICK lines : lines = LinesOf(edges)
  OBVIOUS
<1>4. PICK active : active = EndsOf(lines)
  OBVIOUS
<1>5. PICK points : points = PointsOf(rows, later, active)[n]
  OBVIOUS
<1>6. map.lines = lines /\ map.points = points
  BY <1>1, <1>3, <1>4, <1>5 DEF Drawn
<1>7. Pointed(points, rows, later, active, n)
  BY <1>1, <1>5, PointsCount
<1>8. lines = LinesAt(edges, DOMAIN edges)
  BY <1>2, <1>3, AllLines
<1>9. ASSUME NEW k \in active
      PROVE  Touching(later, n, k) # {}
  <2>1. PICK l \in lines : k = l.src \/ k = l.dst
    BY <1>4 DEF EndsOf
  <2>2. PICK q \in DOMAIN edges : l \in ToLines(edges[q])
    BY <1>8 DEF LinesAt
  <2>3. PICK j \in 1 .. n : Joined(ms[j]) /\ <<l.src, l.dst>> = KeyOf(ms[j])
    BY <1>2, <2>2, EndsOfLines
  <2>4. l.src = later[j].s.key /\ l.dst = later[j].d.key
    BY <1>1, <2>3 DEF KeyOf, SameEnds
  <2> QED
    BY <2>1, <2>4 DEF Touching, AtEnd
<1>10. DOMAIN points = active
  BY <1>7, <1>9 DEF Pointed
<1>11. EndsArePoints(map)
  BY <1>4, <1>6, <1>10 DEF EndsArePoints
<1>12. PICK C : C = Column(rows, "count")
  OBVIOUS
<1>13. \A j \in 1 .. n : C[j] \in Nat
  BY <1>1, <1>12 DEF Column, Counted, Amounts
<1>14. ASSUME NEW k \in DOMAIN points
       PROVE  points[k].count >= Total({l \in lines : k \in {l.src, l.dst}}, "count")
  <2>1. PICK Q : Q = {q \in DOMAIN edges : k \in {q[1], q[2]}}
    OBVIOUS
  <2>2. PICK L : L = {l \in lines : k \in {l.src, l.dst}}
    OBVIOUS
  <2>3. L = LinesAt(edges, Q)
    <3>1. \A q \in DOMAIN edges : \A l \in ToLines(edges[q]) : q[1] = l.src /\ q[2] = l.dst
      BY <1>2, EndsOfLines
    <3> QED
      BY <1>8, <2>1, <2>2, <3>1 DEF LinesAt
  <2>4. "count" \in Fields /\ Q \in SUBSET DOMAIN edges
    BY <2>1 DEF Fields
  <2>5. Total(L, "count") <= SumFunctionOnSet(C, RowsInto(ms, n, Q))
    BY <1>1, <1>2, <1>12, <2>3, <2>4, LinesSum
  <2>6. PICK R : R = RowsInto(ms, n, Q)
    OBVIOUS
  <2>7. PICK S : S = Touching(later, n, k)
    OBVIOUS
  <2>8. R \in SUBSET S
    <3> SUFFICES ASSUME NEW j \in R
                 PROVE  j \in S
      OBVIOUS
    <3>1. j \in 1 .. n /\ Joined(ms[j]) /\ KeyOf(ms[j]) \in Q
      BY <2>6 DEF RowsInto
    <3>2. k \in {ms[j].s.key, ms[j].d.key}
      BY <2>1, <3>1 DEF KeyOf
    <3>3. later[j].s.key = ms[j].s.key /\ later[j].d.key = ms[j].d.key
      BY <1>1, <3>1 DEF SameEnds
    <3> QED
      BY <2>7, <3>1, <3>2, <3>3 DEF Touching, AtEnd
  <2>9. IsFiniteSet(S) /\ S \in SUBSET (1 .. n)
    <3>1. S \in SUBSET (1 .. n) /\ IsFiniteSet(1 .. n)
      BY <2>7, FS_Interval DEF Touching
    <3> QED
      BY <3>1, FS_Subset
  <2>10. SumFunctionOnSet(C, R) \in Nat /\ SumFunctionOnSet(C, R) <= SumFunctionOnSet(C, S)
    <3>1. \A j \in S : C[j] \in Nat
      BY <1>13, <2>9
    <3> QED
      BY <2>8, <2>9, <3>1, SumOfPart
  <2>11. SumFunctionOnSet(C, S) <= points[k].count /\ points[k].count \in Nat
    BY <1>7, <1>12, <2>7 DEF Pointed
  <2>12. SumFunctionOnSet(C, S) \in Int
    <3>1. Numbers(C, S)
      BY <1>13, <2>9 DEF Numbers
    <3> QED
      BY <3>1, SumTyped
  <2>13. Total(L, "count") \in Int
    BY <1>1, <1>2, <1>12, <2>3, <2>4, LinesSum
  <2>14. PICK a \in Int, b \in Int, c \in Int, d \in Int :
            /\ a = Total(L, "count") /\ b = SumFunctionOnSet(C, R) /\ c = SumFunctionOnSet(C, S) /\ d = points[k].count
            /\ a <= b /\ b <= c /\ c <= d
    BY <2>5, <2>6, <2>10, <2>11, <2>12, <2>13
  <2> QED
    BY <2>2, <2>14
<1>15. PointsCarryLines(map)
  BY <1>6, <1>14 DEF PointsCarryLines
<1>16. ASSUME \A j \in 1 .. n : Joined(ms[j])
       PROVE  NothingLost(map, rows)
  <2>1. PICK D : D = DOMAIN edges
    OBVIOUS
  <2>2. RowsInto(ms, n, D) = 1 .. n
    <3>1. \A j \in 1 .. n : KeyOf(ms[j]) \in D
      BY <1>2, <1>16, <2>1 DEF Keyed
    <3> QED
      BY <1>16, <3>1 DEF RowsInto
  <2>3. ASSUME NEW field \in {"bytes", "allowed", "blocked"}
        PROVE  Total(map.lines, field) = SumFunction(Column(rows, field))
    <3>1. field \in Fields /\ field # "count"
      BY DEF Fields
    <3>2. Total(lines, field) = SumFunctionOnSet(Column(rows, field), RowsInto(ms, n, D))
      BY <1>1, <1>2, <1>8, <2>1, <3>1, LinesSum
    <3>3. DOMAIN Column(rows, field) = 1 .. n
      BY <1>1 DEF Column
    <3> QED
      BY <1>6, <2>2, <3>2, <3>3 DEF SumFunction
  <2> QED
    BY <2>3 DEF NothingLost
<1>17. MapCounted(map)
  <2>1. "count" \in Fields /\ DOMAIN edges \in SUBSET DOMAIN edges
    BY DEF Fields
  <2>2. IsFiniteSet(lines)
    BY <1>2, <1>8, <2>1, LinesSum
  <2>3. ASSUME NEW l \in lines
        PROVE  l["count"] \in Nat
    <3>1. PICK q \in DOMAIN edges : l \in ToLines(edges[q])
      BY <1>8 DEF LinesAt
    <3>2. Amounts(edges[q])
      BY <1>2 DEF Keyed
    <3>3. l.count \in Nat
      BY <3>1, <3>2, LinesEnds
    <3> QED
      BY <3>3
  <2>4. \A k \in DOMAIN points : points[k].count \in Nat
    BY <1>7 DEF Pointed
  <2> QED
    BY <1>6, <2>2, <2>3, <2>4 DEF MapCounted
<1> QED
  BY <1>1, <1>11, <1>15, <1>16, <1>17 DEF Sound

-----------------------------------------------------------------------------
(* The caches of nodes *)

\* A node with a position stays.
Stays(c, later) == \A ip \in DOMAIN c : c[ip].valid => ip \in DOMAIN later /\ later[ip] = c[ip]
BothStay(c, later) == Stays(c.src, later.src) /\ Stays(c.dst, later.dst)

\* metaFor: the node of an address is cached, and one with a position is not replaced.
LEMMA CachedStays ==
    ASSUME NEW ip, NEW c, NEW m
    PROVE  /\ Stays(c, Cached(ip, c, m))
           /\ ip \in DOMAIN Cached(ip, c, m)
           /\ m.valid => Cached(ip, c, m)[ip].valid
<1>1. CASE ip \in DOMAIN c /\ (c[ip].valid \/ ~m.valid)
  <2>1. Cached(ip, c, m) = c
    BY <1>1 DEF Cached
  <2> QED
    BY <1>1, <2>1 DEF Stays
<1>2. CASE ~(ip \in DOMAIN c /\ (c[ip].valid \/ ~m.valid))
  <2>1. Cached(ip, c, m) = Put(c, ip, m)
    BY <1>2 DEF Cached
  <2>2. /\ DOMAIN Put(c, ip, m) = DOMAIN c \cup {ip} /\ Put(c, ip, m)[ip] = m
        /\ \A x \in DOMAIN c : x # ip => Put(c, ip, m)[x] = c[x]
    BY DEF Put
  <2> QED
    BY <1>2, <2>1, <2>2 DEF Stays
<1> QED
  BY <1>1, <1>2

\* What stays stays on.
LEMMA StaysOn ==
    ASSUME NEW a, NEW b, NEW c, BothStay(a, b), BothStay(b, c)
    PROVE  BothStay(a, c)
BY DEF BothStay, Stays

\* What is in the caches after row i.
RowCached(c, row, group, nets) ==
    /\ row.src \in DOMAIN c.src /\ row.dst \in DOMAIN c.dst
    /\ resolveMeta(row.src, group, row.srcHint, nets).valid => c.src[row.src].valid
    /\ resolveMeta(row.dst, group, row.dstHint, nets).valid => c.dst[row.dst].valid

\* A row adds its ends to the caches and takes no position away.
LEMMA CachesStep ==
    ASSUME NEW caches, NEW rows, NEW group, NEW nets, Len(rows) \in Nat, NEW i \in 1 .. Len(rows)
    PROVE  /\ BothStay(CachesOf(caches, rows, group, nets)[i - 1], CachesOf(caches, rows, group, nets)[i])
           /\ RowCached(CachesOf(caches, rows, group, nets)[i], rows[i], group, nets)
<1>1. PICK c : c = CachesOf(caches, rows, group, nets)[i - 1]
  OBVIOUS
<1>2. PICK later : later = CachesOf(caches, rows, group, nets)[i]
  OBVIOUS
<1>3. PICK s, d : /\ s = resolveMeta(rows[i].src, group, rows[i].srcHint, nets)
                  /\ d = resolveMeta(rows[i].dst, group, rows[i].dstHint, nets)
  OBVIOUS
<1>4. later = [src |-> metaFor(rows[i].src, rows[i].srcHint, c.src, group, nets),
               dst |-> metaFor(rows[i].dst, rows[i].dstHint, c.dst, group, nets)]
  BY <1>1, <1>2, CachesAre
<1>5. later.src = Cached(rows[i].src, c.src, s) /\ later.dst = Cached(rows[i].dst, c.dst, d)
  BY <1>3, <1>4 DEF metaFor
<1>6. BothStay(c, later)
  BY <1>5, CachedStays DEF BothStay
<1>7. RowCached(later, rows[i], group, nets)
  BY <1>3, <1>5, CachedStays DEF RowCached
<1> QED
  BY <1>1, <1>2, <1>6, <1>7

\* Later rows neither.
LEMMA CachesStay ==
    ASSUME NEW caches, NEW rows, NEW group, NEW nets, Len(rows) \in Nat, NEW i \in 0 .. Len(rows)
    PROVE  \A j \in i .. Len(rows) :
              BothStay(CachesOf(caches, rows, group, nets)[i], CachesOf(caches, rows, group, nets)[j])
<1> DEFINE n == Len(rows)
           C(j) == CachesOf(caches, rows, group, nets)[j]
           T == {j \in Nat : i <= j /\ j <= n => BothStay(C(i), C(j))}
<1>1. \A j \in 1 .. n : BothStay(C(j - 1), C(j))
  BY CachesStep
<1> HIDE DEF C
<1>2. BothStay(C(i), C(i))
  BY DEF BothStay, Stays
<1>3. 0 \in T
  BY <1>2
<1>4. ASSUME NEW j \in Nat, j \in T
      PROVE  j + 1 \in T
  <2> SUFFICES ASSUME i <= j + 1, j + 1 <= n
               PROVE  BothStay(C(i), C(j + 1))
    OBVIOUS
  <2>1. CASE i = j + 1
    BY <1>2, <2>1
  <2>2. CASE i # j + 1
    <3>1. BothStay(C(i), C(j))
      BY <1>4, <2>2
    <3>2. j + 1 \in 1 .. n /\ (j + 1) - 1 = j
      OBVIOUS
    <3>3. BothStay(C(j), C(j + 1))
      BY <1>1, <3>2
    <3> QED
      BY <3>1, <3>3, StaysOn
  <2> QED
    BY <2>1, <2>2
<1>5. Nat \subseteq T
  <2> HIDE DEF T
  <2> QED
    BY <1>3, <1>4, NatInd
<1> QED
  BY <1>5 DEF C

\* The second reading finds the nodes that the first one placed.
LEMMA SecondAsFirst ==
    ASSUME NEW rows, Len(rows) \in Nat, NEW group, NEW nets,
           NEW first, first = CachesOf(NoCaches, rows, group, nets),
           NEW second, second = CachesOf(first[Len(rows)], rows, group, nets)
    PROVE  /\ SameEnds(NodesOf(rows, first), NodesOf(rows, second), Len(rows))
           /\ \A j \in 1 .. Len(rows) :
                 /\ resolveMeta(rows[j].src, group, rows[j].srcHint, nets).valid
                 /\ resolveMeta(rows[j].dst, group, rows[j].dstHint, nets).valid
                 => Joined(NodesOf(rows, first)[j])
<1>1. PICK n \in Nat : n = Len(rows)
  OBVIOUS
<1>2. ASSUME NEW c, NEW j \in 1 .. n
      PROVE  NodesOf(rows, c)[j].s = c[j].src[rows[j].src] /\ NodesOf(rows, c)[j].d = c[j].dst[rows[j].dst]
  BY <1>1 DEF NodesOf
<1>3. ASSUME NEW j \in 1 .. n
      PROVE  /\ NodesOf(rows, first)[j].s = first[j].src[rows[j].src]
             /\ NodesOf(rows, first)[j].d = first[j].dst[rows[j].dst]
             /\ NodesOf(rows, second)[j].s = second[j].src[rows[j].src]
             /\ NodesOf(rows, second)[j].d = second[j].dst[rows[j].dst]
  BY <1>2
<1>4. second[0] = first[n]
  BY <1>1, CachesAre
<1>5. ASSUME NEW j \in 1 .. n
      PROVE  RowCached(first[j], rows[j], group, nets) /\ BothStay(first[j], second[j])
  <2>1. RowCached(first[j], rows[j], group, nets)
    BY <1>1, CachesStep
  <2>2. j \in 0 .. n /\ n \in j .. n /\ 0 \in 0 .. n /\ j \in 0 .. n
    OBVIOUS
  <2>3. BothStay(first[j], first[n])
    BY <1>1, <2>2, CachesStay
  <2>4. BothStay(second[0], second[j])
    BY <1>1, <2>2, CachesStay
  <2> QED
    BY <1>4, <2>1, <2>3, <2>4, StaysOn
<1>6. ASSUME NEW j \in 1 .. n, Joined(NodesOf(rows, first)[j])
      PROVE  /\ NodesOf(rows, second)[j].s = NodesOf(rows, first)[j].s
             /\ NodesOf(rows, second)[j].d = NodesOf(rows, first)[j].d
  <2>1. PICK m : m = NodesOf(rows, first)[j]
    OBVIOUS
  <2>2. m.s = first[j].src[rows[j].src] /\ m.d = first[j].dst[rows[j].dst]
    BY <1>3, <2>1
  <2>3. m.s.valid /\ m.d.valid
    BY <1>6, <2>1, Zenon DEF Joined
  <2>4. first[j].src[rows[j].src].valid /\ first[j].dst[rows[j].dst].valid
    BY <2>2, <2>3, Zenon
  <2>5. second[j].src[rows[j].src] = first[j].src[rows[j].src] /\ second[j].dst[rows[j].dst] = first[j].dst[rows[j].dst]
    BY <1>5, <2>4 DEF RowCached, BothStay, Stays
  <2> QED
    BY <1>3, <2>5
<1>7. ASSUME NEW j \in 1 .. n,
             resolveMeta(rows[j].src, group, rows[j].srcHint, nets).valid,
             resolveMeta(rows[j].dst, group, rows[j].dstHint, nets).valid
      PROVE  Joined(NodesOf(rows, first)[j])
  <2>1. PICK m : m = NodesOf(rows, first)[j]
    OBVIOUS
  <2>2. m.s = first[j].src[rows[j].src] /\ m.d = first[j].dst[rows[j].dst]
    BY <1>3, <2>1
  <2>3. first[j].src[rows[j].src].valid /\ first[j].dst[rows[j].dst].valid
    BY <1>5, <1>7, Zenon DEF RowCached
  <2>4. Joined(m)
    BY <2>2, <2>3, Zenon DEF Joined
  <2> QED
    BY <2>1, <2>4, Zenon
<1>8. SameEnds(NodesOf(rows, first), NodesOf(rows, second), n)
  BY <1>6 DEF SameEnds
<1> QED
  BY <1>1, <1>7, <1>8

-----------------------------------------------------------------------------
(* Rows grouped by ClickHouse *)

\* A set written as a sequence: each element once.
LEMMA Listing ==
    ASSUME NEW S, IsFiniteSet(S), NEW s, s = SetToSeq(S)
    PROVE  /\ Len(s) \in Nat /\ DOMAIN s = 1 .. Len(s)
           /\ \A i \in 1 .. Len(s) : s[i] \in S
           /\ \A i, j \in 1 .. Len(s) : s[i] = s[j] => i = j
           /\ \A x \in S : \E i \in 1 .. Len(s) : s[i] = x
<1>1. PICK n \in Nat : n = Cardinality(S)
  BY FS_CardinalityType
<1>2. ExistsBijection(1 .. n, S)
  BY <1>1, FS_CardinalityType
<1>3. \E f \in [1 .. n -> S] : IsInjective(f)
  BY <1>2 DEF ExistsBijection, Bijection, Injection
<1>4. s \in [1 .. n -> S] /\ IsInjective(s)
  BY <1>1, <1>3, Zenon DEF SetToSeq
<1>5. s \in Injection(1 .. n, S)
  BY <1>4 DEF Injection
<1>6. IsFiniteSet(1 .. n) /\ Cardinality(1 .. n) = n
  BY FS_Interval
<1>7. s \in Surjection(1 .. n, S)
  BY <1>1, <1>5, <1>6, FS_Injection
<1>8. Len(s) = n /\ DOMAIN s = 1 .. n
  BY <1>4
<1> QED
  BY <1>4, <1>7, <1>8 DEF IsInjective, Surjection

\* The image of a finite set is finite.
LEMMA ImageFinite ==
    ASSUME NEW S, IsFiniteSet(S), NEW f, NEW T, T = {f[x] : x \in S}
    PROVE  IsFiniteSet(T)
<1>1. PICK g : g = [x \in S |-> f[x]]
  OBVIOUS
<1>2. g \in Surjection(S, T)
  BY <1>1 DEF Surjection
<1> QED
  BY <1>2, FS_Surjection

\* Rows that stand for logs: row i for those of part[i].
GroupedFrom(rows, logs, part) ==
    /\ Counted(rows) /\ Parted(DOMAIN logs, 1 .. Len(rows), part)
    /\ \A field \in Fields : Summed(Column(logs, field), Column(rows, field), 1 .. Len(rows), part)

\* Their columns have the sums of the logs.
LEMMA GroupedSums ==
    ASSUME NEW rows, NEW logs, NEW part, GroupedFrom(rows, logs, part), NEW field \in Fields
    PROVE  SumFunction(Column(rows, field)) = SumFunction(Column(logs, field))
<1>1. PICK f, g : f = Column(logs, field) /\ g = Column(rows, field)
  OBVIOUS
<1>2. DOMAIN f = DOMAIN logs /\ DOMAIN g = 1 .. Len(rows)
  BY <1>1 DEF Column, GroupedFrom, Counted
<1>3. Parted(DOMAIN logs, 1 .. Len(rows), part) /\ Summed(f, g, 1 .. Len(rows), part)
  BY <1>1 DEF GroupedFrom
<1>4. SumFunctionOnSet(f, DOMAIN logs) = SumFunctionOnSet(g, 1 .. Len(rows))
  BY <1>3, SumOfUnion
<1> QED
  BY <1>1, <1>2, <1>4 DEF SumFunction

\* The amounts of rows together are amounts.
LEMMA AmountsTogether ==
    ASSUME NEW logs, Counted(logs), NEW S \in SUBSET DOMAIN logs, S # {}, NEW row,
           \A field \in Fields : row[field] = SumFunctionOnSet(Column(logs, field), S)
    PROVE  Amounts(row) /\ \A field \in Fields : Numbers(Column(logs, field), S)
<1>1. PICK n \in Nat : n = Len(logs) /\ DOMAIN logs = 1 .. n
  BY DEF Counted
<1>2. IsFiniteSet(S)
  <2>1. IsFiniteSet(1 .. n) /\ S \in SUBSET (1 .. n)
    BY <1>1, FS_Interval
  <2> QED
    BY <2>1, FS_Subset
<1>3. \A field \in Fields : \A i \in S : Column(logs, field)[i] = logs[i][field] /\ logs[i][field] \in Nat
  BY <1>1, AmountsAre DEF Counted, Column
<1>4. \A field \in Fields : Numbers(Column(logs, field), S)
  BY <1>2, <1>3 DEF Numbers
<1>5. \A field \in Fields : row[field] \in Nat
  <2> SUFFICES ASSUME NEW field \in Fields
               PROVE  SumFunctionOnSet(Column(logs, field), S) \in Nat
    OBVIOUS
  <2>1. PICK C : C = Column(logs, field)
    OBVIOUS
  <2>2. \A i \in S : C[i] \in Nat
    BY <1>3, <2>1
  <2> QED
    BY <1>2, <2>1, <2>2, SumOfPart
<1>6. "count" \in Fields /\ "allowed" \in Fields /\ "blocked" \in Fields /\ "bytes" \in Fields
  BY DEF Fields
<1>7. PICK i \in S : TRUE
  OBVIOUS
<1>8. PICK C, A, B : C = Column(logs, "count") /\ A = Column(logs, "allowed") /\ B = Column(logs, "blocked")
  OBVIOUS
<1>9. \A j \in S : C[j] \in Nat \ {0} /\ A[j] \in Nat /\ B[j] \in Nat /\ A[j] + B[j] <= C[j]
  <2>1. \A j \in S : Amounts(logs[j])
    BY <1>1 DEF Counted
  <2>2. \A j \in S : C[j] = logs[j].count /\ A[j] = logs[j].allowed /\ B[j] = logs[j].blocked
    BY <1>8 DEF Column
  <2> QED
    BY <2>1, <2>2 DEF Amounts
<1>10. row.count # 0
  <2>1. SumFunctionOnSet(C, {i}) <= SumFunctionOnSet(C, S)
    BY <1>2, <1>9, SumOfPart
  <2>2. SumFunctionOnSet(C, {i}) = C[i]
    <3>1. IsFiniteSet({})
      BY FS_EmptySet
    <3>2. Numbers(C, {}) /\ C[i] \in Int /\ i \notin {} /\ {} \cup {i} = {i}
      BY <1>9, <3>1 DEF Numbers
    <3>3. SumFunctionOnSet(C, {} \cup {i}) = C[i] + SumFunctionOnSet(C, {})
      BY <3>2, SumWith
    <3> QED
      BY <3>2, <3>3, SumOfNone
  <2>3. row["count"] = SumFunctionOnSet(C, S)
    BY <1>6, <1>8
  <2> QED
    BY <1>9, <2>1, <2>2, <2>3
<1>11. row.allowed + row.blocked <= row.count
  <2> DEFINE T == {s \in SUBSET S : SumFunctionOnSet(A, s) + SumFunctionOnSet(B, s) <= SumFunctionOnSet(C, s)}
  <2>1. {} \in T
    BY SumOfNone
  <2>2. ASSUME NEW s \in SUBSET S, NEW x \in S, s \in T, x \notin s
        PROVE  s \cup {x} \in T
    <3>1. IsFiniteSet(s)
      BY <1>2, FS_Subset
    <3>2. Numbers(A, s) /\ Numbers(B, s) /\ Numbers(C, s) /\ A[x] \in Int /\ B[x] \in Int /\ C[x] \in Int
      BY <1>9, <3>1 DEF Numbers
    <3>3. /\ SumFunctionOnSet(A, s \cup {x}) = A[x] + SumFunctionOnSet(A, s)
          /\ SumFunctionOnSet(B, s \cup {x}) = B[x] + SumFunctionOnSet(B, s)
          /\ SumFunctionOnSet(C, s \cup {x}) = C[x] + SumFunctionOnSet(C, s)
      BY <2>2, <3>2, SumWith
    <3>4. PICK a \in Int, b \in Int, c \in Int :
             a = SumFunctionOnSet(A, s) /\ b = SumFunctionOnSet(B, s) /\ c = SumFunctionOnSet(C, s)
      BY <3>2, SumTyped
    <3>5. a + b <= c
      BY <2>2, <3>4
    <3>6. (A[x] + a) + (B[x] + b) <= C[x] + c
      BY <1>9, <3>5
    <3> QED
      BY <3>3, <3>4, <3>6
  <2>3. SUBSET S \subseteq T
    <3> HIDE DEF T
    <3> QED
      BY <1>2, <2>1, <2>2, SetInd
  <2>4. S \in T
    BY <2>3
  <2> QED
    BY <1>6, <1>8, <2>4
<1> QED
  BY <1>4, <1>5, <1>6, <1>10, <1>11 DEF Amounts

\* What the scanned tables hold is counted.
LEMMA LogsCounted ==
    ASSUME NEW logs \in Seq(LogRows)
    PROVE  Counted(logs)
<1>1. Len(logs) \in Nat /\ DOMAIN logs = 1 .. Len(logs) /\ \A i \in 1 .. Len(logs) : logs[i] \in LogRows
  OBVIOUS
<1>2. \A r \in LogRows : Amounts(r)
  BY DEF LogRows, Amounts
<1> QED
  BY <1>1, <1>2 DEF Counted

\* The smaller of two numbers is the least of them.
LEMMA LeastOfTwo ==
    ASSUME NEW a \in Int, NEW b \in Int
    PROVE  Min({a, b}) \in {a, b} /\ Min({a, b}) <= a
<1>1. \E x \in {a, b} : \A y \in {a, b} : x <= y
  <2>1. CASE a <= b
    BY <2>1
  <2>2. CASE b <= a
    BY <2>2
  <2> QED
    BY <2>1, <2>2
<1>2. Min({a, b}) = CHOOSE x \in {a, b} : \A y \in {a, b} : x <= y
  BY DEF Min
<1> QED
  BY <1>1, <1>2

\* scanGeoFromLogs: whatever the rows are grouped by, the amounts of a group are those
\* of its logs, and as many groups as the limit lets through; when they are fewer than
\* the limit each log stands in one of them.
LEMMA ScanGroups ==
    ASSUME NEW logs \in Seq(LogRows), NEW group, NEW enriched, NEW limit \in Nat,
           NEW rows \in scanGeoFromLogs(logs, group, enriched, limit)
    PROVE  /\ Counted(rows)
           /\ Len(rows) < limit => \E part : GroupedFrom(rows, logs, part)
<1> DEFINE hint(ip, h) == IF ip \in enriched THEN TrafficLogsEnrichedFromSQL(h, Lookup[ip]) ELSE h
           read == [i \in DOMAIN logs |-> [logs[i] EXCEPT !.srcHint = hint(logs[i].src, @), !.dstHint = hint(logs[i].dst, @)]]
           key(i) == <<geoGroupExprs(read[i].src, read[i].srcHint, group), geoGroupExprs(read[i].dst, read[i].dstHint, group)>>
           keys == {key(i) : i \in DOMAIN read}
           members(k) == {i \in DOMAIN read : key(i) = k}
           located(k) == {i \in members(k) : read[i].srcHint.at # NoPlace /\ read[i].dstHint.at # NoPlace}
           total(k, field) == SumFunctionOnSet(Column(read, field), members(k))
           at(k, i, side) == IF located(k) = {} THEN NoPlace
                             ELSE read[IF i \in located(k) THEN i ELSE CHOOSE j \in located(k) : TRUE][side].at
           grouped(k, i) ==
              [src |-> k[1], dst |-> k[2], action |-> read[i].action,
               srcHint |-> [read[i].srcHint EXCEPT !.at = at(k, i, "srcHint")],
               dstHint |-> [read[i].dstHint EXCEPT !.at = at(k, i, "dstHint")],
               count |-> total(k, "count"), bytes |-> total(k, "bytes"),
               allowed |-> total(k, "allowed"), blocked |-> total(k, "blocked")]
           coord_weight(k) == SumFunctionOnSet(Column(read, "count"), located(k))
           before(k, o) == \/ coord_weight(k) > coord_weight(o)
                           \/ coord_weight(k) = coord_weight(o) /\ total(k, "count") >= total(o, "count")
           cuts == {K \in SUBSET keys : /\ Cardinality(K) = Min({limit, Cardinality(keys)})
                                        /\ \A k \in K, o \in keys \ K : before(k, o)}
           picks == {p \in UNION {[K -> DOMAIN read] : K \in cuts} : \A k \in DOMAIN p : p[k] \in members(k)}
<1>1. Counted(logs)
  BY LogsCounted
<1>2. PICK p \in picks : rows = SetToSeq({grouped(k, p[k]) : k \in DOMAIN p})
  BY Zenon DEF scanGeoFromLogs
<1>3. PICK K : K = DOMAIN p /\ K \in SUBSET keys /\ Cardinality(K) = Min({limit, Cardinality(keys)})
  <2>1. PICK K \in cuts : p \in [K -> DOMAIN read]
    OBVIOUS
  <2> QED
    BY <2>1
<1>4. \A field \in Fields : Column(read, field) = Column(logs, field)
  <2>1. DOMAIN read = DOMAIN logs
    OBVIOUS
  <2>2. ASSUME NEW i \in DOMAIN logs
        PROVE  \A field \in Fields : read[i][field] = logs[i][field]
    <3>1. PICK r \in LogRows : r = logs[i]
      <4> HIDE DEF read
      <4>1. logs[i] \in LogRows
        OBVIOUS
      <4> QED
        BY <4>1
    <3>2. PICK s, d : read[i] = [r EXCEPT !.srcHint = s, !.dstHint = d]
      BY <3>1
    <3>3. /\ read[i]["count"] = logs[i]["count"] /\ read[i]["allowed"] = logs[i]["allowed"]
          /\ read[i]["blocked"] = logs[i]["blocked"] /\ read[i]["bytes"] = logs[i]["bytes"]
      <4> HIDE DEF read
      <4>1. {"count", "allowed", "blocked", "bytes"} \subseteq DOMAIN r
        BY DEF LogRows
      <4> QED
        BY <3>1, <3>2, <4>1
    <3> HIDE DEF read
    <3> QED
      BY <3>3, Zenon DEF Fields
  <2> HIDE DEF read
  <2> QED
    BY <2>1, <2>2 DEF Column
<1>5. PICK n \in Nat : n = Len(logs) /\ DOMAIN logs = 1 .. n /\ DOMAIN read = 1 .. n
  BY <1>1 DEF Counted
<1> HIDE DEF read
<1>6. \A i \in DOMAIN read : key(i) \in keys /\ i \in members(key(i))
  OBVIOUS
<1>7. \A k \in keys : members(k) # {} /\ members(k) \in SUBSET DOMAIN logs
  BY <1>5
<1>8. \A j, k \in keys : j # k => members(j) \cap members(k) = {}
  OBVIOUS
<1>9. \A k, i : /\ grouped(k, i).src = k[1] /\ grouped(k, i).dst = k[2]
                /\ grouped(k, i)["count"] = total(k, "count") /\ grouped(k, i)["bytes"] = total(k, "bytes")
                /\ grouped(k, i)["allowed"] = total(k, "allowed") /\ grouped(k, i)["blocked"] = total(k, "blocked")
  OBVIOUS
<1>10. \A k \in keys : k = <<k[1], k[2]>>
  OBVIOUS
<1>11. IsFiniteSet(keys)
  <2>1. PICK f : f = [i \in DOMAIN read |-> key(i)]
    OBVIOUS
  <2>2. keys = {f[i] : i \in DOMAIN read}
    BY <2>1
  <2>3. IsFiniteSet(DOMAIN read)
    BY <1>5, FS_Interval
  <2> HIDE DEF keys
  <2> QED
    BY <2>2, <2>3, ImageFinite
<1>12. IsFiniteSet(K)
  BY <1>11, <1>3, FS_Subset
<1> HIDE DEF grouped, key, keys, members, located, at, cuts
<1>13. PICK S : S = {grouped(k, p[k]) : k \in K} /\ rows = SetToSeq(S)
  BY <1>2, <1>3, Zenon
<1>14. IsFiniteSet(S)
  <2>1. PICK f : f = [k \in K |-> grouped(k, p[k])]
    OBVIOUS
  <2>2. S = {f[k] : k \in K}
    BY <1>13, <2>1
  <2> QED
    BY <1>12, <2>2, ImageFinite
<1>15. PICK m \in Nat : m = Len(rows) /\ DOMAIN rows = 1 .. m
  BY <1>13, <1>14, Listing
<1>16. /\ \A i \in 1 .. m : rows[i] \in S
       /\ \A i, j \in 1 .. m : rows[i] = rows[j] => i = j
       /\ \A x \in S : \E i \in 1 .. m : rows[i] = x
  <2>1. rows = SetToSeq(S)
    BY <1>13
  <2>2. /\ \A i \in 1 .. Len(rows) : rows[i] \in S
        /\ \A i, j \in 1 .. Len(rows) : rows[i] = rows[j] => i = j
        /\ \A x \in S : \E i \in 1 .. Len(rows) : rows[i] = x
    BY <1>14, <2>1, Listing
  <2> QED
    BY <1>15, <2>2
<1>17. PICK keyAt : keyAt = [i \in 1 .. m |-> CHOOSE k \in K : rows[i] = grouped(k, p[k])]
  OBVIOUS
<1>18. \A i \in 1 .. m : keyAt[i] \in K /\ rows[i] = grouped(keyAt[i], p[keyAt[i]])
  <2> SUFFICES ASSUME NEW i \in 1 .. m
               PROVE  keyAt[i] \in K /\ rows[i] = grouped(keyAt[i], p[keyAt[i]])
    OBVIOUS
  <2>1. \E k \in K : rows[i] = grouped(k, p[k])
    BY <1>13, <1>16
  <2>2. keyAt[i] = CHOOSE k \in K : rows[i] = grouped(k, p[k])
    BY <1>17
  <2> QED
    BY <2>1, <2>2
<1>19. \A i, j \in 1 .. m : keyAt[i] = keyAt[j] => i = j
  BY <1>16, <1>18
<1>20. \A k \in K : \E i \in 1 .. m : keyAt[i] = k
  <2> SUFFICES ASSUME NEW k \in K
               PROVE  \E i \in 1 .. m : keyAt[i] = k
    OBVIOUS
  <2>1. grouped(k, p[k]) \in S
    BY <1>13
  <2>2. PICK i \in 1 .. m : rows[i] = grouped(k, p[k])
    BY <1>16, <2>1
  <2>3. keyAt[i] \in K /\ grouped(keyAt[i], p[keyAt[i]]) = grouped(k, p[k])
    BY <1>18, <2>2
  <2>4. keyAt[i][1] = k[1] /\ keyAt[i][2] = k[2]
    BY <1>9, <2>3
  <2>5. keyAt[i] = k
    BY <1>10, <1>3, <2>3, <2>4
  <2> QED
    BY <2>5
<1>21. PICK part : part = [i \in 1 .. m |-> members(keyAt[i])]
  OBVIOUS
<1>22. ASSUME NEW i \in 1 .. m
       PROVE  /\ part[i] # {} /\ part[i] \in SUBSET DOMAIN logs
              /\ \A field \in Fields : rows[i][field] = SumFunctionOnSet(Column(logs, field), part[i])
  <2>1. PICK k \in keys : k = keyAt[i]
    BY <1>18, <1>3
  <2>2. part[i] = members(k)
    BY <1>21, <2>1
  <2>3. rows[i] = grouped(k, p[k])
    BY <1>18, <2>1
  <2>4. /\ rows[i]["count"] = total(k, "count") /\ rows[i]["bytes"] = total(k, "bytes")
        /\ rows[i]["allowed"] = total(k, "allowed") /\ rows[i]["blocked"] = total(k, "blocked")
    BY <1>9, <2>3
  <2> HIDE DEF total
  <2>5. \A field \in Fields : rows[i][field] = total(k, field)
    BY <2>4, Zenon DEF Fields
  <2>6. \A field \in Fields : total(k, field) = SumFunctionOnSet(Column(logs, field), part[i])
    BY <1>4, <2>2 DEF total
  <2> QED
    BY <1>7, <2>2, <2>5, <2>6
<1>23. \A i \in 1 .. m : Amounts(rows[i]) /\ \A field \in Fields : Numbers(Column(logs, field), part[i])
  BY <1>22, <1>1, AmountsTogether
<1>24. Counted(rows)
  BY <1>15, <1>23 DEF Counted
<1>25. ASSUME m < limit
       PROVE  K = keys
  <2>1. keyAt \in Bijection(1 .. m, K)
    <3>1. keyAt \in [1 .. m -> K]
      BY <1>17, <1>18
    <3> QED
      BY <3>1, <1>19, <1>20 DEF Bijection, Injection, IsInjective, Surjection
  <2>2. Cardinality(K) = m
    <3>1. ExistsBijection(1 .. m, K)
      BY <2>1 DEF ExistsBijection
    <3> QED
      BY <3>1, FS_CountingElements
  <2>3. PICK c \in Nat : c = Cardinality(keys)
    BY <1>11, FS_CardinalityType
  <2>4. Min({limit, c}) \in {limit, c}
    <3>1. limit \in Int /\ c \in Int
      OBVIOUS
    <3> QED
      BY <3>1, LeastOfTwo
  <2>5. Cardinality(K) = c
    BY <1>3, <1>25, <2>2, <2>3, <2>4
  <2> QED
    BY <1>11, <1>3, <2>3, <2>5, FS_Subset
<1>26. ASSUME m < limit
       PROVE  Parted(DOMAIN logs, 1 .. m, part)
  <2>1. IsFiniteSet(1 .. m)
    BY FS_Interval
  <2>2. \A i, j \in 1 .. m : i # j => part[i] \cap part[j] = {}
    BY <1>8, <1>18, <1>19, <1>21, <1>3
  <2>3. ASSUME NEW x \in DOMAIN logs
        PROVE  \E i \in 1 .. m : x \in part[i]
    <3>1. PICK k \in keys : x \in members(k)
      BY <1>5, <1>6
    <3>2. PICK i \in 1 .. m : keyAt[i] = k
      BY <1>20, <1>26, <1>25
    <3> QED
      BY <1>21, <3>1, <3>2
  <2>4. DOMAIN logs = UNION {part[i] : i \in 1 .. m}
    BY <1>22, <2>3
  <2> QED
    BY <2>1, <2>2, <2>4 DEF Parted
<1>27. ASSUME NEW field \in Fields
       PROVE  Summed(Column(logs, field), Column(rows, field), 1 .. m, part)
  <2>1. PICK f, g : f = Column(logs, field) /\ g = Column(rows, field)
    OBVIOUS
  <2>2. \A i \in 1 .. m : g[i] = rows[i][field]
    BY <1>15, <2>1 DEF Column
  <2>3. \A i \in 1 .. m : Numbers(f, part[i]) /\ g[i] = SumFunctionOnSet(f, part[i])
    BY <1>22, <1>23, <2>1, <2>2
  <2> QED
    BY <2>1, <2>3 DEF Summed
<1>28. m < limit => GroupedFrom(rows, logs, part)
  BY <1>15, <1>24, <1>26, <1>27 DEF GroupedFrom
<1> QED
  BY <1>15, <1>24, <1>28

-----------------------------------------------------------------------------
(* The reputation filter and the limit *)

\* Some of the lines carry no more events.
LEMMA TotalOfPart ==
    ASSUME NEW L, IsFiniteSet(L), \A l \in L : l["count"] \in Nat, NEW R \in SUBSET L
    PROVE  Total(R, "count") \in Int /\ Total(L, "count") \in Int /\ Total(R, "count") <= Total(L, "count")
<1>1. PICK f, g : f = [l \in L |-> l["count"]] /\ g = [l \in R |-> l["count"]]
  OBVIOUS
<1>2. IsFiniteSet(R)
  BY FS_Subset
<1>3. (\A l \in L : f[l] \in Nat) /\ (\A l \in R : g[l] = f[l])
  BY <1>1
<1>4. Numbers(f, L) /\ Numbers(g, R)
  BY <1>2, <1>3 DEF Numbers
<1>5. SumFunctionOnSet(g, R) = SumFunctionOnSet(f, R)
  BY <1>3, <1>4, SumSame
<1>6. SumFunctionOnSet(f, R) <= SumFunctionOnSet(f, L)
  BY <1>3, SumOfPart
<1>7. SumFunctionOnSet(g, R) \in Int /\ SumFunctionOnSet(f, L) \in Int
  BY <1>4, SumTyped
<1>8. Total(L, "count") = SumFunctionOnSet(f, L) /\ Total(R, "count") = SumFunctionOnSet(g, R)
  BY <1>1 DEF Total
<1> QED
  BY <1>5, <1>6, <1>7, <1>8

\* Pruning keeps the points of the ends that are left.
LEMMA PrunedPoints ==
    ASSUME NEW points, NEW lines
    PROVE  /\ DOMAIN prunePoints(points, lines) = DOMAIN points \cap EndsOf(lines)
           /\ \A k \in DOMAIN prunePoints(points, lines) : prunePoints(points, lines)[k] = points[k]
BY DEF prunePoints

\* GetMap after the lines and points are built: whatever lists and categories are
\* asked for, on whichever side, and whatever the limit drops, a map whose points
\* were the ends of its lines and carried them is one again, of no lines but its own,
\* and of no more than the limit when it was filtered.
THEOREM FilterKeepsEnds ==
    ASSUME NEW full, Sound(full), NEW group, NEW cats, NEW lists, NEW side, NEW limit \in Nat,
           NEW map \in ByReputation(full, group, cats, lists, side, limit)
    PROVE  /\ Sound(map) /\ map.lines \subseteq full.lines
           /\ group = "ip" /\ cats # {} => Cardinality(map.lines) <= limit
<1> DEFINE kept == filterLinesByReputation(full.lines, cats, lists, side)
           filtered == prunePoints(full.points, kept)
<1>1. CASE group # "ip" \/ (cats = {} /\ lists = {})
  <2>1. map = full
    BY <1>1 DEF ByReputation
  <2> QED
    BY <1>1, <2>1
<1>2. CASE ~(group # "ip" \/ (cats = {} /\ lists = {}))
  <2>1. PICK S \in trimLinesByCount(kept, limit) :
            map = [lines |-> S, points |-> prunePoints(filtered, S)]
    BY <1>2 DEF ByReputation
  <2>2. kept \subseteq full.lines
    BY DEF filterLinesByReputation
  <2>3. EndsArePoints(full) /\ PointsCarryLines(full) /\ MapCounted(full)
    BY DEF Sound
  <2>4. IsFiniteSet(kept)
    BY <2>2, <2>3, FS_Subset DEF MapCounted
  <2>5. S \subseteq kept /\ Cardinality(S) <= limit
    BY <2>1 DEF trimLinesByCount
  <2>6. DOMAIN full.points = EndsOf(full.lines)
    BY <2>3 DEF EndsArePoints
  <2> HIDE DEF kept
  <2>7. DOMAIN filtered = EndsOf(full.lines) \cap EndsOf(kept) /\ \A k \in DOMAIN filtered : filtered[k] = full.points[k]
    <3>1. PICK p : p = full.points
      OBVIOUS
    <3>2. /\ DOMAIN prunePoints(p, kept) = DOMAIN p \cap EndsOf(kept)
          /\ \A k \in DOMAIN prunePoints(p, kept) : prunePoints(p, kept)[k] = p[k]
      BY PrunedPoints
    <3> QED
      BY <2>6, <3>1, <3>2
  <2> HIDE DEF filtered
  <2>8. map.lines = S /\ map.points = prunePoints(filtered, S)
    BY <2>1
  <2>9. /\ DOMAIN map.points = EndsOf(full.lines) \cap EndsOf(kept) \cap EndsOf(S)
        /\ \A k \in DOMAIN map.points : map.points[k] = filtered[k]
    <3>1. /\ DOMAIN prunePoints(filtered, S) = DOMAIN filtered \cap EndsOf(S)
          /\ \A k \in DOMAIN prunePoints(filtered, S) : prunePoints(filtered, S)[k] = filtered[k]
      BY PrunedPoints
    <3> QED
      BY <2>7, <2>8, <3>1
  <2>10. EndsOf(S) \subseteq EndsOf(kept) /\ EndsOf(kept) \subseteq EndsOf(full.lines)
    BY <2>2, <2>5 DEF EndsOf
  <2>11. DOMAIN map.points = EndsOf(S)
    BY <2>9, <2>10
  <2>12. EndsArePoints(map)
    BY <2>11, <2>8 DEF EndsArePoints
  <2>13. \A k \in DOMAIN map.points : k \in DOMAIN full.points /\ map.points[k] = full.points[k]
    BY <2>6, <2>7, <2>9
  <2>14. MapCounted(map)
    <3>1. S \in SUBSET full.lines
      BY <2>2, <2>5
    <3>2. IsFiniteSet(S)
      BY <2>3, <3>1, FS_Subset DEF MapCounted
    <3> QED
      BY <2>3, <2>8, <2>13, <3>1, <3>2 DEF MapCounted
  <2>15. ASSUME NEW k \in DOMAIN map.points
         PROVE  map.points[k].count >= Total({l \in map.lines : k \in {l.src, l.dst}}, "count")
    <3>1. PICK L : L = {l \in full.lines : k \in {l.src, l.dst}}
      OBVIOUS
    <3>2. PICK R : R = {l \in map.lines : k \in {l.src, l.dst}}
      OBVIOUS
    <3>3. R \in SUBSET L /\ L \in SUBSET full.lines
      BY <2>2, <2>5, <2>8, <3>1, <3>2
    <3>4. IsFiniteSet(L) /\ \A l \in L : l["count"] \in Nat
      BY <2>3, <3>3, FS_Subset DEF MapCounted
    <3>5. Total(R, "count") \in Int /\ Total(L, "count") \in Int /\ Total(R, "count") <= Total(L, "count")
      BY <3>3, <3>4, TotalOfPart
    <3>6. full.points[k].count >= Total(L, "count") /\ full.points[k].count \in Nat
      BY <2>3, <2>13, <3>1 DEF PointsCarryLines, MapCounted
    <3> QED
      BY <2>13, <3>2, <3>5, <3>6
  <2>16. PointsCarryLines(map)
    BY <2>15 DEF PointsCarryLines
  <2> QED
    BY <2>2, <2>5, <2>12, <2>8, <2>14, <2>16 DEF Sound
<1> QED
  BY <1>1, <1>2

-----------------------------------------------------------------------------
(* Requests for maps *)

\* buildMapFromIPRaws, whatever the group, the networks and the hints.
THEOREM AddressesDrawn ==
    ASSUME NEW rows, Counted(rows), NEW group, NEW nets, NEW map, map = buildMapFromIPRaws(rows, group, nets)
    PROVE  Sound(map) /\ (AllPlaced(rows, group, nets) => NothingLost(map, rows))
<1>1. PICK n \in Nat : n = Len(rows)
  BY DEF Counted
<1>2. PICK first : first = CachesOf(NoCaches, rows, group, nets)
  OBVIOUS
<1>3. PICK second : second = CachesOf(first[n], rows, group, nets)
  OBVIOUS
<1>4. PICK ms, later : ms = NodesOf(rows, first) /\ later = NodesOf(rows, second)
  OBVIOUS
<1>5. PICK edges : edges = EdgesOf(rows, ms)[n]
  OBVIOUS
<1>6. map = Drawn(edges, rows, later)
  BY <1>1, <1>2, <1>3, <1>4, <1>5 DEF buildMapFromIPRaws
<1>7. SameEnds(ms, later, n)
  BY <1>1, <1>2, <1>3, <1>4, SecondAsFirst
<1>8. /\ Sound(map)
      /\ (\A j \in 1 .. n : Joined(ms[j])) => NothingLost(map, rows)
  BY <1>1, <1>5, <1>6, <1>7, DrawnAsCounted
<1>9. ASSUME AllPlaced(rows, group, nets)
      PROVE  \A j \in 1 .. n : Joined(ms[j])
  <2>1. DOMAIN rows = 1 .. n
    BY <1>1 DEF Counted
  <2>2. \A j \in 1 .. n : /\ resolveMeta(rows[j].src, group, rows[j].srcHint, nets).valid
                          /\ resolveMeta(rows[j].dst, group, rows[j].dstHint, nets).valid
    BY <1>9, <2>1 DEF AllPlaced
  <2> QED
    BY <1>1, <1>2, <1>3, <1>4, <2>2, SecondAsFirst
<1> QED
  BY <1>8, <1>9

\* BuildMapFromGeoEdges.
THEOREM KeysDrawn ==
    ASSUME NEW rows, Counted(rows), NEW map, map = BuildMapFromGeoEdges(rows)
    PROVE  Sound(map) /\ (AllPlacedGrouped(rows) => NothingLost(map, rows))
<1>1. PICK n \in Nat : n = Len(rows) /\ DOMAIN rows = 1 .. n
  BY DEF Counted
<1>2. PICK ms : ms = [i \in 1 .. n |-> [s |-> geoMetaFromEdge(rows[i].src, rows[i].srcHint),
                                        d |-> geoMetaFromEdge(rows[i].dst, rows[i].dstHint)]]
  OBVIOUS
<1>3. PICK edges : edges = EdgesOf(rows, ms)[n]
  OBVIOUS
<1>4. map = Drawn(edges, rows, ms)
  BY <1>1, <1>2, <1>3 DEF BuildMapFromGeoEdges
<1>5. SameEnds(ms, ms, n)
  BY DEF SameEnds
<1>6. /\ Sound(map)
      /\ (\A j \in 1 .. n : Joined(ms[j])) => NothingLost(map, rows)
  BY <1>1, <1>3, <1>4, <1>5, DrawnAsCounted
<1>7. ASSUME AllPlacedGrouped(rows), NEW j \in 1 .. n
      PROVE  Joined(ms[j])
  <2>1. PICK s, d : s = geoMetaFromEdge(rows[j].src, rows[j].srcHint) /\ d = geoMetaFromEdge(rows[j].dst, rows[j].dstHint)
    OBVIOUS
  <2>2. s.valid /\ d.valid
    BY <1>1, <1>7, <2>1 DEF AllPlacedGrouped
  <2>3. PICK m : m = ms[j]
    OBVIOUS
  <2>4. m.s = s /\ m.d = d
    BY <1>2, <2>1, <2>3
  <2> QED
    BY <2>2, <2>3, <2>4, Zenon DEF Joined
<1> QED
  BY <1>6, <1>7

\* The limit of a map and the rows that are scanned for it.
LEMMA LimitIsNatural ==
    ASSUME NEW n \in Wishes, NEW tr, NEW group, NEW rep
    PROVE  LimitOf(n, tr, group, rep) \in Nat
<1>1. n \in Int /\ Caps.heavy \in Nat /\ Caps.filtered \in Nat /\ Caps.medium \in Nat /\ Caps.light \in Nat
  <2>1. Caps["heavy"] \in Nat /\ Caps["filtered"] \in Nat /\ Caps["medium"] \in Nat /\ Caps["light"] \in Nat
    BY RequestsAssumption
  <2> QED
    BY <2>1, RequestsAssumption
<1>2. PICK c : c = AssessMapQueryCost(tr, group, FALSE, rep)
  OBVIOUS
<1>3. c \in Nat
  BY <1>1, <1>2 DEF AssessMapQueryCost
<1>4. PICK w : w = parseOptionalLimit(n)
  OBVIOUS
<1>5. w \in Nat
  BY <1>1, <1>4 DEF parseOptionalLimit, Clamp
<1> QED
  BY <1>2, <1>3, <1>4, <1>5 DEF LimitOf, EffectiveMapLimit

\* The first elements of a sequence.
LEMMA FirstElements ==
    ASSUME NEW S, NEW s \in Seq(S), NEW k \in 0 .. Len(s), NEW f, f = SubSeq(s, 1, k)
    PROVE  Len(f) = k /\ DOMAIN f = 1 .. k /\ \A i \in 1 .. k : f[i] = s[i]
OBVIOUS

\* The rows that a scan returns have amounts, as those of the table do.
LEMMA ScannedCounted ==
    ASSUME NEW table \in Logs, NEW limit \in Nat, NEW rep
    PROVE  Counted(Scanned(table, limit, rep))
<1>1. table \in Seq(LogRows)
  BY RequestsAssumption
<1>2. Counted(table)
  BY <1>1, LogsCounted
<1>3. PICK m \in Nat : m = Len(table) /\ DOMAIN table = 1 .. m
  BY <1>2 DEF Counted
<1>4. Caps["light"] \in Nat
  BY RequestsAssumption
<1>5. PICK l \in Nat : l = scanLimit(limit, rep)
  BY <1>4 DEF scanLimit
<1>6. PICK k \in Nat : k = Min({m, l}) /\ k <= m
  BY LeastOfTwo
<1>7. Scanned(table, limit, rep) = SubSeq(table, 1, k)
  BY <1>3, <1>5, <1>6 DEF Scanned
<1>8. PICK rows : rows = SubSeq(table, 1, k)
  OBVIOUS
<1>9. Len(rows) = k /\ DOMAIN rows = 1 .. k /\ \A i \in 1 .. k : rows[i] = table[i]
  <2>1. k \in 0 .. Len(table)
    BY <1>3, <1>6
  <2> QED
    BY <1>1, <1>8, <2>1, FirstElements
<1>10. \A i \in 1 .. k : Amounts(rows[i])
  <2>1. \A i \in 1 .. m : Amounts(table[i])
    BY <1>2, <1>3 DEF Counted
  <2> SUFFICES ASSUME NEW i \in 1 .. k
               PROVE  Amounts(rows[i])
    OBVIOUS
  <2>2. i \in 1 .. m
    BY <1>6
  <2>3. rows[i] = table[i]
    BY <1>9
  <2>4. i \in 1 .. m /\ rows[i] = table[i]
    BY <2>2, <2>3
  <2>5. Amounts(table[i])
    BY <2>1, <2>4
  <2> QED
    BY <2>4, <2>5
<1> QED
  BY <1>7, <1>8, <1>9, <1>10 DEF Counted

\* What MapWhole says of a map.
\* GetMap over pairs of addresses.
LEMMA BuildAnswered ==
    ASSUME AskBuild
    PROVE  MapSound'
<1>1. PICK table \in Logs, group \in Groups, nets \in Networks, cats \in Filters, n \in Wishes, tr \in MapPeriods :
        LET limit == LimitOf(n, tr, group, cats # {})
            rows == Scanned(table, limit, cats # {})
        IN  /\ nets # {} => group = "city_country"
            /\ cats # {} => group = "ip"
            /\ req' = [topic |-> "build", rows |-> rows, limit |-> limit, rep |-> cats # {},
                       placed |-> AllPlaced(rows, group, nets)]
            /\ ans' \in GetMap([grouped |-> FALSE, rows |-> rows], group, nets, cats, {}, "any", limit)
  BY DEF AskBuild
<1>2. PICK limit \in Nat : limit = LimitOf(n, tr, group, cats # {})
  BY LimitIsNatural
<1>3. PICK rows : rows = Scanned(table, limit, cats # {}) /\ Counted(rows)
  BY ScannedCounted
<1>4. PICK full : full = buildMapFromIPRaws(rows, group, nets)
  OBVIOUS
<1>5. Sound(full) /\ (AllPlaced(rows, group, nets) => NothingLost(full, rows))
  BY <1>3, <1>4, AddressesDrawn
<1>6. GetMap([grouped |-> FALSE, rows |-> rows], group, nets, cats, {}, "any", limit)
        = ByReputation(full, group, cats, {}, "any", limit)
  BY <1>4 DEF GetMap
<1>7. /\ cats # {} => group = "ip"
      /\ req' = [topic |-> "build", rows |-> rows, limit |-> limit, rep |-> cats # {},
                 placed |-> AllPlaced(rows, group, nets)]
      /\ ans' \in ByReputation(full, group, cats, {}, "any", limit)
  BY <1>1, <1>2, <1>3, <1>6, Zenon
<1>8. Sound(ans') /\ (group = "ip" /\ cats # {} => Cardinality(ans'.lines) <= limit)
  BY <1>5, <1>7, FilterKeepsEnds
<1>9. cats = {} => ans' = full
  BY <1>7 DEF ByReputation
<1>10. req'.rep = (cats # {}) /\ req'.placed = AllPlaced(rows, group, nets) /\ req'.rows = rows /\ req'.limit = limit
  BY <1>7, Zenon
<1>11. EndsArePoints(ans') /\ PointsCarryLines(ans')
  BY <1>8 DEF Sound
<1>12. req'.placed /\ ~req'.rep => NothingLost(ans', req'.rows)
  BY <1>5, <1>9, <1>10, Zenon
<1>13. req'.rep => Cardinality(ans'.lines) <= req'.limit
  BY <1>7, <1>8, <1>10, Zenon
<1>14. req'.topic # "grouped"
  BY <1>7
<1> QED
  BY <1>11, <1>12, <1>13, <1>14, Zenon DEF MapSound

\* GetMap over rows that ClickHouse grouped.
LEMMA GroupedAnswered ==
    ASSUME AskGrouped
    PROVE  MapSound'
<1>1. PICK table \in Logs, group \in Groups \ {"city_country"}, enrich \in BOOLEAN,
           cats \in Filters, n \in Wishes, tr \in MapPeriods :
        LET limit == LimitOf(n, tr, group, cats # {})
            enriched == IF enrich THEN EnrichLogsMissingGeo(table) ELSE {}
        IN  /\ cats # {} => group = "ip"
            /\ \E rows \in scanGeoFromLogs(table, group, enriched, scanLimit(limit, cats # {})) :
                  /\ req' = [topic |-> "grouped", rows |-> rows, limit |-> limit, rep |-> cats # {},
                             placed |-> AllPlacedGrouped(rows), table |-> table,
                             whole |-> Len(rows) < scanLimit(limit, cats # {})]
                  /\ ans' \in GetMap([grouped |-> TRUE, rows |-> rows], group, {}, cats, {}, "any", limit)
  BY DEF AskGrouped
<1>2. PICK limit \in Nat : limit = LimitOf(n, tr, group, cats # {})
  BY LimitIsNatural
<1>3. PICK enriched : enriched = IF enrich THEN EnrichLogsMissingGeo(table) ELSE {}
  OBVIOUS
<1>4. PICK scanned \in Nat : scanned = scanLimit(limit, cats # {})
  <2>1. Caps["light"] \in Nat
    BY RequestsAssumption
  <2> QED
    BY <2>1 DEF scanLimit
<1>5. cats # {} => group = "ip"
  BY <1>1, Zenon
<1>6. PICK rows \in scanGeoFromLogs(table, group, enriched, scanned) :
           /\ req' = [topic |-> "grouped", rows |-> rows, limit |-> limit, rep |-> cats # {},
                      placed |-> AllPlacedGrouped(rows), table |-> table, whole |-> Len(rows) < scanned]
           /\ ans' \in GetMap([grouped |-> TRUE, rows |-> rows], group, {}, cats, {}, "any", limit)
  BY <1>1, <1>2, <1>3, <1>4, Zenon
<1>7. table \in Seq(LogRows)
  BY RequestsAssumption
<1>8. Counted(rows) /\ (Len(rows) < scanned => \E part : GroupedFrom(rows, table, part))
  BY <1>7, ScanGroups
<1>9. PICK full : full = BuildMapFromGeoEdges(rows)
  OBVIOUS
<1>10. Sound(full) /\ (AllPlacedGrouped(rows) => NothingLost(full, rows))
  BY <1>8, <1>9, KeysDrawn
<1>11. GetMap([grouped |-> TRUE, rows |-> rows], group, {}, cats, {}, "any", limit)
         = ByReputation(full, group, cats, {}, "any", limit)
  BY <1>9 DEF GetMap
<1>12. Sound(ans') /\ (group = "ip" /\ cats # {} => Cardinality(ans'.lines) <= limit)
  BY <1>6, <1>10, <1>11, FilterKeepsEnds
<1>13. cats = {} => ans' = full
  BY <1>6, <1>11 DEF ByReputation
<1>14. ASSUME NothingLost(full, rows), Len(rows) < scanned
       PROVE  NothingLost(full, table)
  <2>1. PICK part : GroupedFrom(rows, table, part)
    BY <1>8, <1>14
  <2>2. \A field \in {"bytes", "allowed", "blocked"} :
           SumFunction(Column(rows, field)) = SumFunction(Column(table, field))
    BY <2>1, GroupedSums DEF Fields
  <2> QED
    BY <1>14, <2>2 DEF NothingLost
<1>15. /\ req'.rep = (cats # {}) /\ req'.placed = AllPlacedGrouped(rows) /\ req'.rows = rows
       /\ req'.limit = limit /\ req'.table = table /\ req'.whole = (Len(rows) < scanned)
  BY <1>6, Zenon
<1>16. EndsArePoints(ans') /\ PointsCarryLines(ans')
  BY <1>12 DEF Sound
<1>17. req'.placed /\ ~req'.rep => NothingLost(ans', req'.rows) /\ (req'.whole => NothingLost(ans', req'.table))
  BY <1>10, <1>13, <1>14, <1>15, Zenon
<1>18. req'.rep => Cardinality(ans'.lines) <= req'.limit
  BY <1>5, <1>12, <1>15, Zenon
<1> QED
  BY <1>16, <1>17, <1>18, Zenon DEF MapSound

-----------------------------------------------------------------------------
(* Addresses without a place *)

\* The node of an address has a position as soon as the index or the logs place it.
LEMMA PlacedIsValid ==
    ASSUME NEW ip \in Addresses, NEW hint,
           hint.at # NoPlace \/ (Lookup[ip].found /\ Lookup[ip].at # NoPlace)
    PROVE  IPGroupMetaHinted(ip, "ip", hint).valid
<1> DEFINE lk == Lookup[ip]
           m0 == Meta(<<ip>>, lk, lk.at, lk.found)
           country == preferCountry(hint.country, m0.country)
           m == [m0 EXCEPT !.city = IF @ = "" THEN hint.city ELSE @,
                           !.country = IF UsableCountry(country) THEN country ELSE @]
           own == m.valid /\ m.at # NoPlace
           placed == [m EXCEPT !.at = IF own THEN @ ELSE IF hint.at # NoPlace THEN hint.at
                                      ELSE CountryCenters[country],
                               !.valid = TRUE,
                               !.country = IF own \/ hint.at # NoPlace THEN @ ELSE country]
<1>1. IPGroupMetaHinted(ip, "ip", hint) = Placed(m, hint, country, ip)
  BY DEF IPGroupMetaHinted, applyLogGeoFallback, Regrouped
<1>2. m.at = lk.at /\ m.valid = lk.found
  BY DEF Meta
<1>3. own \/ hint.at # NoPlace
  BY <1>2
<1>4. Placed(m, hint, country, ip) = promoteUnknownMapKey(placed, ip)
  BY <1>3 DEF Placed
<1>5. placed.valid = TRUE
  BY DEF Meta
<1>6. promoteUnknownMapKey(placed, ip).valid = placed.valid
  BY DEF promoteUnknownMapKey, Meta
<1>7. QED
  BY <1>1, <1>4, <1>5, <1>6

\* They are the addresses of the report before it is filtered.
LEMMA ScannedAddresses ==
    ASSUME NEW logs
    PROVE  {r.ip : r \in ScanGeoMissingIPs(logs)} = UnplacedSources(logs) \cup UnplacedDestinations(logs)
<1> DEFINE U == UnplacedSources(logs) \cup UnplacedDestinations(logs)
           Row(a) == [ip |-> a, count |-> EventsAs(a, UnplacedSources(logs), UnplacedDestinations(logs), logs)]
<1>1. ScanGeoMissingIPs(logs) = {Row(a) : a \in U}
  BY DEF ScanGeoMissingIPs
<1>2. \A a : Row(a).ip = a
  OBVIOUS
<1> HIDE DEF U, Row
<1>3. {r.ip : r \in {Row(a) : a \in U}} = U
  BY <1>2
<1>4. QED
  BY <1>1, <1>3 DEF U

\* geo.ListMissing: a report that its limit did not cut names every address that
\* keeps a row off the map of addresses, and none that the index places or that has
\* a place in all of its rows, whatever the logs and the index hold.
THEOREM MissingAreNamed ==
    ASSUME NEW logs, \A i \in DOMAIN logs : logs[i].src \in Addresses /\ logs[i].dst \in Addresses,
           NEW limit, Cardinality(ScanGeoMissingIPs(logs)) <= limit,
           NEW listed \in ListMissing(logs, limit)
    PROVE  MissingNamed(logs, listed)
<1> DEFINE Indexed(a) == Lookup[a].found /\ Lookup[a].at # NoPlace
           names == {r.ip : r \in listed}
           srcHints(a) == {logs[i].srcHint : i \in {i \in DOMAIN logs : logs[i].src = a}}
           dstHints(a) == {logs[i].dstHint : i \in {i \in DOMAIN logs : logs[i].dst = a}}
           off(a, hints) == \A h \in hints : ~IPGroupMetaHinted(a, "ip", h).valid
<1>1. listed = filterGeoMissingRows(ScanGeoMissingIPs(logs))
  BY DEF ListMissing
<1>2. names = {a \in UnplacedSources(logs) \cup UnplacedDestinations(logs) : ~Indexed(a)}
  <2>1. names = {a \in {r.ip : r \in ScanGeoMissingIPs(logs)} : ~Indexed(a)}
    BY <1>1 DEF filterGeoMissingRows
  <2>2. QED
    BY <2>1, ScannedAddresses
<1>3. ASSUME NEW i \in DOMAIN logs, off(logs[i].src, srcHints(logs[i].src))
      PROVE  logs[i].src \in names
  <2>1. \A h \in srcHints(logs[i].src) : h.at = NoPlace /\ ~Indexed(logs[i].src)
    BY <1>3, PlacedIsValid
  <2>2. logs[i].srcHint \in srcHints(logs[i].src)
    OBVIOUS
  <2>3. \A j \in DOMAIN logs : logs[j].src = logs[i].src => logs[j].srcHint \in srcHints(logs[i].src)
    OBVIOUS
  <2>4. logs[i].src \in UnplacedSources(logs)
    BY <2>1, <2>3 DEF UnplacedSources
  <2>5. QED
    BY <1>2, <2>1, <2>2, <2>4
<1>4. ASSUME NEW i \in DOMAIN logs, off(logs[i].dst, dstHints(logs[i].dst))
      PROVE  logs[i].dst \in names
  <2>1. \A h \in dstHints(logs[i].dst) : h.at = NoPlace /\ ~Indexed(logs[i].dst)
    BY <1>4, PlacedIsValid
  <2>2. logs[i].dstHint \in dstHints(logs[i].dst)
    OBVIOUS
  <2>3. \A j \in DOMAIN logs : logs[j].dst = logs[i].dst => logs[j].dstHint \in dstHints(logs[i].dst)
    OBVIOUS
  <2>4. logs[i].dst \in UnplacedDestinations(logs)
    BY <2>1, <2>3 DEF UnplacedDestinations
  <2>5. QED
    BY <1>2, <2>1, <2>2, <2>4
<1>5. ASSUME NEW a \in names
      PROVE  ~Indexed(a) /\ \E h \in srcHints(a) \cup dstHints(a) : h.at = NoPlace
  <2>1. ~Indexed(a) /\ a \in UnplacedSources(logs) \cup UnplacedDestinations(logs)
    BY <1>2
  <2>2. CASE a \in UnplacedSources(logs)
    <3>1. PICK i \in DOMAIN logs : a = logs[i].src /\ logs[i].srcHint.at = NoPlace
      BY <2>2 DEF UnplacedSources
    <3>2. logs[i].srcHint \in srcHints(a)
      BY <3>1
    <3>3. QED
      BY <2>1, <3>1, <3>2
  <2>3. CASE a \in UnplacedDestinations(logs)
    <3>1. PICK i \in DOMAIN logs : a = logs[i].dst /\ logs[i].dstHint.at = NoPlace
      BY <2>3 DEF UnplacedDestinations
    <3>2. logs[i].dstHint \in dstHints(a)
      BY <3>1
    <3>3. QED
      BY <2>1, <3>1, <3>2
  <2>4. QED
    BY <2>1, <2>2, <2>3
<1>6. QED
  BY <1>3, <1>4, <1>5 DEF MissingNamed

\* geo.ListMissing, as requests ask for it.
LEMMA MissingAnswered ==
    ASSUME AskMissing
    PROVE  req'.topic = "missing" /\ ReportWhole'
<1>1. PICK rows \in Logs, enrich \in {"none", "place", "country"}, limit \in {1, 4} :
        LET stored(row) ==
                IF enrich = "none" THEN row
                ELSE [row EXCEPT !.srcHint = enrichGeo(row.src, @, enrich = "country"),
                                 !.dstHint = enrichGeo(row.dst, @, enrich = "country")]
            table == [i \in DOMAIN rows |-> stored(rows[i])]
        IN  /\ req' = [topic |-> "missing", rows |-> table, cut |-> Cardinality(ScanGeoMissingIPs(table)) > limit]
            /\ ans' \in {[listed |-> l] : l \in ListMissing(table, limit)}
  BY DEF AskMissing
<1> DEFINE stored(row) ==
                IF enrich = "none" THEN row
                ELSE [row EXCEPT !.srcHint = enrichGeo(row.src, @, enrich = "country"),
                                 !.dstHint = enrichGeo(row.dst, @, enrich = "country")]
<1>2. PICK table : table = [i \in DOMAIN rows |-> stored(rows[i])]
  OBVIOUS
<1>3. /\ req' = [topic |-> "missing", rows |-> table, cut |-> Cardinality(ScanGeoMissingIPs(table)) > limit]
      /\ ans' \in {[listed |-> l] : l \in ListMissing(table, limit)}
  BY <1>1, <1>2, Zenon
<1>4. rows \in Seq(LogRows) /\ DOMAIN table = DOMAIN rows
  BY <1>2, RequestsAssumption
<1>5. ASSUME NEW i \in DOMAIN table
      PROVE  table[i].src \in Addresses /\ table[i].dst \in Addresses
  <2>1. rows[i] \in LogRows
    BY <1>4
  <2>2. PICK r \in LogRows : r = rows[i]
    BY <2>1
  <2>3. r.src \in Addresses /\ r.dst \in Addresses /\ {"src", "dst"} \subseteq DOMAIN r
    BY DEF LogRows
  <2>4. table[i] = stored(r)
    BY <1>2, <1>4, <2>2
  <2>5. stored(r).src = r.src /\ stored(r).dst = r.dst
    BY <2>3
  <2> HIDE DEF stored
  <2> QED
    BY <2>3, <2>4, <2>5
<1>6. PICK l \in ListMissing(table, limit) : ans' = [listed |-> l]
  BY <1>3
<1>7. PICK c : c = Cardinality(ScanGeoMissingIPs(table))
  OBVIOUS
<1>8. c \in Nat
  <2>1. PICK U : U = UnplacedSources(table) \cup UnplacedDestinations(table)
    OBVIOUS
  <2>2. IsFiniteSet(U)
    <3>1. PICK n \in Nat : DOMAIN table = 1 .. n
      BY <1>4
    <3>2. IsFiniteSet(1 .. n)
      BY FS_Interval
    <3>3. PICK s, d : s = [i \in 1 .. n |-> table[i].src] /\ d = [i \in 1 .. n |-> table[i].dst]
      OBVIOUS
    <3>4. PICK S, D : S = {s[i] : i \in 1 .. n} /\ D = {d[i] : i \in 1 .. n}
      OBVIOUS
    <3>5. IsFiniteSet(S) /\ IsFiniteSet(D)
      BY <3>2, <3>4, ImageFinite
    <3>6. UnplacedSources(table) \subseteq S
      BY <3>1, <3>3, <3>4 DEF UnplacedSources
    <3>7. UnplacedDestinations(table) \subseteq D
      BY <3>1, <3>3, <3>4 DEF UnplacedDestinations
    <3>8. IsFiniteSet(S \cup D) /\ U \in SUBSET (S \cup D)
      BY <2>1, <3>5, <3>6, <3>7, FS_Union
    <3> QED
      BY <3>8, FS_Subset
  <2>3. PICK f : f = [a \in U |-> [ip |-> a,
                                   count |-> EventsAs(a, UnplacedSources(table), UnplacedDestinations(table), table)]]
    OBVIOUS
  <2>4. PICK T : T = ScanGeoMissingIPs(table)
    OBVIOUS
  <2>5. T = {f[a] : a \in U}
    BY <2>1, <2>3, <2>4 DEF ScanGeoMissingIPs
  <2>6. IsFiniteSet(T)
    BY <2>2, <2>5, ImageFinite
  <2> QED
    BY <1>7, <2>4, <2>6, FS_CardinalityType
<1>9. ASSUME ~req'.cut
      PROVE  MissingNamed(table, l)
  <2>1. ~(c > limit)
    BY <1>3, <1>7, <1>9, Zenon
  <2>2. c <= limit
    BY <1>8, <2>1
  <2> QED
    BY <1>5, <1>7, <2>2, MissingAreNamed
<1>10. req'.rows = table /\ ans'.listed = l
  BY <1>3, <1>6
<1> QED
  BY <1>3, <1>9, <1>10 DEF ReportWhole

-----------------------------------------------------------------------------
(* Addresses that share a node *)

NodeOf(k, p, c, d, v) == [key |-> k, at |-> p, city |-> c, country |-> d, valid |-> v]

\* The key is put together from names, and at least one of them is known.
KeyNamed(key, names) ==
    /\ \E i \in DOMAIN key : Known(key[i]) /\ key[i] # "city:country"
    /\ \A i \in DOMAIN key : Known(key[i]) /\ key[i] # "city:country" => key[i] \in names

\* What is known of an address is among its names.
Among(list, names) == "city:country" \notin names /\ \A n \in list : Known(n) => n \in names

\* Keys of one and of two names.
LEMMA KeysNamed ==
    ASSUME NEW names, NEW c, NEW d, Among({c, d}, names)
    PROVE  /\ Known(c) => KeyNamed(<<c>>, names)
           /\ Known(c) \/ Known(d) => KeyNamed(<<c, d>>, names)
           /\ Known(d) => KeyNamed(<<"city:country", d>>, names)
<1>1. (Known(c) => c \in names) /\ (Known(d) => d \in names) /\ "city:country" \notin names
  BY DEF Among
<1>2. ASSUME Known(c) PROVE KeyNamed(<<c>>, names)
  <2>1. c \in names /\ c # "city:country"
    BY <1>1, <1>2
  <2>2. PICK key : key = <<c>>
    OBVIOUS
  <2>3. DOMAIN key = {1} /\ key[1] = c
    BY <2>2
  <2> QED
    BY <1>2, <2>1, <2>2, <2>3 DEF KeyNamed
<1>3. ASSUME Known(c) \/ Known(d) PROVE KeyNamed(<<c, d>>, names)
  <2>1. (Known(c) => c \in names /\ c # "city:country") /\ (Known(d) => d \in names /\ d # "city:country")
    BY <1>1
  <2>2. PICK key : key = <<c, d>>
    OBVIOUS
  <2>3. DOMAIN key = {1, 2} /\ key[1] = c /\ key[2] = d
    BY <2>2
  <2> QED
    BY <1>3, <2>1, <2>2, <2>3 DEF KeyNamed
<1>4. ASSUME Known(d) PROVE KeyNamed(<<"city:country", d>>, names)
  <2>1. d \in names /\ d # "city:country"
    BY <1>1, <1>4
  <2>2. PICK key : key = <<"city:country", d>>
    OBVIOUS
  <2>3. DOMAIN key = {1, 2} /\ key[1] = "city:country" /\ key[2] = d
    BY <2>2
  <2> QED
    BY <1>4, <2>1, <2>2, <2>3 DEF KeyNamed
<1> QED
  BY <1>2, <1>3, <1>4

\* promoteUnknownMapKey: what leaves the shared bucket goes to known names or stays alone.
LEMMA PromotedKey ==
    ASSUME NEW k, NEW p, NEW c, NEW d, NEW v, NEW ip, NEW names, Among({c, d}, names),
           NEW r, r = promoteUnknownMapKey(NodeOf(k, p, c, d, v), ip)
    PROVE  /\ r = NodeOf(r.key, p, c, d, v)
           /\ ~isCollapsedMapKey(k) => r.key = k
           /\ isCollapsedMapKey(k) => r.key = <<ip>> \/ KeyNamed(r.key, names)
<1> DEFINE m == NodeOf(k, p, c, d, v)
           promoted == CASE Known(c) -> IF Known(d) THEN <<c, d>> ELSE <<c>>
                         [] ~Known(c) /\ Known(d) -> IF k = <<"city:unknown">> THEN <<"city:country", d>> ELSE <<d>>
                         [] OTHER -> <<ip>>
<1>1. r = IF ~isCollapsedMapKey(k) THEN m ELSE [m EXCEPT !.key = promoted]
  BY DEF promoteUnknownMapKey, NodeOf
<1>2. [m EXCEPT !.key = promoted] = NodeOf(promoted, p, c, d, v)
  BY DEF NodeOf
<1>3. r = NodeOf(IF ~isCollapsedMapKey(k) THEN k ELSE promoted, p, c, d, v)
  BY <1>1, <1>2
<1>4. r.key = IF ~isCollapsedMapKey(k) THEN k ELSE promoted
  BY <1>3 DEF NodeOf
<1>5. /\ Known(c) => KeyNamed(<<c>>, names)
      /\ Known(c) => KeyNamed(<<c, d>>, names)
      /\ Known(d) => KeyNamed(<<"city:country", d>>, names)
  BY KeysNamed
<1>6. Among({d, c}, names)
  BY DEF Among
<1>7. Known(d) => KeyNamed(<<d>>, names)
  BY <1>6, KeysNamed
<1>8. promoted = <<ip>> \/ KeyNamed(promoted, names)
  <2>1. CASE Known(c)
    BY <1>5, <2>1
  <2>2. CASE ~Known(c) /\ Known(d)
    BY <1>5, <1>7, <2>2
  <2>3. CASE ~Known(c) /\ ~Known(d)
    BY <2>3
  <2> QED
    BY <2>1, <2>2, <2>3
<1> HIDE DEF promoted, m
<1> QED
  BY <1>3, <1>4, <1>8

\* preferCountry makes no country up.
LEMMA PreferredIsSaid ==
    ASSUME NEW c, NEW d
    PROVE  preferCountry(c, d) \in {c, d, "unknown"}
BY DEF preferCountry

Renamed(m, c, d) == [m EXCEPT !.city = c, !.country = d]
Moved(m, p, v, d) == [m EXCEPT !.at = p, !.valid = v, !.country = d]

\* Nodes with some fields replaced.
LEMMA NodeChanged ==
    ASSUME NEW k, NEW p, NEW c, NEW d, NEW v
    PROVE  /\ \A c2, d2 : Renamed(NodeOf(k, p, c, d, v), c2, d2) = NodeOf(k, p, c2, d2, v)
           /\ \A p2, v2, d2 : Moved(NodeOf(k, p, c, d, v), p2, v2, d2) = NodeOf(k, p2, c, d2, v2)
<1>1. PICK m : m = NodeOf(k, p, c, d, v)
  OBVIOUS
<1>2. DOMAIN m = {"key", "at", "city", "country", "valid"}
  BY <1>1 DEF NodeOf
<1>3. ASSUME NEW c2, NEW d2 PROVE Renamed(m, c2, d2) = NodeOf(k, p, c2, d2, v)
  <2>1. PICK q : q = [m EXCEPT !.city = c2, !.country = d2]
    OBVIOUS
  <2>2. q = [x \in DOMAIN m |-> q[x]]
    BY <2>1
  <2>3. q.key = k /\ q.at = p /\ q.city = c2 /\ q.country = d2 /\ q.valid = v
    BY <1>1, <1>2, <2>1 DEF NodeOf
  <2> QED
    BY <1>2, <2>1, <2>2, <2>3 DEF NodeOf, Renamed
<1>4. ASSUME NEW p2, NEW v2, NEW d2 PROVE Moved(m, p2, v2, d2) = NodeOf(k, p2, c, d2, v2)
  <2>1. PICK q : q = [m EXCEPT !.at = p2, !.valid = v2, !.country = d2]
    OBVIOUS
  <2>2. q = [x \in DOMAIN m |-> q[x]]
    BY <2>1
  <2>3. q.key = k /\ q.at = p2 /\ q.city = c /\ q.country = d2 /\ q.valid = v2
    BY <1>1, <1>2, <2>1 DEF NodeOf
  <2> QED
    BY <1>2, <2>1, <2>2, <2>3 DEF NodeOf, Moved
<1> QED
  BY <1>1, <1>3, <1>4

\* The key of an address with a position, after the logs were asked.
Said(c, d, h, names) == Among({c, d, h.city, h.country}, names)
Kept(r, k, ip, names) ==
    r.valid /\ r.at # NoPlace =>
       /\ ~isCollapsedMapKey(k) => r.key = k
       /\ isCollapsedMapKey(k) => r.key = <<ip>> \/ KeyNamed(r.key, names)

\* applyLogGeoFallback: the key of an address that has a position.
LEMMA FallbackKey ==
    ASSUME NEW k, NEW p, NEW c, NEW d, NEW v, NEW ip, NEW h, NEW names,
           Said(c, d, h, names),
           NEW r, r = applyLogGeoFallback(NodeOf(k, p, c, d, v), h, ip)
    PROVE  r = NodeOf(r.key, r.at, r.city, r.country, r.valid) /\ Kept(r, k, ip, names)
<1> DEFINE m0 == NodeOf(k, p, c, d, v)
<1>1. PICK country : country = preferCountry(h.country, d)
  OBVIOUS
<1>2. PICK city, land : /\ city = IF c = "" THEN h.city ELSE c
                        /\ land = IF UsableCountry(country) THEN country ELSE d
  OBVIOUS
<1>3. [m0 EXCEPT !.city = IF @ = "" THEN h.city ELSE @,
                 !.country = IF UsableCountry(country) THEN country ELSE @] = NodeOf(k, p, city, land, v)
  <2>1. m0.city = c /\ m0.country = d
    BY DEF NodeOf
  <2>2. Renamed(m0, city, land) = NodeOf(k, p, city, land, v)
    BY NodeChanged
  <2> HIDE DEF m0
  <2> QED
    BY <1>2, <2>1, <2>2, Zenon DEF Renamed
<1>4. PICK m : m = NodeOf(k, p, city, land, v)
  OBVIOUS
<1>5. r = Placed(m, h, country, ip)
  BY <1>1, <1>3, <1>4 DEF applyLogGeoFallback, NodeOf
<1>6. m.key = k /\ m.at = p /\ m.city = city /\ m.country = land /\ m.valid = v
  BY <1>4 DEF NodeOf
<1>7. country \in {h.country, d, "unknown"}
  BY <1>1, PreferredIsSaid
<1>8. Among({city, land, country}, names)
  <2>1. city \in {c, h.city} /\ land \in {country, d}
    BY <1>2
  <2> QED
    BY <1>7, <2>1 DEF Said, Among, Known
<1> DEFINE own == v /\ p # NoPlace
<1>9. CASE own \/ h.at # NoPlace \/ HasCenter(country)
  <2>1. PICK yes : yes = TRUE
    OBVIOUS
  <2>2. PICK p2, d2 : /\ p2 = IF own THEN p ELSE IF h.at # NoPlace THEN h.at ELSE CountryCenters[country]
                      /\ d2 = IF own \/ h.at # NoPlace THEN land ELSE country
    OBVIOUS
  <2>3. [m EXCEPT !.at = IF own THEN @ ELSE IF h.at # NoPlace THEN h.at ELSE CountryCenters[country],
                  !.valid = TRUE,
                  !.country = IF own \/ h.at # NoPlace THEN @ ELSE country] = NodeOf(k, p2, city, d2, yes)
    <3>1. Moved(m, p2, yes, d2) = NodeOf(k, p2, city, d2, yes)
      BY <1>4, NodeChanged
    <3> QED
      BY <1>6, <2>1, <2>2, <3>1, Zenon DEF Moved
  <2>4. r = promoteUnknownMapKey(NodeOf(k, p2, city, d2, yes), ip)
    BY <1>5, <1>6, <1>9, <2>3 DEF Placed
  <2>5. Among({city, d2}, names)
    BY <1>8, <2>2 DEF Among
  <2>6. /\ r = NodeOf(r.key, p2, city, d2, yes)
        /\ ~isCollapsedMapKey(k) => r.key = k
        /\ isCollapsedMapKey(k) => r.key = <<ip>> \/ KeyNamed(r.key, names)
    BY <2>4, <2>5, PromotedKey
  <2>7. r.at = p2 /\ r.city = city /\ r.country = d2 /\ r.valid = yes
    BY <2>6 DEF NodeOf
  <2> QED
    BY <2>6, <2>7 DEF Kept
<1>10. CASE ~(own \/ h.at # NoPlace \/ HasCenter(country))
  <2>1. r = m
    BY <1>5, <1>6, <1>10 DEF Placed
  <2>2. ~(r.valid /\ r.at # NoPlace)
    BY <1>6, <1>10, <2>1
  <2> QED
    BY <1>4, <1>6, <2>1, <2>2 DEF Kept
<1> QED
  BY <1>9, <1>10

\* Names of addresses, networks and places are different.
LEMMA NamesDiffer ==
    ASSUME NEW ip \in Addresses, NEW h \in Hints
    PROVE  /\ Among({Lookup[ip].city, Lookup[ip].country, h.city, h.country}, NamesOf(ip, h))
           /\ ip \notin Placeholders /\ Lookup[ip].city # "unknown"
           /\ \A x \in Addresses : x \notin NamesOf(ip, h) /\ SubnetOf[x] \notin NamesOf(ip, h)
           /\ SubnetOf[ip] \notin Addresses /\ SubnetOf[ip] \notin Placeholders \ {""}
<1> DEFINE names == AllNames
<1>1. NamesOf(ip, h) \subseteq names
  BY DEF AllNames
<1>2. "city:country" \notin names
  BY NamesAssumption
<1>3. \A x \in Addresses : /\ x \notin names \cup Placeholders /\ Lookup[x].city # "unknown"
                           /\ SubnetOf[x] \notin names \cup Addresses \cup (Placeholders \ {""})
  BY NamesAssumption
<1> HIDE DEF names
<1>4. "city:country" \notin NamesOf(ip, h)
  BY <1>1, <1>2
<1>5. \A n \in {Lookup[ip].city, Lookup[ip].country, h.city, h.country} : Known(n) => n \in NamesOf(ip, h)
  BY DEF NamesOf
<1>6. Among({Lookup[ip].city, Lookup[ip].country, h.city, h.country}, NamesOf(ip, h))
  BY <1>4, <1>5 DEF Among
<1>7. \A x \in Addresses : x \notin NamesOf(ip, h) /\ SubnetOf[x] \notin NamesOf(ip, h)
  BY <1>1, <1>3
<1> QED
  BY <1>3, <1>6, <1>7

Nameless(m) == [m EXCEPT !.city = ""]

\* The records that nodes by group start from.
LEMMA MetaIsNode ==
    ASSUME NEW key, NEW lk, NEW at, NEW valid
    PROVE  /\ Meta(key, lk, at, valid) = NodeOf(key, at, lk.city, lk.country, valid)
           /\ Nameless(Meta(key, lk, at, valid)) = NodeOf(key, at, "", lk.country, valid)
<1>1. PICK m, c, d : m = Meta(key, lk, at, valid) /\ c = lk.city /\ d = lk.country
  OBVIOUS
<1>2. m = NodeOf(key, at, c, d, valid)
  BY <1>1 DEF Meta, NodeOf
<1>3. PICK q : q = [m EXCEPT !.city = ""]
  OBVIOUS
<1>4. DOMAIN m = {"key", "at", "city", "country", "valid"}
  BY <1>2 DEF NodeOf
<1>5. q = [x \in DOMAIN m |-> q[x]]
  BY <1>3
<1>6. q.key = key /\ q.at = at /\ q.city = "" /\ q.country = d /\ q.valid = valid
  BY <1>2, <1>3, <1>4 DEF NodeOf
<1>7. q = NodeOf(key, at, "", d, valid)
  BY <1>4, <1>5, <1>6 DEF NodeOf
<1>8. q = Nameless(m)
  BY <1>3 DEF Nameless
<1> QED
  BY <1>1, <1>2, <1>7, <1>8

\* The node that cityMeta begins with: its key is the address, a name, or to be replaced.
LEMMA CityNode ==
    ASSUME NEW ip \in Addresses, NEW h \in Hints
    PROVE  \E k, p, c, v :
              /\ cityMeta(ip, Lookup[ip]) = NodeOf(k, p, c, Lookup[ip].country, v)
              /\ c \in {Lookup[ip].city, ""}
              /\ isCollapsedMapKey(k) \/ k = <<ip>> \/ KeyNamed(k, NamesOf(ip, h))
<1> DEFINE lk == Lookup[ip]
           names == NamesOf(ip, h)
<1>1. Among({lk.city, lk.country}, names) /\ lk.city # "unknown"
  <2>1. Among({lk.city, lk.country, h.city, h.country}, names) /\ lk.city # "unknown"
    BY NamesDiffer
  <2> HIDE DEF lk, names
  <2> QED
    BY <2>1 DEF Among
<1>2. PICK city, country : city = lk.city /\ country = lk.country
  OBVIOUS
<1>3. Among({city, country}, names)
  BY <1>1, <1>2
<1>4. /\ Known(city) => KeyNamed(<<city>>, names)
      /\ Known(city) => KeyNamed(<<city, country>>, names)
      /\ Known(country) => KeyNamed(<<"city:country", country>>, names)
  BY <1>3, KeysNamed
<1>5. PICK yes, no : yes = TRUE /\ no = FALSE
  OBVIOUS
<1>6. CASE lk.city # "" /\ lk.found
  <2>1. PICK k : k = IF lk.country # "" THEN <<lk.city, lk.country>> ELSE <<lk.city>>
    OBVIOUS
  <2>2. cityMeta(ip, lk) = Meta(k, lk, lk.at, yes)
    BY <1>5, <1>6, <2>1, Zenon DEF cityMeta
  <2>3. cityMeta(ip, lk) = NodeOf(k, lk.at, lk.city, lk.country, yes)
    BY <2>2, MetaIsNode, Zenon
  <2>4. Known(city)
    BY <1>1, <1>2, <1>6 DEF Known
  <2>5. KeyNamed(k, names)
    BY <1>2, <1>4, <2>1, <2>4
  <2> QED
    BY <2>5, <2>3
<1>7. CASE ~(lk.city # "" /\ lk.found) /\ Known(lk.country)
  <2>1. PICK k, p, v : /\ k = <<"city:country", lk.country>>
                       /\ p = IF HasCenter(lk.country) THEN CountryCenters[lk.country] ELSE lk.at
                       /\ v = (lk.found \/ HasCenter(lk.country))
    OBVIOUS
  <2>2. cityMeta(ip, lk) = Nameless(Meta(k, lk, p, v))
    BY <1>7, <2>1, Zenon DEF cityMeta, Nameless
  <2>3. cityMeta(ip, lk) = NodeOf(k, p, "", lk.country, v)
    BY <2>2, MetaIsNode, Zenon
  <2>4. KeyNamed(k, names)
    BY <1>2, <1>4, <1>7, <2>1
  <2> QED
    BY <2>3, <2>4
<1>8. CASE ~(lk.city # "" /\ lk.found) /\ ~Known(lk.country)
  <2>1. cityMeta(ip, lk) = IF lk.found /\ lk.at # NoPlace THEN Meta(<<ip>>, lk, lk.at, TRUE)
                           ELSE Meta(<<"city:unknown">>, lk, lk.at, FALSE)
    BY <1>8, Zenon DEF cityMeta
  <2>2. CASE lk.found /\ lk.at # NoPlace
    <3>1. cityMeta(ip, lk) = NodeOf(<<ip>>, lk.at, lk.city, lk.country, yes)
      BY <1>5, <2>1, <2>2, MetaIsNode, Zenon
    <3> QED
      BY <3>1
  <2>3. CASE ~(lk.found /\ lk.at # NoPlace)
    <3>1. cityMeta(ip, lk) = Meta(<<"city:unknown">>, lk, lk.at, no)
      BY <1>5, <2>1, <2>3, Zenon
    <3>2. cityMeta(ip, lk) = NodeOf(<<"city:unknown">>, lk.at, lk.city, lk.country, no)
      BY <3>1, MetaIsNode, Zenon
    <3>3. isCollapsedMapKey(<<"city:unknown">>)
      BY DEF isCollapsedMapKey
    <3> QED
      BY <3>2, <3>3
  <2> QED
    BY <2>2, <2>3
<1> QED
  BY <1>6, <1>7, <1>8

\* The same of countryMeta.
LEMMA CountryNode ==
    ASSUME NEW ip \in Addresses, NEW h \in Hints
    PROVE  \E k, p, v :
              /\ countryMeta(ip, Lookup[ip]) = NodeOf(k, p, Lookup[ip].city, Lookup[ip].country, v)
              /\ isCollapsedMapKey(k) \/ KeyNamed(k, NamesOf(ip, h))
<1> DEFINE lk == Lookup[ip]
           names == NamesOf(ip, h)
<1>1. Among({lk.country}, names)
  <2>1. Among({lk.city, lk.country, h.city, h.country}, names)
    BY NamesDiffer
  <2> HIDE DEF lk, names
  <2> QED
    BY <2>1 DEF Among
<1>2. PICK label, k : label = (IF lk.country = "" THEN "unknown" ELSE lk.country) /\ k = <<label>>
  OBVIOUS
<1>3. PICK p, v : /\ p = IF HasCenter(label) THEN CountryCenters[label] ELSE lk.at
                  /\ v = IF HasCenter(label) THEN TRUE ELSE lk.found
  OBVIOUS
<1>4. countryMeta(ip, lk) = Meta(k, lk, p, v)
  BY <1>2, <1>3, Zenon DEF countryMeta
<1>5. countryMeta(ip, lk) = NodeOf(k, p, lk.city, lk.country, v)
  BY <1>4, MetaIsNode, Zenon
<1>6. CASE Known(lk.country)
  <2>1. label = lk.country /\ Known(label)
    BY <1>2, <1>6 DEF Known
  <2>2. Among({label, label}, names)
    BY <1>1, <2>1 DEF Among
  <2>3. KeyNamed(<<label>>, names)
    BY <2>1, <2>2, KeysNamed
  <2> QED
    BY <1>2, <1>5, <2>3
<1>7. CASE ~Known(lk.country)
  <2>1. label = "unknown"
    BY <1>2, <1>7 DEF Known
  <2>2. isCollapsedMapKey(k)
    BY <1>2, <2>1 DEF isCollapsedMapKey
  <2> QED
    BY <1>5, <2>2
<1> QED
  BY <1>6, <1>7

\* The same of addresses and of subnets.
LEMMA PlainNode ==
    ASSUME NEW ip \in Addresses
    PROVE  /\ Meta(<<ip>>, Lookup[ip], Lookup[ip].at, Lookup[ip].found)
              = NodeOf(<<ip>>, Lookup[ip].at, Lookup[ip].city, Lookup[ip].country, Lookup[ip].found)
           /\ \E k, p, c, v :
                 /\ subnetMeta(ip, Lookup[ip]) = NodeOf(k, p, c, Lookup[ip].country, v)
                 /\ c \in {Lookup[ip].city, ""}
                 /\ k = IF SubnetOf[ip] = "" THEN <<"unknown">> ELSE <<SubnetOf[ip]>>
<1> DEFINE lk == Lookup[ip]
<1>1. PICK no : no = FALSE
  OBVIOUS
<1>2. Meta(<<ip>>, lk, lk.at, lk.found) = NodeOf(<<ip>>, lk.at, lk.city, lk.country, lk.found)
  BY MetaIsNode, Zenon
<1>3. CASE SubnetOf[ip] = ""
  <2>1. subnetMeta(ip, lk) = Nameless(Meta(<<"unknown">>, lk, NoPlace, no))
    BY <1>1, <1>3, Zenon DEF subnetMeta, Nameless
  <2>2. subnetMeta(ip, lk) = NodeOf(<<"unknown">>, NoPlace, "", lk.country, no)
    BY <2>1, MetaIsNode, Zenon
  <2>3. PICK k, c : k = <<"unknown">> /\ c = ""
    OBVIOUS
  <2>4. /\ subnetMeta(ip, lk) = NodeOf(k, NoPlace, c, lk.country, no)
        /\ c \in {lk.city, ""}
        /\ k = IF SubnetOf[ip] = "" THEN <<"unknown">> ELSE <<SubnetOf[ip]>>
    BY <1>3, <2>2, <2>3
  <2> QED
    BY <1>2, <2>4, Zenon
<1>4. CASE SubnetOf[ip] # ""
  <2>1. subnetMeta(ip, lk) = NodeOf(<<SubnetOf[ip]>>, lk.at, lk.city, lk.country, lk.found)
    BY <1>4, MetaIsNode, Zenon DEF subnetMeta
  <2>2. PICK k : k = <<SubnetOf[ip]>>
    OBVIOUS
  <2>3. /\ subnetMeta(ip, lk) = NodeOf(k, lk.at, lk.city, lk.country, lk.found)
        /\ lk.city \in {lk.city, ""}
        /\ k = IF SubnetOf[ip] = "" THEN <<"unknown">> ELSE <<SubnetOf[ip]>>
    BY <1>4, <2>1, <2>2
  <2> QED
    BY <1>2, <2>3, Zenon
<1> QED
  BY <1>3, <1>4

\* IPGroupMetaHinted: an address with a position is named by its network, by what is
\* known of it, or by itself.
LEMMA NodeIsNamed ==
    ASSUME NEW ip \in Addresses, NEW h \in Hints, NEW group \in {"ip", "subnet", "city", "country"},
           NEW r, r = IPGroupMetaHinted(ip, group, h), r.valid, r.at # NoPlace
    PROVE  IF group = "subnet" /\ SubnetOf[ip] # "" THEN r.key = <<SubnetOf[ip]>>
           ELSE r.key = <<ip>> \/ KeyNamed(r.key, NamesOf(ip, h))
<1> DEFINE lk == Lookup[ip]
           names == NamesOf(ip, h)
           m0 == CASE group = "subnet"    -> subnetMeta(ip, lk)
                   [] group = "city"      -> cityMeta(ip, lk)
                   [] group = "country"   -> countryMeta(ip, lk)
                   [] group = "continent" -> continentGroupMeta(Meta(<<"">>, lk, NoPlace, FALSE))
                   [] OTHER               -> Meta(<<ip>>, lk, lk.at, lk.found)
<1>1. r = applyLogGeoFallback(m0, h, ip)
  BY DEF IPGroupMetaHinted, Regrouped
<1>2. \E k, p, c, v : /\ m0 = NodeOf(k, p, c, lk.country, v)
                      /\ c \in {lk.city, ""}
                      /\ IF group = "subnet" THEN k = IF SubnetOf[ip] = "" THEN <<"unknown">> ELSE <<SubnetOf[ip]>>
                         ELSE isCollapsedMapKey(k) \/ k = <<ip>> \/ KeyNamed(k, names)
  <2>1. CASE group = "subnet"
    <3>1. m0 = subnetMeta(ip, lk)
      BY <2>1
    <3> HIDE DEF m0, names
    <3> QED
      BY <2>1, <3>1, PlainNode
  <2>2. CASE group = "city"
    <3>1. m0 = cityMeta(ip, lk)
      BY <2>2
    <3> HIDE DEF m0
    <3> QED
      BY <2>2, <3>1, CityNode
  <2>3. CASE group = "country"
    <3>1. m0 = countryMeta(ip, lk)
      BY <2>3
    <3> HIDE DEF m0
    <3>2. PICK k, p, v : /\ m0 = NodeOf(k, p, lk.city, lk.country, v)
                         /\ isCollapsedMapKey(k) \/ KeyNamed(k, names)
      BY <3>1, CountryNode
    <3> QED
      BY <2>3, <3>2
  <2>4. CASE group = "ip"
    <3>1. m0 = Meta(<<ip>>, lk, lk.at, lk.found)
      BY <2>4
    <3> HIDE DEF m0
    <3>2. PICK k : k = <<ip>>
      OBVIOUS
    <3>3. m0 = NodeOf(k, lk.at, lk.city, lk.country, lk.found)
      BY <3>1, <3>2, PlainNode
    <3> QED
      BY <2>4, <3>2, <3>3
  <2> HIDE DEF m0, names, lk
  <2> QED
    BY <2>1, <2>2, <2>3, <2>4
<1> HIDE DEF m0
<1>3. PICK k, p, c, v : /\ m0 = NodeOf(k, p, c, lk.country, v)
                        /\ c \in {lk.city, ""}
                        /\ IF group = "subnet" THEN k = IF SubnetOf[ip] = "" THEN <<"unknown">> ELSE <<SubnetOf[ip]>>
                           ELSE isCollapsedMapKey(k) \/ k = <<ip>> \/ KeyNamed(k, names)
  BY <1>2
<1>4. PICK d, hc, hd : d = lk.country /\ hc = h.city /\ hd = h.country
  OBVIOUS
<1>5. Among({c, d, h.city, h.country}, names)
  <2>1. Among({lk.city, lk.country, h.city, h.country}, names)
    BY NamesDiffer
  <2> HIDE DEF lk, names
  <2> QED
    BY <1>3, <1>4, <2>1 DEF Among, Known
<1>6. r = applyLogGeoFallback(NodeOf(k, p, c, d, v), h, ip)
  BY <1>1, <1>3, <1>4
<1>7. /\ ~isCollapsedMapKey(k) => r.key = k
      /\ isCollapsedMapKey(k) => r.key = <<ip>> \/ KeyNamed(r.key, names)
  <2> HIDE DEF names, lk
  <2>1. Said(c, d, h, names)
    BY <1>5 DEF Said
  <2>2. Kept(r, k, ip, names)
    BY <1>6, <2>1, FallbackKey
  <2> QED
    BY <2>2 DEF Kept
<1>8. CASE group = "subnet" /\ SubnetOf[ip] # ""
  <2>1. SubnetOf[ip] \notin {"", "city:unknown", "unknown"}
    BY <1>8, NamesDiffer DEF Placeholders
  <2>2. k = <<SubnetOf[ip]>>
    BY <1>3, <1>8
  <2>3. ~isCollapsedMapKey(k)
    BY <2>1, <2>2 DEF isCollapsedMapKey
  <2> QED
    BY <1>7, <1>8, <2>2, <2>3
<1>9. CASE group = "subnet" /\ SubnetOf[ip] = ""
  <2>1. isCollapsedMapKey(k)
    BY <1>3, <1>9 DEF isCollapsedMapKey
  <2> QED
    BY <1>7, <1>9, <2>1
<1>10. CASE group # "subnet"
  BY <1>3, <1>7, <1>10
<1> QED
  BY <1>8, <1>9, <1>10

\* A part of the key is a name that both addresses have.
SharedName(key, a, b, ha, hb) == \E i \in DOMAIN key : key[i] \in NamesOf(a, ha) \cap NamesOf(b, hb)

\* What two addresses named alike have in common.
LEMMA NamedAlike ==
    ASSUME NEW a \in Addresses, NEW b \in Addresses, a # b, NEW ha \in Hints, NEW hb \in Hints, NEW key,
           key = <<a>> \/ KeyNamed(key, NamesOf(a, ha)), key = <<b>> \/ KeyNamed(key, NamesOf(b, hb))
    PROVE  SharedName(key, a, b, ha, hb)
<1>1. /\ a \notin NamesOf(b, hb) /\ b \notin NamesOf(a, ha)
      /\ a \notin Placeholders /\ b \notin Placeholders
  BY NamesDiffer
<1>2. Known(a) /\ Known(b) /\ a # "city:country" /\ b # "city:country"
  BY <1>1 DEF Placeholders, Known
<1>3. ASSUME NEW x, NEW y, x # y, key = <<x>>, key = <<y>> PROVE FALSE
  BY <1>3
<1>4. ASSUME NEW x, NEW names, key = <<x>>, Known(x), x # "city:country", x \notin names, KeyNamed(key, names)
      PROVE  FALSE
  <2>1. 1 \in DOMAIN key /\ key[1] = x
    BY <1>4
  <2> QED
    BY <1>4, <2>1 DEF KeyNamed
<1>5. KeyNamed(key, NamesOf(a, ha)) /\ KeyNamed(key, NamesOf(b, hb))
  BY <1>1, <1>2, <1>3, <1>4
<1> QED
  BY <1>5 DEF KeyNamed, SharedName

\* A key of one name.
LEMMA OneName ==
    ASSUME NEW s, NEW key, key = <<s>>
    PROVE  1 \in DOMAIN key /\ key[1] = s
OBVIOUS

\* A network names no address and no place.
LEMMA NetworkAlone ==
    ASSUME NEW a \in Addresses, NEW b \in Addresses, NEW hb \in Hints, NEW key,
           SubnetOf[a] # "", key = <<SubnetOf[a]>>
    PROVE  ~(key = <<b>> \/ KeyNamed(key, NamesOf(b, hb)))
<1>1. /\ SubnetOf[a] \notin NamesOf(b, hb) /\ SubnetOf[a] \notin Addresses
      /\ SubnetOf[a] \notin Placeholders \ {""}
  BY NamesDiffer
<1>2. Known(SubnetOf[a]) /\ SubnetOf[a] # "city:country"
  BY <1>1 DEF Placeholders, Known
<1>3. 1 \in DOMAIN key /\ key[1] = SubnetOf[a]
  <2>1. PICK s : s = SubnetOf[a]
    OBVIOUS
  <2>2. key = <<s>>
    BY <2>1
  <2> QED
    BY <2>1, <2>2, OneName
<1>4. key # <<b>>
  BY <1>1
<1>5. ~KeyNamed(key, NamesOf(b, hb))
  BY <1>1, <1>2, <1>3 DEF KeyNamed
<1> QED
  BY <1>4, <1>5

NodeWith(r, c, d) == \E k, p, v : r = NodeOf(k, p, c, d, v)

\* continentGroupMeta: the continent is that of the node's country.
LEMMA ContinentOfNode ==
    ASSUME NEW k, NEW p, NEW c, NEW d, NEW v, NEW m, m = NodeOf(k, p, c, d, v),
           NEW r, r = continentGroupMeta(m)
    PROVE  /\ NodeWith(r, c, d)
           /\ r.valid => r.key = <<ContinentOf[r.country]>> /\ ContinentOf[r.country] # "unknown"
<1>1. PICK label : label = ContinentOf[IF UsableCountry(d) THEN d ELSE "unknown"]
  OBVIOUS
<1>2. PICK k2, p2, v2 : k2 = <<label>> /\ p2 = ContinentCenters[label] /\ v2 = (label # "unknown")
  OBVIOUS
<1>3. m.country = d /\ DOMAIN m = {"key", "at", "city", "country", "valid"}
  BY DEF NodeOf
<1>4. r = [m EXCEPT !.key = k2, !.at = p2, !.valid = v2]
  BY <1>1, <1>2, <1>3, Zenon DEF continentGroupMeta
<1>5. r = [x \in DOMAIN m |-> r[x]]
  BY <1>4
<1>6. r.key = k2 /\ r.at = p2 /\ r.city = c /\ r.country = d /\ r.valid = v2
  BY <1>3, <1>4 DEF NodeOf
<1>7. r = NodeOf(k2, p2, c, d, v2)
  BY <1>3, <1>5, <1>6 DEF NodeOf
<1>8. ASSUME v2 PROVE k2 = <<ContinentOf[d]>> /\ ContinentOf[d] # "unknown"
  <2>1. label # "unknown"
    BY <1>2, <1>8, Zenon
  <2>2. UsableCountry(d)
    BY <1>1, <2>1, NamesAssumption
  <2> QED
    BY <1>1, <1>2, <2>1, <2>2, Zenon
<1> HIDE DEF NodeOf
<1>9. r.valid => k2 = <<ContinentOf[d]>> /\ ContinentOf[d] # "unknown"
  BY <1>6, <1>8, Zenon
<1>10. r.valid => r.key = <<ContinentOf[r.country]>> /\ ContinentOf[r.country] # "unknown"
  BY <1>6, <1>9, Zenon
<1>11. NodeWith(r, c, d)
  BY <1>7 DEF NodeWith
<1> QED
  BY <1>10, <1>11

\* The map of continents.
LEMMA ContinentNode ==
    ASSUME NEW ip \in Addresses, NEW h \in Hints,
           NEW r, r = IPGroupMetaHinted(ip, "continent", h), r.valid
    PROVE  r.key = <<ContinentOf[r.country]>> /\ ContinentOf[r.country] # "unknown"
<1> DEFINE lk == Lookup[ip]
           names == NamesOf(ip, h)
<1>1. PICK m, m0, r1 : /\ m = Meta(<<"">>, lk, NoPlace, FALSE)
                       /\ m0 = continentGroupMeta(m)
                       /\ r1 = applyLogGeoFallback(m0, h, ip)
  OBVIOUS
<1>2. r = continentGroupMeta(r1)
  BY <1>1 DEF IPGroupMetaHinted, Regrouped
<1>3. PICK k, v : k = <<"">> /\ v = FALSE
  OBVIOUS
<1>4. m = NodeOf(k, NoPlace, lk.city, lk.country, v)
  BY <1>1, <1>3, MetaIsNode, Zenon
<1>5. PICK c, d, p : c = lk.city /\ d = lk.country /\ p = NoPlace
  OBVIOUS
<1>6. m = NodeOf(k, p, c, d, v)
  BY <1>4, <1>5
<1>7. PICK k2, p2, v2 : m0 = NodeOf(k2, p2, c, d, v2)
  <2>1. m0 = continentGroupMeta(m)
    BY <1>1
  <2> HIDE DEF lk, names
  <2>2. NodeWith(m0, c, d)
    BY <1>6, <2>1, ContinentOfNode
  <2> QED
    BY <2>2 DEF NodeWith
<1>8. Said(c, d, h, names)
  <2>1. Among({lk.city, lk.country, h.city, h.country}, names)
    BY NamesDiffer
  <2> HIDE DEF lk, names
  <2> QED
    BY <1>5, <2>1 DEF Said
<1>9. r1 = applyLogGeoFallback(NodeOf(k2, p2, c, d, v2), h, ip)
  BY <1>1, <1>7
<1> HIDE DEF names
<1>10. r1 = NodeOf(r1.key, r1.at, r1.city, r1.country, r1.valid)
  BY <1>8, <1>9, FallbackKey
<1>11. PICK k3, p3, c3, d3, v3 : r1 = NodeOf(k3, p3, c3, d3, v3)
  BY <1>10
<1> QED
  BY <1>2, <1>11, ContinentOfNode

\* resolveMeta without networks of enterprises.
LEMMA WithoutNetworks ==
    ASSUME NEW ip, NEW group \in Groups, NEW h
    PROVE  resolveMeta(ip, group, h, {})
              = IPGroupMetaHinted(ip, IF group = "city_country" THEN "country" ELSE group, h)
<1>1. EnterpriseLookup({}, Lookup[ip].number) = {}
  BY DEF EnterpriseLookup
<1>2. CASE group # "city_country"
  BY <1>2 DEF resolveMeta
<1>3. CASE group = "city_country"
  <2>1. resolveMeta(ip, group, h, {}) = IPGroupMetaHybrid(ip, FALSE, h)
    BY <1>1, <1>3, Zenon DEF resolveMeta
  <2> QED
    BY <1>3, <2>1 DEF IPGroupMetaHybrid
<1> QED
  BY <1>2, <1>3

\* cityKeyExpr and countryKeyExpr: a key that is not shared is the address or known.
LEMMA KeyOfGroup ==
    ASSUME NEW ip \in Addresses, NEW h \in Hints, NEW group \in {"ip", "city", "country", "city_country"},
           NEW key, key = geoGroupExprs(ip, h, group), ~isCollapsedMapKey(key)
    PROVE  key = <<ip>> \/ KeyNamed(key, NamesOf(ip, h))
<1> DEFINE names == NamesOf(ip, h)
<1>1. PICK city, country : city = h.city /\ country = h.country
  OBVIOUS
<1>2. Among({city, country}, names) /\ Among({country}, names)
  <2>1. Among({Lookup[ip].city, Lookup[ip].country, h.city, h.country}, names)
    BY NamesDiffer
  <2> HIDE DEF names
  <2> QED
    BY <1>1, <2>1 DEF Among
<1> HIDE DEF names
<1>3. /\ Known(city) => KeyNamed(<<city>>, names)
      /\ Known(city) \/ Known(country) => KeyNamed(<<city, country>>, names)
      /\ Known(country) => KeyNamed(<<"city:country", country>>, names)
  BY <1>2, KeysNamed
<1>4. Known(country) => KeyNamed(<<country>>, names)
  <2>1. Among({country, country}, names)
    BY <1>2 DEF Among
  <2> QED
    BY <2>1, KeysNamed
<1>5. CASE group = "ip"
  BY <1>5 DEF geoGroupExprs
<1>6. CASE group = "city"
  <2>1. key = cityKeyExpr(ip, h)
    BY <1>6 DEF geoGroupExprs
  <2>2. CASE city # ""
    <3>1. key = IF Known(country) THEN <<city, country>> ELSE <<city>>
      BY <1>1, <2>1, <2>2 DEF cityKeyExpr
    <3>2. CASE Known(country)
      BY <1>3, <3>1, <3>2 DEF names
    <3>3. CASE ~Known(country)
      <4>1. key = <<city>>
        BY <3>1, <3>3
      <4>2. city # "unknown"
        BY <4>1 DEF isCollapsedMapKey
      <4>3. Known(city)
        BY <2>2, <4>2 DEF Known
      <4> QED
        BY <1>3, <4>1, <4>3 DEF names
    <3> QED
      BY <3>2, <3>3
  <2>3. CASE city = "" /\ Known(country)
    <3>1. key = <<"city:country", country>>
      BY <1>1, <2>1, <2>3, Zenon DEF cityKeyExpr
    <3> QED
      BY <1>3, <2>3, <3>1 DEF names
  <2>4. CASE city = "" /\ ~Known(country)
    <3>1. key = <<ip>>
      BY <1>1, <2>1, <2>4, Zenon DEF cityKeyExpr
    <3> QED
      BY <3>1
  <2> QED
    BY <2>2, <2>3, <2>4
<1>7. CASE group \in {"country", "city_country"}
  <2>1. key = countryKeyExpr(h)
    BY <1>7 DEF geoGroupExprs
  <2>2. key = IF Known(country) THEN <<country>> ELSE <<"unknown">>
    BY <1>1, <2>1 DEF countryKeyExpr
  <2>3. Known(country)
    BY <2>2 DEF isCollapsedMapKey
  <2> QED
    BY <1>4, <2>2, <2>3 DEF names
<1> QED
  BY <1>5, <1>6, <1>7

\* What NeverMergedUnknown asks of nodes with one key.
InCommon(group, x, y, a, b, ha, hb) ==
    /\ group \notin {"subnet", "continent"} => SharedName(x.key, a, b, ha, hb)
    /\ group = "subnet" => SubnetOf[a] = SubnetOf[b]
    /\ group = "subnet" /\ SubnetOf[a] = "" => SharedName(x.key, a, b, ha, hb)
    /\ group = "continent" => ContinentOf[x.country] = ContinentOf[y.country] /\ ContinentOf[x.country] # "unknown"

\* resolveMeta: two addresses with positions share a node only for a name, a network
\* or a continent that both have.
LEMMA AddressesApart ==
    ASSUME NEW a \in Addresses, NEW b \in Addresses, a # b, NEW ha \in Hints, NEW hb \in Hints,
           NEW group \in Groups,
           NEW x, x = resolveMeta(a, group, ha, {}), x.valid, x.at # NoPlace,
           NEW y, y = resolveMeta(b, group, hb, {}), y.valid, y.at # NoPlace, x.key = y.key
    PROVE  InCommon(group, x, y, a, b, ha, hb)
<1>1. PICK g : g = IF group = "city_country" THEN "country" ELSE group
  OBVIOUS
<1>2. x = IPGroupMetaHinted(a, g, ha) /\ y = IPGroupMetaHinted(b, g, hb)
  BY <1>1, WithoutNetworks
<1>3. PICK key : key = x.key /\ key = y.key
  OBVIOUS
<1> DEFINE common == SharedName(key, a, b, ha, hb)
<1>4. CASE g = "continent"
  <2>1. group = "continent"
    BY <1>1, <1>4
  <2>2. x.key = <<ContinentOf[x.country]>> /\ ContinentOf[x.country] # "unknown"
    BY <1>2, <1>4, ContinentNode
  <2>3. y.key = <<ContinentOf[y.country]>>
    BY <1>2, <1>4, ContinentNode
  <2>4. PICK n, m : n = ContinentOf[x.country] /\ m = ContinentOf[y.country]
    OBVIOUS
  <2>5. key = <<n>> /\ key = <<m>>
    BY <1>3, <2>2, <2>3, <2>4
  <2>6. n = m
    BY <2>5
  <2> QED
    BY <2>1, <2>2, <2>4, <2>6 DEF InCommon
<1>5. CASE g \in {"ip", "city", "country"}
  <2>1. key = <<a>> \/ KeyNamed(key, NamesOf(a, ha))
    BY <1>2, <1>3, <1>5, NodeIsNamed
  <2>2. key = <<b>> \/ KeyNamed(key, NamesOf(b, hb))
    BY <1>2, <1>3, <1>5, NodeIsNamed
  <2>3. common
    BY <2>1, <2>2, NamedAlike
  <2>4. group \notin {"subnet", "continent"}
    BY <1>1, <1>5
  <2> QED
    BY <1>3, <2>3, <2>4 DEF InCommon
<1>6. CASE g = "subnet"
  <2>1. group = "subnet"
    BY <1>1, <1>6
  <2>2. IF SubnetOf[a] # "" THEN key = <<SubnetOf[a]>> ELSE key = <<a>> \/ KeyNamed(key, NamesOf(a, ha))
    BY <1>2, <1>3, <1>6, NodeIsNamed
  <2>3. IF SubnetOf[b] # "" THEN key = <<SubnetOf[b]>> ELSE key = <<b>> \/ KeyNamed(key, NamesOf(b, hb))
    BY <1>2, <1>3, <1>6, NodeIsNamed
  <2>4. CASE SubnetOf[a] # "" /\ SubnetOf[b] # ""
    <3>1. PICK n, m : n = SubnetOf[a] /\ m = SubnetOf[b]
      OBVIOUS
    <3>2. key = <<n>> /\ key = <<m>>
      BY <2>2, <2>3, <2>4, <3>1
    <3>3. n = m
      BY <3>2
    <3> QED
      BY <2>1, <2>4, <3>1, <3>3 DEF InCommon
  <2>5. CASE SubnetOf[a] = "" /\ SubnetOf[b] = ""
    <3>1. common
      BY <2>2, <2>3, <2>5, NamedAlike
    <3> QED
      BY <1>3, <2>1, <2>5, <3>1 DEF InCommon
  <2>6. CASE SubnetOf[a] # "" /\ SubnetOf[b] = ""
    <3>1. key = <<SubnetOf[a]>> /\ (key = <<b>> \/ KeyNamed(key, NamesOf(b, hb)))
      BY <2>2, <2>3, <2>6
    <3>2. FALSE
      BY <2>6, <3>1, NetworkAlone
    <3> QED
      BY <3>2
  <2>7. CASE SubnetOf[a] = "" /\ SubnetOf[b] # ""
    <3>1. key = <<SubnetOf[b]>> /\ (key = <<a>> \/ KeyNamed(key, NamesOf(a, ha)))
      BY <2>2, <2>3, <2>7
    <3>2. FALSE
      BY <2>7, <3>1, NetworkAlone
    <3> QED
      BY <3>2
  <2> QED
    BY <2>4, <2>5, <2>6, <2>7
<1> QED
  BY <1>1, <1>4, <1>5, <1>6 DEF Groups

KeysInCommon(group, key, a, b, ha, hb) ==
    /\ group \notin {"subnet", "continent"} => SharedName(key, a, b, ha, hb)
    /\ group = "subnet" => SubnetOf[a] = SubnetOf[b] /\ SubnetOf[a] # ""
    /\ group = "continent" => ContinentOf[ha.country] = ContinentOf[hb.country] /\ ContinentOf[ha.country] # "unknown"

\* geoGroupExprs: the same of the keys that ClickHouse groups by.
LEMMA KeysApart ==
    ASSUME NEW a \in Addresses, NEW b \in Addresses, a # b, NEW ha \in Hints, NEW hb \in Hints,
           NEW group \in Groups \ {"city_country"},
           NEW ka, ka = geoGroupExprs(a, ha, group), ~isCollapsedMapKey(ka),
           NEW kb, kb = geoGroupExprs(b, hb, group), ka = kb
    PROVE  KeysInCommon(group, ka, a, b, ha, hb)
<1>1. CASE group = "subnet"
  <2>1. PICK n, m : n = SubnetOf[a] /\ m = SubnetOf[b]
    OBVIOUS
  <2>2. ka = <<n>> /\ ka = <<m>>
    BY <1>1, <2>1 DEF geoGroupExprs
  <2>3. n = m
    BY <2>2, OneName
  <2>4. ka # <<"">>
    BY DEF isCollapsedMapKey
  <2>5. n # ""
    BY <2>2, <2>4
  <2> QED
    BY <1>1, <2>1, <2>3, <2>5 DEF KeysInCommon
<1>2. CASE group = "continent"
  <2>1. PICK na, nb : /\ na = IF Known(ha.country) THEN ha.country ELSE "unknown"
                      /\ nb = IF Known(hb.country) THEN hb.country ELSE "unknown"
    OBVIOUS
  <2>2. PICK ca, cb : ca = ContinentOf[na] /\ cb = ContinentOf[nb]
    OBVIOUS
  <2>3. countryKeyExpr(ha) = <<na>> /\ countryKeyExpr(hb) = <<nb>>
    BY <2>1 DEF countryKeyExpr
  <2>4. countryKeyExpr(ha)[1] = na /\ countryKeyExpr(hb)[1] = nb
    BY <2>3
  <2>5. continentKeyExpr(ha) = <<ca>> /\ continentKeyExpr(hb) = <<cb>>
    BY <2>2, <2>4 DEF continentKeyExpr
  <2>6. ca = cb /\ ca # "unknown"
    <3>1. ka = <<ca>> /\ ka = <<cb>>
      BY <1>2, <2>5 DEF geoGroupExprs
    <3>2. ca = cb
      BY <3>1, OneName
    <3>3. ka # <<"unknown">>
      BY DEF isCollapsedMapKey
    <3> QED
      BY <3>1, <3>2, <3>3
  <2>7. ContinentOf["unknown"] = "unknown"
    BY NamesAssumption
  <2>8. na = ha.country /\ nb = hb.country
    BY <2>1, <2>2, <2>6, <2>7
  <2> QED
    BY <1>2, <2>2, <2>6, <2>8 DEF KeysInCommon
<1>3. CASE group \in {"ip", "city", "country"}
  <2>1. ka = <<a>> \/ KeyNamed(ka, NamesOf(a, ha))
    BY <1>3, KeyOfGroup
  <2>2. ka = <<b>> \/ KeyNamed(ka, NamesOf(b, hb))
    BY <1>3, KeyOfGroup
  <2>3. SharedName(ka, a, b, ha, hb)
    BY <2>1, <2>2, NamedAlike
  <2> QED
    BY <1>3, <2>3 DEF KeysInCommon
<1> QED
  BY <1>1, <1>2, <1>3 DEF Groups

\* geoMetaFromEdge: a key of the shared bucket is on no map.
LEMMA KeyIsNode ==
    ASSUME NEW key, NEW h, NEW x, x = geoMetaFromEdge(key, h), x.valid
    PROVE  ~isCollapsedMapKey(key) /\ x.key = key /\ x.country = h.country
<1>1. CASE isCollapsedMapKey(key)
  <2>1. x.valid = FALSE
    BY <1>1 DEF geoMetaFromEdge
  <2> QED
    BY <2>1
<1>2. CASE ~isCollapsedMapKey(key)
  <2>1. x.key = key /\ x.country = h.country
    BY <1>2 DEF geoMetaFromEdge
  <2> QED
    BY <1>2, <2>1
<1> QED
  BY <1>1, <1>2

\* mapagg: two addresses with positions share a node, on the map of addresses or on
\* that of the keys ClickHouse groups by, only for a city, a country, a network or a
\* continent that both have, whatever the index and the logs call them.
THEOREM UnknownNeverMerged ==
    ASSUME NEW a \in Addresses, NEW b \in Addresses, NEW group \in Groups,
           NEW ha \in Hints, NEW hb \in Hints
    PROVE  NeverMergedUnknown(a, b, group, ha, hb)
<1> DEFINE named(key) == \E i \in DOMAIN key : key[i] \in NamesOf(a, ha) \cap NamesOf(b, hb)
           common(x, y) ==
               CASE group = "subnet" -> SubnetOf[a] = SubnetOf[b] /\ (SubnetOf[a] = "" => named(x.key))
                 [] group = "continent" -> ContinentOf[x.country] = ContinentOf[y.country]
                                           /\ ContinentOf[x.country] # "unknown"
                 [] OTHER -> named(x.key)
           apart(x, y) == x.valid /\ y.valid /\ x.at # NoPlace /\ y.at # NoPlace /\ x.key = y.key => common(x, y)
<1>1. SUFFICES ASSUME a # b
               PROVE  /\ apart(resolveMeta(a, group, ha, {}), resolveMeta(b, group, hb, {}))
                      /\ group # "city_country" =>
                            apart(geoMetaFromEdge(geoGroupExprs(a, ha, group), ha),
                                  geoMetaFromEdge(geoGroupExprs(b, hb, group), hb))
  BY Zenon DEF NeverMergedUnknown
<1>2. ASSUME NEW x, NEW y,
             /\ group \notin {"subnet", "continent"} => named(x.key)
             /\ group = "subnet" => SubnetOf[a] = SubnetOf[b]
             /\ group = "subnet" /\ SubnetOf[a] = "" => named(x.key)
             /\ group = "continent" =>
                   ContinentOf[x.country] = ContinentOf[y.country] /\ ContinentOf[x.country] # "unknown"
      PROVE  common(x, y)
  <2> HIDE DEF named
  <2> QED
    BY <1>2
<1> HIDE DEF common
<1>3. apart(resolveMeta(a, group, ha, {}), resolveMeta(b, group, hb, {}))
  <2>1. SUFFICES ASSUME NEW x, x = resolveMeta(a, group, ha, {}), NEW y, y = resolveMeta(b, group, hb, {}),
                        x.valid, y.valid, x.at # NoPlace, y.at # NoPlace, x.key = y.key
                 PROVE  common(x, y)
    OBVIOUS
  <2>2. InCommon(group, x, y, a, b, ha, hb)
    BY <1>1, <2>1, AddressesApart
  <2>3. SharedName(x.key, a, b, ha, hb) => named(x.key)
    BY DEF SharedName
  <2> HIDE DEF named
  <2> QED
    BY <1>2, <2>2, <2>3 DEF InCommon
<1>4. ASSUME group # "city_country"
      PROVE  apart(geoMetaFromEdge(geoGroupExprs(a, ha, group), ha),
                   geoMetaFromEdge(geoGroupExprs(b, hb, group), hb))
  <2>1. PICK ka, kb : ka = geoGroupExprs(a, ha, group) /\ kb = geoGroupExprs(b, hb, group)
    OBVIOUS
  <2>2. SUFFICES ASSUME NEW x, x = geoMetaFromEdge(ka, ha), NEW y, y = geoMetaFromEdge(kb, hb),
                        x.valid, y.valid, x.at # NoPlace, y.at # NoPlace, x.key = y.key
                 PROVE  common(x, y)
    BY <2>1
  <2>3. ~isCollapsedMapKey(ka) /\ x.key = ka /\ x.country = ha.country
    BY <2>2, KeyIsNode
  <2>4. y.key = kb /\ y.country = hb.country
    BY <2>2, KeyIsNode
  <2>5. ka = kb /\ group \in Groups \ {"city_country"}
    BY <1>4, <2>2, <2>3, <2>4
  <2>6. KeysInCommon(group, ka, a, b, ha, hb)
    BY <1>1, <2>1, <2>3, <2>5, KeysApart
  <2>7. SharedName(ka, a, b, ha, hb) => named(ka)
    BY DEF SharedName
  <2> HIDE DEF named
  <2> QED
    BY <1>2, <2>3, <2>4, <2>6, <2>7 DEF KeysInCommon
<1> QED
  BY <1>3, <1>4

\* The nodes of two addresses, as requests compare them.
LEMMA NodesAnswered ==
    ASSUME AskNodes
    PROVE  NodesApart'
<1>1. PICK a, b \in Addresses, ha, hb \in Hints, group \in Groups :
        req' = [topic |-> "nodes", a |-> a, b |-> b, ha |-> ha, hb |-> hb, group |-> group]
  BY DEF AskNodes
<1>2. NeverMergedUnknown(a, b, group, ha, hb)
  BY UnknownNeverMerged
<1>3. req'.a = a /\ req'.b = b /\ req'.ha = ha /\ req'.hb = hb /\ req'.group = group
  BY <1>1
<1> QED
  BY <1>2, <1>3 DEF NodesApart

-----------------------------------------------------------------------------
(* Every request *)

\* GetMap and geo.ListMissing: whatever the tables, the logs and the index hold, the
\* points of a map are the ends of its lines and count their events, no event is lost
\* when every end has a node, the limit is kept, the report of addresses without
\* GeoIP names those that are off the map, and addresses without a name are never merged.
THEOREM MapsAnswered == RequestSpec => []MapWhole
<1>1. RequestInit => MapWhole
  BY DEF RequestInit, MapWhole, MapSound, ReportWhole, NodesApart, Idle
<1>2. MapWhole /\ [RequestNext]_<<req, ans>> => MapWhole'
  <2> SUFFICES ASSUME MapWhole, [RequestNext]_<<req, ans>> PROVE MapWhole'
    OBVIOUS
  <2>1. CASE AskWindow
    <3>1. req'.topic = "window"
      BY <2>1 DEF AskWindow
    <3> QED
      BY <3>1 DEF MapWhole, MapSound, ReportWhole, NodesApart
  <2>2. CASE AskBuild
    <3>1. req'.topic = "build"
      BY <2>2 DEF AskBuild
    <3>2. ReportWhole' /\ NodesApart'
      BY <3>1 DEF ReportWhole, NodesApart
    <3> QED
      BY <2>2, <3>2, BuildAnswered DEF MapWhole
  <2>3. CASE AskGrouped
    <3>1. req'.topic = "grouped"
      BY <2>3 DEF AskGrouped
    <3>2. ReportWhole' /\ NodesApart'
      BY <3>1 DEF ReportWhole, NodesApart
    <3> QED
      BY <2>3, <3>2, GroupedAnswered DEF MapWhole
  <2>4. CASE AskMissing
    <3>1. req'.topic = "missing"
      BY <2>4, MissingAnswered
    <3>2. MapSound' /\ NodesApart'
      BY <3>1 DEF MapSound, NodesApart
    <3> QED
      BY <2>4, <3>2, MissingAnswered DEF MapWhole
  <2>5. CASE AskNodes
    <3>1. req'.topic = "nodes"
      BY <2>5 DEF AskNodes
    <3>2. MapSound' /\ ReportWhole'
      BY <3>1 DEF MapSound, ReportWhole
    <3> QED
      BY <2>5, <3>2, NodesAnswered DEF MapWhole
  <2>6. CASE AskRanges
    <3>1. req'.topic \in {"table", "file", "append", "update"}
      BY <2>6, RangesTopic
    <3> QED
      BY <3>1 DEF MapWhole, MapSound, ReportWhole, NodesApart
  <2>7. CASE UNCHANGED <<req, ans>>
    BY <2>7 DEF MapWhole, MapSound, ReportWhole, NodesApart
  <2> QED
    BY <2>1, <2>2, <2>3, <2>4, <2>5, <2>6, <2>7 DEF RequestNext, AskMap
<1> QED
  BY <1>1, <1>2, PTL DEF RequestSpec
=============================================================================
