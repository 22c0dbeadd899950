--------------------------- MODULE DataInduction ---------------------------
(***************************************************************************)
(* Induction over data, for the proofs of the other modules: the least     *)
(* element of a set of naturals, induction as a fact about sets, recursive *)
(* functions, and what follows for the sums of the community modules.      *)
(***************************************************************************)
EXTENDS Integers, FiniteSetsExt, FiniteSetTheorems, WellFoundedInduction, TLAPS

\* A set of naturals that has an element has a least one.
LEMMA LeastNumber ==
  ASSUME NEW T \in SUBSET Nat, T # {}
  PROVE  \E m \in T : \A k \in T : m <= k
<1>1. PICK m \in T : \A k \in T : ~(<<k, m>> \in OpToRel(<, Nat))
  BY NatLessThanWellFounded, WFMin
<1>2. \A k \in T : ~(k < m)
  BY <1>1 DEF OpToRel
<1> QED BY <1>2

\* Induction: a set that holds 0 and, with a number, the next one, holds them all.
LEMMA SetInduction ==
  ASSUME NEW T, 0 \in T, \A n \in Nat : n \in T => n + 1 \in T
  PROVE  Nat \subseteq T
<1> SUFFICES ASSUME Nat \ T # {} PROVE FALSE
  OBVIOUS
<1>1. PICK m \in Nat \ T : \A k \in Nat \ T : m <= k
  BY LeastNumber
<1>2. m # 0 /\ m - 1 \in Nat /\ m - 1 \in T
  BY <1>1
<1> QED BY <1>1, <1>2

\* Induction over the subsets of a finite set.
LEMMA SubsetInduction ==
  ASSUME NEW S, IsFiniteSet(S), NEW T, {} \in T,
         \A s \in SUBSET S : s # {} /\ (\A x \in s : s \ {x} \in T) => s \in T
  PROVE  SUBSET S \subseteq T
<1> DEFINE Bad == (SUBSET S) \ T
<1> SUFFICES ASSUME Bad # {} PROVE FALSE
  OBVIOUS
<1>1. Bad \subseteq FiniteSubsetsOf(S)
  BY FS_FiniteSubsetsOfFinite
<1>2. PICK m \in Bad : \A k \in Bad : ~(<<k, m>> \in StrictSubsetOrdering(S))
  <2> HIDE DEF Bad
  <2> QED BY <1>1, FS_StrictSubsetOrderingWellFounded, WFMin
<1>3. ASSUME NEW x \in m PROVE m \ {x} \in T
  <2>1. m \ {x} \in SUBSET S /\ m \in SUBSET S
    OBVIOUS
  <2>2. <<m \ {x}, m>> \in StrictSubsetOrdering(S)
    BY <2>1 DEF StrictSubsetOrdering
  <2>3. m \ {x} \notin Bad
    BY <1>2, <2>2
  <2> QED BY <2>1, <2>3
<1> QED BY <1>2, <1>3

-----------------------------------------------------------------------------
\* Sums. MapThenSumSet of the community modules takes a set apart along the choices of
\* CHOOSE; Adds(h, w, S) says that h is what that makes of the weights w, on every
\* subset of S.

Some(s) == CHOOSE x \in s : TRUE
Adds(h, w, S) ==
  h = [s \in SUBSET S |-> IF s = {} THEN 0 ELSE w[Some(s)] + h[s \ {Some(s)}]]

\* The element that is taken out first is one of the set.
LEMMA SomeIsIn == \A s : s # {} => Some(s) \in s
BY DEF Some

\* What Adds says, one element at a time.
LEMMA AddsUnfolds ==
  ASSUME NEW S, NEW w, NEW h, Adds(h, w, S)
  PROVE  /\ h[{}] = 0
         /\ \A s \in SUBSET S : s # {} => h[s] = w[Some(s)] + h[s \ {Some(s)}]
BY DEF Adds

\* A sum of integers is one.
LEMMA AddsType ==
  ASSUME NEW S, IsFiniteSet(S), NEW w \in [S -> Int], NEW h, Adds(h, w, S)
  PROVE  h \in [SUBSET S -> Int]
<1> DEFINE T == {s \in SUBSET S : h[s] \in Int}
<1>1. {} \in T
  BY AddsUnfolds
<1>2. ASSUME NEW s \in SUBSET S, s # {}, \A x \in s : s \ {x} \in T PROVE s \in T
  <2>1. Some(s) \in s /\ s \ {Some(s)} \in T
    BY <1>2, SomeIsIn
  <2>2. h[s] = w[Some(s)] + h[s \ {Some(s)}]
    BY <1>2, AddsUnfolds
  <2>3. w[Some(s)] \in Int /\ h[s \ {Some(s)}] \in Int
    BY <2>1
  <2> QED BY <2>2, <2>3
<1>3. SUBSET S \subseteq T
  <2> HIDE DEF T
  <2> QED BY <1>1, <1>2, SubsetInduction
<1> QED BY <1>3 DEF Adds

\* Any element can be taken out first.
LEMMA AddsAny ==
  ASSUME NEW S, IsFiniteSet(S), NEW w \in [S -> Int], NEW h, Adds(h, w, S)
  PROVE  \A s \in SUBSET S : \A x \in s : h[s] = w[x] + h[s \ {x}]
<1> DEFINE T == {s \in SUBSET S : \A x \in s : h[s] = w[x] + h[s \ {x}]}
<1>1. {} \in T
  OBVIOUS
<1>2. ASSUME NEW s \in SUBSET S, s # {}, \A x \in s : s \ {x} \in T PROVE s \in T
  <2> SUFFICES ASSUME NEW x \in s PROVE h[s] = w[x] + h[s \ {x}]
    OBVIOUS
  <2> DEFINE y == Some(s)
             rest == s \ {x, y}
  <2>1. y \in s
    BY <1>2, SomeIsIn
  <2>2. h[s] = w[y] + h[s \ {y}]
    BY <1>2, AddsUnfolds
  <2>3. CASE x = y
    BY <2>2, <2>3
  <2>4. CASE x # y
    <3> HIDE DEF y
    <3> HIDE DEF rest
    <3>1. h[s \ {x}] = w[y] + h[(s \ {x}) \ {y}]
      BY <1>2, <2>1, <2>4
    <3>2. h[s \ {y}] = w[x] + h[(s \ {y}) \ {x}]
      BY <1>2, <2>1, <2>4
    <3>3. (s \ {x}) \ {y} = rest /\ (s \ {y}) \ {x} = rest
      BY DEF rest
    <3>6. h[s \ {x}] = w[y] + h[rest] /\ h[s \ {y}] = w[x] + h[rest]
      BY <3>1, <3>2, <3>3
    <3>4. rest \in SUBSET S /\ h \in [SUBSET S -> Int]
      BY AddsType DEF rest
    <3>5. h[rest] \in Int /\ w[x] \in Int /\ w[y] \in Int
      BY <2>1, <3>4
    <3> QED BY <2>2, <3>5, <3>6
  <2> QED BY <2>3, <2>4
<1>3. SUBSET S \subseteq T
  <2> HIDE DEF T
  <2> QED BY <1>1, <1>2, SubsetInduction
<1> QED BY <1>3

\* It does not matter of which set the summed one is a subset.
LEMMA AddsAgree ==
  ASSUME NEW S, IsFiniteSet(S), NEW w, NEW h, Adds(h, w, S),
         NEW R, NEW v, NEW g, Adds(g, v, R), S \subseteq R, \A x \in S : w[x] = v[x]
  PROVE  \A s \in SUBSET S : h[s] = g[s]
<1> DEFINE T == {s \in SUBSET S : h[s] = g[s]}
<1>a. \A s \in SUBSET S : s # {} => h[s] = w[Some(s)] + h[s \ {Some(s)}]
  BY DEF Adds
<1>b. \A s \in SUBSET R : s # {} => g[s] = v[Some(s)] + g[s \ {Some(s)}]
  BY AddsUnfolds
<1>1. {} \in T
  BY AddsUnfolds
<1>2. ASSUME NEW s \in SUBSET S, s # {}, \A x \in s : s \ {x} \in T PROVE s \in T
  <2>1. Some(s) \in s /\ s \ {Some(s)} \in T
    BY <1>2, SomeIsIn
  <2>2. s \in SUBSET R
    OBVIOUS
  <2>3. h[s] = w[Some(s)] + h[s \ {Some(s)}]
    BY <1>2, <1>a
  <2>4. g[s] = v[Some(s)] + g[s \ {Some(s)}]
    BY <1>2, <1>b, <2>2
  <2> QED BY <2>1, <2>3, <2>4
<1>3. SUBSET S \subseteq T
  <2> HIDE DEF T
  <2> QED BY <1>1, <1>2, SubsetInduction
<1> QED BY <1>3

\* There is such a function.
LEMMA AddsExists ==
  ASSUME NEW S, IsFiniteSet(S), NEW w
  PROVE  \E h : Adds(h, w, S)
<1> DEFINE on(s) == CHOOSE h : Adds(h, w, s)
           T == {s \in SUBSET S : \A u \in SUBSET s : Adds(on(u), w, u)}
<1>1. Adds(on({}), w, {})
  <2>1. Adds([s \in {{}} |-> 0], w, {})
    BY DEF Adds
  <2> QED BY <2>1
<1>2. ASSUME NEW s \in SUBSET S, s # {}, \A x \in s : s \ {x} \in T PROVE s \in T
  <2>1. \A u \in (SUBSET s) \ {s} : Adds(on(u), w, u)
    <3>1. ASSUME NEW u \in (SUBSET s) \ {s} PROVE \E x \in s : u \in SUBSET (s \ {x})
      OBVIOUS
    <3> QED BY <1>2, <3>1
  <2> DEFINE below == [u \in SUBSET s |-> on(u)[u]]
             h == [u \in SUBSET s |->
                     IF u = {} THEN 0 ELSE w[Some(u)] + below[u \ {Some(u)}]]
  <2>2. \A u \in SUBSET s : u # s => h[u] = below[u]
    <3> SUFFICES ASSUME NEW u \in SUBSET s, u # s PROVE h[u] = below[u]
      OBVIOUS
    <3>1. Adds(on(u), w, u)
      BY <2>1
    <3>2. CASE u = {}
      BY <3>1, <3>2, AddsUnfolds
    <3>3. CASE u # {}
      <4> DEFINE v == u \ {Some(u)}
      <4>1. Some(u) \in u /\ v \in (SUBSET s) \ {s} /\ IsFiniteSet(v)
        BY <3>3, SomeIsIn, FS_Subset
      <4>2. Adds(on(v), w, v)
        BY <2>1, <4>1
      <4> HIDE DEF v, on
      <4>3. on(v)[v] = on(u)[v]
        BY <3>1, <4>1, <4>2, AddsAgree DEF v
      <4>4. on(u)[u] = w[Some(u)] + on(u)[v]
        BY <3>1, <3>3, AddsUnfolds DEF v
      <4> QED BY <3>3, <4>1, <4>3, <4>4 DEF v
    <3> QED BY <3>2, <3>3
  <2>3. \A u \in SUBSET s : u # {} => u \ {Some(u)} \in SUBSET s /\ u \ {Some(u)} # s
    BY SomeIsIn
  <2>4. Adds(h, w, s)
    <3>1. h = [u \in SUBSET s |-> IF u = {} THEN 0 ELSE w[Some(u)] + h[u \ {Some(u)}]]
      <4>1. \A u \in SUBSET s : u # {} => h[u] = w[Some(u)] + h[u \ {Some(u)}]
        BY <2>2, <2>3
      <4>2. h[{}] = 0 /\ h = [u \in SUBSET s |-> h[u]]
        OBVIOUS
      <4> HIDE DEF h
      <4> QED BY <4>1, <4>2
    <3> HIDE DEF h
    <3> QED BY <3>1 DEF Adds
  <2>5. Adds(on(s), w, s)
    <3> HIDE DEF h
    <3> QED BY <2>4
  <2> QED BY <2>1, <2>5
<1>3. SUBSET S \subseteq T
  <2>1. {} \in T
    BY <1>1
  <2> HIDE DEF T
  <2> QED BY <1>2, <2>1, SubsetInduction
<1>4. S \in T
  BY <1>3
<1> QED BY <1>4

-----------------------------------------------------------------------------
\* The sum of the weights w over the finite set S, and what can be done with it.

Total(w, S) == (CHOOSE h : Adds(h, w, S))[S]

\* A subset's total is what a function that adds over the whole set says.
LEMMA TotalIs ==
  ASSUME NEW S, IsFiniteSet(S), NEW w \in [S -> Int], NEW h, Adds(h, w, S)
  PROVE  \A s \in SUBSET S : \A v : (\A x \in s : v[x] = w[x]) => h[s] = Total(v, s)
<1> SUFFICES ASSUME NEW s \in SUBSET S, NEW v, \A x \in s : v[x] = w[x]
             PROVE  h[s] = Total(v, s)
  OBVIOUS
<1> DEFINE g == CHOOSE f : Adds(f, v, s)
<1>1. IsFiniteSet(s)
  BY FS_Subset
<1>2. Adds(g, v, s)
  BY <1>1, AddsExists
<1> HIDE DEF g
<1>3. g[s] = h[s]
  BY <1>1, <1>2, AddsAgree
<1> QED BY <1>3 DEF g, Total

\* The same for the whole set.
LEMMA TotalOf ==
  ASSUME NEW S, IsFiniteSet(S), NEW w \in [S -> Int], NEW h, Adds(h, w, S)
  PROVE  h[S] = Total(w, S)
<1>1. S \in SUBSET S /\ \A x \in S : w[x] = w[x]
  OBVIOUS
<1> QED BY <1>1, TotalIs

\* No elements add up to nothing.
LEMMA TotalEmpty == \A w : Total(w, {}) = 0
<1> SUFFICES ASSUME NEW w PROVE Total(w, {}) = 0
  OBVIOUS
<1>1. \E h : Adds(h, w, {})
  BY AddsExists, FS_EmptySet
<1> QED BY <1>1 DEF Total, Adds

\* The total of integers is one.
LEMMA TotalType ==
  ASSUME NEW S, IsFiniteSet(S), NEW w \in [S -> Int]
  PROVE  Total(w, S) \in Int
<1> DEFINE h == CHOOSE f : Adds(f, w, S)
<1>1. Adds(h, w, S)
  BY AddsExists
<1> HIDE DEF h
<1>2. h \in [SUBSET S -> Int]
  BY <1>1, AddsType
<1> QED BY <1>2 DEF h, Total

\* An element taken out first, of the set or of a part of it.
LEMMA TotalTakeOut ==
  ASSUME NEW S, IsFiniteSet(S), NEW w \in [S -> Int]
  PROVE  \A s \in SUBSET S : \A x \in s : Total(w, s) = w[x] + Total(w, s \ {x})
<1> TAKE s \in SUBSET S
<1> TAKE x \in s
<1> DEFINE h == CHOOSE f : Adds(f, w, S)
<1>1. Adds(h, w, S)
  BY AddsExists
<1> HIDE DEF h
<1>2. h[s] = w[x] + h[s \ {x}]
  BY <1>1, AddsAny
<1>3. h[s] = Total(w, s) /\ h[s \ {x}] = Total(w, s \ {x})
  BY <1>1, TotalIs
<1> QED BY <1>2, <1>3

\* The sum depends on nothing but the weights of the set's own elements.
LEMMA TotalSame ==
  ASSUME NEW S, IsFiniteSet(S), NEW w \in [S -> Int], NEW v, \A x \in S : v[x] = w[x]
  PROVE  Total(v, S) = Total(w, S)
<1> DEFINE h == CHOOSE f : Adds(f, w, S)
<1>1. Adds(h, w, S)
  BY AddsExists
<1> HIDE DEF h
<1> QED BY <1>1, TotalIs

\* The totals of two sets that have nothing in common add up.
LEMMA TotalUnion ==
  ASSUME NEW S, IsFiniteSet(S), NEW w \in [S -> Int],
         NEW A \in SUBSET S, NEW B \in SUBSET S, A \cap B = {}
  PROVE  Total(w, A \cup B) = Total(w, A) + Total(w, B)
<1> DEFINE h == CHOOSE f : Adds(f, w, S)
           T == {a \in SUBSET A : h[a \cup B] = h[a] + h[B]}
<1>1. Adds(h, w, S)
  BY AddsExists
<1> HIDE DEF h
<1>2. /\ h \in [SUBSET S -> Int]
      /\ h[{}] = 0
      /\ \A s \in SUBSET S : \A x \in s : h[s] = w[x] + h[s \ {x}]
  BY <1>1, AddsType, AddsAny, AddsUnfolds
<1>3. {} \in T
  <2>1. {} \cup B = B
    OBVIOUS
  <2> QED BY <1>2, <2>1
<1>4. ASSUME NEW a \in SUBSET A, a # {}, \A x \in a : a \ {x} \in T PROVE a \in T
  <2>1. PICK x \in a : TRUE
    BY <1>4
  <2>2. (a \cup B) \ {x} = (a \ {x}) \cup B /\ a \cup B \in SUBSET S /\ a \in SUBSET S
    OBVIOUS
  <2>3. h[a \cup B] = w[x] + h[(a \ {x}) \cup B]
    BY <1>2, <2>2
  <2>4. h[a] = w[x] + h[a \ {x}]
    BY <1>2
  <2>5. h[(a \ {x}) \cup B] = h[a \ {x}] + h[B]
    BY <1>4
  <2>6. a \ {x} \in SUBSET S
    OBVIOUS
  <2>7. w[x] \in Int /\ h[a \ {x}] \in Int /\ h[B] \in Int
    BY <1>2, <2>6
  <2>8. h[a \cup B] = h[a] + h[B]
    BY <2>3, <2>4, <2>5, <2>7
  <2> QED BY <2>8
<1>5. SUBSET A \subseteq T
  <2>1. IsFiniteSet(A)
    BY FS_Subset
  <2> HIDE DEF T
  <2> QED BY <1>3, <1>4, <2>1, SubsetInduction
<1>6. h[A \cup B] = h[A] + h[B]
  BY <1>5
<1>7. \A s \in SUBSET S : h[s] = Total(w, s)
  BY <1>1, TotalIs
<1> QED BY <1>6, <1>7

\* The elements of a set that are of one class.
OfClass(A, class, k) == {x \in A : class[x] = k}

\* Two sets with equally many elements of each class have the same sum, if the weight
\* of an element is that of its class.
LEMMA TotalByClass ==
  ASSUME NEW S, IsFiniteSet(S), NEW w \in [S -> Int], NEW class,
         \A x, y \in S : class[x] = class[y] => w[x] = w[y],
         NEW A \in SUBSET S, NEW B \in SUBSET S,
         \A k : Cardinality(OfClass(A, class, k)) = Cardinality(OfClass(B, class, k))
  PROVE  Total(w, A) = Total(w, B)
<1>0. ASSUME NEW s \in SUBSET S, NEW z \in s PROVE Total(w, s) = w[z] + Total(w, s \ {z})
  BY TotalTakeOut
<1> DEFINE of(s, k) == OfClass(s, class, k)
<1> USE DEF OfClass
<1> DEFINE T == {a \in SUBSET S : \A b \in SUBSET S :
                    (\A k : Cardinality(of(a, k)) = Cardinality(of(b, k)))
                      => Total(w, a) = Total(w, b)}
<1>1. \A s \in SUBSET S : \A k : IsFiniteSet(of(s, k)) /\ IsFiniteSet(s)
  BY FS_Subset
<1>2. ASSUME NEW a \in SUBSET S, NEW b \in SUBSET S, NEW x \in a,
             \A k : Cardinality(of(a, k)) = Cardinality(of(b, k))
      PROVE  \E y \in b : class[y] = class[x]
  <2>1. of(a, class[x]) # {}
    OBVIOUS
  <2>2. of(b, class[x]) # {}
    BY <1>1, <1>2, <2>1, FS_EmptySet
  <2> QED BY <2>2
<1>3. {} \in T
  <2> SUFFICES ASSUME NEW b \in SUBSET S,
                      \A k : Cardinality(of({}, k)) = Cardinality(of(b, k))
               PROVE  b = {}
    OBVIOUS
  <2>1. \A k : of({}, k) = {}
    OBVIOUS
  <2>2. \A k : of(b, k) = {}
    <3> HIDE DEF of
    <3> QED BY <1>1, <2>1, FS_EmptySet
  <2>3. \A y \in b : y \in of(b, class[y])
    OBVIOUS
  <2> HIDE DEF of
  <2> QED BY <2>2, <2>3
<1>4. ASSUME NEW a \in SUBSET S, a # {}, \A x \in a : a \ {x} \in T PROVE a \in T
  <2> SUFFICES ASSUME NEW b \in SUBSET S,
                      \A k : Cardinality(of(a, k)) = Cardinality(of(b, k))
               PROVE  Total(w, a) = Total(w, b)
    OBVIOUS
  <2>1. PICK x \in a : TRUE
    BY <1>4
  <2>2. PICK y \in b : class[y] = class[x]
    BY <1>2
  <2>3. \A k : Cardinality(of(a \ {x}, k)) = Cardinality(of(b \ {y}, k))
    <3> TAKE k
    <3>1. CASE k = class[x]
      <4>1. of(a \ {x}, k) = of(a, k) \ {x} /\ x \in of(a, k)
        BY <3>1
      <4>2. of(b \ {y}, k) = of(b, k) \ {y} /\ y \in of(b, k)
        BY <2>2, <3>1
      <4>3. Cardinality(of(a, k)) = Cardinality(of(b, k))
        OBVIOUS
      <4> HIDE DEF of
      <4>4. Cardinality(of(a, k) \ {x}) = Cardinality(of(a, k)) - 1
        BY <1>1, <4>1, FS_RemoveElement
      <4>5. Cardinality(of(b, k) \ {y}) = Cardinality(of(b, k)) - 1
        BY <1>1, <4>2, FS_RemoveElement
      <4> QED BY <4>1, <4>2, <4>3, <4>4, <4>5
    <3>2. CASE k # class[x]
      <4>1. of(a \ {x}, k) = of(a, k) /\ of(b \ {y}, k) = of(b, k)
        BY <2>2, <3>2
      <4> QED BY <4>1
    <3> QED BY <3>1, <3>2
  <2>4. a \ {x} \in T /\ b \ {y} \in SUBSET S
    BY <1>4
  <2>5. Total(w, a \ {x}) = Total(w, b \ {y})
    BY <2>3, <2>4
  <2>6. w[x] = w[y]
    BY <2>2
  <2> QED BY <1>0, <2>5, <2>6
<1>5. SUBSET S \subseteq T
  <2> HIDE DEF T
  <2> QED BY <1>3, <1>4, SubsetInduction
<1>6. A \in T
  BY <1>5
<1> QED BY <1>6

\* The sum of a finite set of numbers in the community modules.
LEMMA SumSetIsTotal ==
  ASSUME NEW S \in SUBSET Int, IsFiniteSet(S)
  PROVE  SumSet(S) = Total([x \in Int |-> x], S)
<1> DEFINE w == [x \in S |-> x]
           Sums(f) == f = [s \in SUBSET S |->
                             IF s = {} THEN 0 ELSE Some(s) + f[s \ {Some(s)}]]
           iter == CHOOSE f : Sums(f)
<1>1. \A f : Sums(f) <=> Adds(f, w, S)
  <2> TAKE f
  <2>1. \A s \in SUBSET S : s # {} => w[Some(s)] = Some(s)
    BY SomeIsIn
  <2> HIDE DEF w
  <2> QED BY <2>1 DEF Adds
<1>2. w \in [S -> Int]
  OBVIOUS
<1>3. \E f : Sums(f)
  <2>1. \E f : Adds(f, w, S)
    BY AddsExists
  <2> HIDE DEF w, Sums
  <2> QED BY <1>1, <2>1
<1>4. Sums(iter)
  <2> HIDE DEF Sums
  <2> QED BY <1>3
<1>5. SumSet(S) = iter[S]
  BY DEF SumSet, FoldSet, MapThenFoldSet, Some
<1>6. iter[S] = Total(w, S)
  <2> HIDE DEF w, iter, Sums
  <2>1. Adds(iter, w, S)
    BY <1>1, <1>4
  <2> QED BY <1>2, <2>1, TotalOf
<1>7. Total([x \in Int |-> x], S) = Total(w, S)
  <2>1. \A x \in S : [z \in Int |-> z][x] = w[x]
    OBVIOUS
  <2> HIDE DEF w
  <2> QED BY <1>2, <2>1, TotalSame
<1> QED BY <1>5, <1>6, <1>7
====
