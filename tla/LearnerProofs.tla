--------------------------- MODULE LearnerProofs ---------------------------
(***************************************************************************)
(* Proofs about Learner, and with it about MidiTranslator and LstmNetwork, *)
(* for every configuration of the controllers and of the features, every   *)
(* network and any number of sequences: the types, which bound the places  *)
(* of the vectors; that the values trained for can be reached; that the    *)
(* input says what was played; and that what is reset is forgotten.        *)
(*                                                                         *)
(* The operators on sets and sequences are recursive functions, so what    *)
(* they give is proved by induction, here from the least number principle. *)
(***************************************************************************)
EXTENDS Learner, FiniteSetTheorems, TLAPS

-----------------------------------------------------------------------------
(* Induction.                                                              *)

\* From the well-foundedness of <.

LEMMA LeastNumber ==
  ASSUME NEW S \in SUBSET Nat, S # {}
  PROVE  \E n \in S : \A m \in S : n <= m
  <1> DEFINE R == OpToRel(<, Nat)
  <1>1. IsWellFoundedOn(R, Nat)
    BY NatLessThanWellFounded
  <1>2. \A ss \in Nat \X Nat : ss[1] < ss[2] => ss \in R
    BY DEF OpToRel
  <1>3. \A m, n \in Nat : m < n => <<m, n>> \in R
    BY <1>2
  <1> HIDE DEF R
  <1>4. PICK n \in S : \A m \in S : ~ (<<m, n>> \in R)
    BY <1>1, WFMin
  <1>5. ASSUME NEW m \in S PROVE n <= m
    <2>1. m \in Nat /\ n \in Nat /\ ~ (<<m, n>> \in R)
      BY <1>4
    <2>2. ~ (m < n)
      BY <1>3, <2>1
    <2> QED
      BY <2>1, <2>2
  <1> QED
    BY <1>5

\* Induction on numbers, of the set of those for which something holds.
LEMMA Induction ==
  ASSUME NEW S, 0 \in S, \A n \in Nat : n \in S => n + 1 \in S
  PROVE  Nat \subseteq S
  <1> SUFFICES ASSUME Nat \ S # {} PROVE FALSE
    OBVIOUS
  <1>1. PICK n \in Nat \ S : \A m \in Nat \ S : n <= m
    <2> DEFINE T == Nat \ S
    <2> HIDE DEF T
    <2>1. T \in SUBSET Nat /\ T # {}
      BY DEF T
    <2> QED
      BY <2>1, LeastNumber DEF T
  <1>2. n # 0 /\ n - 1 \in Nat /\ n - 1 \notin S
    BY <1>1
  <1> QED
    BY <1>1, <1>2

-----------------------------------------------------------------------------
(* Sums, as MapThenSumSet computes them: g is the sum of f over each subset. *)

Chosen(S) == CHOOSE x \in S : TRUE
IsSum(g, f, S) ==
  g = [T \in SUBSET S |-> IF T = {} THEN 0 ELSE f[Chosen(T)] + g[T \ {Chosen(T)}]]

LEMMA ChosenOne ==
  ASSUME NEW S, S # {}
  PROVE  Chosen(S) \in S
  BY DEF Chosen

\* Induction on the size of the subsets of a finite set.
LEMMA SubsetInduction ==
  ASSUME NEW S, IsFiniteSet(S), NEW P, {} \in P,
         \A T \in SUBSET S : (T # {} /\ \A x \in T : T \ {x} \in P) => T \in P
  PROVE  SUBSET S \subseteq P
  <1> DEFINE Sized(n) == \A T \in SUBSET S : Cardinality(T) = n => T \in P
             N == {n \in Nat : Sized(n)}
  <1>1. \A T \in SUBSET S : IsFiniteSet(T) /\ Cardinality(T) \in Nat
    BY FS_Subset, FS_CardinalityType
  <1>2. 0 \in N
    BY <1>1, FS_EmptySet
  <1>3. ASSUME NEW n \in Nat, n \in N PROVE n + 1 \in N
    <2> SUFFICES ASSUME NEW T \in SUBSET S, Cardinality(T) = n + 1 PROVE T \in P
      OBVIOUS
    <2>1. T # {}
      BY <1>1, FS_EmptySet
    <2>2. ASSUME NEW x \in T PROVE T \ {x} \in P
      <3>1. Cardinality(T \ {x}) = n
        BY <1>1, FS_RemoveElement
      <3> QED
        BY <1>3, <3>1
    <2> QED
      BY <2>1, <2>2
  <1> HIDE DEF N
  <1>4. Nat \subseteq N
    BY <1>2, <1>3, Induction
  <1> QED
    BY <1>1, <1>4 DEF N

\* There is one sum only, and there is one.
LEMMA OneSum ==
  ASSUME NEW S, IsFiniteSet(S), NEW f, NEW g, NEW h, IsSum(g, f, S), NEW T \in SUBSET S,
         IsSum(h, f, T)
  PROVE  \A U \in SUBSET T : g[U] = h[U]
  <1> DEFINE P == {U \in SUBSET T : g[U] = h[U]}
  <1>1. {} \in P
    BY DEF IsSum
  <1>2. ASSUME NEW U \in SUBSET T, U # {}, \A x \in U : U \ {x} \in P PROVE U \in P
    BY <1>2, ChosenOne DEF IsSum
  <1>3. IsFiniteSet(T)
    BY FS_Subset
  <1> HIDE DEF P
  <1>4. SUBSET T \subseteq P
    BY <1>1, <1>2, <1>3, SubsetInduction
  <1> QED
    BY <1>4 DEF P

LEMMA SumExists ==
  ASSUME NEW S, IsFiniteSet(S), NEW f
  PROVE  \E g : IsSum(g, f, S)
  <1> DEFINE Step(g, T) == IF T = {} THEN 0 ELSE f[Chosen(T)] + g[T \ {Chosen(T)}]
             UpTo(g, n) == \A T \in SUBSET S : Cardinality(T) <= n => g[T] = Step(g, T)
             N == {n \in Nat : \E g : UpTo(g, n)}
  <1>1. \A T \in SUBSET S : IsFiniteSet(T) /\ Cardinality(T) \in Nat
    BY FS_Subset, FS_CardinalityType
  <1>2. 0 \in N
    <2> DEFINE g == [T \in SUBSET S |-> 0]
    <2>1. UpTo(g, 0)
      BY <1>1, FS_EmptySet
    <2> QED
      BY <2>1
  <1>3. ASSUME NEW n \in Nat, n \in N PROVE n + 1 \in N
    <2>1. PICK g : UpTo(g, n)
      BY <1>3
    <2> DEFINE h == [T \in SUBSET S |-> Step(g, T)]
    <2>2. ASSUME NEW T \in SUBSET S, Cardinality(T) <= n + 1 PROVE h[T] = Step(h, T)
      <3> DEFINE U == T \ {Chosen(T)}
      <3>1. CASE T = {}
        BY <3>1
      <3>2. CASE T # {}
        <4>1. U \in SUBSET S /\ Cardinality(U) <= n
          BY <1>1, <2>2, <3>2, ChosenOne, FS_RemoveElement
        <4>2. g[U] = Step(g, U)
          BY <2>1, <4>1
        <4>3. h[U] = Step(g, U)
          BY <4>1
        <4> QED
          BY <3>2, <4>2, <4>3
      <3> QED
        BY <3>1, <3>2
    <2>3. UpTo(h, n + 1)
      BY <2>2
    <2> HIDE DEF h, UpTo
    <2> QED
      BY <2>3
  <1> HIDE DEF N
  <1>4. Nat \subseteq N
    BY <1>2, <1>3, Induction
  <1>5. PICK g : UpTo(g, Cardinality(S))
    <2>1. Cardinality(S) \in N
      BY <1>4, FS_CardinalityType
    <2> QED
      BY <2>1 DEF N
  <1> DEFINE h == [T \in SUBSET S |-> g[T]]
  <1>6. ASSUME NEW T \in SUBSET S PROVE h[T] = Step(h, T)
    <2>1. Cardinality(T) <= Cardinality(S)
      BY FS_Subset
    <2>2. T # {} => T \ {Chosen(T)} \in SUBSET S
      OBVIOUS
    <2> QED
      BY <1>5, <2>1, <2>2
  <1>7. IsSum(h, f, S)
    BY <1>6 DEF IsSum
  <1> QED
    BY <1>7

\* The operator of the model gives it.
LEMMA SumIs ==
  ASSUME NEW f, IsFiniteSet(DOMAIN f), NEW g, IsSum(g, f, DOMAIN f)
  PROVE  SumOf(f) = g[DOMAIN f]
  <1> DEFINE h == CHOOSE h : IsSum(h, f, DOMAIN f)
  <1>1. SumOf(f) = h[DOMAIN f]
    BY DEF SumOf, MapThenSumSet, MapThenFoldSet, IsSum, Chosen
  <1>2. IsSum(h, f, DOMAIN f)
    BY SumExists
  <1> HIDE DEF h
  <1>3. h[DOMAIN f] = g[DOMAIN f]
    BY <1>2, OneSum
  <1> QED
    BY <1>1, <1>3

\* The sum of a part of a function.
LEMMA PartSum ==
  ASSUME NEW S, IsFiniteSet(S), NEW f, NEW g, IsSum(g, f, S), NEW T \in SUBSET S,
         NEW part, part = [k \in T |-> f[k]]
  PROVE  SumOf(part) = g[T]
  <1> DEFINE h == [U \in SUBSET T |-> g[U]]
  <1>1. ASSUME NEW U \in SUBSET T
        PROVE  h[U] = IF U = {} THEN 0 ELSE part[Chosen(U)] + h[U \ {Chosen(U)}]
    <2>1. CASE U = {}
      BY <2>1 DEF IsSum
    <2>2. CASE U # {}
      <3>1. Chosen(U) \in T /\ U \in SUBSET S /\ U \ {Chosen(U)} \in SUBSET T
        BY <2>2, ChosenOne
      <3>2. g[U] = f[Chosen(U)] + g[U \ {Chosen(U)}]
        BY <2>2, <3>1 DEF IsSum
      <3> QED
        BY <2>2, <3>1, <3>2
    <2> QED
      BY <2>1, <2>2
  <1>2. IsSum(h, part, DOMAIN part)
    BY <1>1 DEF IsSum
  <1>3. IsFiniteSet(DOMAIN part)
    BY FS_Subset
  <1>4. SumOf(part) = h[DOMAIN part]
    <2> HIDE DEF h
    <2> QED
      BY <1>2, <1>3, SumIs
  <1> QED
    BY <1>4

LEMMA SumNat ==
  ASSUME NEW S, IsFiniteSet(S), NEW f \in [S -> Nat], NEW g, IsSum(g, f, S)
  PROVE  \A T \in SUBSET S : g[T] \in Nat
  <1> DEFINE P == {T \in SUBSET S : g[T] \in Nat}
  <1>1. {} \in P
    BY DEF IsSum
  <1>2. ASSUME NEW T \in SUBSET S, T # {}, \A x \in T : T \ {x} \in P PROVE T \in P
    <2>1. Chosen(T) \in T
      BY <1>2, ChosenOne
    <2>2. g[T] = f[Chosen(T)] + g[T \ {Chosen(T)}]
      BY <1>2 DEF IsSum
    <2>3. g[T \ {Chosen(T)}] \in Nat /\ f[Chosen(T)] \in Nat
      BY <1>2, <2>1
    <2> QED
      BY <2>2, <2>3
  <1> HIDE DEF P
  <1>3. SUBSET S \subseteq P
    BY <1>1, <1>2, SubsetInduction
  <1> QED
    BY <1>3 DEF P

\* One element may be counted before the others.
LEMMA SumSplit ==
  ASSUME NEW S, IsFiniteSet(S), NEW f \in [S -> Nat], NEW g, IsSum(g, f, S)
  PROVE  \A T \in SUBSET S : \A x \in T : g[T] = f[x] + g[T \ {x}]
  <1> DEFINE P == {T \in SUBSET S : \A x \in T : g[T] = f[x] + g[T \ {x}]}
  <1>1. {} \in P
    OBVIOUS
  <1>2. ASSUME NEW T \in SUBSET S, T # {}, \A x \in T : T \ {x} \in P PROVE T \in P
    <2> DEFINE c == Chosen(T)
    <2>1. c \in T
      BY <1>2, ChosenOne
    <2>2. g[T] = f[c] + g[T \ {c}]
      BY <1>2 DEF IsSum
    <2> HIDE DEF c
    <2>3. ASSUME NEW x \in T, x # c PROVE g[T] = f[x] + g[T \ {x}]
      <3> DEFINE U == (T \ {x}) \ {c}
      <3>1. g[T \ {c}] = f[x] + g[(T \ {c}) \ {x}]
        BY <1>2, <2>1, <2>3
      <3>2. g[T \ {x}] = f[c] + g[U]
        BY <1>2, <2>1, <2>3
      <3>3. (T \ {c}) \ {x} = U
        OBVIOUS
      <3>4. g[U] \in Nat
        BY SumNat
      <3>5. f[x] \in Nat /\ f[c] \in Nat
        BY <2>1
      <3> HIDE DEF U
      <3>6. g[T \ {c}] = f[x] + g[U]
        BY <3>1, <3>3
      <3> QED
        BY <2>2, <3>2, <3>4, <3>5, <3>6
    <2> QED
      BY <2>2, <2>3
  <1> HIDE DEF P
  <1>3. SUBSET S \subseteq P
    BY <1>1, <1>2, SubsetInduction
  <1> QED
    BY <1>3 DEF P

\* More cannot sum up to less.
LEMMA SumMonotone ==
  ASSUME NEW S, IsFiniteSet(S), NEW f \in [S -> Nat], NEW g, IsSum(g, f, S)
  PROVE  \A U \in SUBSET S : \A T \in SUBSET U : g[T] <= g[U]
  <1> DEFINE P == {U \in SUBSET S : \A T \in SUBSET U : g[T] <= g[U]}
  <1>0. \A T \in SUBSET S : g[T] \in Nat
    BY SumNat
  <1>1. {} \in P
    <2>1. \A T \in SUBSET {} : T = {}
      OBVIOUS
    <2>2. g[{}] <= g[{}]
      BY <1>0
    <2> QED
      BY <2>1, <2>2
  <1>2. ASSUME NEW U \in SUBSET S, U # {}, \A x \in U : U \ {x} \in P PROVE U \in P
    <2> SUFFICES ASSUME NEW T \in SUBSET U PROVE g[T] <= g[U]
      OBVIOUS
    <2>1. CASE T = U
      BY <1>0, <2>1
    <2>2. CASE T # U
      <3>1. PICK x \in U : x \notin T
        BY <2>2
      <3>2. g[T] <= g[U \ {x}]
        BY <1>2, <3>1
      <3>3. g[U] = f[x] + g[U \ {x}]
        BY <3>1, SumSplit
      <3>4. g[T] \in Nat /\ g[U \ {x}] \in Nat /\ g[U] \in Nat /\ f[x] \in Nat
        BY <1>0, <3>1
      <3> QED
        BY <3>2, <3>3, <3>4
    <2> QED
      BY <2>1, <2>2
  <1> HIDE DEF P
  <1>3. SUBSET S \subseteq P
    BY <1>1, <1>2, SubsetInduction
  <1> QED
    BY <1>3 DEF P

\* g has the sums over the subsets of S.
IsPartSums(g, f, S) ==
  /\ SumOf(f) = g[S]
  /\ \A T \in SUBSET S :
       /\ g[T] \in Nat
       /\ \A part : part = [k \in T |-> f[k]] => SumOf(part) = g[T]
       /\ \A x \in T : g[T] = f[x] + g[T \ {x}]
       /\ \A U \in SUBSET T : g[U] <= g[T]

LEMMA SumFacts ==
  ASSUME NEW S, IsFiniteSet(S), NEW f \in [S -> Nat]
  PROVE  \E g : IsPartSums(g, f, S)
  <1>1. PICK g : IsSum(g, f, S)
    BY SumExists
  <1>2. SumOf(f) = g[S]
    BY <1>1, SumIs
  <1>3. ASSUME NEW T \in SUBSET S, NEW part, part = [k \in T |-> f[k]]
        PROVE  SumOf(part) = g[T]
    BY <1>1, <1>3, PartSum
  <1>4. \A T \in SUBSET S : g[T] \in Nat
    BY <1>1, SumNat
  <1>5. ASSUME NEW T \in SUBSET S, NEW x \in T PROVE g[T] = f[x] + g[T \ {x}]
    BY <1>1, SumSplit
  <1>6. \A T \in SUBSET S : \A U \in SUBSET T : g[U] <= g[T]
    BY <1>1, SumMonotone
  <1> QED
    BY <1>2, <1>3, <1>4, <1>5, <1>6 DEF IsPartSums

\* The places of the keys follow each other and end with the last of all.
LEMMA Places ==
  ASSUME NEW S \in SUBSET Nat, IsFiniteSet(S), NEW sizes \in [S -> Nat]
  PROVE  /\ SumOf(sizes) \in Nat
         /\ \A k \in S : /\ Begin(sizes, k) \in Nat /\ sizes[k] <= SumOf(sizes)
                         /\ Begin(sizes, k) + sizes[k] <= SumOf(sizes)
                         /\ (\A l \in S : l <= k) => Begin(sizes, k) + sizes[k] = SumOf(sizes)
         /\ \A k, l \in S : k < l => Begin(sizes, k) + sizes[k] <= Begin(sizes, l)
  <1>0. PICK g : IsPartSums(g, sizes, S)
    BY SumFacts
  <1>1. /\ SumOf(sizes) = g[S]
        /\ \A T \in SUBSET S :
             /\ g[T] \in Nat
             /\ \A part : part = [k \in T |-> sizes[k]] => SumOf(part) = g[T]
             /\ \A x \in T : g[T] = sizes[x] + g[T \ {x}]
             /\ \A U \in SUBSET T : g[U] <= g[T]
    BY <1>0 DEF IsPartSums
  <1>2. \A T \in SUBSET S : g[T] \in Nat
    BY <1>1
  <1>3. SumOf(sizes) = g[S]
    BY <1>1
  <1>4. ASSUME NEW k PROVE Begin(sizes, k) = g[{l \in S : l < k}]
    <2> DEFINE T == {l \in S : l < k}
               part == [l \in T |-> sizes[l]]
    <2>1. Begin(sizes, k) = SumOf(part)
      BY DEF Begin
    <2>2. T \in SUBSET S /\ part = [l \in T |-> sizes[l]]
      OBVIOUS
    <2> HIDE DEF T, part
    <2>3. SumOf(part) = g[T]
      BY <1>1, <2>2
    <2> QED
      BY <2>1, <2>3 DEF T
  <1>5. ASSUME NEW k \in S, NEW U \in SUBSET S, k \in U, \A l \in S : l < k => l \in U
        PROVE  Begin(sizes, k) + sizes[k] <= g[U]
    <2> DEFINE T == {l \in S : l < k}
    <2>0. \A l \in T : l # k
      OBVIOUS
    <2>1. T \in SUBSET (U \ {k})
      BY <1>5, <2>0
    <2>2. g[T] <= g[U \ {k}]
      BY <1>1, <1>5, <2>1
    <2>3. g[U] = sizes[k] + g[U \ {k}]
      BY <1>1, <1>5
    <2>4. g[T] \in Nat /\ g[U] \in Nat /\ g[U \ {k}] \in Nat /\ sizes[k] \in Nat
      BY <1>2
    <2>5. Begin(sizes, k) = g[T]
      BY <1>4
    <2> HIDE DEF T
    <2> QED
      BY <2>2, <2>3, <2>4, <2>5
  <1>6. ASSUME NEW k \in S
        PROVE  /\ Begin(sizes, k) \in Nat
               /\ Begin(sizes, k) + sizes[k] <= SumOf(sizes)
               /\ (\A l \in S : l <= k) => Begin(sizes, k) + sizes[k] = SumOf(sizes)
    <2>1. Begin(sizes, k) \in Nat
      BY <1>2, <1>4
    <2>2. Begin(sizes, k) + sizes[k] <= SumOf(sizes)
      BY <1>3, <1>5
    <2>3. ASSUME \A l \in S : l <= k PROVE Begin(sizes, k) + sizes[k] = SumOf(sizes)
      <3>0. ASSUME NEW l \in S PROVE l < k <=> l # k
        <4>1. l \in Nat /\ k \in Nat /\ l <= k
          BY <2>3
        <4> QED
          BY <4>1
      <3>1. {l \in S : l < k} = S \ {k}
        BY <3>0
      <3>2. g[S] = sizes[k] + g[S \ {k}]
        BY <1>1
      <3>3. Begin(sizes, k) = g[S \ {k}]
        BY <1>4, <3>1
      <3>4. sizes[k] \in Nat
        OBVIOUS
      <3> QED
        BY <1>3, <2>1, <3>2, <3>3, <3>4
    <2> QED
      BY <2>1, <2>2, <2>3
  <1>7. ASSUME NEW k \in S, NEW l \in S, k < l
        PROVE  Begin(sizes, k) + sizes[k] <= Begin(sizes, l)
    <2> DEFINE U == {m \in S : m < l}
    <2>1. U \in SUBSET S /\ k \in U /\ \A m \in S : m < k => m \in U
      BY <1>7
    <2>2. Begin(sizes, l) = g[U]
      BY <1>4
    <2> HIDE DEF U
    <2> QED
      BY <1>5, <2>1, <2>2
  <1>8. SumOf(sizes) \in Nat
    BY <1>2, <1>3
  <1>9. ASSUME NEW k \in S PROVE sizes[k] <= SumOf(sizes)
    <2>1. sizes[k] \in Nat
      OBVIOUS
    <2> QED
      BY <1>6, <1>8, <2>1
  <1> QED
    BY <1>6, <1>7, <1>8, <1>9

-----------------------------------------------------------------------------
(* The arithmetic of the values a controller can be given.                 *)

LEMMA MulLess ==
  ASSUME NEW a \in Int, NEW b \in Int, NEW d \in Nat, a < b
  PROVE  a * d + d <= b * d
  <1>1. PICK e \in Nat : b = a + 1 + e
    <2> WITNESS b - a - 1 \in Nat
    <2> QED OBVIOUS
  <1>2. b * d = a * d + d + e * d
    BY <1>1
  <1>3. e * d >= 0
    OBVIOUS
  <1>4. a * d \in Int /\ e * d \in Int
    OBVIOUS
  <1> QED
    BY <1>2, <1>3, <1>4

LEMMA Division ==
  ASSUME NEW a \in Nat, NEW d \in Nat \ {0}
  PROVE  /\ a \div d \in Nat
         /\ d * (a \div d) <= a /\ a < d * (a \div d) + d
  OBVIOUS
LEMMA DivisionIs ==
  ASSUME NEW a \in Nat, NEW d \in Nat \ {0}, NEW q \in Int, d * q <= a, a < d * q + d
  PROVE  a \div d = q
  <1>1. a \div d \in Nat /\ d * (a \div d) <= a /\ a < d * (a \div d) + d
    BY Division
  <1>2. ~ (a \div d < q)
    BY <1>1, MulLess
  <1>3. ~ (q < a \div d)
    BY <1>1, MulLess
  <1> QED
    BY <1>1, <1>2, <1>3

LEMMA LeastElement ==
  ASSUME NEW S \in SUBSET Nat, S # {}
  PROVE  Min(S) \in S /\ \A n \in S : Min(S) <= n
  BY LeastNumber DEF Min

LEMMA Distribute ==
  ASSUME NEW m \in Int, NEW n \in Int, NEW d \in Int, NEW i \in Int
  PROVE  /\ m * d + i * (n - m) \in Int /\ m * d \in Int /\ n * d \in Int
         /\ m * d + i * (n - m) = m * (d - i) + n * i
         /\ m * d + 0 * (n - m) = m * d
         /\ m * d + d * (n - m) = n * d
         /\ m * d + (i + 1) * (n - m) = m * d + i * (n - m) + (n - m)
  OBVIOUS

LEMMA SpacedNext ==
  ASSUME NEW range \in MinMax, NEW count \in Nat \ {0, 1}, NEW i \in Nat
  PROVE  /\ Spaced(range, count, i) \in Int
         /\ Spaced(range, count, 0) = range.min * (count - 1)
         /\ Spaced(range, count, count - 1) = range.max * (count - 1)
         /\ Spaced(range, count, i + 1) = Spaced(range, count, i) + (range.max - range.min)
  <1>1. range.min \in Int /\ range.max \in Int /\ count - 1 \in Int /\ i \in Int
    BY DEF MinMax, MidiValue
  <1> DEFINE m == range.min
             n == range.max
             d == count - 1
  <1>2. \A j : Spaced(range, count, j) = m * d + j * (n - m)
    BY DEF Spaced
  <1>0. m \in Int /\ n \in Int /\ d \in Int
    BY <1>1
  <1> HIDE DEF m, n, d
  <1>3. /\ m * d + i * (n - m) \in Int
        /\ m * d + 0 * (n - m) = m * d
        /\ m * d + d * (n - m) = n * d
        /\ m * d + (i + 1) * (n - m) = m * d + i * (n - m) + (n - m)
    BY <1>0, Distribute
  <1> QED
    BY <1>2, <1>3 DEF m, n, d

LEMMA MulMonotone ==
  ASSUME NEW a \in Int, NEW b \in Int, NEW d \in Nat, a <= b
  PROVE  a * d <= b * d
  <1>1. CASE a = b
    BY <1>1
  <1>2. CASE a < b
    BY <1>2, MulLess
  <1> QED
    BY <1>1, <1>2

\* The two ends are between low and high.
EndsWithin(range, low, high) ==
  /\ low \in Nat /\ low <= range.min /\ low <= range.max
  /\ high \in Nat /\ range.min <= high /\ range.max <= high

\* The spaced values lie between the minimum and the maximum, and rise.
LEMMA SpacedBetween ==
  ASSUME NEW range \in MinMax, NEW count \in Nat \ {0, 1}, NEW i \in 0 .. count - 1,
         NEW low, NEW high, EndsWithin(range, low, high)
  PROVE  low * (count - 1) <= Spaced(range, count, i) /\ Spaced(range, count, i) <= high * (count - 1)
  <1>1. range.min \in Int /\ range.max \in Int /\ count - 1 \in Nat /\ i \in Nat
    BY DEF MinMax, MidiValue
  <1> DEFINE m == range.min
             n == range.max
             d == count - 1
  <1>2. Spaced(range, count, i) = m * d + i * (n - m)
    BY DEF Spaced
  <1>3. /\ m \in Int /\ n \in Int /\ d \in Nat /\ i \in Nat /\ d - i \in Nat
        /\ low <= m /\ low <= n /\ m <= high /\ n <= high
        /\ low \in Nat /\ high \in Nat
    BY <1>1 DEF EndsWithin
  <1> HIDE DEF m, n, d
  <1>4. m * d + i * (n - m) = m * (d - i) + n * i
    BY <1>3, Distribute
  <1>5. /\ low * (d - i) <= m * (d - i) /\ m * (d - i) <= high * (d - i)
        /\ low * i <= n * i /\ n * i <= high * i
    BY <1>3, MulMonotone
  <1>6. /\ \A x \in Int : x * (d - i) + x * i = x * d
        /\ \A x \in Int : x * (d - i) \in Int /\ x * i \in Int /\ x * d \in Int
    BY <1>3
  <1>7. low * d <= m * (d - i) + n * i /\ m * (d - i) + n * i <= high * d
    <2>1. low * (d - i) + low * i = low * d /\ high * (d - i) + high * i = high * d
      BY <1>3, <1>6
    <2>2. /\ low * (d - i) \in Int /\ low * i \in Int /\ high * (d - i) \in Int /\ high * i \in Int
          /\ m * (d - i) \in Int /\ n * i \in Int /\ low * d \in Int /\ high * d \in Int
      BY <1>3, <1>6
    <2> QED
      BY <1>5, <2>1, <2>2
  <1> QED
    BY <1>2, <1>4, <1>7 DEF d

LEMMA SpacedRises ==
  ASSUME NEW range \in MinMax, NEW count \in Nat \ {0, 1}, range.min <= range.max,
         NEW i \in Nat, NEW j \in Nat, i <= j
  PROVE  Spaced(range, count, i) <= Spaced(range, count, j)
  <1> DEFINE w == range.max - range.min
             b == range.min * (count - 1)
  <1>0. range.min \in Int /\ range.max \in Int /\ count - 1 \in Int
    BY DEF MinMax, MidiValue
  <1>1. w \in Nat /\ b \in Int
    BY <1>0
  <1>2. \A k : Spaced(range, count, k) = b + k * w
    BY DEF Spaced
  <1> HIDE DEF w, b
  <1>3. i * w <= j * w /\ i * w \in Int /\ j * w \in Int
    BY <1>1, MulMonotone
  <1> QED
    BY <1>1, <1>2, <1>3

\* What rounding to the nearest is.
LEMMA Rounded ==
  ASSUME NEW range \in MinMax, NEW count \in Nat \ {0, 1}, NEW i \in 0 .. count - 1
  PROVE  LET d == 2 * (count - 1)
             a == 2 * Spaced(range, count, i) + (count - 1)
         IN  /\ OutputValue(range, count, i) \in Nat
             /\ d * OutputValue(range, count, i) <= a
             /\ a < d * OutputValue(range, count, i) + d
             /\ \A q \in Int : d * q <= a /\ a < d * q + d => OutputValue(range, count, i) = q
  <1> DEFINE d == 2 * (count - 1)
             a == 2 * Spaced(range, count, i) + (count - 1)
  <1>1. OutputValue(range, count, i) = a \div d
    BY DEF OutputValue
  <1>2. Spaced(range, count, i) \in Int /\ 0 * (count - 1) <= Spaced(range, count, i)
    <2>1. EndsWithin(range, 0, 127)
      BY DEF EndsWithin, MinMax, MidiValue
    <2>2. Spaced(range, count, i) \in Int
      BY SpacedNext
    <2>3. 0 * (count - 1) <= Spaced(range, count, i)
      BY <2>1, SpacedBetween
    <2> QED
      BY <2>2, <2>3
  <1>3. a \in Nat /\ d \in Nat \ {0}
    BY <1>2
  <1> HIDE DEF a, d
  <1>4. /\ a \div d \in Nat
        /\ d * (a \div d) <= a /\ a < d * (a \div d) + d
        /\ \A q \in Int : d * q <= a /\ a < d * q + d => a \div d = q
    BY <1>3, Division, DivisionIs
  <1> QED
    BY <1>1, <1>4 DEF a, d

\* What an output means is between the minimum and the maximum.
LEMMA OutputBetween ==
  ASSUME NEW range \in MinMax, NEW count \in Nat \ {0, 1}, NEW i \in 0 .. count - 1,
         NEW low, NEW high, EndsWithin(range, low, high)
  PROVE  OutputValue(range, count, i) \in low .. high
  <1> DEFINE D == count - 1
             S == Spaced(range, count, i)
             w == OutputValue(range, count, i)
  <1>1. low * D <= S /\ S <= high * D
    BY SpacedBetween
  <1>2. w \in Nat /\ (2 * D) * w <= 2 * S + D /\ 2 * S + D < (2 * D) * w + 2 * D
    BY Rounded
  <1>3. D \in Nat /\ D > 0 /\ S \in Int /\ low \in Nat /\ high \in Nat
    BY SpacedNext DEF EndsWithin
  <1> HIDE DEF D, S, w
  <1>4. (2 * D) * w = 2 * (w * D) /\ w * D \in Int /\ low * D \in Int /\ high * D \in Int
    BY <1>2, <1>3
  <1>5. ~ (w < low)
    <2> SUFFICES ASSUME w < low PROVE FALSE
      OBVIOUS
    <2>1. w * D + D <= low * D
      BY <1>2, <1>3, MulLess
    <2> QED
      BY <1>1, <1>2, <1>3, <1>4, <2>1
  <1>6. ~ (high < w)
    <2> SUFFICES ASSUME high < w PROVE FALSE
      OBVIOUS
    <2>1. high * D + D <= w * D
      BY <1>2, <1>3, MulLess
    <2> QED
      BY <1>1, <1>2, <1>3, <1>4, <2>1
  <1> QED
    BY <1>2, <1>3, <1>5, <1>6 DEF w

\* The values the two places are between.
LEMMA Closest ==
  ASSUME NEW range \in MinMax, NEW count \in Nat \ {0, 1}, NEW value \in MidiValue,
         range.min < value, value < range.max
  PROVE  LET v == value * (count - 1)
         IN  \E u \in 1 .. count - 1 :
               /\ Spaced(range, count, u - 1) <= v /\ v < Spaced(range, count, u)
               /\ ClosestIndex(range, count, value) =
                    IF v - Spaced(range, count, u - 1) < Spaced(range, count, u) - v
                    THEN u - 1 ELSE u
  <1> DEFINE D == count - 1
             v == value * D
             U == {i \in 0 .. D : Spaced(range, count, i) > v}
             u == Min(U)
  <1>1. range.min \in Int /\ range.max \in Int /\ value \in Int /\ D \in Nat /\ D > 0
    BY DEF MinMax, MidiValue
  <1>2. Spaced(range, count, 0) = range.min * D /\ Spaced(range, count, D) = range.max * D
    BY SpacedNext
  <1>3. \A i \in Nat : Spaced(range, count, i) \in Int
    BY SpacedNext
  <1>4. range.min * D + D <= v /\ v + D <= range.max * D
    BY <1>1, MulLess
  <1>5. v \in Int /\ range.min * D \in Int /\ range.max * D \in Int
    BY <1>1
  <1>6. D \in U /\ 0 \notin U
    BY <1>1, <1>2, <1>4, <1>5
  <1>7. u \in U /\ \A i \in U : u <= i
    <2>1. U \in SUBSET Nat /\ U # {}
      BY <1>6
    <2> HIDE DEF U
    <2> QED
      BY <2>1, LeastElement
  <1>8. ClosestIndex(range, count, value) =
          IF v - Spaced(range, count, u - 1) < Spaced(range, count, u) - v THEN u - 1 ELSE u
    BY DEF ClosestIndex
  <1>9. u \in 1 .. D /\ Spaced(range, count, u) > v
    BY <1>1, <1>6, <1>7
  <1> HIDE DEF u
  <1>10. u - 1 \in 0 .. D /\ u - 1 \notin U
    BY <1>1, <1>7, <1>9
  <1>11. Spaced(range, count, u - 1) <= v
    BY <1>3, <1>5, <1>10
  <1>12. v < Spaced(range, count, u)
    BY <1>3, <1>5, <1>9
  <1> QED
    BY <1>8, <1>9, <1>11, <1>12

\* The place of a value is one of the controller's places.
LEMMA HotIndexInRange ==
  ASSUME NEW range \in MinMax, NEW count \in Nat \ {0, 1}, NEW value \in MidiValue
  PROVE  HotIndex(range, count, value) \in 0 .. count - 1
  <1>1. range.min \in Int /\ range.max \in Int /\ value \in Int
    BY DEF MinMax, MidiValue
  <1>2. CASE value <= range.min
    BY <1>2 DEF HotIndex
  <1>3. CASE value > range.min /\ value >= range.max
    BY <1>1, <1>3 DEF HotIndex
  <1>4. CASE value > range.min /\ value < range.max
    <2>1. ClosestIndex(range, count, value) \in 0 .. count - 1
      BY <1>1, <1>4, Closest
    <2> QED
      BY <1>1, <1>4, <2>1 DEF HotIndex
  <1> QED
    BY <1>1, <1>2, <1>3, <1>4

\* A value between two places is moved to the place it is rounded from.
LEMMA RoundTrip ==
  ASSUME NEW range \in MinMax, NEW count \in Nat \ {0, 1}, NEW i \in 0 .. count - 1,
         NEW w, w = OutputValue(range, count, i), range.min < w, w < range.max, w \in MidiValue
  PROVE  OutputValue(range, count, ClosestIndex(range, count, w)) = w
  <1> DEFINE D == count - 1
             v == w * D
             S(k) == Spaced(range, count, k)
  <1>1. /\ range.min \in Int /\ range.max \in Int /\ w \in Int /\ D \in Nat /\ D > 0
        /\ range.min < range.max
    BY DEF MinMax, MidiValue
  <1>2. PICK u \in 1 .. D :
          /\ S(u - 1) <= v /\ v < S(u)
          /\ ClosestIndex(range, count, w) = IF v - S(u - 1) < S(u) - v THEN u - 1 ELSE u
    BY Closest
  <1>3. \A k \in Nat : S(k) \in Int
    BY SpacedNext
  <1>4. 2 * v <= 2 * S(i) + D /\ 2 * S(i) + D < 2 * v + 2 * D
    <2>1. (2 * D) * w <= 2 * S(i) + D /\ 2 * S(i) + D < (2 * D) * w + 2 * D
      BY Rounded
    <2>2. (2 * D) * w = 2 * v
      BY <1>1
    <2> QED
      BY <2>1, <2>2
  <1>5. v \in Int /\ u \in Nat /\ u - 1 \in Nat /\ i \in Nat
    BY <1>1
  <1>6. S(i) <= S(u - 1) \/ S(u) <= S(i)
    <2>1. i <= u - 1 \/ u <= i
      BY <1>5
    <2> QED
      BY <1>1, <1>5, <2>1, SpacedRises
  <1>7. S(u) = S(u - 1) + (range.max - range.min)
    <2>1. S((u - 1) + 1) = S(u - 1) + (range.max - range.min)
      BY <1>5, SpacedNext
    <2>2. (u - 1) + 1 = u
      BY <1>5
    <2> QED
      BY <2>1, <2>2
  <1>8. 2 * (S(u) - v) = D => range.max - range.min # D
    <2> SUFFICES ASSUME 2 * (S(u) - v) = D, range.max - range.min = D PROVE FALSE
      OBVIOUS
    <2>1. S(u) = range.min * D + u * D
      BY DEF Spaced
    <2>2. range.min * D + u * D = (range.min + u) * D
      BY <1>1, <1>5
    <2>3. S(u) - v = (range.min + u - w) * D
      <3>1. (range.min + u) * D - w * D = (range.min + u - w) * D
        BY <1>1, <1>5
      <3> QED
        BY <2>1, <2>2, <3>1
    <2>4. PICK k \in Int : k = range.min + u - w
      BY <1>1, <1>5
    <2>5. 2 * (k * D) = D
      BY <2>3, <2>4
    <2>6. CASE k <= 0
      <3>1. k * D <= 0 * D
        BY <1>1, <2>6, MulMonotone
      <3> QED
        BY <1>1, <2>5, <3>1
    <2>7. CASE k >= 1
      <3>1. 1 * D <= k * D
        BY <1>1, <2>7, MulMonotone
      <3> QED
        BY <1>1, <2>5, <3>1
    <2> QED
      BY <2>6, <2>7
  <1> DEFINE j == ClosestIndex(range, count, w)
  <1>9. j \in 0 .. D /\ S(j) \in Int
    BY <1>2, <1>3, <1>5
  <1>10. 2 * v <= 2 * S(j) + D /\ 2 * S(j) + D < 2 * v + 2 * D
    <2>1. S(u) \in Int /\ S(u - 1) \in Int /\ S(i) \in Int
      BY <1>3, <1>5
    <2>2. CASE v - S(u - 1) < S(u) - v
      <3>1. S(j) = S(u - 1)
        BY <1>2, <2>2
      <3> HIDE DEF S, D, v, j
      <3> QED
        BY <1>1, <1>2, <1>4, <1>5, <1>6, <2>1, <2>2, <3>1
    <2>3. CASE ~ (v - S(u - 1) < S(u) - v)
      <3>1. S(j) = S(u)
        BY <1>2, <2>3
      <3> HIDE DEF S, D, v, j
      <3>2. 2 * (S(u) - v) < D
        <4>1. CASE S(u) <= S(i)
          BY <1>1, <1>4, <1>5, <2>1, <4>1
        <4>2. CASE S(i) <= S(u - 1)
          <5>1. 2 * (v - S(u - 1)) <= D
            BY <1>1, <1>4, <1>5, <2>1, <4>2
          <5>2. S(u) - v <= v - S(u - 1)
            BY <1>5, <2>1, <2>3
          <5>3. 2 * (S(u) - v) = D => S(u) - S(u - 1) = D
            BY <1>1, <1>5, <2>1, <5>1, <5>2
          <5>4. 2 * (S(u) - v) # D
            BY <1>1, <1>7, <1>8, <2>1, <5>3
          <5> QED
            BY <1>1, <1>5, <2>1, <5>1, <5>2, <5>4
        <4> QED
          BY <1>6, <4>1, <4>2
      <3> QED
        BY <1>1, <1>2, <1>5, <2>1, <3>1, <3>2
    <2> QED
      BY <2>2, <2>3
  <1>11. (2 * D) * w = 2 * v
    BY <1>1
  <1>12. (2 * D) * w <= 2 * S(j) + D /\ 2 * S(j) + D < (2 * D) * w + 2 * D
    BY <1>10, <1>11
  <1> HIDE DEF j
  <1>13. OutputValue(range, count, j) = w
    BY <1>1, <1>9, <1>12, Rounded
  <1> QED
    BY <1>13 DEF j

\* A value that was adjusted is not moved by being adjusted again.
LEMMA AdjustedStays ==
  ASSUME NEW range \in MinMax, NEW count \in Nat \ {0, 1}, NEW value \in MidiValue,
         NEW w, w = OutputValue(range, count, HotIndex(range, count, value))
  PROVE  w \in MidiValue /\ OutputValue(range, count, HotIndex(range, count, w)) = w
  <1> DEFINE h == HotIndex(range, count, value)
  <1>1. h \in 0 .. count - 1
    BY HotIndexInRange
  <1>2. range.min \in 0 .. 127 /\ range.max \in 0 .. 127 /\ value \in 0 .. 127
    BY DEF MinMax, MidiValue
  <1> HIDE DEF h
  <1>3. w \in 0 .. 127
    <2>1. EndsWithin(range, 0, 127)
      BY <1>2 DEF EndsWithin
    <2> QED
      BY <1>1, <2>1, OutputBetween DEF h
  <1>4. OutputValue(range, count, 0) = range.min
    <2>1. OutputValue(range, count, 0) = range.min
      <3> DEFINE m == range.min
                 D == count - 1
      <3>1. Spaced(range, count, 0) = m * D
        BY SpacedNext
      <3>2. m \in Nat /\ D \in Nat /\ D > 0 /\ m * D \in Int /\ (2 * D) * m = 2 * (m * D)
        BY <1>2
      <3>3. (2 * D) * m <= 2 * (m * D) + D /\ 2 * (m * D) + D < (2 * D) * m + 2 * D
        BY <3>2
      <3> QED
        BY <3>1, <3>2, <3>3, Rounded
    <2> QED
      BY <2>1
  <1>5. OutputValue(range, count, count - 1) = range.max
    <2> DEFINE m == range.max
               D == count - 1
    <2>1. Spaced(range, count, D) = m * D
      BY SpacedNext
    <2>2. m \in Nat /\ D \in Nat /\ D > 0 /\ m * D \in Int /\ (2 * D) * m = 2 * (m * D)
      BY <1>2
    <2>3. (2 * D) * m <= 2 * (m * D) + D /\ 2 * (m * D) + D < (2 * D) * m + 2 * D
      BY <2>2
    <2> QED
      BY <2>1, <2>2, <2>3, Rounded
  <1>6. CASE value <= range.min
    <2>0. HotIndex(range, count, value) = 0
      <3>1. value \in Int /\ range.min \in Int
        BY <1>2
      <3> QED
        BY <1>6, <3>1 DEF HotIndex
    <2>1. h = 0
      BY <2>0 DEF h
    <2>2. w = range.min
      BY <1>4, <2>1 DEF h
    <2>3. HotIndex(range, count, w) = 0
      BY <1>2, <2>2 DEF HotIndex
    <2> QED
      BY <1>3, <1>4, <2>2, <2>3 DEF MidiValue
  <1>7. CASE value > range.min /\ range.min <= range.max
    <2>1. w \in range.min .. range.max
      <3>1. EndsWithin(range, range.min, range.max)
        BY <1>2, <1>7 DEF EndsWithin
      <3> QED
        BY <1>1, <3>1, OutputBetween DEF h
    <2>2. CASE w = range.min
      <3>1. HotIndex(range, count, w) = 0
        BY <1>2, <2>2 DEF HotIndex
      <3> QED
        BY <1>3, <1>4, <2>2, <3>1 DEF MidiValue
    <2>3. CASE w # range.min /\ w = range.max
      <3>1. HotIndex(range, count, w) = count - 1
        BY <1>2, <2>1, <2>3 DEF HotIndex
      <3> QED
        BY <1>3, <1>5, <2>3, <3>1 DEF MidiValue
    <2>4. CASE w # range.min /\ w # range.max
      <3>1. range.min < w /\ w < range.max /\ w \in MidiValue
        BY <1>2, <1>3, <2>1, <2>4 DEF MidiValue
      <3>2. HotIndex(range, count, w) = ClosestIndex(range, count, w)
        <4>1. ~ (w <= range.min) /\ ~ (w >= range.max)
          BY <1>2, <1>3, <3>1
        <4> QED
          BY <4>1 DEF HotIndex
      <3>3. OutputValue(range, count, ClosestIndex(range, count, w)) = w
        BY <1>1, <3>1, RoundTrip DEF h
      <3> QED
        BY <3>1, <3>2, <3>3
    <2> QED
      BY <2>2, <2>3, <2>4
  <1>8. value <= range.min \/ (value > range.min /\ range.min <= range.max)
    BY <1>2 DEF MinMax
  <1> QED
    BY <1>6, <1>7, <1>8

\* A single output stands for the minimum, and every value for it, if there is
\* none between the minimum and the maximum.
LEMMA SingleOutput ==
  ASSUME NEW range \in MinMax, NEW value \in MidiValue, range.max <= range.min + 1
  PROVE  /\ HotIndex(range, 1, value) = 0 /\ OutputValue(range, 1, 0) = range.min
         /\ range.min \in MidiValue
  <1>1. range.min \in Int /\ range.max \in Int /\ value \in Int /\ range.min \in MidiValue
    BY DEF MinMax, MidiValue
  <1>2. HotIndex(range, 1, value) = 0
    <2>1. CASE value <= range.min
      BY <2>1 DEF HotIndex
    <2>2. CASE ~ (value <= range.min)
      <3>1. value >= range.max /\ value > range.min
        BY <1>1, <2>2
      <3> QED
        BY <2>2, <3>1 DEF HotIndex
    <2> QED
      BY <2>1, <2>2
  <1> QED
    BY <1>1, <1>2 DEF OutputValue

\* The same of any number of outputs: places are in range, outputs stand for
\* values, and a value that was adjusted stays.
LEMMA HotIndexWithin ==
  ASSUME NEW range \in MinMax, NEW count \in Nat \ {0}, NEW value \in MidiValue,
         count = 1 => range.max <= range.min + 1
  PROVE  HotIndex(range, count, value) \in 0 .. count - 1
  <1>1. CASE count = 1
    BY <1>1, SingleOutput
  <1>2. CASE count # 1
    BY <1>2, HotIndexInRange
  <1> QED
    BY <1>1, <1>2

LEMMA OutputWithin ==
  ASSUME NEW range \in MinMax, NEW count \in Nat \ {0}, NEW i \in 0 .. count - 1
  PROVE  OutputValue(range, count, i) \in MidiValue
  <1>1. CASE count = 1
    BY <1>1 DEF OutputValue, MinMax
  <1>2. CASE count # 1
    <2>1. EndsWithin(range, 0, 127)
      BY DEF EndsWithin, MinMax, MidiValue
    <2>2. OutputValue(range, count, i) \in 0 .. 127
      BY <1>2, <2>1, OutputBetween
    <2> QED
      BY <2>2 DEF MidiValue
  <1> QED
    BY <1>1, <1>2

LEMMA AdjustedFixed ==
  ASSUME NEW range \in MinMax, NEW count \in Nat \ {0}, NEW value \in MidiValue,
         count = 1 => range.max <= range.min + 1,
         NEW w, w = OutputValue(range, count, HotIndex(range, count, value))
  PROVE  w \in MidiValue /\ OutputValue(range, count, HotIndex(range, count, w)) = w
  <1>1. CASE count = 1
    <2>1. w = range.min /\ w \in MidiValue
      BY <1>1, SingleOutput
    <2> QED
      BY <1>1, <2>1, SingleOutput
  <1>2. CASE count # 1
    BY <1>2, AdjustedStays
  <1> QED
    BY <1>1, <1>2

-----------------------------------------------------------------------------
(* The places of the controllers and of the features.                      *)

LEMMA FiniteNumbers ==
  ASSUME NEW S, NEW n \in Nat, S \subseteq 0 .. n
  PROVE  IsFiniteSet(S) /\ S \in SUBSET Nat
  <1>1. IsFiniteSet(0 .. n)
    BY FS_Interval
  <1>2. S \in SUBSET (0 .. n) /\ S \in SUBSET Nat
    OBVIOUS
  <1>3. IsFiniteSet(S)
    <2> DEFINE all == 0 .. n
    <2>1. IsFiniteSet(all) /\ S \in SUBSET all
      BY <1>1, <1>2
    <2> HIDE DEF all
    <2> QED
      BY <2>1, FS_Subset
  <1> QED
    BY <1>2, <1>3

\* The controllers with an output count.
Counted == DOMAIN OutputCount

\* The places of each controller are within a vector.
LEMMA OutputPlaces ==
  /\ TotalOutputCount \in Nat
  /\ \A c \in Counted : /\ OutputBegin(c) \in Nat /\ OutputCount[c] \in Nat \ {0}
                        /\ OutputCount[c] <= TotalOutputCount
                        /\ OutputBegin(c) + OutputCount[c] <= TotalOutputCount
  <1>1. IsFiniteSet(Counted) /\ Counted \in SUBSET Nat
    <2> DEFINE all == 0 .. 127
    <2>1. Counted \in SUBSET all /\ all \in SUBSET Nat
      BY TranslatorAssumption DEF MidiValue, Counted
    <2>2. IsFiniteSet(all)
      <3>1. 0 \in Int /\ 127 \in Int
        OBVIOUS
      <3> QED
        BY <3>1, FS_Interval
    <2> HIDE DEF all
    <2> QED
      BY <2>1, <2>2, FS_Subset
  <1>2. OutputCount \in [Counted -> Nat]
    BY TranslatorAssumption DEF Counted
  <1>3. \A c \in Counted : OutputCount[c] \in Nat \ {0}
    BY TranslatorAssumption DEF Counted
  <1> QED
    BY <1>1, <1>2, <1>3, Places DEF TotalOutputCount, OutputBegin

\* The places of the features are within the input, apart, the interval's last.
LEMMA FeaturePlaces ==
  /\ InputFeatureCount \in Nat
  /\ \A f \in Features : /\ FeatureBegin(f) \in Nat /\ FeatureBegin(f) < InputFeatureCount
                         /\ f # INTERVAL /\ INTERVAL \in Features => FeatureBegin(f) < FeatureBegin(INTERVAL)
                         /\ \A g \in Features : FeatureBegin(f) = FeatureBegin(g) => f = g
  /\ INTERVAL \in Features => FeatureBegin(INTERVAL) + 16 = InputFeatureCount
  <1>1. IsFiniteSet(Features) /\ Features \in SUBSET Nat /\ \A f \in Features : f <= INTERVAL
    <2>1. Features \subseteq 0 .. 4 /\ 4 \in Nat
      BY TranslatorAssumption
    <2>2. IsFiniteSet(Features) /\ Features \in SUBSET Nat
      BY <2>1, FiniteNumbers
    <2>3. \A f \in Features : f <= INTERVAL
      BY <2>1 DEF INTERVAL
    <2> QED
      BY <2>2, <2>3
  <1>2. FeatureSizes \in [Features -> Nat]
    BY DEF FeatureSizes
  <1>3. /\ InputFeatureCount \in Nat
        /\ \A f \in Features :
             /\ FeatureBegin(f) \in Nat
             /\ FeatureBegin(f) + FeatureSizes[f] <= InputFeatureCount
             /\ (\A g \in Features : g <= f) => FeatureBegin(f) + FeatureSizes[f] = InputFeatureCount
        /\ \A f, g \in Features : f < g => FeatureBegin(f) + FeatureSizes[f] <= FeatureBegin(g)
    BY <1>1, <1>2, Places DEF InputFeatureCount, FeatureBegin
  <1>4. \A f \in Features : /\ FeatureSizes[f] \in Nat /\ FeatureSizes[f] >= 1
                            /\ f = INTERVAL => FeatureSizes[f] = 16
    BY DEF FeatureSizes
  <1>5. ASSUME NEW f \in Features, NEW g \in Features, f # g
        PROVE  FeatureBegin(f) # FeatureBegin(g)
    <2>1. f \in Nat /\ g \in Nat
      BY <1>1
    <2>2. f < g \/ g < f
      BY <1>5, <2>1
    <2> QED
      BY <1>3, <1>4, <2>2
  <1>6. ASSUME NEW f \in Features, f # INTERVAL, INTERVAL \in Features
        PROVE  FeatureBegin(f) < FeatureBegin(INTERVAL)
    <2>1. f < INTERVAL
      BY <1>1, <1>6
    <2> QED
      BY <1>3, <1>4, <1>6, <2>1
  <1>7. ASSUME NEW f \in Features PROVE FeatureBegin(f) < InputFeatureCount
    BY <1>3, <1>4
  <1>8. INTERVAL \in Features => FeatureBegin(INTERVAL) + 16 = InputFeatureCount
    BY <1>1, <1>3, <1>4
  <1> QED
    BY <1>3, <1>5, <1>6, <1>7, <1>8

-----------------------------------------------------------------------------
(* The types of what the translator's operations give.                     *)

\* What a usable range has the controllers have.
LEMMA UsableCounts ==
  ASSUME NEW minMax \in Usable, NEW c \in Controllers
  PROVE  /\ minMax[c] \in MinMax /\ c \in Counted /\ OutputCount[c] \in Nat \ {0}
         /\ OutputCount[c] = 1 => minMax[c].max <= minMax[c].min + 1
  <1>1. /\ minMax[c] \in MinMax /\ c \in Counted
        /\ OutputCount[c] = 1 => minMax[c].max <= minMax[c].min + 1
    BY DEF Usable, Constructible, Counted
  <1> QED
    BY <1>1, OutputPlaces

LEMMA HotType ==
  ASSUME NEW minMax \in Usable, NEW hot, hot = [c \in Controllers |-> hot[c]],
         \A c \in Controllers : hot[c] \in 0 .. OutputCount[c] - 1
  PROVE  hot \in HotIndexes
  <1>1. ASSUME NEW c \in Controllers PROVE hot[c] \in 0 .. TotalOutputCount /\ hot[c] < OutputCount[c]
    BY UsableCounts, OutputPlaces
  <1> QED
    BY <1>1 DEF HotIndexes

LEMMA AdjustedType ==
  ASSUME NEW minMax \in Usable, NEW values \in [Controllers -> MidiValue]
  PROVE  /\ Adjusted(minMax, values) \in [Controllers -> MidiValue]
         /\ Adjusted(minMax, Adjusted(minMax, values)) = Adjusted(minMax, values)
  <1> DEFINE adjusted == Adjusted(minMax, values)
  <1>1. adjusted = [c \in Controllers |->
                      OutputValue(minMax[c], OutputCount[c], HotIndex(minMax[c], OutputCount[c], values[c]))]
    BY DEF Adjusted
  <1>2. Adjusted(minMax, adjusted) =
          [c \in Controllers |->
             OutputValue(minMax[c], OutputCount[c], HotIndex(minMax[c], OutputCount[c], adjusted[c]))]
    BY DEF Adjusted
  <1> HIDE DEF adjusted
  <1>3. ASSUME NEW c \in Controllers
        PROVE  /\ adjusted[c] \in MidiValue
               /\ OutputValue(minMax[c], OutputCount[c], HotIndex(minMax[c], OutputCount[c], adjusted[c]))
                    = adjusted[c]
    <2>1. /\ minMax[c] \in MinMax /\ OutputCount[c] \in Nat \ {0} /\ values[c] \in MidiValue
          /\ OutputCount[c] = 1 => minMax[c].max <= minMax[c].min + 1
      BY UsableCounts
    <2>2. adjusted[c] = OutputValue(minMax[c], OutputCount[c], HotIndex(minMax[c], OutputCount[c], values[c]))
      BY <1>1
    <2> QED
      BY <2>1, <2>2, AdjustedFixed
  <1>4. adjusted \in [Controllers -> MidiValue]
    BY <1>1, <1>3
  <1>5. Adjusted(minMax, adjusted) = adjusted
    BY <1>1, <1>2, <1>3
  <1> QED
    BY <1>4, <1>5 DEF adjusted

LEMMA HotOf ==
  ASSUME NEW minMax \in Usable, NEW values \in [Controllers -> MidiValue]
  PROVE  [c \in Controllers |-> HotIndex(minMax[c], OutputCount[c], values[c])] \in HotIndexes
  <1> DEFINE hot == [c \in Controllers |-> HotIndex(minMax[c], OutputCount[c], values[c])]
  <1>1. ASSUME NEW c \in Controllers PROVE hot[c] \in 0 .. OutputCount[c] - 1
    <2>1. /\ minMax[c] \in MinMax /\ OutputCount[c] \in Nat \ {0} /\ values[c] \in MidiValue
          /\ OutputCount[c] = 1 => minMax[c].max <= minMax[c].min + 1
      BY UsableCounts
    <2> QED
      BY <2>1, HotIndexWithin
  <1>2. hot = [c \in Controllers |-> hot[c]]
    OBVIOUS
  <1> HIDE DEF hot
  <1>3. hot \in HotIndexes
    BY <1>1, <1>2, HotType
  <1> QED
    BY <1>3 DEF hot

LEMMA ValuesOf ==
  ASSUME NEW minMax \in Usable, NEW hot \in HotIndexes
  PROVE  [c \in Controllers |-> OutputValue(minMax[c], OutputCount[c], hot[c])]
           \in [Controllers -> MidiValue]
  <1> SUFFICES ASSUME NEW c \in Controllers
               PROVE  OutputValue(minMax[c], OutputCount[c], hot[c]) \in MidiValue
    OBVIOUS
  <1>1. minMax[c] \in MinMax /\ OutputCount[c] \in Nat \ {0}
    BY UsableCounts
  <1>2. hot[c] \in 0 .. OutputCount[c] - 1
    BY <1>1 DEF HotIndexes
  <1> QED
    BY <1>1, <1>2, OutputWithin

\* The hot indexes that stand for values.
HotFor(minMax, values) ==
  [c \in Controllers |-> HotIndex(minMax[c], OutputCount[c], values[c])]

LEMMA NewType ==
  ASSUME NEW minMax \in Usable
  PROVE  LET t == NewTranslator(minMax, Pitches)
             defaults == Adjusted(minMax, CtrlDefaults)
         IN  /\ t \in Translator
             /\ t.minMax = minMax /\ t.ctrlDefaults = defaults
             /\ t.noteVelocities = [p \in Pitches |-> 0]
             /\ t.lastEventType = "none" /\ t.lastPitch = NOTE_MAX + 1
             /\ t.lastVelocity = 0 /\ t.lastInterval = 0
             /\ t.previousOutput = HotFor(minMax, defaults)
             /\ t.previousTarget = HotFor(minMax, defaults)
             /\ t.targetCtrlValues = defaults /\ t.outputCtrlValues = defaults
  <1> DEFINE defaults == Adjusted(minMax, CtrlDefaults)
             hot == HotFor(minMax, defaults)
  <1>1. defaults \in [Controllers -> MidiValue]
    BY TranslatorAssumption, AdjustedType
  <1>2. hot \in HotIndexes
    BY <1>1, HotOf DEF HotFor
  <1>3. NewTranslator(minMax, Pitches) =
          [minMax |-> minMax, ctrlDefaults |-> defaults,
           noteVelocities |-> [p \in Pitches |-> 0],
           lastEventType |-> "none", lastPitch |-> NOTE_MAX + 1,
           lastVelocity |-> 0, lastInterval |-> 0,
           previousOutput |-> hot, previousTarget |-> hot,
           targetCtrlValues |-> defaults, outputCtrlValues |-> defaults]
    BY DEF NewTranslator, HotFor
  <1>4. 0 \in MidiValue /\ NOTE_MAX + 1 \in 0 .. NOTE_MAX + 1 /\ 0 \in -NOTE_MAX .. NOTE_MAX
    BY DEF MidiValue, NOTE_MAX
  <1> DEFINE still == [p \in Pitches |-> 0]
  <1>5. still \in [Pitches -> MidiValue]
    BY <1>4
  <1> HIDE DEF defaults, hot, still
  <1>6. LET t == NewTranslator(minMax, Pitches)
        IN  /\ t \in Translator
            /\ t.minMax = minMax /\ t.ctrlDefaults = defaults
            /\ t.noteVelocities = still
            /\ t.lastEventType = "none" /\ t.lastPitch = NOTE_MAX + 1
            /\ t.lastVelocity = 0 /\ t.lastInterval = 0
            /\ t.previousOutput = hot /\ t.previousTarget = hot
            /\ t.targetCtrlValues = defaults /\ t.outputCtrlValues = defaults
    BY <1>1, <1>2, <1>3, <1>4, <1>5 DEF Translator, still
  <1> QED
    BY <1>6 DEF defaults, hot, still

LEMMA TargetType ==
  ASSUME NEW t \in Translator
  PROVE  Target(t) = HotFor(t.minMax, t.targetCtrlValues) /\ Target(t) \in HotIndexes
  <1>1. t.minMax \in Usable /\ t.targetCtrlValues \in [Controllers -> MidiValue]
    BY DEF Translator
  <1> QED
    BY <1>1, HotOf DEF Target, HotFor

LEMMA ResetType ==
  ASSUME NEW t \in Translator
  PROVE  LET r == ResetTranslator(t)
         IN  /\ r \in Translator
             /\ r.minMax = t.minMax /\ r.ctrlDefaults = t.ctrlDefaults
             /\ r.noteVelocities = [p \in Pitches |-> 0]
             /\ r.lastEventType = t.lastEventType /\ r.lastPitch = t.lastPitch
             /\ r.lastVelocity = t.lastVelocity /\ r.lastInterval = t.lastInterval
             /\ r.previousOutput = HotFor(t.minMax, t.ctrlDefaults)
             /\ r.previousTarget = t.previousTarget
             /\ r.targetCtrlValues = t.ctrlDefaults /\ r.outputCtrlValues = t.ctrlDefaults
  <1> DEFINE s == [t EXCEPT !.targetCtrlValues = t.ctrlDefaults, !.outputCtrlValues = t.ctrlDefaults]
  <1>1. /\ s \in Translator /\ s.targetCtrlValues = t.ctrlDefaults /\ s.outputCtrlValues = t.ctrlDefaults
        /\ s.minMax = t.minMax /\ s.ctrlDefaults = t.ctrlDefaults
        /\ s.noteVelocities = t.noteVelocities
        /\ s.lastEventType = t.lastEventType /\ s.lastPitch = t.lastPitch
        /\ s.lastVelocity = t.lastVelocity /\ s.lastInterval = t.lastInterval
        /\ s.previousTarget = t.previousTarget
    BY DEF Translator
  <1>2. ResetTranslator(t) =
          [s EXCEPT !.previousOutput = Target(s),
                    !.noteVelocities = [p \in DOMAIN t.noteVelocities |-> 0]]
    BY DEF ResetTranslator
  <1> HIDE DEF s
  <1>3. Target(s) = HotFor(t.minMax, t.ctrlDefaults) /\ Target(s) \in HotIndexes
    BY <1>1, TargetType
  <1>4. [p \in DOMAIN t.noteVelocities |-> 0] = [p \in Pitches |-> 0]
        /\ [p \in Pitches |-> 0] \in [Pitches -> MidiValue]
    BY DEF Translator, MidiValue
  <1> DEFINE still == [p \in Pitches |-> 0]
             hot == Target(s)
  <1>5. ResetTranslator(t) = [s EXCEPT !.previousOutput = hot, !.noteVelocities = still]
    BY <1>2, <1>4
  <1>6. still \in [Pitches -> MidiValue] /\ hot \in HotIndexes
    BY <1>3, <1>4
  <1> HIDE DEF still, hot
  <1>7. LET r == ResetTranslator(t)
        IN  /\ r \in Translator
            /\ r.minMax = s.minMax /\ r.ctrlDefaults = s.ctrlDefaults
            /\ r.noteVelocities = still
            /\ r.lastEventType = s.lastEventType /\ r.lastPitch = s.lastPitch
            /\ r.lastVelocity = s.lastVelocity /\ r.lastInterval = s.lastInterval
            /\ r.previousOutput = hot
            /\ r.previousTarget = s.previousTarget
            /\ r.targetCtrlValues = s.targetCtrlValues /\ r.outputCtrlValues = s.outputCtrlValues
    BY <1>1, <1>5, <1>6 DEF Translator
  <1> QED
    BY <1>1, <1>3, <1>7 DEF still, hot

LEMMA PitchesType == Pitches \subseteq MidiValue /\ \A e \in NoteEvents : e.pitch \in Pitches /\ e \in NoteEvent /\ e # NoNote
  BY LearnerAssumption DEF Pitches, NoteEvent

LEMMA TakenType ==
  ASSUME NEW t \in Translator, NEW e \in NoteEvents
  PROVE  LET r == NoteTaken(t, e)
             previous == IF t.lastPitch > NOTE_MAX THEN e.pitch ELSE t.lastPitch
             interval == INTERVAL \in Features /\ Struck(e)
             velocity == IF Struck(e) THEN e.velocity ELSE 0
         IN  /\ r \in Translator
             /\ r.minMax = t.minMax /\ r.ctrlDefaults = t.ctrlDefaults
             /\ r.noteVelocities = [t.noteVelocities EXCEPT ![e.pitch] = velocity]
             /\ r.lastEventType = IF Struck(e) THEN "on" ELSE "off"
             /\ r.lastPitch = IF interval THEN e.pitch ELSE t.lastPitch
             /\ r.lastVelocity = velocity
             /\ r.lastInterval = IF interval THEN e.pitch - previous ELSE t.lastInterval
             /\ r.previousOutput = t.previousOutput /\ r.previousTarget = t.previousTarget
             /\ r.targetCtrlValues = t.targetCtrlValues /\ r.outputCtrlValues = t.outputCtrlValues
  <1> DEFINE previous == IF t.lastPitch > NOTE_MAX THEN e.pitch ELSE t.lastPitch
             interval == INTERVAL \in Features /\ Struck(e)
             velocity == IF Struck(e) THEN e.velocity ELSE 0
             type == IF Struck(e) THEN "on" ELSE "off"
             velocities == [t.noteVelocities EXCEPT ![e.pitch] = velocity]
             distance == IF interval THEN e.pitch - previous ELSE t.lastInterval
             pitch == IF interval THEN e.pitch ELSE t.lastPitch
  <1>1. /\ e.pitch \in Pitches /\ e.pitch \in 0 .. NOTE_MAX /\ e.velocity \in MidiValue
        /\ t.lastPitch \in 0 .. NOTE_MAX + 1 /\ t.lastInterval \in -NOTE_MAX .. NOTE_MAX
        /\ t.noteVelocities \in [Pitches -> MidiValue] /\ 0 \in MidiValue
    BY PitchesType DEF Translator, NoteEvent, MidiValue, NOTE_MAX
  <1>2. /\ velocity \in MidiValue /\ type \in {"none", "on", "off"}
        /\ velocities \in [Pitches -> MidiValue]
    BY <1>1
  <1>3. distance \in -NOTE_MAX .. NOTE_MAX /\ pitch \in 0 .. NOTE_MAX + 1
    <2> DEFINE a == e.pitch
    <2>1. previous \in 0 .. 127 /\ a \in 0 .. 127
      BY <1>1 DEF NOTE_MAX
    <2>2. a - previous \in -127 .. 127 /\ a \in 0 .. 128
      <3> HIDE DEF previous, a
      <3> QED
        BY <2>1
    <2> QED
      BY <1>1, <2>2 DEF NOTE_MAX
  <1>4. NoteTaken(t, e) =
          [t EXCEPT !.lastEventType = type, !.noteVelocities = velocities, !.lastVelocity = velocity,
                    !.lastInterval = distance, !.lastPitch = pitch]
    BY DEF NoteTaken, Translator
  <1> HIDE DEF velocity, type, velocities, distance, pitch
  <1>5. LET r == NoteTaken(t, e)
        IN  /\ r \in Translator
            /\ r.minMax = t.minMax /\ r.ctrlDefaults = t.ctrlDefaults
            /\ r.noteVelocities = velocities /\ r.lastEventType = type
            /\ r.lastPitch = pitch /\ r.lastVelocity = velocity /\ r.lastInterval = distance
            /\ r.previousOutput = t.previousOutput /\ r.previousTarget = t.previousTarget
            /\ r.targetCtrlValues = t.targetCtrlValues /\ r.outputCtrlValues = t.outputCtrlValues
    <2> DEFINE r == NoteTaken(t, e)
    <2>1. r \in Translator
      BY <1>2, <1>3, <1>4 DEF Translator
    <2>2. /\ r.noteVelocities = velocities /\ r.lastEventType = type
          /\ r.lastPitch = pitch /\ r.lastVelocity = velocity /\ r.lastInterval = distance
      BY <1>4 DEF Translator
    <2>3. /\ r.minMax = t.minMax /\ r.ctrlDefaults = t.ctrlDefaults
          /\ r.previousOutput = t.previousOutput /\ r.previousTarget = t.previousTarget
          /\ r.targetCtrlValues = t.targetCtrlValues /\ r.outputCtrlValues = t.outputCtrlValues
      BY <1>4 DEF Translator
    <2> QED
      BY <2>1, <2>2, <2>3
  <1> QED
    BY <1>5 DEF velocity, type, velocities, distance, pitch

\* r is t but for its target.
TargetChanged(t, c, value, r) ==
  /\ r \in Translator
  /\ r.minMax = t.minMax /\ r.ctrlDefaults = t.ctrlDefaults
  /\ r.noteVelocities = t.noteVelocities
  /\ r.lastEventType = t.lastEventType /\ r.lastPitch = t.lastPitch
  /\ r.lastVelocity = t.lastVelocity /\ r.lastInterval = t.lastInterval
  /\ r.previousOutput = t.previousOutput /\ r.previousTarget = t.previousTarget
  /\ r.outputCtrlValues = t.outputCtrlValues
  /\ r.targetCtrlValues =
       IF t.targetCtrlValues[c] = value THEN t.targetCtrlValues
       ELSE Adjusted(t.minMax, [t.targetCtrlValues EXCEPT ![c] = value])

LEMMA ControlType ==
  ASSUME NEW t \in Translator, NEW c \in Controllers, NEW value \in CtrlValues
  PROVE  TargetChanged(t, c, value, UpdateCtrlValue(t, c, value))
  <1> DEFINE changed == [t.targetCtrlValues EXCEPT ![c] = value]
             values == Adjusted(t.minMax, changed)
  <1>1. changed \in [Controllers -> MidiValue] /\ t.minMax \in Usable
    BY LearnerAssumption DEF Translator
  <1> HIDE DEF changed
  <1>2. values \in [Controllers -> MidiValue]
    BY <1>1, AdjustedType
  <1>3. UpdateCtrlValue(t, c, value) =
          IF t.targetCtrlValues[c] = value THEN t ELSE [t EXCEPT !.targetCtrlValues = values]
    BY DEF UpdateCtrlValue, changed, Translator
  <1> HIDE DEF values
  <1>4. LET r == UpdateCtrlValue(t, c, value)
        IN  /\ r \in Translator
            /\ r.minMax = t.minMax /\ r.ctrlDefaults = t.ctrlDefaults
            /\ r.noteVelocities = t.noteVelocities
            /\ r.lastEventType = t.lastEventType /\ r.lastPitch = t.lastPitch
            /\ r.lastVelocity = t.lastVelocity /\ r.lastInterval = t.lastInterval
            /\ r.previousOutput = t.previousOutput /\ r.previousTarget = t.previousTarget
            /\ r.outputCtrlValues = t.outputCtrlValues
            /\ r.targetCtrlValues = IF t.targetCtrlValues[c] = value THEN t.targetCtrlValues ELSE values
    BY <1>2, <1>3 DEF Translator
  <1> QED
    BY <1>4 DEF TargetChanged, values, changed

LEMMA InputTakenType ==
  ASSUME NEW t \in Translator
  PROVE  LET r == InputTaken(t)
         IN  /\ r \in Translator
             /\ r.minMax = t.minMax /\ r.ctrlDefaults = t.ctrlDefaults
             /\ r.noteVelocities = t.noteVelocities
             /\ r.lastEventType = "none" /\ r.lastPitch = t.lastPitch
             /\ r.lastVelocity = t.lastVelocity /\ r.lastInterval = 0
             /\ r.previousOutput = t.previousOutput /\ r.previousTarget = t.previousTarget
             /\ r.targetCtrlValues = t.targetCtrlValues /\ r.outputCtrlValues = t.outputCtrlValues
  <1>1. 0 \in -NOTE_MAX .. NOTE_MAX
    BY DEF NOTE_MAX
  <1> QED
    BY <1>1 DEF InputTaken, Translator

\* The values the outputs mean.
ValuesFor(minMax, hot) ==
  [c \in Controllers |-> OutputValue(minMax[c], OutputCount[c], hot[c])]

LEMMA OutputType ==
  ASSUME NEW t \in Translator, NEW hot \in HotIndexes
  PROVE  LET r == ReportOutput(t, hot)
         IN  /\ r \in Translator
             /\ r.minMax = t.minMax /\ r.ctrlDefaults = t.ctrlDefaults
             /\ r.noteVelocities = t.noteVelocities
             /\ r.lastEventType = t.lastEventType /\ r.lastPitch = t.lastPitch
             /\ r.lastVelocity = t.lastVelocity /\ r.lastInterval = t.lastInterval
             /\ r.previousOutput = hot
             /\ r.previousTarget =
                  IF Training THEN HotFor(t.minMax, t.targetCtrlValues) ELSE t.previousTarget
             /\ r.targetCtrlValues = t.targetCtrlValues
             /\ r.outputCtrlValues = ValuesFor(t.minMax, hot)
  <1> DEFINE target == IF Training THEN Target(t) ELSE t.previousTarget
             values == ValuesFor(t.minMax, hot)
  <1>1. Target(t) = HotFor(t.minMax, t.targetCtrlValues) /\ target \in HotIndexes
    BY TargetType DEF Translator
  <1>2. values \in [Controllers -> MidiValue]
    BY ValuesOf DEF Translator, ValuesFor
  <1>3. ReportOutput(t, hot) =
          [t EXCEPT !.previousOutput = hot, !.outputCtrlValues = values, !.previousTarget = target]
    BY DEF ReportOutput, ValuesFor, Translator
  <1> HIDE DEF values, target
  <1>4. LET r == ReportOutput(t, hot)
        IN  /\ r \in Translator
            /\ r.minMax = t.minMax /\ r.ctrlDefaults = t.ctrlDefaults
            /\ r.noteVelocities = t.noteVelocities
            /\ r.lastEventType = t.lastEventType /\ r.lastPitch = t.lastPitch
            /\ r.lastVelocity = t.lastVelocity /\ r.lastInterval = t.lastInterval
            /\ r.previousOutput = hot
            /\ r.previousTarget = target
            /\ r.targetCtrlValues = t.targetCtrlValues
            /\ r.outputCtrlValues = values
    BY <1>1, <1>2, <1>3 DEF Translator
  <1> QED
    BY <1>1, <1>4 DEF values, target

-----------------------------------------------------------------------------
(* The input.                                                              *)

\* The features an input has a single place for, and those of them that are 1.
SingleFeatures == {SOME_NOTE_ON, NOTE_STRUCK, NOTE_RELEASED, VELOCITY} \cap Features
SingleOn(t) ==
  {f \in SingleFeatures :
     \/ f = SOME_NOTE_ON /\ \E p \in DOMAIN t.noteVelocities : t.noteVelocities[p] > 0
     \/ f = NOTE_STRUCK /\ t.lastEventType = "on"
     \/ f = NOTE_RELEASED /\ t.lastEventType = "off"
     \/ f = VELOCITY /\ t.lastVelocity \div VEL_MAX = 1}
Distance(interval) == IF interval < 0 THEN -interval ELSE interval
\* The places of the interval, from its first, that are 1.
IntervalOn(interval) ==
  {Distance(interval) % 12} \cup {i \in 12 .. 14 : \/ i = 12 /\ interval > 0
                                                   \/ i = 13 /\ interval < 0
                                                   \/ i = 14 /\ Distance(interval) >= 12}

LEMMA FeatureInputIs ==
  ASSUME NEW t \in Translator
  PROVE  FeatureInput(t) =
           {FeatureBegin(f) : f \in SingleOn(t)} \cup
             IF INTERVAL \in Features /\ t.lastEventType = "on"
             THEN {FeatureBegin(INTERVAL) + i : i \in IntervalOn(t.lastInterval)} ELSE {}
  <1> DEFINE begin == FeatureBegin(INTERVAL)
             distance == Distance(t.lastInterval)
             single == {FeatureBegin(f) : f \in SingleOn(t)}
             When(cond, i) == IF cond THEN {i} ELSE {}
             places == {begin + (distance % 12)} \cup When(t.lastInterval > 0, begin + 12)
                         \cup When(t.lastInterval < 0, begin + 13) \cup When(distance >= 12, begin + 14)
  <1>1. FeatureInput(t) =
          single \cup IF INTERVAL \in Features /\ t.lastEventType = "on" THEN places ELSE {}
    BY DEF FeatureInput, SingleOn, SingleFeatures, Distance
  <1>2. places = {begin + i : i \in IntervalOn(t.lastInterval)}
    <2> DEFINE m == distance % 12
               up == t.lastInterval > 0
               down == t.lastInterval < 0
               octave == distance >= 12
               on == {m} \cup {i \in 12 .. 14 : (i = 12 /\ up) \/ (i = 13 /\ down) \/ (i = 14 /\ octave)}
    <2>1. IntervalOn(t.lastInterval) = on
      BY DEF IntervalOn
    <2> HIDE DEF begin, m, up, down, octave
    <2>2. on = {m} \cup When(up, 12) \cup When(down, 13) \cup When(octave, 14)
      OBVIOUS
    <2>3. {begin + m} \cup When(up, begin + 12) \cup When(down, begin + 13) \cup When(octave, begin + 14)
            = {begin + i : i \in on}
      BY <2>2
    <2> QED
      BY <2>1, <2>3 DEF m, up, down, octave
  <1> QED
    BY <1>1, <1>2

LEMMA IntervalPlaces ==
  ASSUME NEW interval \in -NOTE_MAX .. NOTE_MAX
  PROVE  IntervalOn(interval) \subseteq 0 .. 14
  <1>1. Distance(interval) \in Nat
    BY DEF Distance, NOTE_MAX
  <1>2. Distance(interval) % 12 \in 0 .. 11
    BY <1>1
  <1> QED
    BY <1>2 DEF IntervalOn

LEMMA FeatureInputType ==
  ASSUME NEW t \in Translator
  PROVE  FeatureInput(t) \subseteq 0 .. InputFeatureCount - 1
  <1>1. ASSUME NEW f \in SingleOn(t) PROVE FeatureBegin(f) \in 0 .. InputFeatureCount - 1
    BY FeaturePlaces DEF SingleOn, SingleFeatures
  <1>2. ASSUME INTERVAL \in Features, NEW i \in IntervalOn(t.lastInterval)
        PROVE  FeatureBegin(INTERVAL) + i \in 0 .. InputFeatureCount - 1
    <2>1. i \in 0 .. 14
      BY IntervalPlaces DEF Translator
    <2> QED
      BY <1>2, <2>1, FeaturePlaces
  <1> QED
    BY <1>1, <1>2, FeatureInputIs

LEMMA FeedbackType ==
  ASSUME NEW t \in Translator, NEW source
  PROVE  /\ Feedback(t, source) \subseteq 0 .. InputCount - 1
         /\ \A i \in Feedback(t, source) : i >= InputFeatureCount
  <1> DEFINE hot == IF source = "output" THEN t.previousOutput ELSE t.previousTarget
  <1>1. hot \in HotIndexes
    BY DEF Translator
  <1>2. Feedback(t, source) = {InputFeatureCount + i : i \in Hot(hot)}
    BY DEF Feedback
  <1> HIDE DEF hot
  <1>3. ASSUME NEW c \in Controllers
        PROVE  OutputBegin(c) + hot[c] \in 0 .. TotalOutputCount - 1
    <2>1. t.minMax \in Usable
      BY DEF Translator
    <2>2. c \in Counted
      BY <2>1, UsableCounts
    <2>3. hot[c] \in Nat /\ hot[c] < OutputCount[c]
      BY <1>1, <2>2, OutputPlaces DEF HotIndexes
    <2> QED
      BY <2>2, <2>3, OutputPlaces
  <1>4. Hot(hot) \subseteq 0 .. TotalOutputCount - 1
    BY <1>3 DEF Hot
  <1>5. InputFeatureCount \in Nat /\ TotalOutputCount \in Nat
    BY OutputPlaces, FeaturePlaces
  <1> QED
    BY <1>2, <1>4, <1>5 DEF InputCount

LEMMA InputType ==
  ASSUME NEW t \in Translator, NEW source
  PROVE  Input(t, source) \subseteq 0 .. InputCount - 1
  <1>1. InputFeatureCount \in Nat /\ TotalOutputCount \in Nat
    BY OutputPlaces, FeaturePlaces
  <1>2. 0 .. InputFeatureCount - 1 \subseteq 0 .. InputCount - 1
    BY <1>1 DEF InputCount
  <1> QED
    BY <1>2, FeatureInputType, FeedbackType DEF Input

-----------------------------------------------------------------------------
(* Type correctness.                                                       *)

LEMMA ReportedType ==
  ASSUME NEW t \in Translator, NEW e \in NoteEvents \cup {NoNote}
  PROVE  Reported(t, e) \in Translator
  BY TakenType, PitchesType DEF Reported, ReportNoteEvent

\* The types of a program whose translator was built.
Built ==
  /\ translator \in Translator /\ fresh \in Translator
  /\ pc \in {"between", "advance", "judge", "undefined"}
  /\ pc = "undefined" => Changed \ Controllers # {}
  /\ input \subseteq 0 .. InputCount - 1
  /\ sequence \in 0 .. MaxSequences /\ updates \in 0 .. MaxUpdates
  /\ validations \subseteq 1 .. sequence /\ targetOf \in 0 .. sequence
  /\ since \subseteq 0 .. sequence
  /\ heard \in Seq(NoteEvents \cup {NoNote})

\* One whose constructor read past the end of a vector.
Unbuilt ==
  /\ pc = "undefined" /\ ~Constructible(translator.minMax)
  /\ input = {} /\ sequence = 0 /\ updates = 0 /\ validations = {} /\ targetOf = 0
  /\ since = {} /\ heard = <<>>

\* Every program begins as the one or the other.
Starting == Init /\ pc = "between"

LEMMA InitEither == Init => Starting \/ Unbuilt
  <1> SUFFICES ASSUME Init, pc # "between" PROVE Unbuilt
    BY DEF Starting
  <1>1. PICK minMax \in MinMaxes :
          ~Constructible(minMax) /\ translator = [minMax |-> minMax] /\ pc = "undefined"
    BY DEF Init
  <1>2. translator.minMax = minMax
    BY <1>1
  <1> QED
    BY <1>1, <1>2 DEF Init, Unbuilt

LEMMA StartingNew ==
  ASSUME Starting
  PROVE  \E minMax \in Usable : translator = NewTranslator(minMax, Pitches) /\ fresh = translator
  <1>1. PICK minMax \in MinMaxes :
          Constructible(minMax) /\ translator = NewTranslator(minMax, Pitches)
    BY DEF Starting, Init
  <1>2. minMax \in Usable
    BY <1>1, LearnerAssumption DEF Usable
  <1> QED
    BY <1>1, <1>2 DEF Starting, Init

LEMMA UnbuiltStays == Unbuilt /\ [Next]_vars => Unbuilt'
  BY DEF Unbuilt, Next, StartEpoch, StartValidation, StartSequence, ControlChange, StrayChange,
         Update, Learn, Assess, EndSequence, vars, histories

\* Of the one nothing is claimed.
LEMMA UnbuiltClaims == Unbuilt => TypeOK /\ FeaturesTrue /\ ResetForgets /\ TargetsReachable
  <1> SUFFICES ASSUME Unbuilt PROVE TypeOK /\ FeaturesTrue /\ ResetForgets /\ TargetsReachable
    OBVIOUS
  <1>1. 0 \in 0 .. MaxSequences /\ 0 \in 0 .. MaxUpdates /\ 0 \in 0 .. 0
    BY LearnerAssumption
  <1>2. heard \in Seq(NoteEvents \cup {NoNote})
    BY DEF Unbuilt
  <1>3. TypeOK
    BY <1>1, <1>2 DEF Unbuilt, TypeOK
  <1>4. FeaturesTrue /\ TargetsReachable
    BY DEF Unbuilt, FeaturesTrue, TargetsReachable
  <1>5. ResetForgets
    BY DEF Unbuilt, ResetForgets
  <1> QED
    BY <1>3, <1>4, <1>5

LEMMA BuiltType == Built => TypeOK
  BY DEF Built, TypeOK

LEMMA InitTypeOK == Starting => Built
  <1> SUFFICES ASSUME Starting PROVE Built
    OBVIOUS
  <1>1. translator \in Translator /\ fresh = translator
    BY NewType, StartingNew
  <1>2. heard \in Seq(NoteEvents \cup {NoNote})
    BY DEF Starting, Init
  <1>3. 0 \in 0 .. MaxSequences /\ 0 \in 0 .. MaxUpdates
    BY LearnerAssumption
  <1> QED
    BY <1>1, <1>2, <1>3 DEF Starting, Init, Built

LEMMA StartType ==
  ASSUME Built, NEW zero, StartSequence(zero), validations' \subseteq 1 .. sequence + 1
  PROVE  Built'
  <1>1. translator' \in Translator /\ fresh' \in Translator
    BY ResetType, NewType DEF StartSequence, Built, Translator
  <1>2. sequence' \in 0 .. MaxSequences /\ updates' \in 0 .. MaxUpdates
    BY LearnerAssumption DEF StartSequence, Built
  <1>3. since' \subseteq 0 .. sequence' /\ targetOf' \in 0 .. sequence'
    <2>1. sequence \in Nat /\ sequence' = sequence + 1 /\ targetOf' = targetOf
      BY LearnerAssumption DEF StartSequence, Built
    <2>2. since' \subseteq since
      BY DEF StartSequence, SinceZeroed
    <2>3. 0 .. sequence \subseteq 0 .. sequence'
      BY <2>1
    <2> QED
      BY <2>1, <2>2, <2>3 DEF Built
  <1>4. heard' \in Seq(NoteEvents \cup {NoNote})
    BY DEF StartSequence
  <1>5. validations' \subseteq 1 .. sequence'
    BY DEF StartSequence
  <1> QED
    BY <1>1, <1>2, <1>3, <1>4, <1>5 DEF StartSequence, Built

LEMMA NextTypeOK == Built /\ [Next]_vars => Built'
  <1> SUFFICES ASSUME Built, [Next]_vars PROVE Built'
    OBVIOUS
  <1> USE DEF Built
  <1>0. sequence \in Nat /\ updates \in Nat /\ MaxUpdates \in Nat
    BY LearnerAssumption
  <1>1. CASE StartEpoch
    <2>1. validations' \subseteq 1 .. sequence + 1
      BY <1>0, <1>1 DEF StartEpoch
    <2> QED
      BY <1>1, <2>1, StartType DEF StartEpoch
  <1>2. CASE StartValidation
    <2>1. validations' \subseteq 1 .. sequence + 1
      BY <1>0, <1>2 DEF StartValidation
    <2>2. \E zero : StartSequence(zero)
      BY <1>2 DEF StartValidation
    <2> QED
      BY <2>1, <2>2, StartType
  <1>3. CASE ControlChange
    <2>1. PICK c \in Controllers, value \in CtrlValues :
            /\ translator' = UpdateCtrlValue(translator, c, value)
            /\ fresh' = UpdateCtrlValue(fresh, c, value)
      BY <1>3 DEF ControlChange
    <2>2. translator' \in Translator /\ fresh' \in Translator
      BY <2>1, ControlType DEF TargetChanged
    <2> QED
      BY <1>3, <2>2 DEF ControlChange
  <1>4. CASE Update
    <2>1. PICK e \in NoteEvents \cup {NoNote}, hot \in HotIndexes :
            LET source == IF Validating THEN "output" ELSE "target"
                from == {sequence} \cup IF Validating THEN {} ELSE {targetOf}
                t == Reported(translator, e)
            IN  /\ input' = Input(t, source)
                /\ since' = since \cup from
                /\ translator' = ReportOutput(InputTaken(t), hot)
                /\ fresh' = ReportOutput(InputTaken(Reported(fresh, e)), hot)
                /\ heard' = Append(heard, e)
      BY <1>4 DEF Update
    <2>2. Reported(translator, e) \in Translator /\ Reported(fresh, e) \in Translator
      BY ReportedType
    <2>3. InputTaken(Reported(translator, e)) \in Translator /\ InputTaken(Reported(fresh, e)) \in Translator
      BY <2>2, InputTakenType
    <2>4. translator' \in Translator /\ fresh' \in Translator
      BY <2>1, <2>3, OutputType
    <2>5. input' \subseteq 0 .. InputCount - 1
      BY <2>1, <2>2, InputType
    <2>6. heard' \in Seq(NoteEvents \cup {NoNote})
      BY <2>1
    <2>7. since' \subseteq 0 .. sequence
      BY <1>0, <2>1
    <2>8. /\ targetOf' \in 0 .. sequence /\ pc' = "judge" /\ updates' \in 0 .. MaxUpdates
          /\ sequence' = sequence /\ validations' = validations
      BY <1>0, <1>4 DEF Update
    <2> QED
      BY <2>4, <2>5, <2>6, <2>7, <2>8
  <1>5. CASE Learn
    BY <1>5 DEF Learn, SinceZeroed
  <1>6. CASE Assess
    BY <1>6 DEF Assess, histories
  <1>7. CASE EndSequence
    BY <1>7 DEF EndSequence, histories
  <1>8. CASE StrayChange \/ UNCHANGED vars
    BY <1>8 DEF StrayChange, vars, histories
  <1> QED
    BY <1>1, <1>2, <1>3, <1>4, <1>5, <1>6, <1>7, <1>8 DEF Next

\* No vector of the translator or of the network is indexed past its end, for
\* any configuration that is accepted, any examples and any events, but for the
\* three cases TypeOK names: a controller without an output count, one with a
\* single output and values between the least and the greatest, and examples
\* that change a controller that is not configured.
THEOREM TypeCorrect == Spec => []TypeOK
  <1>1. Init => Built \/ Unbuilt
    BY InitEither, InitTypeOK
  <1>2. (Built \/ Unbuilt) /\ [Next]_vars => (Built \/ Unbuilt)'
    BY NextTypeOK, UnbuiltStays
  <1>3. Built \/ Unbuilt => TypeOK
    BY BuiltType, UnbuiltClaims
  <1> QED
    BY <1>1, <1>2, <1>3, PTL DEF Spec

-----------------------------------------------------------------------------
(* What the steps do to the two translators.                               *)

\* An update with e, after which the outputs hot are the largest.
Updating(e, hot) ==
  /\ pc' = "judge" /\ sequence' = sequence /\ updates' = updates + 1
  /\ input' = Input(Reported(translator, e), IF Validating THEN "output" ELSE "target")
  /\ translator' = ReportOutput(InputTaken(Reported(translator, e)), hot)
  /\ fresh' = ReportOutput(InputTaken(Reported(fresh, e)), hot)
  /\ heard' = Append(heard, e)

Changing(c, value) ==
  /\ translator' = UpdateCtrlValue(translator, c, value)
  /\ fresh' = UpdateCtrlValue(fresh, c, value)
  /\ sequence' = sequence /\ updates' = updates /\ heard' = heard

\* A step does one of these, or leaves both translators.
LEMMA Steps ==
  ASSUME [Next]_vars
  PROVE  \/ \E zero : StartSequence(zero)
         \/ pc' = "advance" /\ \E c \in Controllers, value \in CtrlValues : Changing(c, value)
         \/ \E e \in NoteEvents \cup {NoNote}, hot \in HotIndexes : Updating(e, hot)
         \/ /\ UNCHANGED <<translator, fresh, heard, sequence, updates, input>>
            /\ pc' = "judge" => pc = "judge"
  <1>1. CASE StartEpoch
    BY <1>1 DEF StartEpoch
  <1>2. CASE StartValidation
    BY <1>2 DEF StartValidation
  <1>3. CASE ControlChange
    BY <1>3 DEF ControlChange, Changing
  <1>4. CASE Update
    BY <1>4 DEF Update, Updating
  <1>5. CASE StrayChange \/ Learn \/ Assess \/ EndSequence \/ UNCHANGED vars
    BY <1>5 DEF StrayChange, Learn, Assess, EndSequence, vars, histories
  <1> QED
    BY <1>1, <1>2, <1>3, <1>4, <1>5 DEF Next

LEMMA ReportedFields ==
  ASSUME NEW t \in Translator, NEW e \in NoteEvents \cup {NoNote}
  PROVE  LET r == Reported(t, e)
         IN  /\ r \in Translator
             /\ r.minMax = t.minMax /\ r.ctrlDefaults = t.ctrlDefaults
             /\ r.previousOutput = t.previousOutput /\ r.previousTarget = t.previousTarget
             /\ r.targetCtrlValues = t.targetCtrlValues /\ r.outputCtrlValues = t.outputCtrlValues
             /\ INTERVAL \notin Features => r.lastPitch = t.lastPitch
             /\ e # NoNote /\ Struck(e) =>
                  /\ r.lastVelocity = e.velocity
                  /\ INTERVAL \in Features => r.lastPitch = e.pitch
  BY TakenType, PitchesType DEF Reported, ReportNoteEvent

\* What an update makes of a translator.
LEMMA UpdatedFields ==
  ASSUME NEW t \in Translator, NEW e \in NoteEvents \cup {NoNote}, NEW hot \in HotIndexes
  PROVE  LET r == ReportOutput(InputTaken(Reported(t, e)), hot)
             reported == Reported(t, e)
         IN  /\ r \in Translator
             /\ r.minMax = t.minMax /\ r.ctrlDefaults = t.ctrlDefaults
             /\ r.noteVelocities = reported.noteVelocities
             /\ r.lastEventType = "none" /\ r.lastPitch = reported.lastPitch
             /\ r.lastVelocity = reported.lastVelocity /\ r.lastInterval = 0
             /\ r.previousOutput = hot
             /\ r.previousTarget =
                  IF Training THEN HotFor(t.minMax, t.targetCtrlValues) ELSE t.previousTarget
             /\ r.targetCtrlValues = t.targetCtrlValues
             /\ r.outputCtrlValues = ValuesFor(t.minMax, hot)
  <1> DEFINE reported == Reported(t, e)
             taken == InputTaken(reported)
  <1>1. /\ reported \in Translator
        /\ reported.minMax = t.minMax /\ reported.ctrlDefaults = t.ctrlDefaults
        /\ reported.previousTarget = t.previousTarget
        /\ reported.targetCtrlValues = t.targetCtrlValues
    BY ReportedFields
  <1> HIDE DEF reported
  <1>2. /\ taken \in Translator
        /\ taken.minMax = t.minMax /\ taken.ctrlDefaults = t.ctrlDefaults
        /\ taken.noteVelocities = reported.noteVelocities
        /\ taken.lastEventType = "none" /\ taken.lastPitch = reported.lastPitch
        /\ taken.lastVelocity = reported.lastVelocity /\ taken.lastInterval = 0
        /\ taken.previousTarget = t.previousTarget
        /\ taken.targetCtrlValues = t.targetCtrlValues
    BY <1>1, InputTakenType
  <1> HIDE DEF taken
  <1>3. LET r == ReportOutput(taken, hot)
        IN  /\ r \in Translator
            /\ r.minMax = t.minMax /\ r.ctrlDefaults = t.ctrlDefaults
            /\ r.noteVelocities = reported.noteVelocities
            /\ r.lastEventType = "none" /\ r.lastPitch = reported.lastPitch
            /\ r.lastVelocity = reported.lastVelocity /\ r.lastInterval = 0
            /\ r.previousOutput = hot
            /\ r.previousTarget =
                 IF Training THEN HotFor(t.minMax, t.targetCtrlValues) ELSE t.previousTarget
            /\ r.targetCtrlValues = t.targetCtrlValues
            /\ r.outputCtrlValues = ValuesFor(t.minMax, hot)
    BY <1>2, OutputType
  <1> QED
    BY <1>3 DEF taken, reported

-----------------------------------------------------------------------------
(* The targets can be reached.                                             *)

\* The values a translator starts with and those it aims at are adjusted.
AdjustedIn(t) ==
  /\ t.ctrlDefaults = Adjusted(t.minMax, CtrlDefaults)
  /\ Adjusted(t.minMax, t.targetCtrlValues) = t.targetCtrlValues

LEMMA NewAdjusted ==
  ASSUME NEW minMax \in Usable
  PROVE  AdjustedIn(NewTranslator(minMax, Pitches))
  BY NewType, AdjustedType, TranslatorAssumption DEF AdjustedIn

LEMMA ChangedAdjusted ==
  ASSUME NEW t \in Translator, AdjustedIn(t), NEW c \in Controllers, NEW value \in CtrlValues
  PROVE  AdjustedIn(UpdateCtrlValue(t, c, value))
  <1> DEFINE changed == [t.targetCtrlValues EXCEPT ![c] = value]
             r == UpdateCtrlValue(t, c, value)
  <1>1. changed \in [Controllers -> MidiValue] /\ t.minMax \in Usable
    BY LearnerAssumption DEF Translator
  <1>2. /\ r.minMax = t.minMax /\ r.ctrlDefaults = t.ctrlDefaults
        /\ \/ r.targetCtrlValues = t.targetCtrlValues
           \/ r.targetCtrlValues = Adjusted(t.minMax, changed)
    BY ControlType DEF TargetChanged
  <1> HIDE DEF changed, r
  <1>3. Adjusted(t.minMax, Adjusted(t.minMax, changed)) = Adjusted(t.minMax, changed)
    BY <1>1, AdjustedType
  <1>4. AdjustedIn(r)
    BY <1>2, <1>3 DEF AdjustedIn
  <1> QED
    BY <1>4 DEF r

LEMMA InitAdjusted == Starting => AdjustedIn(translator) /\ AdjustedIn(fresh)
  BY NewAdjusted, StartingNew

LEMMA NextAdjusted ==
  ASSUME Built, AdjustedIn(translator), AdjustedIn(fresh), [Next]_vars
  PROVE  AdjustedIn(translator)' /\ AdjustedIn(fresh)'
  <1> USE DEF Built
  <1>1. ASSUME NEW zero, StartSequence(zero)
        PROVE  AdjustedIn(translator)' /\ AdjustedIn(fresh)'
    <2>1. translator.minMax \in Usable
      BY DEF Translator
    <2>2. AdjustedIn(fresh)'
      BY <1>1, <2>1, NewAdjusted DEF StartSequence
    <2>3. /\ translator'.minMax = translator.minMax /\ translator'.ctrlDefaults = translator.ctrlDefaults
          /\ translator'.targetCtrlValues = translator.ctrlDefaults
      BY <1>1, ResetType DEF StartSequence
    <2>4. Adjusted(translator.minMax, translator.ctrlDefaults) = translator.ctrlDefaults
      BY <2>1, TranslatorAssumption, AdjustedType DEF AdjustedIn
    <2>5. AdjustedIn(translator')
      BY <2>3, <2>4 DEF AdjustedIn
    <2> QED
      BY <2>2, <2>5
  <1>2. ASSUME NEW c \in Controllers, NEW value \in CtrlValues, Changing(c, value)
        PROVE  AdjustedIn(translator)' /\ AdjustedIn(fresh)'
    <2>1. AdjustedIn(translator') /\ AdjustedIn(fresh')
      BY <1>2, ChangedAdjusted DEF Changing
    <2> QED
      BY <2>1
  <1>3. ASSUME NEW e \in NoteEvents \cup {NoNote}, NEW hot \in HotIndexes, Updating(e, hot)
        PROVE  AdjustedIn(translator)' /\ AdjustedIn(fresh)'
    <2>1. /\ translator'.minMax = translator.minMax /\ translator'.ctrlDefaults = translator.ctrlDefaults
          /\ translator'.targetCtrlValues = translator.targetCtrlValues
      BY <1>3, UpdatedFields DEF Updating
    <2>2. /\ fresh'.minMax = fresh.minMax /\ fresh'.ctrlDefaults = fresh.ctrlDefaults
          /\ fresh'.targetCtrlValues = fresh.targetCtrlValues
      BY <1>3, UpdatedFields DEF Updating
    <2>3. AdjustedIn(translator') /\ AdjustedIn(fresh')
      BY <2>1, <2>2 DEF AdjustedIn
    <2> QED
      BY <2>3
  <1>4. CASE UNCHANGED <<translator, fresh>>
    BY <1>4 DEF AdjustedIn
  <1> QED
    BY <1>1, <1>2, <1>3, <1>4, Steps

LEMMA AdjustedReachable ==
  ASSUME Built, AdjustedIn(translator)
  PROVE  TargetsReachable
  <1> DEFINE values == translator.targetCtrlValues
  <1>1. translator \in Translator
    BY DEF Built
  <1>2. Target(translator) \in HotIndexes /\ Target(translator) = HotFor(translator.minMax, values)
    BY <1>1, TargetType
  <1>3. ReportOutput(translator, Target(translator)).outputCtrlValues =
          ValuesFor(translator.minMax, HotFor(translator.minMax, values))
    BY <1>1, <1>2, OutputType
  <1>4. ValuesFor(translator.minMax, HotFor(translator.minMax, values)) = Adjusted(translator.minMax, values)
    BY DEF ValuesFor, HotFor, Adjusted
  <1> QED
    BY <1>3, <1>4 DEF AdjustedIn, TargetsReachable

\* A value the network is trained to put out is one it can put out, for every
\* number of outputs and every range of the examples: rounding it to the nearest
\* output, to a controller value and back changes nothing.
THEOREM TargetsAreReachable == Spec => []TargetsReachable
  <1> DEFINE I == Built /\ AdjustedIn(translator) /\ AdjustedIn(fresh)
  <1>1. Init => I \/ Unbuilt
    BY InitEither, InitTypeOK, InitAdjusted
  <1>2. I /\ [Next]_vars => I'
    BY NextTypeOK, NextAdjusted
  <1>3. I \/ Unbuilt => TargetsReachable
    BY AdjustedReachable, UnbuiltClaims
  <1> HIDE DEF I
  <1> QED
    BY <1>1, <1>2, <1>3, UnbuiltStays, PTL DEF Spec

-----------------------------------------------------------------------------
(* A sequence begins as with a new translator.                             *)

\* Between two updates nothing waits for the next input, a pitch is only kept
\* for an interval that is asked for, and a previous target is only replaced in
\* training.
Resting(t) ==
  /\ t.lastEventType = "none" /\ t.lastInterval = 0
  /\ INTERVAL \notin Features => t.lastPitch = NOTE_MAX + 1
  /\ ~Training => t.previousTarget = HotFor(t.minMax, t.ctrlDefaults)

\* What a reset makes the same.
Alike(t, u) ==
  /\ t.noteVelocities = u.noteVelocities /\ t.previousOutput = u.previousOutput
  /\ t.targetCtrlValues = u.targetCtrlValues /\ t.outputCtrlValues = u.outputCtrlValues

SomethingStruck == \E i \in 1 .. Len(heard) : StruckAt(i)

\* What is left of the sequence before, until it is replaced.
Forgetting ==
  /\ Resting(translator) /\ Resting(fresh)
  /\ translator.minMax = fresh.minMax
  /\ Len(heard) = updates
  /\ sequence > 0 =>
       /\ Alike(translator, fresh)
       /\ updates > 0 /\ Training => translator.previousTarget = fresh.previousTarget
       /\ SomethingStruck => /\ translator.lastVelocity = fresh.lastVelocity
                             /\ translator.lastPitch = fresh.lastPitch

LEMMA NewResting ==
  ASSUME NEW minMax \in Usable
  PROVE  Resting(NewTranslator(minMax, Pitches))
  BY NewType DEF Resting

LEMMA InitForgetting == Starting => Forgetting
  <1> SUFFICES ASSUME Starting PROVE Forgetting
    OBVIOUS
  <1>1. Resting(translator) /\ fresh = translator
    BY NewResting, StartingNew
  <1> QED
    BY <1>1 DEF Starting, Init, Forgetting

LEMMA NextForgetting ==
  ASSUME Built, AdjustedIn(translator), AdjustedIn(fresh), Forgetting, [Next]_vars
  PROVE  Forgetting'
  <1>0. translator \in Translator /\ fresh \in Translator /\ sequence \in Nat /\ updates \in Nat
        /\ heard \in Seq(NoteEvents \cup {NoNote})
    BY LearnerAssumption DEF Built
  <1>1. ASSUME NEW zero, StartSequence(zero)
        PROVE  Forgetting'
    <2>1. translator.minMax \in Usable
      BY <1>0 DEF Translator
    <2>2. /\ translator'.minMax = translator.minMax /\ translator'.ctrlDefaults = translator.ctrlDefaults
          /\ translator'.noteVelocities = [p \in Pitches |-> 0]
          /\ translator'.lastEventType = translator.lastEventType
          /\ translator'.lastPitch = translator.lastPitch
          /\ translator'.lastInterval = translator.lastInterval
          /\ translator'.previousOutput = HotFor(translator.minMax, translator.ctrlDefaults)
          /\ translator'.previousTarget = translator.previousTarget
          /\ translator'.targetCtrlValues = translator.ctrlDefaults
          /\ translator'.outputCtrlValues = translator.ctrlDefaults
      BY <1>0, <1>1, ResetType DEF StartSequence
    <2>3. fresh' = NewTranslator(translator.minMax, Pitches)
      BY <1>1 DEF StartSequence
    <2>4. /\ fresh'.minMax = translator.minMax /\ fresh'.ctrlDefaults = translator.ctrlDefaults
          /\ fresh'.noteVelocities = [p \in Pitches |-> 0]
          /\ fresh'.previousOutput = HotFor(translator.minMax, translator.ctrlDefaults)
          /\ fresh'.targetCtrlValues = translator.ctrlDefaults
          /\ fresh'.outputCtrlValues = translator.ctrlDefaults
      BY <2>1, <2>3, NewType DEF AdjustedIn
    <2>5. Resting(fresh') /\ Resting(translator')
      BY <2>1, <2>2, <2>3, NewResting DEF Forgetting, Resting
    <2>6. Alike(translator', fresh')
      BY <2>2, <2>4 DEF Alike
    <2>7. heard' = <<>> /\ updates' = 0 /\ ~SomethingStruck'
      BY <1>1 DEF StartSequence, SomethingStruck
    <2>8. Len(heard') = updates' /\ ~(updates' > 0)
      BY <2>7
    <2> QED
      BY <2>2, <2>4, <2>5, <2>6, <2>7, <2>8 DEF Forgetting
  <1>2. ASSUME NEW c \in Controllers, NEW value \in CtrlValues, Changing(c, value)
        PROVE  Forgetting'
    <2>1. /\ translator'.minMax = translator.minMax /\ translator'.ctrlDefaults = translator.ctrlDefaults
          /\ translator'.noteVelocities = translator.noteVelocities
          /\ translator'.lastEventType = translator.lastEventType
          /\ translator'.lastPitch = translator.lastPitch
          /\ translator'.lastVelocity = translator.lastVelocity
          /\ translator'.lastInterval = translator.lastInterval
          /\ translator'.previousOutput = translator.previousOutput
          /\ translator'.previousTarget = translator.previousTarget
          /\ translator'.outputCtrlValues = translator.outputCtrlValues
          /\ translator'.targetCtrlValues =
               IF translator.targetCtrlValues[c] = value THEN translator.targetCtrlValues
               ELSE Adjusted(translator.minMax, [translator.targetCtrlValues EXCEPT ![c] = value])
      <3>1. translator' = UpdateCtrlValue(translator, c, value)
        BY <1>2 DEF Changing
      <3>2. TargetChanged(translator, c, value, UpdateCtrlValue(translator, c, value))
        BY <1>0, ControlType
      <3> QED
        BY <3>1, <3>2 DEF TargetChanged
    <2>2. /\ fresh'.minMax = fresh.minMax /\ fresh'.ctrlDefaults = fresh.ctrlDefaults
          /\ fresh'.noteVelocities = fresh.noteVelocities
          /\ fresh'.lastEventType = fresh.lastEventType
          /\ fresh'.lastPitch = fresh.lastPitch
          /\ fresh'.lastVelocity = fresh.lastVelocity
          /\ fresh'.lastInterval = fresh.lastInterval
          /\ fresh'.previousOutput = fresh.previousOutput
          /\ fresh'.previousTarget = fresh.previousTarget
          /\ fresh'.outputCtrlValues = fresh.outputCtrlValues
          /\ fresh'.targetCtrlValues =
               IF fresh.targetCtrlValues[c] = value THEN fresh.targetCtrlValues
               ELSE Adjusted(fresh.minMax, [fresh.targetCtrlValues EXCEPT ![c] = value])
      <3>1. fresh' = UpdateCtrlValue(fresh, c, value)
        BY <1>2 DEF Changing
      <3>2. TargetChanged(fresh, c, value, UpdateCtrlValue(fresh, c, value))
        BY <1>0, ControlType
      <3> QED
        BY <3>1, <3>2 DEF TargetChanged
    <2>3. sequence' = sequence /\ updates' = updates /\ heard' = heard
      BY <1>2 DEF Changing
    <2>4. Resting(translator') /\ Resting(fresh')
      BY <2>1, <2>2 DEF Forgetting, Resting
    <2>5. sequence > 0 => Alike(translator', fresh')
      BY <2>1, <2>2 DEF Forgetting, Alike
    <2>6. SomethingStruck' => SomethingStruck
      BY <2>3 DEF SomethingStruck, StruckAt
    <2> QED
      BY <2>1, <2>2, <2>3, <2>4, <2>5, <2>6 DEF Forgetting
  <1>3. ASSUME NEW e \in NoteEvents \cup {NoNote}, NEW hot \in HotIndexes, Updating(e, hot)
        PROVE  Forgetting'
    <2> DEFINE told == Reported(translator, e)
               retold == Reported(fresh, e)
    <2>1. /\ translator'.minMax = translator.minMax /\ translator'.ctrlDefaults = translator.ctrlDefaults
          /\ translator'.noteVelocities = told.noteVelocities
          /\ translator'.lastEventType = "none" /\ translator'.lastInterval = 0
          /\ translator'.lastPitch = told.lastPitch
          /\ translator'.lastVelocity = told.lastVelocity
          /\ translator'.previousOutput = hot
          /\ translator'.previousTarget =
               IF Training THEN HotFor(translator.minMax, translator.targetCtrlValues)
               ELSE translator.previousTarget
          /\ translator'.targetCtrlValues = translator.targetCtrlValues
          /\ translator'.outputCtrlValues = ValuesFor(translator.minMax, hot)
      BY <1>0, <1>3, UpdatedFields DEF Updating
    <2>2. /\ fresh'.minMax = fresh.minMax /\ fresh'.ctrlDefaults = fresh.ctrlDefaults
          /\ fresh'.noteVelocities = retold.noteVelocities
          /\ fresh'.lastEventType = "none" /\ fresh'.lastInterval = 0
          /\ fresh'.lastPitch = retold.lastPitch
          /\ fresh'.lastVelocity = retold.lastVelocity
          /\ fresh'.previousOutput = hot
          /\ fresh'.previousTarget =
               IF Training THEN HotFor(fresh.minMax, fresh.targetCtrlValues)
               ELSE fresh.previousTarget
          /\ fresh'.targetCtrlValues = fresh.targetCtrlValues
          /\ fresh'.outputCtrlValues = ValuesFor(fresh.minMax, hot)
      BY <1>0, <1>3, UpdatedFields DEF Updating
    <2>3. /\ INTERVAL \notin Features => told.lastPitch = translator.lastPitch
                                         /\ retold.lastPitch = fresh.lastPitch
          /\ e # NoNote /\ Struck(e) =>
               /\ told.lastVelocity = e.velocity /\ retold.lastVelocity = e.velocity
               /\ INTERVAL \in Features => told.lastPitch = e.pitch /\ retold.lastPitch = e.pitch
      BY <1>0, ReportedFields
    <2>4. sequence > 0 =>
            /\ told.noteVelocities = retold.noteVelocities
            /\ translator.lastVelocity = fresh.lastVelocity /\ translator.lastPitch = fresh.lastPitch
                 => told.lastVelocity = retold.lastVelocity /\ told.lastPitch = retold.lastPitch
      <3> SUFFICES ASSUME sequence > 0
                   PROVE  /\ told.noteVelocities = retold.noteVelocities
                          /\ translator.lastVelocity = fresh.lastVelocity
                             /\ translator.lastPitch = fresh.lastPitch
                             => told.lastVelocity = retold.lastVelocity
                                /\ told.lastPitch = retold.lastPitch
        OBVIOUS
      <3>1. translator.noteVelocities = fresh.noteVelocities
        BY DEF Forgetting, Alike
      <3>2. CASE e = NoNote
        BY <3>1, <3>2 DEF Reported
      <3>3. CASE e # NoNote
        <4>1. e \in NoteEvents
          BY <3>3
        <4>2. CASE ~Struck(e) /\ translator.noteVelocities[e.pitch] = 0
          <5>1. told = translator /\ retold = fresh
            BY <3>1, <3>3, <4>2 DEF Reported, ReportNoteEvent
          <5> QED
            BY <3>1, <5>1
        <4>3. CASE ~(~Struck(e) /\ translator.noteVelocities[e.pitch] = 0)
          <5>1. told = NoteTaken(translator, e) /\ retold = NoteTaken(fresh, e)
            BY <3>1, <3>3, <4>3 DEF Reported, ReportNoteEvent
          <5> HIDE DEF told, retold
          <5>2. /\ told.noteVelocities =
                     [translator.noteVelocities EXCEPT ![e.pitch] = IF Struck(e) THEN e.velocity ELSE 0]
                /\ told.lastVelocity = IF Struck(e) THEN e.velocity ELSE 0
                /\ told.lastPitch = IF INTERVAL \in Features /\ Struck(e) THEN e.pitch
                                    ELSE translator.lastPitch
            BY <1>0, <4>1, <5>1, TakenType
          <5>3. /\ retold.noteVelocities =
                     [fresh.noteVelocities EXCEPT ![e.pitch] = IF Struck(e) THEN e.velocity ELSE 0]
                /\ retold.lastVelocity = IF Struck(e) THEN e.velocity ELSE 0
                /\ retold.lastPitch = IF INTERVAL \in Features /\ Struck(e) THEN e.pitch
                                      ELSE fresh.lastPitch
            BY <1>0, <4>1, <5>1, TakenType
          <5> QED
            BY <3>1, <5>2, <5>3
        <4> QED
          BY <4>2, <4>3
      <3> QED
        BY <3>2, <3>3
    <2> HIDE DEF told, retold
    <2>5. Resting(translator') /\ Resting(fresh')
      BY <2>1, <2>2, <2>3 DEF Forgetting, Resting
    <2>6. sequence' = sequence /\ updates' = updates + 1 /\ heard' = Append(heard, e)
      BY <1>3 DEF Updating
    <2>7. Len(heard') = updates'
      BY <1>0, <2>6 DEF Forgetting
    <2>8. SomethingStruck' => SomethingStruck \/ (e # NoNote /\ Struck(e))
      <3> SUFFICES ASSUME SomethingStruck' PROVE SomethingStruck \/ (e # NoNote /\ Struck(e))
        OBVIOUS
      <3>1. PICK i \in 1 .. Len(heard') : heard'[i] # NoNote /\ Struck(heard'[i])
        BY DEF SomethingStruck, StruckAt
      <3>2. CASE i = Len(heard) + 1
        BY <1>0, <2>6, <3>1, <3>2
      <3>3. CASE i # Len(heard) + 1
        <4>1. i \in 1 .. Len(heard) /\ heard'[i] = heard[i]
          BY <1>0, <2>6, <3>1, <3>3
        <4> QED
          BY <3>1, <4>1 DEF SomethingStruck, StruckAt
      <3> QED
        BY <3>2, <3>3
    <2>9. translator'.minMax = fresh'.minMax
      BY <2>1, <2>2 DEF Forgetting
    <2>10. ASSUME sequence' > 0
           PROVE  /\ Alike(translator', fresh')
                  /\ Training => translator'.previousTarget = fresh'.previousTarget
                  /\ SomethingStruck' => /\ translator'.lastVelocity = fresh'.lastVelocity
                                         /\ translator'.lastPitch = fresh'.lastPitch
      <3>1. sequence > 0 /\ Alike(translator, fresh) /\ translator.minMax = fresh.minMax
        BY <2>6, <2>10 DEF Forgetting
      <3>2. Alike(translator', fresh')
        BY <2>1, <2>2, <2>4, <3>1 DEF Alike
      <3>3. Training => translator'.previousTarget = fresh'.previousTarget
        BY <2>1, <2>2, <3>1 DEF Alike
      <3>4. SomethingStruck => told.lastVelocity = retold.lastVelocity /\ told.lastPitch = retold.lastPitch
        BY <2>4, <3>1 DEF Forgetting
      <3>5. e # NoNote /\ Struck(e) =>
              told.lastVelocity = retold.lastVelocity /\ told.lastPitch = retold.lastPitch
        BY <2>3 DEF Forgetting, Resting
      <3> QED
        BY <2>1, <2>2, <2>8, <3>2, <3>3, <3>4, <3>5
    <2> QED
      BY <2>5, <2>7, <2>9, <2>10 DEF Forgetting
  <1>4. CASE UNCHANGED <<translator, fresh, heard, sequence, updates>>
    BY <1>4 DEF Forgetting, Resting, Alike, SomethingStruck, StruckAt
  <1> QED
    BY <1>1, <1>2, <1>3, <1>4, Steps

LEMMA SameTranslator ==
  ASSUME NEW t \in Translator, NEW u \in Translator,
         t.minMax = u.minMax, t.ctrlDefaults = u.ctrlDefaults,
         t.noteVelocities = u.noteVelocities, t.lastEventType = u.lastEventType,
         t.lastPitch = u.lastPitch, t.lastVelocity = u.lastVelocity,
         t.lastInterval = u.lastInterval, t.previousOutput = u.previousOutput,
         t.previousTarget = u.previousTarget, t.targetCtrlValues = u.targetCtrlValues,
         t.outputCtrlValues = u.outputCtrlValues
  PROVE  t = u
  BY DEF Translator

LEMMA ForgettingForgets ==
  ASSUME Built, AdjustedIn(translator), AdjustedIn(fresh), Forgetting
  PROVE  ResetForgets
  <1>0. translator \in Translator /\ fresh \in Translator /\ updates \in Nat
    BY LearnerAssumption DEF Built
  <1> SUFFICES ASSUME sequence > 0
               PROVE  /\ \A f \in DOMAIN fresh \ (Kept \cup {"previousTarget"}) : translator[f] = fresh[f]
                      /\ updates > 0 /\ Training => translator.previousTarget = fresh.previousTarget
                      /\ SomethingStruck => translator = fresh
    BY DEF ResetForgets, SomethingStruck
  <1>1. /\ translator.minMax = fresh.minMax /\ translator.ctrlDefaults = fresh.ctrlDefaults
        /\ translator.lastEventType = fresh.lastEventType
        /\ translator.lastInterval = fresh.lastInterval
        /\ translator.noteVelocities = fresh.noteVelocities
        /\ translator.previousOutput = fresh.previousOutput
        /\ translator.targetCtrlValues = fresh.targetCtrlValues
        /\ translator.outputCtrlValues = fresh.outputCtrlValues
    BY DEF Forgetting, Resting, Alike, AdjustedIn
  <1>2. \A f \in DOMAIN fresh \ (Kept \cup {"previousTarget"}) : translator[f] = fresh[f]
    BY <1>0, <1>1 DEF Translator, Kept
  <1>3. updates > 0 /\ Training => translator.previousTarget = fresh.previousTarget
    BY DEF Forgetting
  <1>4. ASSUME SomethingStruck PROVE translator = fresh
    <2>1. updates > 0
      BY <1>0, <1>4 DEF Forgetting, SomethingStruck
    <2>2. translator.lastVelocity = fresh.lastVelocity /\ translator.lastPitch = fresh.lastPitch
      BY <1>4 DEF Forgetting
    <2>3. translator.previousTarget = fresh.previousTarget
      BY <1>1, <1>3, <2>1 DEF Forgetting, Resting
    <2> QED
      BY <1>0, <1>1, <2>2, <2>3, SameTranslator
  <1> QED
    BY <1>2, <1>3, <1>4

\* A sequence begins as with a new translator: what a reset leaves of the
\* sequence before is gone after the first update, or after the first note that
\* is struck, whatever the sequences were.
THEOREM ResetsForget == Spec => []ResetForgets
  <1> DEFINE I == Built /\ AdjustedIn(translator) /\ AdjustedIn(fresh) /\ Forgetting
  <1>1. Init => I \/ Unbuilt
    BY InitEither, InitTypeOK, InitAdjusted, InitForgetting
  <1>2. I /\ [Next]_vars => I'
    BY NextTypeOK, NextAdjusted, NextForgetting
  <1>3. I \/ Unbuilt => ResetForgets
    BY ForgettingForgets, UnbuiltClaims
  <1> HIDE DEF I
  <1> QED
    BY <1>1, <1>2, <1>3, UnbuiltStays, PTL DEF Spec

-----------------------------------------------------------------------------
(* The features of an input say what was played.                           *)

\* StruckAt, HeldAfter and FeaturesTrue, of any events.
StruckIn(events, i) == events[i] # NoNote /\ Struck(events[i])
HeldIn(events, i, p) ==
  \E j \in 1 .. i : /\ StruckIn(events, j) /\ events[j].pitch = p
                    /\ \A k \in j + 1 .. i :
                         events[k] # NoNote => events[k].pitch # p \/ StruckIn(events, k)
StruckUpTo(events, n) == {j \in 1 .. n : StruckIn(events, j)}
IntervalPlacesIn(places) ==
  {i - FeatureBegin(INTERVAL) : i \in {i \in places : i >= FeatureBegin(INTERVAL)
                                                   /\ i < InputFeatureCount}}
FeaturesSay(events, n, places) ==
  /\ SOME_NOTE_ON \in Features =>
       (FeatureBegin(SOME_NOTE_ON) \in places <=> \E p \in Pitches : HeldIn(events, n, p))
  /\ NOTE_STRUCK \in Features => (FeatureBegin(NOTE_STRUCK) \in places <=> StruckIn(events, n))
  /\ NOTE_RELEASED \in Features =>
       (FeatureBegin(NOTE_RELEASED) \in places <=>
          events[n] # NoNote /\ ~StruckIn(events, n) /\ HeldIn(events, n - 1, events[n].pitch))
  /\ INTERVAL \in Features /\ StruckIn(events, n) /\ StruckUpTo(events, n - 1) # {} =>
       IntervalPlacesIn(places) =
         IntervalOn(events[n].pitch - events[Max(StruckUpTo(events, n - 1))].pitch)

LEMMA FeaturesTrueIs ==
  (pc = "judge" => FeaturesSay(heard, Len(heard), input)) => FeaturesTrue
  BY DEF FeaturesTrue, FeaturesSay, HeldAfter, StruckAt, HeldIn, StruckIn, StruckUpTo,
         IntervalPlacesIn, IntervalOn, Distance

LEMMA SingleFound ==
  ASSUME NEW t \in Translator, NEW source, NEW f \in SingleFeatures
  PROVE  FeatureBegin(f) \in Input(t, source) <=> f \in SingleOn(t)
  <1>1. f \in Features /\ f # INTERVAL
    BY DEF SingleFeatures, SOME_NOTE_ON, NOTE_STRUCK, NOTE_RELEASED, VELOCITY, INTERVAL
  <1>2. FeatureBegin(f) \in Nat /\ FeatureBegin(f) < InputFeatureCount /\ InputFeatureCount \in Nat
    BY <1>1, FeaturePlaces
  <1>3. FeatureBegin(f) \notin Feedback(t, source)
    BY <1>2, FeedbackType
  <1>4. FeatureBegin(f) \in {FeatureBegin(g) : g \in SingleOn(t)} <=> f \in SingleOn(t)
    <2>1. SingleOn(t) \subseteq Features
      BY DEF SingleOn, SingleFeatures
    <2> QED
      BY <1>1, <2>1, FeaturePlaces
  <1>5. ASSUME INTERVAL \in Features, NEW i \in IntervalOn(t.lastInterval)
        PROVE  FeatureBegin(f) # FeatureBegin(INTERVAL) + i
    <2>1. i \in Nat
      BY IntervalPlaces DEF Translator
    <2>2. FeatureBegin(f) < FeatureBegin(INTERVAL) /\ FeatureBegin(INTERVAL) \in Nat
      BY <1>1, <1>5, FeaturePlaces
    <2> QED
      BY <1>2, <2>1, <2>2
  <1> QED
    BY <1>3, <1>4, <1>5, FeatureInputIs DEF Input

LEMMA IntervalFound ==
  ASSUME NEW t \in Translator, NEW source, INTERVAL \in Features, t.lastEventType = "on"
  PROVE  IntervalPlacesIn(Input(t, source)) = IntervalOn(t.lastInterval)
  <1> DEFINE begin == FeatureBegin(INTERVAL)
             on == IntervalOn(t.lastInterval)
             single == {FeatureBegin(f) : f \in SingleOn(t)}
             fed == Feedback(t, source)
  <1>1. begin \in Nat /\ InputFeatureCount = begin + 16
    BY FeaturePlaces
  <1>2. on \subseteq 0 .. 14
    BY IntervalPlaces DEF Translator
  <1>3. ASSUME NEW i \in single PROVE i \in Nat /\ i < begin
    <2>1. PICK f \in SingleOn(t) : i = FeatureBegin(f)
      OBVIOUS
    <2>2. f \in Features /\ f # INTERVAL
      BY DEF SingleOn, SingleFeatures, SOME_NOTE_ON, NOTE_STRUCK, NOTE_RELEASED, VELOCITY, INTERVAL
    <2> QED
      BY <2>1, <2>2, FeaturePlaces
  <1>4. \A i \in fed : i \in Nat /\ i >= InputFeatureCount
    BY FeedbackType
  <1>5. Input(t, source) = (single \cup {begin + i : i \in on}) \cup fed
    BY FeatureInputIs DEF Input
  <1> HIDE DEF begin, on, single, fed
  <1>6. {i \in Input(t, source) : i >= begin /\ i < InputFeatureCount} = {begin + i : i \in on}
    <2>1. ASSUME NEW i \in Input(t, source), i >= begin, i < InputFeatureCount
          PROVE  i \in {begin + k : k \in on}
      <3>1. i \notin single
        BY <1>1, <1>3, <2>1
      <3>2. i \notin fed
        BY <1>1, <1>4, <2>1
      <3> QED
        BY <1>5, <2>1, <3>1, <3>2
    <2>2. ASSUME NEW i \in on
          PROVE  begin + i \in Input(t, source) /\ begin + i >= begin /\ begin + i < InputFeatureCount
      BY <1>1, <1>2, <1>5
    <2> QED
      BY <2>1, <2>2
  <1>7. {i - begin : i \in {begin + k : k \in on}} = on
    <2>1. \A k \in on : (begin + k) - begin = k
      BY <1>1, <1>2
    <2> QED
      BY <2>1
  <1> QED
    BY <1>6, <1>7 DEF IntervalPlacesIn, begin, on

\* What an event changes in what is held and in what was struck.
LEMMA HeardNext ==
  ASSUME NEW events \in Seq(NoteEvents \cup {NoNote}), NEW e \in NoteEvents \cup {NoNote}
  PROVE  LET next == Append(events, e)
             n == Len(events)
         IN  /\ Len(next) = n + 1 /\ next[n + 1] = e /\ n \in Nat
             /\ \A i \in 1 .. n : next[i] = events[i] /\ StruckIn(next, i) = StruckIn(events, i)
             /\ StruckIn(next, n + 1) = (e # NoNote /\ Struck(e))
             /\ StruckUpTo(next, n) = StruckUpTo(events, n)
             /\ \A p : HeldIn(next, n, p) <=> HeldIn(events, n, p)
             /\ \A p : HeldIn(next, n + 1, p) <=> IF e # NoNote /\ e.pitch = p THEN Struck(e)
                                                  ELSE HeldIn(events, n, p)
  <1> DEFINE next == Append(events, e)
             n == Len(events)
  <1>1. Len(next) = n + 1 /\ next[n + 1] = e /\ n \in Nat /\ \A i \in 1 .. n : next[i] = events[i]
    OBVIOUS
  <1> HIDE DEF next, n
  <1>2. \A i \in 1 .. n : StruckIn(next, i) = StruckIn(events, i)
    BY <1>1 DEF StruckIn
  <1>3. StruckIn(next, n + 1) = (e # NoNote /\ Struck(e))
    BY <1>1 DEF StruckIn
  <1>4. StruckUpTo(next, n) = StruckUpTo(events, n)
    BY <1>2 DEF StruckUpTo
  <1>5. ASSUME NEW p PROVE HeldIn(next, n, p) <=> HeldIn(events, n, p)
    <2>1. ASSUME NEW j \in 1 .. n, NEW k \in j + 1 .. n PROVE k \in 1 .. n
      BY <1>1
    <2> QED
      BY <1>1, <1>2, <2>1 DEF HeldIn
  <1>6. ASSUME NEW p
        PROVE  HeldIn(next, n + 1, p) <=> IF e # NoNote /\ e.pitch = p THEN Struck(e)
                                          ELSE HeldIn(events, n, p)
    <2> DEFINE Stays(k) == next[k] # NoNote => next[k].pitch # p \/ StruckIn(next, k)
               Hit(j) == StruckIn(next, j) /\ next[j].pitch = p
    <2>0. /\ HeldIn(next, n, p) <=> \E j \in 1 .. n : Hit(j) /\ \A k \in j + 1 .. n : Stays(k)
          /\ HeldIn(next, n + 1, p) <=>
               \E j \in 1 .. n + 1 : Hit(j) /\ \A k \in j + 1 .. n + 1 : Stays(k)
      BY DEF HeldIn
    <2>1. CASE e # NoNote /\ e.pitch = p /\ Struck(e)
      <3>1. Hit(n + 1)
        BY <1>1, <1>3, <2>1
      <3>3. (n + 1) + 1 .. n + 1 = {}
        BY <1>1
      <3>2. n + 1 \in 1 .. n + 1
        BY <1>1
      <3> QED
        BY <2>0, <2>1, <3>1, <3>2, <3>3
    <2>2. CASE e # NoNote /\ e.pitch = p /\ ~Struck(e)
      <3>1. ~Stays(n + 1) /\ ~Hit(n + 1)
        BY <1>1, <1>3, <2>2
      <3>2. \A j \in 1 .. n : n + 1 \in j + 1 .. n + 1
        BY <1>1
      <3>3. \A j \in 1 .. n + 1 : j \in 1 .. n \/ j = n + 1
        BY <1>1
      <3> HIDE DEF Stays, Hit
      <3> QED
        BY <2>0, <2>2, <3>1, <3>2, <3>3
    <2>3. CASE ~(e # NoNote /\ e.pitch = p)
      <3>1. Stays(n + 1) /\ ~Hit(n + 1)
        BY <1>1, <1>3, <2>3
      <3>2. \A j \in 1 .. n : \A k \in j + 1 .. n + 1 : k \in j + 1 .. n \/ k = n + 1
        BY <1>1
      <3>3. \A j \in 1 .. n + 1 : j \in 1 .. n \/ j = n + 1
        BY <1>1
      <3>4. \A j \in 1 .. n : j \in 1 .. n + 1 /\ \A k \in j + 1 .. n : k \in j + 1 .. n + 1
        BY <1>1
      <3> HIDE DEF Stays, Hit
      <3>5. HeldIn(next, n + 1, p) <=> HeldIn(next, n, p)
        BY <2>0, <3>1, <3>2, <3>3, <3>4
      <3> QED
        BY <1>5, <2>3, <3>5
    <2> QED
      BY <2>1, <2>2, <2>3
  <1> QED
    BY <1>1, <1>2, <1>3, <1>4, <1>5, <1>6 DEF next, n

\* The last of a set of places.
LEMMA Greatest ==
  ASSUME NEW n \in Nat, NEW S \in SUBSET (0 .. n), S # {}
  PROVE  Max(S) \in S /\ \A i \in S : Max(S) >= i
  <1> DEFINE U == {n - i : i \in S}
  <1>0. \A i \in S : n - i \in Nat
    OBVIOUS
  <1>1. U \in SUBSET Nat /\ U # {}
    BY <1>0
  <1> HIDE DEF U
  <1>2. PICK m \in U : \A k \in U : m <= k
    BY <1>1, LeastNumber
  <1> USE DEF U
  <1>3. PICK j \in S : m = n - j
    BY <1>2
  <1>4. ASSUME NEW i \in S PROVE j >= i
    <2>1. m <= n - i
      BY <1>2
    <2> QED
      BY <1>3, <2>1
  <1> QED
    BY <1>4 DEF Max

LEMMA LatestStruck ==
  ASSUME NEW events \in Seq(NoteEvents \cup {NoNote}), NEW e \in NoteEvents \cup {NoNote},
         e # NoNote, Struck(e)
  PROVE  LET next == Append(events, e)
             n == Len(events)
         IN  StruckUpTo(next, n + 1) # {} /\ Max(StruckUpTo(next, n + 1)) = n + 1
  <1> DEFINE next == Append(events, e)
             n == Len(events)
             S == StruckUpTo(next, n + 1)
  <1>1. n \in Nat /\ StruckIn(next, n + 1)
    BY HeardNext
  <1> HIDE DEF next, n
  <1>2. S \subseteq 1 .. n + 1 /\ n + 1 \in S
    BY <1>1 DEF StruckUpTo
  <1> HIDE DEF S
  <1>3. Max(S) \in S /\ Max(S) >= n + 1
    <2>1. n + 1 \in Nat /\ S \in SUBSET (0 .. n + 1) /\ S # {}
      BY <1>1, <1>2
    <2> QED
      BY <1>2, <2>1, Greatest
  <1>4. Max(S) = n + 1
    <2>1. Max(S) \in 1 .. n + 1
      BY <1>2, <1>3
    <2> QED
      BY <1>1, <1>3, <2>1
  <1> QED
    BY <1>2, <1>4 DEF S, next, n

LEMMA NothingStruck ==
  ASSUME NEW events \in Seq(NoteEvents \cup {NoNote}), NEW e \in NoteEvents \cup {NoNote},
         ~(e # NoNote /\ Struck(e))
  PROVE  StruckUpTo(Append(events, e), Len(events) + 1) = StruckUpTo(events, Len(events))
  <1> DEFINE next == Append(events, e)
             n == Len(events)
  <1>1. n \in Nat /\ ~StruckIn(next, n + 1) /\ StruckUpTo(next, n) = StruckUpTo(events, n)
    BY HeardNext
  <1> HIDE DEF next, n
  <1>2. \A j \in 1 .. n + 1 : j \in 1 .. n \/ j = n + 1
    BY <1>1
  <1>3. 1 .. n \subseteq 1 .. n + 1
    BY <1>1
  <1>4. StruckUpTo(next, n + 1) = StruckUpTo(next, n)
    BY <1>1, <1>2, <1>3 DEF StruckUpTo
  <1> QED
    BY <1>1, <1>4 DEF next, n

\* What an event makes of a translator that waits for it.
LEMMA ReportedSays ==
  ASSUME NEW t \in Translator, NEW e \in NoteEvents \cup {NoNote},
         t.lastEventType = "none", t.lastInterval = 0
  PROVE  LET r == Reported(t, e)
             struck == e # NoNote /\ Struck(e)
         IN  /\ r.lastEventType = "on" <=> struck
             /\ r.lastEventType = "off" <=> e # NoNote /\ ~Struck(e) /\ t.noteVelocities[e.pitch] > 0
             /\ \A p \in Pitches : r.noteVelocities[p] > 0 <=> IF e # NoNote /\ e.pitch = p THEN Struck(e)
                                                               ELSE t.noteVelocities[p] > 0
             /\ INTERVAL \in Features /\ struck =>
                  /\ r.lastPitch = e.pitch
                  /\ t.lastPitch <= NOTE_MAX => r.lastInterval = e.pitch - t.lastPitch
             /\ ~struck => r.lastPitch = t.lastPitch
  <1>0. /\ t.noteVelocities \in [Pitches -> MidiValue]
        /\ \A p \in Pitches : t.noteVelocities[p] \in Nat
        /\ t.lastPitch \in Int /\ NOTE_MAX \in Int
    <2>1. t.noteVelocities \in [Pitches -> MidiValue]
      BY DEF Translator
    <2>2. \A p \in Pitches : t.noteVelocities[p] \in Nat
      BY <2>1 DEF MidiValue
    <2>3. t.lastPitch \in Int /\ NOTE_MAX \in Int
      BY DEF Translator, NOTE_MAX
    <2> QED
      BY <2>1, <2>2, <2>3
  <1>1. CASE e = NoNote
    BY <1>1 DEF Reported
  <1>2. CASE e # NoNote /\ ~Struck(e) /\ t.noteVelocities[e.pitch] = 0
    <2>1. Reported(t, e) = t /\ e.pitch \in Pitches
      BY <1>2, PitchesType DEF Reported, ReportNoteEvent
    <2>2. ~(t.noteVelocities[e.pitch] > 0)
      BY <1>2
    <2> QED
      BY <1>2, <2>1, <2>2
  <1>3. CASE e # NoNote /\ ~(~Struck(e) /\ t.noteVelocities[e.pitch] = 0)
    <2>1. Reported(t, e) = NoteTaken(t, e) /\ e \in NoteEvents
      BY <1>3 DEF Reported, ReportNoteEvent
    <2>2. e.pitch \in Pitches /\ e \in NoteEvent
      BY <2>1, PitchesType
    <2> DEFINE r == NoteTaken(t, e)
               velocity == IF Struck(e) THEN e.velocity ELSE 0
    <2>3. velocity > 0 <=> Struck(e)
      BY <2>2 DEF NoteEvent, MidiValue, Struck
    <2>4. /\ r.noteVelocities = [t.noteVelocities EXCEPT ![e.pitch] = velocity]
          /\ r.lastEventType = IF Struck(e) THEN "on" ELSE "off"
          /\ r.lastPitch = IF INTERVAL \in Features /\ Struck(e) THEN e.pitch ELSE t.lastPitch
          /\ INTERVAL \in Features /\ Struck(e) =>
               r.lastInterval = e.pitch - IF t.lastPitch > NOTE_MAX THEN e.pitch ELSE t.lastPitch
      BY <2>1, TakenType
    <2> HIDE DEF r, velocity
    <2>5. \A p \in Pitches : r.noteVelocities[p] = IF e.pitch = p THEN velocity ELSE t.noteVelocities[p]
      BY <1>0, <2>4
    <2>6. \A p \in Pitches : r.noteVelocities[p] > 0 <=> IF e.pitch = p THEN Struck(e)
                                                         ELSE t.noteVelocities[p] > 0
      BY <2>3, <2>5
    <2>7. t.noteVelocities[e.pitch] # 0 <=> t.noteVelocities[e.pitch] > 0
      BY <1>0, <2>2
    <2>8. t.lastPitch <= NOTE_MAX => ~(t.lastPitch > NOTE_MAX)
      BY <1>0
    <2>9. LET struck == e # NoNote /\ Struck(e)
          IN  /\ r.lastEventType = "on" <=> struck
              /\ r.lastEventType = "off" <=> e # NoNote /\ ~Struck(e) /\ t.noteVelocities[e.pitch] > 0
              /\ \A p \in Pitches : r.noteVelocities[p] > 0 <=> IF e # NoNote /\ e.pitch = p THEN Struck(e)
                                                                ELSE t.noteVelocities[p] > 0
              /\ INTERVAL \in Features /\ struck =>
                   /\ r.lastPitch = e.pitch
                   /\ t.lastPitch <= NOTE_MAX => r.lastInterval = e.pitch - t.lastPitch
              /\ ~struck => r.lastPitch = t.lastPitch
      BY <1>3, <2>4, <2>6, <2>7, <2>8
    <2> QED
      BY <2>1, <2>9 DEF r
  <1> QED
    BY <1>1, <1>2, <1>3

\* What the translator remembers of the sequence, and what the last input says.
Remembering ==
  /\ translator.lastEventType = "none" /\ translator.lastInterval = 0
  /\ \A p \in Pitches : translator.noteVelocities[p] > 0 <=> HeldIn(heard, Len(heard), p)
  /\ INTERVAL \in Features /\ StruckUpTo(heard, Len(heard)) # {} =>
       translator.lastPitch = heard[Max(StruckUpTo(heard, Len(heard)))].pitch
  /\ pc = "judge" => FeaturesSay(heard, Len(heard), input)

LEMMA NothingHeard ==
  ASSUME NEW events, Len(events) = 0
  PROVE  StruckUpTo(events, Len(events)) = {} /\ \A p : ~HeldIn(events, Len(events), p)
  <1>1. 1 .. Len(events) = {}
    OBVIOUS
  <1> QED
    BY <1>1 DEF StruckUpTo, HeldIn

LEMMA InitRemembering == Starting => Remembering
  <1> SUFFICES ASSUME Starting PROVE Remembering
    OBVIOUS
  <1>1. PICK minMax \in Usable : translator = NewTranslator(minMax, Pitches)
    BY StartingNew
  <1>2. /\ translator.lastEventType = "none" /\ translator.lastInterval = 0
        /\ \A p \in Pitches : ~(translator.noteVelocities[p] > 0)
    BY <1>1 DEF NewTranslator
  <1>3. heard = <<>> /\ pc = "between"
    BY DEF Starting, Init
  <1>4. Len(heard) = 0
    BY <1>3
  <1> QED
    BY <1>2, <1>3, <1>4, NothingHeard DEF Remembering

\* An update: what the translator puts in the input is what was heard.
LEMMA UpdateSays ==
  ASSUME Built, Remembering,
         NEW e \in NoteEvents \cup {NoNote}, NEW hot \in HotIndexes, Updating(e, hot)
  PROVE  Remembering'
  <1> DEFINE n == Len(heard)
             next == Append(heard, e)
             t == Reported(translator, e)
             struck == e # NoNote /\ Struck(e)
  <1>1. translator \in Translator /\ heard \in Seq(NoteEvents \cup {NoNote}) /\ t \in Translator
    BY ReportedType DEF Built
  <1>2. /\ n \in Nat /\ Len(next) = n + 1 /\ next[n + 1] = e
        /\ \A i \in 1 .. n : next[i] = heard[i]
        /\ StruckIn(next, n + 1) = struck
        /\ StruckUpTo(next, n) = StruckUpTo(heard, n)
        /\ \A p : HeldIn(next, n, p) <=> HeldIn(heard, n, p)
        /\ \A p : HeldIn(next, n + 1, p) <=> IF e # NoNote /\ e.pitch = p THEN Struck(e)
                                             ELSE HeldIn(heard, n, p)
    BY <1>1, HeardNext
  <1>3. /\ t.lastEventType = "on" <=> struck
        /\ t.lastEventType = "off" <=>
             e # NoNote /\ ~Struck(e) /\ translator.noteVelocities[e.pitch] > 0
        /\ \A p \in Pitches : t.noteVelocities[p] > 0 <=> IF e # NoNote /\ e.pitch = p THEN Struck(e)
                                                          ELSE translator.noteVelocities[p] > 0
        /\ INTERVAL \in Features /\ struck =>
             /\ t.lastPitch = e.pitch
             /\ translator.lastPitch <= NOTE_MAX => t.lastInterval = e.pitch - translator.lastPitch
        /\ ~struck => t.lastPitch = translator.lastPitch
    BY <1>1, ReportedSays DEF Remembering
  <1>4. struck => StruckUpTo(next, n + 1) # {} /\ Max(StruckUpTo(next, n + 1)) = n + 1
    BY <1>1, LatestStruck
  <1>5. ~struck => StruckUpTo(next, n + 1) = StruckUpTo(heard, n)
    BY <1>1, NothingStruck
  <1>6. /\ heard' = next /\ pc' = "judge" /\ translator' = ReportOutput(InputTaken(t), hot)
        /\ input' = Input(t, IF Validating THEN "output" ELSE "target")
    BY DEF Updating
  <1>7. /\ translator'.noteVelocities = t.noteVelocities
        /\ translator'.lastEventType = "none" /\ translator'.lastPitch = t.lastPitch
        /\ translator'.lastInterval = 0
    BY <1>1, <1>6, UpdatedFields
  <1>8. e # NoNote => e \in NoteEvents /\ e.pitch \in Pitches /\ e.pitch \in 0 .. NOTE_MAX
    BY PitchesType DEF MidiValue, NOTE_MAX
  <1>a. DOMAIN t.noteVelocities = Pitches
    BY <1>1 DEF Translator
  <1> HIDE DEF next, n, t
  <1>9. \A p \in Pitches : t.noteVelocities[p] > 0 <=> HeldIn(next, n + 1, p)
    BY <1>2, <1>3 DEF Remembering, n
  <1>10. StruckUpTo(heard, n) # {} =>
           /\ Max(StruckUpTo(heard, n)) \in StruckUpTo(heard, n)
           /\ Max(StruckUpTo(heard, n)) \in 1 .. n
    <2> DEFINE S == StruckUpTo(heard, n)
    <2>1. S \in SUBSET (1 .. n) /\ S \in SUBSET (0 .. n)
      BY <1>2 DEF StruckUpTo
    <2> HIDE DEF S
    <2>2. S # {} => Max(S) \in S
      BY <1>2, <2>1, Greatest
    <2> QED
      BY <2>1, <2>2 DEF S
  <1>11. ASSUME INTERVAL \in Features, StruckUpTo(heard, n) # {}
         PROVE  translator.lastPitch = heard[Max(StruckUpTo(heard, n))].pitch
    BY <1>11 DEF Remembering, n
  <1>12. ASSUME INTERVAL \in Features, StruckUpTo(next, n + 1) # {}
         PROVE  t.lastPitch = next[Max(StruckUpTo(next, n + 1))].pitch
    <2>1. CASE struck
      BY <1>2, <1>3, <1>4, <1>12, <2>1
    <2>2. CASE ~struck
      BY <1>2, <1>3, <1>5, <1>10, <1>11, <1>12, <2>2
    <2> QED
      BY <2>1, <2>2
  <1>13. FeaturesSay(next, n + 1, input')
    <2>1. SOME_NOTE_ON \in Features =>
            (FeatureBegin(SOME_NOTE_ON) \in input' <=> \E p \in Pitches : HeldIn(next, n + 1, p))
      <3>1. SOME_NOTE_ON \in Features =>
              (FeatureBegin(SOME_NOTE_ON) \in input' <=> SOME_NOTE_ON \in SingleOn(t))
        BY <1>1, <1>6, SingleFound DEF SingleFeatures
      <3>2. SOME_NOTE_ON \in Features =>
              (SOME_NOTE_ON \in SingleOn(t) <=> \E p \in Pitches : t.noteVelocities[p] > 0)
        BY <1>a DEF SingleOn, SingleFeatures, SOME_NOTE_ON, NOTE_STRUCK, NOTE_RELEASED, VELOCITY
      <3> QED
        BY <1>9, <3>1, <3>2
    <2>2. NOTE_STRUCK \in Features =>
            (FeatureBegin(NOTE_STRUCK) \in input' <=> StruckIn(next, n + 1))
      <3>1. NOTE_STRUCK \in Features =>
              (FeatureBegin(NOTE_STRUCK) \in input' <=> NOTE_STRUCK \in SingleOn(t))
        BY <1>1, <1>6, SingleFound DEF SingleFeatures
      <3>2. NOTE_STRUCK \in Features => (NOTE_STRUCK \in SingleOn(t) <=> t.lastEventType = "on")
        BY DEF SingleOn, SingleFeatures, SOME_NOTE_ON, NOTE_STRUCK, NOTE_RELEASED, VELOCITY
      <3> QED
        BY <1>2, <1>3, <3>1, <3>2
    <2>3. NOTE_RELEASED \in Features =>
            (FeatureBegin(NOTE_RELEASED) \in input' <=>
               next[n + 1] # NoNote /\ ~StruckIn(next, n + 1) /\ HeldIn(next, n, next[n + 1].pitch))
      <3>1. NOTE_RELEASED \in Features =>
              (FeatureBegin(NOTE_RELEASED) \in input' <=> NOTE_RELEASED \in SingleOn(t))
        BY <1>1, <1>6, SingleFound DEF SingleFeatures
      <3>2. NOTE_RELEASED \in Features => (NOTE_RELEASED \in SingleOn(t) <=> t.lastEventType = "off")
        BY DEF SingleOn, SingleFeatures, SOME_NOTE_ON, NOTE_STRUCK, NOTE_RELEASED, VELOCITY
      <3>3. e # NoNote => (translator.noteVelocities[e.pitch] > 0 <=> HeldIn(next, n, e.pitch))
        BY <1>2, <1>8 DEF Remembering, n
      <3> QED
        BY <1>2, <1>3, <3>1, <3>2, <3>3
    <2>4. ASSUME INTERVAL \in Features, StruckIn(next, n + 1), StruckUpTo(next, n) # {}
          PROVE  IntervalPlacesIn(input') =
                   IntervalOn(next[n + 1].pitch - next[Max(StruckUpTo(next, n))].pitch)
      <3>1. struck
        BY <1>2, <2>4
      <3>2. IntervalPlacesIn(input') = IntervalOn(t.lastInterval)
        BY <1>1, <1>3, <1>6, <2>4, <3>1, IntervalFound
      <3>3. translator.lastPitch = next[Max(StruckUpTo(next, n))].pitch
        BY <1>2, <1>10, <1>11, <2>4
      <3>4. translator.lastPitch <= NOTE_MAX
        <4> DEFINE j == Max(StruckUpTo(heard, n))
        <4>1. j \in StruckUpTo(heard, n) /\ j \in 1 .. n
          BY <1>2, <1>10, <2>4
        <4>2. translator.lastPitch = heard[j].pitch
          BY <1>2, <1>11, <2>4
        <4> HIDE DEF j
        <4>3. heard[j] \in NoteEvents
          BY <1>1, <4>1 DEF StruckUpTo, StruckIn, n
        <4>4. heard[j].pitch \in 0 .. NOTE_MAX
          BY <4>3, PitchesType DEF MidiValue, NOTE_MAX
        <4> QED
          BY <4>2, <4>4 DEF NOTE_MAX
      <3> QED
        BY <1>2, <1>3, <2>4, <3>1, <3>2, <3>3, <3>4
    <2>5. (n + 1) - 1 = n
      BY <1>2
    <2> HIDE DEF struck
    <2> QED
      BY <2>1, <2>2, <2>3, <2>4, <2>5 DEF FeaturesSay
  <1>14. Len(next) = n + 1
    BY <1>2
  <1>15. /\ \A p \in Pitches : translator'.noteVelocities[p] > 0 <=> HeldIn(heard', Len(heard'), p)
         /\ INTERVAL \in Features /\ StruckUpTo(heard', Len(heard')) # {} =>
              translator'.lastPitch = heard'[Max(StruckUpTo(heard', Len(heard')))].pitch
         /\ FeaturesSay(heard', Len(heard'), input')
    BY <1>6, <1>7, <1>9, <1>12, <1>13, <1>14
  <1> QED
    BY <1>7, <1>15 DEF Remembering, Pitches, FeaturesSay

LEMMA NextRemembering == Built /\ Remembering /\ [Next]_vars => Remembering'
  <1> SUFFICES ASSUME Built, Remembering, [Next]_vars PROVE Remembering'
    OBVIOUS
  <1>0. translator \in Translator
    BY DEF Built
  <1>1. ASSUME NEW zero, StartSequence(zero) PROVE Remembering'
    <2>1. /\ translator'.lastEventType = translator.lastEventType
          /\ translator'.lastInterval = translator.lastInterval
          /\ translator'.noteVelocities = [p \in Pitches |-> 0]
      BY <1>0, <1>1, ResetType DEF StartSequence
    <2>2. \A p \in Pitches : ~(translator'.noteVelocities[p] > 0)
      BY <2>1
    <2>3. pc' = "advance" /\ Len(heard') = 0
      BY <1>1 DEF StartSequence
    <2> QED
      BY <2>1, <2>2, <2>3, NothingHeard DEF Remembering
  <1>2. ASSUME pc' = "advance", NEW c \in Controllers, NEW value \in CtrlValues, Changing(c, value)
        PROVE  Remembering'
    <2>1. /\ translator'.lastEventType = translator.lastEventType
          /\ translator'.lastInterval = translator.lastInterval
          /\ translator'.noteVelocities = translator.noteVelocities
          /\ translator'.lastPitch = translator.lastPitch
      <3>1. translator' = UpdateCtrlValue(translator, c, value)
        BY <1>2 DEF Changing
      <3>2. TargetChanged(translator, c, value, UpdateCtrlValue(translator, c, value))
        BY <1>0, ControlType
      <3> QED
        BY <3>1, <3>2 DEF TargetChanged
    <2> QED
      BY <1>2, <2>1 DEF Changing, Remembering
  <1>3. ASSUME NEW e \in NoteEvents \cup {NoNote}, NEW hot \in HotIndexes, Updating(e, hot)
        PROVE  Remembering'
    BY <1>3, UpdateSays
  <1>4. CASE /\ UNCHANGED <<translator, fresh, heard, sequence, updates, input>>
             /\ pc' = "judge" => pc = "judge"
    BY <1>4 DEF Remembering
  <1> QED
    BY <1>1, <1>2, <1>3, <1>4, Steps

\* The features of an input say what the events of the sequence say, however
\* long it is and whatever keys were struck twice or released twice: whether a
\* key is held, whether one was struck or released at this update, and how far
\* a note is from the one struck before it.
THEOREM FeaturesAreTrue == Spec => []FeaturesTrue
  <1> DEFINE I == Built /\ Remembering
  <1>1. Init => I \/ Unbuilt
    BY InitEither, InitTypeOK, InitRemembering
  <1>2. I /\ [Next]_vars => I'
    BY NextTypeOK, NextRemembering
  <1>3. I \/ Unbuilt => FeaturesTrue
    BY FeaturesTrueIs, UnbuiltClaims DEF Remembering
  <1> HIDE DEF I
  <1> QED
    BY <1>1, <1>2, <1>3, UnbuiltStays, PTL DEF Spec

-----------------------------------------------------------------------------
(* A zeroed network has forgotten.                                         *)

\* The units that feed_forward calculates, in its order, and how it goes
\* through them from a network to the next.
CalculatedCount == UnitCount - BiasId - 1
Calculated == 1 .. CalculatedCount
CalculatedUnits == [k \in Calculated |-> BiasId + k]
IsFeeding(run, base) ==
  run = [T \in SUBSET Calculated |->
           IF T = {} THEN base ELSE Activate(run[T \ {Max(T)}], CalculatedUnits[Max(T)])]

LEMMA CalculatedPlaces ==
  /\ BiasId \in Nat /\ UnitCount \in Nat /\ CalculatedCount \in Nat
  /\ BiasId + CalculatedCount = UnitCount - 1
  /\ \A k \in Calculated : BiasId + k \in Units /\ BiasId + k > BiasId
  /\ IsFiniteSet(Calculated)
  /\ \A T \in SUBSET Calculated : T # {} => Max(T) \in T
  <1>1. /\ BiasId \in Nat /\ UnitCount \in Nat /\ CalculatedCount \in Nat
        /\ BiasId + CalculatedCount = UnitCount - 1
    BY NetworkAssumption DEF BiasId, FirstOutputId, CalculatedCount
  <1>2. \A k \in Calculated : BiasId + k \in Units /\ BiasId + k > BiasId
    BY <1>1 DEF Calculated, Units
  <1>3. IsFiniteSet(Calculated)
    BY <1>1, FS_Interval DEF Calculated
  <1>4. ASSUME NEW T \in SUBSET Calculated, T # {} PROVE Max(T) \in T
    <2>1. T \in SUBSET (0 .. CalculatedCount)
      BY <1>1 DEF Calculated
    <2> QED
      BY <1>1, <1>4, <2>1, Greatest
  <1> QED
    BY <1>1, <1>2, <1>3, <1>4

\* feed_forward's loop ends for every base.
LEMMA FeedingExists ==
  ASSUME NEW base
  PROVE  \E run : IsFeeding(run, base)
  <1> DEFINE Step(g, T) == IF T = {} THEN base ELSE Activate(g[T \ {Max(T)}], CalculatedUnits[Max(T)])
             UpTo(g, n) == \A T \in SUBSET Calculated : Cardinality(T) <= n => g[T] = Step(g, T)
             N == {n \in Nat : \E g : UpTo(g, n)}
  <1>1. \A T \in SUBSET Calculated : IsFiniteSet(T) /\ Cardinality(T) \in Nat
    BY CalculatedPlaces, FS_Subset, FS_CardinalityType
  <1>2. 0 \in N
    <2> DEFINE g == [T \in SUBSET Calculated |-> base]
    <2>1. UpTo(g, 0)
      BY <1>1, FS_EmptySet
    <2> QED
      BY <2>1
  <1>3. ASSUME NEW n \in Nat, n \in N PROVE n + 1 \in N
    <2>1. PICK g : UpTo(g, n)
      BY <1>3
    <2> DEFINE h == [T \in SUBSET Calculated |-> Step(g, T)]
    <2>2. ASSUME NEW T \in SUBSET Calculated, Cardinality(T) <= n + 1 PROVE h[T] = Step(h, T)
      <3> DEFINE U == T \ {Max(T)}
      <3>1. CASE T = {}
        BY <3>1
      <3>2. CASE T # {}
        <4>4. Max(T) \in T
          BY <3>2, CalculatedPlaces
        <4>1. U \in SUBSET Calculated /\ Cardinality(U) <= n
          BY <1>1, <2>2, <3>2, <4>4, FS_RemoveElement
        <4>2. g[U] = Step(g, U)
          BY <2>1, <4>1
        <4>3. h[U] = Step(g, U)
          BY <4>1
        <4> QED
          BY <3>2, <4>2, <4>3
      <3> QED
        BY <3>1, <3>2
    <2>3. UpTo(h, n + 1)
      BY <2>2
    <2> HIDE DEF h, UpTo
    <2> QED
      BY <2>3
  <1> HIDE DEF N
  <1>4. Nat \subseteq N
    BY <1>2, <1>3, Induction
  <1>5. PICK g : UpTo(g, Cardinality(Calculated))
    <2>1. Cardinality(Calculated) \in N
      BY <1>1, <1>4
    <2> QED
      BY <2>1 DEF N
  <1> DEFINE h == [T \in SUBSET Calculated |-> g[T]]
  <1>6. ASSUME NEW T \in SUBSET Calculated PROVE h[T] = Step(h, T)
    <2>1. Cardinality(T) <= Cardinality(Calculated)
      BY CalculatedPlaces, FS_Subset
    <2>2. T # {} => T \ {Max(T)} \in SUBSET Calculated
      OBVIOUS
    <2> QED
      BY <1>5, <2>1, <2>2
  <1>7. IsFeeding(h, base)
    BY <1>6 DEF IsFeeding
  <1> QED
    BY <1>7

\* What feed_forward begins with.
Presented(n, from) ==
  [n EXCEPT !.activations = [u \in Units |-> IF u \in InputIds THEN from ELSE @[u]],
            !.states = n.oldStates, !.oldStates = n.states]

LEMMA FeedForwardIs ==
  ASSUME NEW n, NEW from
  PROVE  \E run : IsFeeding(run, Presented(n, from)) /\ FeedForward(n, from) = run[Calculated]
  <1> DEFINE base == Presented(n, from)
             run == CHOOSE run : IsFeeding(run, base)
  <1>1. FeedForward(n, from) = run[Calculated]
    <2>1. FeedForward(n, from) = FoldLeft(Activate, base, CalculatedUnits)
      BY DEF FeedForward, Presented, CalculatedUnits, Calculated, CalculatedCount
    <2>2. DOMAIN CalculatedUnits = Calculated
      BY DEF CalculatedUnits
    <2> QED
      BY <2>1, <2>2 DEF FoldLeft, MapThenFoldSet, IsFeeding
  <1>2. IsFeeding(run, base)
    BY FeedingExists
  <1> QED
    BY <1>1, <1>2

\* The network after the first k of them.
LEMMA FedStep ==
  ASSUME NEW run, NEW base, IsFeeding(run, base), NEW k \in Nat, k + 1 \in Calculated
  PROVE  run[1 .. k + 1] = Activate(run[1 .. k], BiasId + (k + 1))
  <1> DEFINE T == 1 .. k + 1
  <1>0. k + 1 <= CalculatedCount /\ CalculatedCount \in Nat
    BY CalculatedPlaces DEF Calculated
  <1>1. T \in SUBSET Calculated /\ T # {} /\ k + 1 \in T
    BY <1>0 DEF Calculated
  <1>2. Max(T) = k + 1
    <2>1. k + 1 \in Nat /\ T \in SUBSET (0 .. k + 1)
      OBVIOUS
    <2> HIDE DEF T
    <2>2. Max(T) \in T /\ Max(T) >= k + 1
      BY <1>1, <2>1, Greatest
    <2>3. Max(T) \in 0 .. k + 1
      BY <2>1, <2>2
    <2> QED
      BY <2>2, <2>3
  <1>3. T \ {k + 1} = 1 .. k
    OBVIOUS
  <1> HIDE DEF T
  <1>4. run[T] = Activate(run[T \ {Max(T)}], CalculatedUnits[Max(T)])
    BY <1>1 DEF IsFeeding
  <1>5. CalculatedUnits[k + 1] = BiasId + (k + 1)
    BY DEF CalculatedUnits
  <1> QED
    BY <1>2, <1>3, <1>4, <1>5 DEF T

\* The arrays of a network that this is about.
Shaped(n) ==
  /\ {"states", "oldStates", "activations"} \subseteq DOMAIN n
  /\ DOMAIN n.states = Units /\ DOMAIN n.oldStates = Units /\ DOMAIN n.activations = Units
\* The states and the old states of the input and of the bias are never calculated.
InputResting(n) == \A u \in 0 .. BiasId : n.states[u] = {} /\ n.oldStates[u] = {}
\* All a network has calculated up to a unit depends on X only.
Within(n, X, last) ==
  /\ Shaped(n) /\ InputResting(n)
  /\ \A u \in Units : n.activations[u] \subseteq X /\ n.oldStates[u] \subseteq X
  /\ \A u \in Units : u <= last => n.states[u] \subseteq X

\* The gate of a connection is a unit.
LEMMA GaterPlaces ==
  \A conn \in DOMAIN Gater : Gater[conn] \in Units
  <1> SUFFICES ASSUME NEW conn \in DOMAIN Gater PROVE Gater[conn] \in Units
    OBVIOUS
  <1> DEFINE S == Gaters(conn)
  <1>1. PICK gc \in GatedConns : conn = gc[2]
    BY DEF Gater
  <1>2. GatedConns \subseteq Units \X Connections
    BY NetworkAssumption
  <1>3. gc = <<gc[1], conn>> /\ gc[1] \in Units
    BY <1>1, <1>2
  <1>4. S # {} /\ S \subseteq Units
    BY <1>1, <1>3 DEF Gaters
  <1>5. Gater[conn] = Max(S)
    BY DEF Gater
  <1> HIDE DEF S
  <1>6. UnitCount - 1 \in Nat
    BY NetworkAssumption
  <1>7. S \in SUBSET (0 .. UnitCount - 1)
    BY <1>4 DEF Units
  <1>8. Max(S) \in S
    BY <1>4, <1>6, <1>7, Greatest
  <1> QED
    BY <1>4, <1>5, <1>8

\* A unit that is calculated depends on X only if all it is calculated from does.
LEMMA ActivateWithin ==
  ASSUME NEW n, NEW X, NEW id \in Units, id > BiasId, Within(n, X, id - 1)
  PROVE  Within(Activate(n, id), X, id)
  <1> DEFINE selfGain == IF id \in Cells THEN n.activations[SelfConnGater[id]] ELSE {}
             gated == {i \in Incoming(id) : <<i, id>> \in DOMAIN Gater}
             gain == [i \in Incoming(id) |->
                        IF i \in gated THEN n.activations[Gater[<<i, id>>]] ELSE {}]
             into == [i \in Incoming(id) |-> gain[i] \cup n.activations[i]]
             sum == (UNION {into[i] : i \in Incoming(id)})
                      \cup (IF id \in Cells THEN selfGain \cup n.oldStates[id] ELSE {})
             selfGains == [c \in Cells |-> IF c = id THEN selfGain ELSE n.selfConnGains[c]]
             connGains == [conn \in DOMAIN Gater |->
                             IF conn[2] = id THEN gain[conn[1]] ELSE n.connGains[conn]]
             sums == [conn \in DOMAIN Gater |->
                        IF conn[2] = id THEN n.activations[conn[1]] ELSE n.rightTermSums[conn]]
             traces == [conn \in Connections |->
                          IF conn[2] # id THEN n.traces[conn]
                          ELSE into[conn[1]] \cup
                                 IF id \in Cells THEN selfGain \cup n.traces[conn] ELSE {}]
             r == Activate(n, id)
  <1>1. /\ Shaped(n) /\ InputResting(n)
        /\ \A u \in Units : n.activations[u] \subseteq X /\ n.oldStates[u] \subseteq X
        /\ \A u \in Units : u <= id - 1 => n.states[u] \subseteq X
    BY DEF Within
  <1>2. sum \subseteq X
    <2>1. Incoming(id) \subseteq Units
      BY DEF Incoming
    <2>2. selfGain \subseteq X
      BY <1>1, NetworkAssumption
    <2>3. \A i \in Incoming(id) : gain[i] \subseteq X
      BY <1>1, GaterPlaces
    <2>4. \A i \in Incoming(id) : into[i] \subseteq X
      BY <1>1, <2>1, <2>3
    <2> HIDE DEF selfGain, gain, into
    <2> QED
      BY <1>1, <2>2, <2>4
  <1>3. r = [n EXCEPT !.selfConnGains = selfGains, !.connGains = connGains,
                      !.rightTermSums = sums, !.traces = traces,
                      !.states = [n.states EXCEPT ![id] = sum],
                      !.activations = [n.activations EXCEPT ![id] = sum]]
    BY DEF Activate
  <1> HIDE DEF selfGain, gated, gain, into, sum, selfGains, connGains, sums, traces, r
  <1>4. /\ {"states", "oldStates", "activations"} \subseteq DOMAIN r
        /\ r.states = [n.states EXCEPT ![id] = sum]
        /\ r.activations = [n.activations EXCEPT ![id] = sum]
        /\ r.oldStates = n.oldStates
    BY <1>1, <1>3 DEF Shaped
  <1>5. /\ Shaped(r)
        /\ \A u \in Units : r.states[u] = IF u = id THEN sum ELSE n.states[u]
        /\ \A u \in Units : r.activations[u] = IF u = id THEN sum ELSE n.activations[u]
    BY <1>1, <1>4 DEF Shaped
  <1>6. InputResting(r)
    <2>1. ASSUME NEW u \in 0 .. BiasId PROVE u # id /\ u \in Units
      BY NetworkAssumption DEF BiasId, Units, FirstOutputId
    <2> QED
      BY <1>1, <1>4, <1>5, <2>1 DEF InputResting
  <1>7. \A u \in Units : u <= id /\ u # id => u <= id - 1
    BY DEF Units
  <1> QED
    BY <1>1, <1>2, <1>4, <1>5, <1>6, <1>7 DEF Within, r

\* Every state is calculated, or is the input's or the bias's.
LEMMA FeedForwardWithin ==
  ASSUME NEW n, NEW X, NEW from,
         Shaped(n), InputResting(n), from \subseteq X,
         \A u \in Units : n.activations[u] \cup n.states[u] \subseteq X
  PROVE  Within(FeedForward(n, from), X, UnitCount - 1)
  <1> DEFINE base == Presented(n, from)
             fed == [u \in Units |-> IF u \in InputIds THEN from ELSE n.activations[u]]
  <1>1. PICK run : IsFeeding(run, base) /\ FeedForward(n, from) = run[Calculated]
    BY FeedForwardIs
  <1>2. Within(base, X, BiasId)
    <2>1. base = [n EXCEPT !.activations = fed, !.states = n.oldStates, !.oldStates = n.states]
      BY DEF Presented
    <2>2. \A u \in Units : fed[u] \subseteq X
      OBVIOUS
    <2>3. DOMAIN fed = Units
      OBVIOUS
    <2> HIDE DEF base, fed
    <2>4. /\ {"states", "oldStates", "activations"} \subseteq DOMAIN base
          /\ base.activations = fed /\ base.states = n.oldStates /\ base.oldStates = n.states
      BY <2>1 DEF Shaped
    <2>5. ASSUME NEW u \in Units, u <= BiasId PROVE u \in 0 .. BiasId
      BY <2>5, NetworkAssumption DEF Units, BiasId
    <2>6. Shaped(base) /\ InputResting(base)
      BY <2>3, <2>4 DEF Shaped, InputResting
    <2> QED
      BY <2>2, <2>4, <2>5, <2>6 DEF Within, InputResting
  <1> HIDE DEF base
  <1> DEFINE N == {k \in Nat : k <= CalculatedCount => Within(run[1 .. k], X, BiasId + k)}
  <1>3. 0 \in N
    <2>1. 1 .. 0 = {} /\ {} \in SUBSET Calculated
      OBVIOUS
    <2>2. run[1 .. 0] = base
      BY <1>1, <2>1 DEF IsFeeding
    <2>3. BiasId + 0 = BiasId
      BY CalculatedPlaces
    <2> QED
      BY <1>2, <2>2, <2>3
  <1>4. ASSUME NEW k \in Nat, k \in N PROVE k + 1 \in N
    <2> SUFFICES ASSUME k + 1 <= CalculatedCount
                 PROVE  Within(run[1 .. k + 1], X, BiasId + (k + 1))
      OBVIOUS
    <2>1. CalculatedCount \in Nat /\ BiasId \in Nat
      BY CalculatedPlaces
    <2>2. k + 1 \in Calculated
      BY <2>1 DEF Calculated
    <2>3. run[1 .. k + 1] = Activate(run[1 .. k], BiasId + (k + 1))
      BY <1>1, <2>2, FedStep
    <2>4. k <= CalculatedCount /\ (BiasId + (k + 1)) - 1 = BiasId + k
      BY <2>1
    <2>5. Within(run[1 .. k], X, (BiasId + (k + 1)) - 1)
      BY <1>4, <2>4
    <2>6. BiasId + (k + 1) \in Units /\ BiasId + (k + 1) > BiasId
      BY <2>2, CalculatedPlaces
    <2> QED
      BY <2>3, <2>5, <2>6, ActivateWithin
  <1> HIDE DEF N
  <1>5. CalculatedCount \in N
    <2>1. Nat \subseteq N
      BY <1>3, <1>4, Induction
    <2> QED
      BY <2>1, CalculatedPlaces
  <1>6. Within(run[1 .. CalculatedCount], X, BiasId + CalculatedCount)
    BY <1>5, CalculatedPlaces DEF N
  <1> QED
    BY <1>1, <1>6, CalculatedPlaces DEF Calculated

\* The inductive invariant: states that are kept may be used again, so a
\* network that has forgotten is one whose states depend on what is since.
Forgotten(n, X) ==
  /\ Shaped(n) /\ InputResting(n)
  /\ \A u \in Units : n.activations[u] \cup n.states[u] \subseteq X

LEMMA ZeroedForgotten ==
  ASSUME NEW n, NEW X, NEW zero, Forgotten(n, X)
  PROVE  Forgotten(Zeroed(zero, n), IF zero THEN {} ELSE X)
  <1>1. CASE zero
    <2> DEFINE r == ZeroNetwork(n)
               none == [u \in Units |-> {}]
               changes == [conn \in Connections |-> {}]
    <2>1. r = [n EXCEPT !.states = none, !.activations = none, !.oldWeightChanges = changes]
      BY DEF ZeroNetwork
    <2>2. DOMAIN none = Units /\ \A u \in Units : none[u] = {}
      OBVIOUS
    <2> HIDE DEF r, none, changes
    <2>3. /\ {"states", "oldStates", "activations"} \subseteq DOMAIN r
          /\ r.states = none /\ r.activations = none /\ r.oldStates = n.oldStates
      BY <2>1 DEF Forgotten, Shaped
    <2>4. \A u \in 0 .. BiasId : u \in Units
      BY NetworkAssumption DEF BiasId, Units, FirstOutputId
    <2>5. Shaped(r) /\ InputResting(r)
      BY <2>2, <2>3, <2>4 DEF Forgotten, Shaped, InputResting
    <2>6. Forgotten(r, {})
      BY <2>2, <2>3, <2>5 DEF Forgotten
    <2> QED
      BY <1>1, <2>6 DEF Zeroed, r
  <1>2. CASE ~zero
    BY <1>2 DEF Zeroed
  <1> QED
    BY <1>1, <1>2

LEMMA BackpropagateForgotten ==
  ASSUME NEW n, NEW X, NEW target, Forgotten(n, X)
  PROVE  Forgotten(Backpropagate(n, target), X)
  <1> DEFINE extended == ExtendedTraces(n)
             traced == [n EXCEPT !.extTraces = extended]
             resp == Responsibilities(traced, target)
             change == [conn \in Connections |-> WeightChange(traced, resp, conn)]
             weights == [conn \in Connections |-> traced.weights[conn] \cup change[conn]]
             r == Backpropagate(n, target)
  <1>1. r = [traced EXCEPT !.weights = weights, !.oldWeightChanges = change]
    BY DEF Backpropagate
  <1> HIDE DEF extended, resp, change, weights, r
  <1>2. /\ {"states", "oldStates", "activations"} \subseteq DOMAIN traced
        /\ traced.states = n.states /\ traced.activations = n.activations
        /\ traced.oldStates = n.oldStates
    BY DEF Forgotten, Shaped
  <1> HIDE DEF traced
  <1>3. /\ {"states", "oldStates", "activations"} \subseteq DOMAIN r
        /\ r.states = n.states /\ r.activations = n.activations /\ r.oldStates = n.oldStates
    BY <1>1, <1>2
  <1>4. Forgotten(r, X)
    BY <1>3 DEF Forgotten, Shaped, InputResting
  <1> QED
    BY <1>4 DEF r

LEMMA InitForgotten == Init => Forgotten(net, since)
  <1> SUFFICES ASSUME Init PROVE Forgotten(net, since)
    OBVIOUS
  <1>1. Forgotten(NewNetwork, {})
    <2>1. \A u \in 0 .. BiasId : u \in Units
      BY NetworkAssumption DEF BiasId, Units, FirstOutputId
    <2> QED
      BY <2>1 DEF Forgotten, Shaped, InputResting, NewNetwork
  <1>2. net = Zeroed(TRUE, NewNetwork) /\ since = {}
    BY DEF Init, Zeroed
  <1> QED
    BY <1>1, <1>2, ZeroedForgotten

LEMMA NextForgotten == Forgotten(net, since) /\ [Next]_vars => Forgotten(net', since')
  <1> SUFFICES ASSUME Forgotten(net, since), [Next]_vars PROVE Forgotten(net', since')
    OBVIOUS
  <1>1. ASSUME NEW zero, StartSequence(zero) PROVE Forgotten(net', since')
    BY <1>1, ZeroedForgotten DEF StartSequence, SinceZeroed
  <1>2. CASE StartEpoch
    BY <1>1, <1>2 DEF StartEpoch
  <1>3. CASE StartValidation
    BY <1>1, <1>3 DEF StartValidation
  <1>4. CASE Update
    <2>1. PICK from : net' = FeedForward(net, from) /\ since' = since \cup from
      BY <1>4 DEF Update
    <2> DEFINE r == FeedForward(net, from)
               X == since \cup from
    <2>2. \A u \in Units : net.activations[u] \cup net.states[u] \subseteq X
      BY DEF Forgotten
    <2>3. from \subseteq X
      OBVIOUS
    <2> HIDE DEF X
    <2>4. Within(r, X, UnitCount - 1)
      BY <2>2, <2>3, FeedForwardWithin DEF Forgotten
    <2> HIDE DEF r
    <2>5. \A u \in Units : u <= UnitCount - 1
      BY NetworkAssumption DEF Units
    <2>6. Forgotten(r, X)
      BY <2>4, <2>5 DEF Within, Forgotten
    <2> QED
      BY <2>1, <2>6 DEF r, X
  <1>5. CASE Learn
    <2>1. PICK train \in BOOLEAN, abandon \in BOOLEAN, zero \in ZeroOnReset :
            /\ net' = Zeroed(abandon /\ zero, IF train THEN Backpropagate(net, {sequence}) ELSE net)
            /\ since' = SinceZeroed(abandon /\ zero)
      BY <1>5 DEF Learn
    <2> DEFINE n == IF train THEN Backpropagate(net, {sequence}) ELSE net
    <2>2. Forgotten(n, since)
      BY BackpropagateForgotten
    <2> HIDE DEF n
    <2>3. net' = Zeroed(abandon /\ zero, n)
      BY <2>1 DEF n
    <2> QED
      BY <2>1, <2>2, <2>3, ZeroedForgotten DEF SinceZeroed
  <1>6. CASE ControlChange \/ StrayChange \/ Assess \/ EndSequence \/ UNCHANGED vars
    BY <1>6 DEF ControlChange, StrayChange, Assess, EndSequence, vars, histories
  <1> QED
    BY <1>2, <1>3, <1>4, <1>5, <1>6 DEF Next

\* A zeroed network has forgotten, whatever its units, connections and gates
\* are: what it calculates depends on the sequences presented since and on no
\* other, though zero_network leaves the old states as they are: at the next
\* step they become the states, which are all overwritten, and the states that
\* were zeroed become the old ones, which are used.
THEOREM ZeroedForgets == Spec => []ZeroForgets
  <1>1. Init => Forgotten(net, since)
    BY InitForgotten
  <1>2. Forgotten(net, since) /\ [Next]_vars => Forgotten(net, since)'
    <2>1. Units' = Units /\ BiasId' = BiasId
      BY DEF Units, BiasId
    <2> QED
      BY <2>1, NextForgotten DEF Forgotten, Shaped, InputResting
  <1>3. Forgotten(net, since) => ZeroForgets
    BY DEF Forgotten, ZeroForgets
  <1> QED
    BY <1>1, <1>2, <1>3, PTL DEF Spec
=============================================================================
