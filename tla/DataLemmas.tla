----------------------------- MODULE DataLemmas -----------------------------
(***************************************************************************)
(* Induction for the proofs of this project, and what it shows of folds    *)
(* and sums; then facts about sequences.                                   *)
(*                                                                         *)
(* The induction theorems of the library take a predicate as a parameter,  *)
(* which the provers cannot instantiate.  WFMin does not: from it comes    *)
(* that a set of naturals has a least element, and so induction over a     *)
(* set, which a proof chooses as that of the numbers it is about.          *)
(***************************************************************************)
EXTENDS Integers, FiniteSets, Sequences, SequencesExt, FiniteSetsExt, FiniteSetTheorems,
        SequenceTheorems, WellFoundedInduction, TLAPS

\* A set of numbers has a least one.
LEMMA LeastNat ==
  ASSUME NEW T \in SUBSET Nat, T /= {}
  PROVE  \E x \in T : \A y \in T : x <= y
<1>1. IsWellFoundedOn(OpToRel(<, Nat), Nat)
  BY NatLessThanWellFounded
<1> DEFINE R == OpToRel(<, Nat)
<1>2. \A x, y \in Nat : x < y => <<x, y>> \in R
  BY DEF OpToRel
<1> HIDE DEF R
<1>3. IsWellFoundedOn(R, Nat)
  BY <1>1 DEF R
<1>4. PICK x \in T : \A y \in T : ~ (<<y, x>> \in R)
  BY <1>3, WFMin
<1>5. \A y \in T : ~ (y < x)
  BY <1>2, <1>4, Zenon
<1>6. x \in Nat /\ \A y \in T : y \in Nat
  OBVIOUS
<1>7. \A y \in T : x <= y
  BY <1>5, <1>6
<1> QED BY <1>7

\* Induction, for the set of the numbers that something holds of.
LEMMA InductionNat ==
  ASSUME NEW S, 0 \in S, \A n \in Nat : n \in S => n + 1 \in S
  PROVE  Nat \subseteq S
<1> DEFINE T == Nat \ S
<1> SUFFICES ASSUME T /= {} PROVE FALSE
  OBVIOUS
<1>1. PICK x \in T : \A y \in T : x <= y
  BY LeastNat, Zenon
<1>2. x /= 0 /\ x - 1 \in Nat
  BY <1>1
<1> QED BY <1>1, <1>2

(* A set with some of the places 1..n has a first of them.                 *)
LEMMA FirstOf ==
  ASSUME NEW n \in Nat, NEW T, \E k \in 1..n : k \in T
  PROVE  \E k \in 1..n : k \in T /\ \A j \in 1..(k - 1) : j \notin T
<1> DEFINE S == (1..n) \cap T
<1>1. S \in SUBSET Nat /\ S /= {}
  OBVIOUS
<1>2. PICK k \in S : \A j \in S : k <= j
  <2> HIDE DEF S
  <2> QED BY <1>1, LeastNat
<1>3. k \in 1..n /\ k \in T
  OBVIOUS
<1>4. ASSUME NEW j \in 1..(k - 1), j \in T PROVE FALSE
  <2>1. j \in S /\ j < k
    BY <1>3, <1>4
  <2> QED BY <1>2, <1>3, <2>1
<1> QED BY <1>3, <1>4

\* The least element of a set, as FiniteSetsExt has it.
LEMMA MinIs ==
  ASSUME NEW S \in SUBSET Nat, S /= {}
  PROVE  Min(S) \in S /\ \A x \in S : Min(S) <= x
BY LeastNat DEF Min

-----------------------------------------------------------------------------
(* Folds of finite sets.                                                   *)

\* it folds h over the subsets of D of at most k elements, which it takes in the order of c.
FoldsUpTo(it, D, k, V, c, b, h) ==
  /\ it \in [{s \in SUBSET D : Cardinality(s) <= k} -> V]
  /\ it[{}] = b
  /\ \A s \in SUBSET D : s /= {} /\ Cardinality(s) <= k => it[s] = h[<<c[s], it[s \ {c[s]}]>>]

\* One more element can be folded.
LEMMA FoldStep ==
  ASSUME NEW D, IsFiniteSet(D), NEW V, NEW b \in V, NEW h \in [D \X V -> V], NEW c,
         \A s \in SUBSET D : s /= {} => c[s] \in s,
         NEW k \in Nat, NEW it, FoldsUpTo(it, D, k, V, c, b, h)
  PROVE  \E jt : FoldsUpTo(jt, D, k + 1, V, c, b, h)
<1> DEFINE Dom(j) == {s \in SUBSET D : Cardinality(s) <= j}
           jt == [s \in Dom(k + 1) |-> IF s = {} THEN b ELSE h[<<c[s], it[s \ {c[s]}]>>]]
<1>1. \A s \in SUBSET D : IsFiniteSet(s) /\ Cardinality(s) \in Nat
  BY FS_Subset, FS_CardinalityType
<1>2. \A s \in SUBSET D : s /= {} => Cardinality(s \ {c[s]}) = Cardinality(s) - 1
  BY <1>1, FS_RemoveElement
<1>3. \A s \in Dom(k + 1) : s /= {} => s \ {c[s]} \in Dom(k)
  BY <1>1, <1>2
<1>4. it \in [Dom(k) -> V]
  BY DEF FoldsUpTo
<1>5. \A s \in Dom(k + 1) : s /= {} => c[s] \in D
  OBVIOUS
<1>6. jt \in [Dom(k + 1) -> V]
  BY <1>3, <1>4, <1>5
<1>7. {} \in Dom(k + 1) /\ {} \in Dom(k)
  BY FS_EmptySet
<1>8. \A s \in Dom(k) : jt[s] = it[s]
  <2> SUFFICES ASSUME NEW s \in Dom(k) PROVE jt[s] = it[s]
    OBVIOUS
  <2>1. s \in Dom(k + 1)
    BY <1>1
  <2>2. CASE s = {}
    BY <2>1, <2>2 DEF FoldsUpTo
  <2>3. CASE s /= {}
    BY <2>1, <2>3 DEF FoldsUpTo
  <2> QED BY <2>2, <2>3
<1>9. \A s \in SUBSET D : s /= {} /\ Cardinality(s) <= k + 1 => jt[s] = h[<<c[s], jt[s \ {c[s]}]>>]
  <2> SUFFICES ASSUME NEW s \in SUBSET D, s /= {}, Cardinality(s) <= k + 1
               PROVE  jt[s] = h[<<c[s], jt[s \ {c[s]}]>>]
    OBVIOUS
  <2>1. jt[s \ {c[s]}] = it[s \ {c[s]}]
    BY <1>3, <1>8
  <2> QED BY <2>1
<1>10. jt[{}] = b
  BY <1>7
<1> HIDE DEF jt
<1> QED BY <1>6, <1>9, <1>10 DEF FoldsUpTo

IsStep(h, D, V) == h \in [D \X V -> V]
IsChoice(c, D) == \A s \in SUBSET D : s /= {} => c[s] \in s

IsFold(it, D, V, c, b, h) ==
  /\ it \in [SUBSET D -> V]
  /\ it[{}] = b
  /\ \A s \in SUBSET D : s /= {} => it[s] = h[<<c[s], it[s \ {c[s]}]>>]

\* A fold over the subsets of a finite set exists, whatever it folds and in whichever
\* order it takes the elements.
LEMMA FoldExists ==
  ASSUME NEW D, IsFiniteSet(D), NEW V, NEW b \in V, NEW h, IsStep(h, D, V), NEW c,
         IsChoice(c, D)
  PROVE  \E it : IsFold(it, D, V, c, b, h)
<1> DEFINE Good == {k \in Nat : \E it : FoldsUpTo(it, D, k, V, c, b, h)}
<1>1. \A s \in SUBSET D : IsFiniteSet(s) /\ Cardinality(s) \in Nat
  BY FS_Subset, FS_CardinalityType
<1>2. 0 \in Good
  <2>1. {s \in SUBSET D : Cardinality(s) <= 0} = {{}}
    BY <1>1, FS_EmptySet
  <2> DEFINE it == [s \in {{}} |-> b]
  <2>2. FoldsUpTo(it, D, 0, V, c, b, h)
    BY <2>1 DEF FoldsUpTo
  <2> QED BY <2>2
<1>3. \A k \in Nat : k \in Good => k + 1 \in Good
  BY FoldStep DEF IsChoice, IsStep
<1>4. Nat \subseteq Good
  <2> HIDE DEF Good
  <2> QED BY <1>2, <1>3, InductionNat
<1>5. PICK it : FoldsUpTo(it, D, Cardinality(D), V, c, b, h)
  BY <1>1, <1>4
<1>6. \A s \in SUBSET D : Cardinality(s) <= Cardinality(D)
  BY FS_Subset
<1>7. {s \in SUBSET D : Cardinality(s) <= Cardinality(D)} = SUBSET D
  BY <1>6
<1>8. it \in [SUBSET D -> V]
  BY <1>5, <1>7 DEF FoldsUpTo
<1> QED BY <1>5, <1>6, <1>8 DEF FoldsUpTo, IsFold

-----------------------------------------------------------------------------
(* Sums.                                                                   *)

IsSum(it, f, D) ==
  /\ it \in [SUBSET D -> Int]
  /\ it[{}] = 0
  /\ \A s \in SUBSET D : \A x \in s : it[s] = f[x] + it[s \ {x}]

SomeOf(s) == CHOOSE x \in s : TRUE

IsFoldSum(it, f) ==
  it = [s \in SUBSET DOMAIN f |-> IF s = {} THEN 0 ELSE f[SomeOf(s)] + it[s \ {SomeOf(s)}]]

\* A sum is the same whichever element it takes first.
LEMMA SumAnyOrder ==
  ASSUME NEW D, IsFiniteSet(D), NEW f \in [D -> Int], NEW it \in [SUBSET D -> Int],
         IsFoldSum(it, f)
  PROVE  IsSum(it, f, D)
<1> DEFINE Good(k) == \A s \in SUBSET D : Cardinality(s) = k => \A x \in s : it[s] = f[x] + it[s \ {x}]
           All == {k \in Nat : Good(k)}
<1>1. \A s \in SUBSET D : IsFiniteSet(s) /\ Cardinality(s) \in Nat
  BY FS_Subset, FS_CardinalityType
<1>2. \A s \in SUBSET D : \A x \in s : Cardinality(s \ {x}) = Cardinality(s) - 1
  BY <1>1, FS_RemoveElement
<1>3. 0 \in All
  <2>1. \A s \in SUBSET D : Cardinality(s) = 0 => s = {}
    BY <1>1, FS_EmptySet
  <2> QED BY <2>1
<1>4. ASSUME NEW k \in Nat, k \in All PROVE k + 1 \in All
  <2> SUFFICES ASSUME NEW s \in SUBSET D, Cardinality(s) = k + 1, NEW x \in s
               PROVE  it[s] = f[x] + it[s \ {x}]
    OBVIOUS
  <2>1. Good(k)
    BY <1>4
  <2> DEFINE y == SomeOf(s)
  <2>2. y \in s /\ it[s] = f[y] + it[s \ {y}]
    BY DEF SomeOf, IsFoldSum
  <2>3. CASE x = y
    BY <2>2, <2>3
  <2>4. CASE x /= y
    <3>1. Cardinality(s \ {y}) = k /\ Cardinality(s \ {x}) = k
      <4>1. Cardinality(s \ {y}) = Cardinality(s) - 1 /\ Cardinality(s \ {x}) = Cardinality(s) - 1
        BY <1>2, <2>2, Zenon
      <4>2. (k + 1) - 1 = k
        OBVIOUS
      <4> QED BY <4>1, <4>2
    <3>2. it[s \ {y}] = f[x] + it[(s \ {y}) \ {x}]
      BY <2>1, <2>2, <2>4, <3>1
    <3>3. it[s \ {x}] = f[y] + it[(s \ {x}) \ {y}]
      BY <2>1, <2>2, <2>4, <3>1
    <3>4. (s \ {x}) \ {y} = (s \ {y}) \ {x}
      OBVIOUS
    <3>5. f[x] \in Int /\ f[y] \in Int /\ it[(s \ {y}) \ {x}] \in Int
      BY <2>2
    <3> HIDE DEF y
    <3>6. it[s] = f[y] + (f[x] + it[(s \ {y}) \ {x}])
      BY <2>2, <3>2, Zenon
    <3>7. f[x] + it[s \ {x}] = f[x] + (f[y] + it[(s \ {y}) \ {x}])
      BY <3>3, <3>4, Zenon
    <3> QED BY <3>5, <3>6, <3>7
  <2> QED BY <2>3, <2>4
<1>5. Nat \subseteq All
  <2> HIDE DEF All
  <2> QED BY <1>3, <1>4, InductionNat
<1>6. \A s \in SUBSET D : Good(Cardinality(s))
  BY <1>1, <1>5
<1> QED BY <1>6 DEF IsSum, IsFoldSum

\* What SumFunction chooses.
LEMMA FoldFunctionDef ==
  ASSUME NEW f, NEW jt, IsFoldSum(jt, f)
  PROVE  \E it : IsFoldSum(it, f) /\ SumFunction(f) = it[DOMAIN f]
BY DEF IsFoldSum, SomeOf, SumFunction, SumFunctionOnSet, FoldFunctionOnSet, MapThenFoldSet

\* There is one such fold,
LEMMA FoldSumUnique ==
  ASSUME NEW f, IsFiniteSet(DOMAIN f), NEW it, NEW jt, IsFoldSum(it, f), IsFoldSum(jt, f)
  PROVE  it = jt
<1> DEFINE D == DOMAIN f
           Same == {k \in Nat : \A s \in SUBSET D : Cardinality(s) = k => it[s] = jt[s]}
<1>1. \A s \in SUBSET D : IsFiniteSet(s) /\ Cardinality(s) \in Nat
  BY FS_Subset, FS_CardinalityType
<1>2. 0 \in Same
  <2>1. \A s \in SUBSET D : Cardinality(s) = 0 => s = {}
    BY <1>1, FS_EmptySet
  <2> QED BY <2>1 DEF IsFoldSum
<1>3. ASSUME NEW k \in Nat, k \in Same PROVE k + 1 \in Same
  <2> SUFFICES ASSUME NEW s \in SUBSET D, Cardinality(s) = k + 1 PROVE it[s] = jt[s]
    OBVIOUS
  <2> DEFINE x == SomeOf(s)
  <2>1. s /= {}
    <3>1. k + 1 /= 0
      OBVIOUS
    <3> QED BY <3>1, FS_EmptySet
  <2>2. x \in s
    BY <2>1 DEF SomeOf
  <2>3. Cardinality(s \ {x}) = Cardinality(s) - 1
    BY <1>1, <2>2, FS_RemoveElement
  <2>4. Cardinality(s \ {x}) = k
    BY <2>3
  <2>5. it[s \ {x}] = jt[s \ {x}]
    BY <1>3, <2>4
  <2> QED BY <2>1, <2>5 DEF IsFoldSum
<1>4. Nat \subseteq Same
  <2> HIDE DEF Same
  <2> QED BY <1>2, <1>3, InductionNat
<1>5. \A s \in SUBSET D : it[s] = jt[s]
  BY <1>1, <1>4
<1> QED BY <1>5 DEF IsFoldSum

\* so that SumFunction is the sum.
LEMMA SumExists ==
  ASSUME NEW D, IsFiniteSet(D), NEW f \in [D -> Int]
  PROVE  \E it : IsSum(it, f, D) /\ SumFunction(f) = it[D]
<1> DEFINE c == [s \in SUBSET D |-> SomeOf(s)]
           h == [p \in D \X Int |-> f[p[1]] + p[2]]
<1>1. h \in [D \X Int -> Int]
  OBVIOUS
<1>2. \A s \in SUBSET D : s /= {} => c[s] \in s /\ c[s] = SomeOf(s)
  BY DEF SomeOf
<1>3. PICK jt : IsFold(jt, D, Int, c, 0, h)
  <2> HIDE DEF c, h
  <2>1. 0 \in Int /\ IsChoice(c, D) /\ IsStep(h, D, Int)
    BY <1>1, <1>2 DEF IsChoice, IsStep
  <2> QED BY <2>1, FoldExists
<1>4. \A s \in SUBSET D : s /= {} => jt[s] = f[c[s]] + jt[s \ {c[s]}]
  BY <1>2, <1>3 DEF IsFold
<1>5. jt \in [SUBSET D -> Int] /\ jt[{}] = 0
  BY <1>3 DEF IsFold
<1>6. IsFoldSum(jt, f)
  <2> HIDE DEF c
  <2> QED BY <1>2, <1>4, <1>5 DEF IsFoldSum
<1>7. SumFunction(f) = jt[D]
  <2>1. DOMAIN f = D
    OBVIOUS
  <2>2. PICK it : IsFoldSum(it, f) /\ SumFunction(f) = it[DOMAIN f]
    BY <1>6, FoldFunctionDef
  <2>3. it = jt
    BY <1>6, <2>1, <2>2, FoldSumUnique
  <2> QED BY <2>1, <2>2, <2>3
<1>8. IsSum(jt, f, D)
  BY <1>5, <1>6, SumAnyOrder
<1> QED BY <1>7, <1>8

\* Without its k-th place.
Without(f, n, k) == [i \in 1..(n - 1) |-> IF i < k THEN f[i] ELSE f[i + 1]]

ImageOf(p, n) == {p[i] : i \in 1..n}
OneToOne(p, n) == \A i, j \in 1..n : p[i] = p[j] => i = j
Picks(g, f, p, n) == \A i \in 1..n : g[i] = f[p[i]]
\* g is f in another order.
Reindexed(g, f, p, n, D) ==
  p \in [1..n -> D] /\ OneToOne(p, n) /\ g \in [1..n -> Int] /\ Picks(g, f, p, n)

\* The sum of some places of f is that of their image.
LEMMA SumReindex ==
  ASSUME NEW D, IsFiniteSet(D), NEW f \in [D -> Int], NEW it, IsSum(it, f, D),
         NEW n \in Nat, NEW p, NEW g, Reindexed(g, f, p, n, D)
  PROVE  SumFunction(g) = it[ImageOf(p, n)]
<1> USE DEF Reindexed
<1>1. IsFiniteSet(1..n)
  BY FS_Interval
<1>2. PICK jt : IsSum(jt, g, 1..n) /\ SumFunction(g) = jt[1..n]
  BY <1>1, SumExists
<1> DEFINE Im(m) == ImageOf(p, m)
           Same == {m \in Nat : m <= n => jt[1..m] = it[Im(m)]}
<1>3. 0 \in Same
  <2>1. 1..0 = {} /\ Im(0) = {}
    BY DEF ImageOf
  <2>2. it[{}] = 0 /\ jt[{}] = 0
    BY <1>2 DEF IsSum
  <2> QED BY <2>1, <2>2
<1>4. ASSUME NEW m \in Nat, m \in Same PROVE m + 1 \in Same
  <2> SUFFICES ASSUME m + 1 <= n PROVE jt[1..(m + 1)] = it[Im(m + 1)]
    OBVIOUS
  <2>1. m + 1 \in 1..n /\ p[m + 1] \in Im(m + 1)
    BY DEF ImageOf
  <2>2. (1..(m + 1)) \ {m + 1} = 1..m
    OBVIOUS
  <2>3. Im(m + 1) \ {p[m + 1]} = Im(m)
    <3>1. \A i \in 1..m : i \in 1..n /\ i \in 1..(m + 1) /\ p[i] /= p[m + 1]
      BY <2>1 DEF OneToOne
    <3>2. \A i \in 1..(m + 1) : i \in 1..m \/ i = m + 1
      OBVIOUS
    <3> QED BY <3>1, <3>2 DEF ImageOf
  <2>4. 1..(m + 1) \in SUBSET (1..n) /\ m + 1 \in 1..(m + 1)
    BY <2>1
  <2>5. jt[1..(m + 1)] = g[m + 1] + jt[1..m]
    <3>1. jt[1..(m + 1)] = g[m + 1] + jt[(1..(m + 1)) \ {m + 1}]
      BY <1>2, <2>4 DEF IsSum
    <3> QED BY <2>2, <3>1
  <2>6. Im(m + 1) \in SUBSET D
    BY <2>4 DEF ImageOf
  <2>7. it[Im(m + 1)] = f[p[m + 1]] + it[Im(m)]
    <3> HIDE DEF Im
    <3>1. it[Im(m + 1)] = f[p[m + 1]] + it[Im(m + 1) \ {p[m + 1]}]
      BY <2>1, <2>6 DEF IsSum
    <3> QED BY <2>3, <3>1
  <2>8. jt[1..m] = it[Im(m)]
    BY <1>4
  <2>9. g[m + 1] = f[p[m + 1]]
    BY <2>1 DEF Picks
  <2> QED BY <2>5, <2>7, <2>8, <2>9
<1>5. Nat \subseteq Same
  <2> HIDE DEF Same
  <2> QED BY <1>3, <1>4, InductionNat
<1>6. n \in Same /\ n <= n
  BY <1>5
<1>7. jt[1..n] = it[Im(n)]
  BY <1>6
<1> QED BY <1>2, <1>7

\* A place more or less.
LEMMA SumWithout ==
  ASSUME NEW n \in Nat, NEW f \in [1..n -> Int], NEW k \in 1..n
  PROVE  SumFunction(f) = f[k] + SumFunction(Without(f, n, k))
<1>1. IsFiniteSet(1..n)
  BY FS_Interval
<1>2. PICK it : IsSum(it, f, 1..n) /\ SumFunction(f) = it[1..n]
  BY <1>1, SumExists
<1> DEFINE p == [i \in 1..(n - 1) |-> IF i < k THEN i ELSE i + 1]
           g == Without(f, n, k)
<1>3. n - 1 \in Nat /\ p \in [1..(n - 1) -> 1..n]
  OBVIOUS
<1>4. OneToOne(p, n - 1)
  BY DEF OneToOne
<1>5. g \in [1..(n - 1) -> Int] /\ Picks(g, f, p, n - 1)
  BY DEF Without, Picks
<1>6. ImageOf(p, n - 1) = (1..n) \ {k}
  <2>1. \A i \in 1..(n - 1) : p[i] \in (1..n) \ {k}
    OBVIOUS
  <2>2. ASSUME NEW j \in (1..n) \ {k} PROVE \E i \in 1..(n - 1) : p[i] = j
    <3>1. CASE j < k
      <4>1. j \in 1..(n - 1) /\ p[j] = j
        BY <3>1
      <4> QED BY <4>1
    <3>2. CASE j > k
      <4>1. j - 1 \in 1..(n - 1) /\ p[j - 1] = j
        BY <3>2
      <4> QED BY <4>1
    <3> QED BY <3>1, <3>2
  <2> HIDE DEF p
  <2> QED BY <2>1, <2>2 DEF ImageOf
<1>7. SumFunction(g) = it[(1..n) \ {k}]
  <2> DEFINE m == n - 1
             D == 1..n
  <2> HIDE DEF p, g, m, D
  <2>1. m \in Nat /\ Reindexed(g, f, p, m, D)
    BY <1>3, <1>4, <1>5 DEF m, D, Reindexed
  <2>2. IsFiniteSet(D) /\ f \in [D -> Int] /\ IsSum(it, f, D)
    BY <1>1, <1>2 DEF D
  <2>3. SumFunction(g) = it[ImageOf(p, m)]
    BY <2>1, <2>2, SumReindex
  <2> QED BY <1>6, <2>3 DEF m
<1>8. it[1..n] = f[k] + it[(1..n) \ {k}]
  BY <1>2 DEF IsSum
<1> QED BY <1>2, <1>7, <1>8

\* Nothing sums to 0.
LEMMA SumEmpty ==
  ASSUME NEW f \in [{} -> Int]
  PROVE  SumFunction(f) = 0
<1>1. IsFiniteSet({})
  BY FS_EmptySet
<1>2. PICK it : IsSum(it, f, {}) /\ SumFunction(f) = it[{}]
  BY <1>1, SumExists, Zenon
<1> QED BY <1>2, Zenon DEF IsSum

\* A sum is a number, and not negative when no part is.
LEMMA SumType ==
  ASSUME NEW n \in Nat, NEW f \in [1..n -> Int]
  PROVE  SumFunction(f) \in Int
<1>1. IsFiniteSet(1..n)
  BY FS_Interval
<1>2. PICK it : IsSum(it, f, 1..n) /\ SumFunction(f) = it[1..n]
  BY <1>1, SumExists
<1> QED BY <1>2 DEF IsSum

\* Parts that are not negative sum to one that is not.
LEMMA SumNat ==
  ASSUME NEW n \in Nat, NEW f \in [1..n -> Nat]
  PROVE  SumFunction(f) \in Nat
<1> DEFINE Good == {m \in Nat : \A g \in [1..m -> Nat] : SumFunction(g) \in Nat}
<1>1. 0 \in Good
  <2>1. 1..0 = {}
    OBVIOUS
  <2> SUFFICES ASSUME NEW g \in [1..0 -> Nat] PROVE SumFunction(g) \in Nat
    OBVIOUS
  <2>2. g \in [{} -> Int]
    BY <2>1
  <2>3. SumFunction(g) = 0
    BY <2>2, SumEmpty
  <2> QED BY <2>3
<1>2. ASSUME NEW m \in Nat, m \in Good PROVE m + 1 \in Good
  <2>0. m + 1 \in Nat
    OBVIOUS
  <2> SUFFICES ASSUME NEW g \in [1..(m + 1) -> Nat] PROVE SumFunction(g) \in Nat
    BY <2>0
  <2> DEFINE w == Without(g, m + 1, m + 1)
  <2>1. w \in [1..m -> Nat]
    BY DEF Without
  <2>2. m + 1 \in Nat /\ g \in [1..(m + 1) -> Int] /\ m + 1 \in 1..(m + 1)
    OBVIOUS
  <2>3. SumFunction(g) = g[m + 1] + SumFunction(w)
    BY <2>2, SumWithout
  <2>4. SumFunction(w) \in Nat
    BY <1>2, <2>1
  <2>5. g[m + 1] \in Nat
    OBVIOUS
  <2> QED BY <2>3, <2>4, <2>5
<1>3. Nat \subseteq Good
  <2> HIDE DEF Good
  <2> QED BY <1>1, <1>2, InductionNat
<1> QED BY <1>3

-----------------------------------------------------------------------------
PrefixOf(f, i) == [j \in 1..i |-> f[j]]
RestOf(f, n, i) == [j \in 1..(n - i) |-> f[i + j]]

\* The sum of a sequence is that of a prefix and that of the rest.
LEMMA SumSplit ==
  ASSUME NEW n \in Nat, NEW f \in [1..n -> Int], NEW i \in 0..n
  PROVE  SumFunction(f) = SumFunction(PrefixOf(f, i)) + SumFunction(RestOf(f, n, i))
<1> DEFINE Good == {k \in Nat : k <= n => SumFunction(f) = SumFunction(PrefixOf(f, k)) + SumFunction(RestOf(f, n, k))}
<1>1. 0 \in Good
  <2>1. PrefixOf(f, 0) \in [{} -> Int]
    BY DEF PrefixOf
  <2>2. SumFunction(PrefixOf(f, 0)) = 0
    BY <2>1, SumEmpty
  <2>3. RestOf(f, n, 0) = f
    BY DEF RestOf
  <2>4. SumFunction(f) \in Int
    BY SumType
  <2> QED BY <2>2, <2>3, <2>4
<1>2. ASSUME NEW k \in Nat, k \in Good PROVE k + 1 \in Good
  <2>0. k + 1 \in Nat
    OBVIOUS
  <2> SUFFICES ASSUME k + 1 <= n
               PROVE  SumFunction(f) = SumFunction(PrefixOf(f, k + 1)) + SumFunction(RestOf(f, n, k + 1))
    BY <2>0
  <2> DEFINE a == PrefixOf(f, k)
             b == RestOf(f, n, k)
             c == PrefixOf(f, k + 1)
             d == RestOf(f, n, k + 1)
  <2>1. a \in [1..k -> Int] /\ b \in [1..(n - k) -> Int] /\ c \in [1..(k + 1) -> Int] /\ d \in [1..(n - k - 1) -> Int]
    BY DEF PrefixOf, RestOf
  <2>2. /\ n - k \in Nat /\ 1 \in 1..(n - k) /\ k + 1 \in 1..(k + 1) /\ n - k - 1 \in Nat
        /\ b[1] = f[k + 1] /\ c[k + 1] = f[k + 1] /\ f[k + 1] \in Int
    BY DEF PrefixOf, RestOf
  <2>3. Without(b, n - k, 1) = d
    BY DEF Without, RestOf
  <2>4. Without(c, k + 1, k + 1) = a
    BY DEF Without, PrefixOf
  <2> HIDE DEF a, b, c, d
  <2>5. SumFunction(b) = b[1] + SumFunction(d)
    BY <2>1, <2>2, <2>3, SumWithout
  <2>6. SumFunction(c) = c[k + 1] + SumFunction(a)
    BY <2>0, <2>1, <2>2, <2>4, SumWithout
  <2>7. SumFunction(a) \in Int /\ SumFunction(d) \in Int
    BY <2>1, <2>2, SumType
  <2>8. SumFunction(f) = SumFunction(a) + SumFunction(b)
    BY <1>2 DEF a, b
  <2>9. SumFunction(f) = SumFunction(c) + SumFunction(d)
    BY <2>2, <2>5, <2>6, <2>7, <2>8
  <2> QED BY <2>9 DEF c, d
<1>3. Nat \subseteq Good
  <2> HIDE DEF Good
  <2> QED BY <1>1, <1>2, InductionNat
<1>4. i \in Nat /\ i <= n
  OBVIOUS
<1> QED BY <1>3, <1>4

-----------------------------------------------------------------------------
(* Sequences.                                                              *)

\* A sequence without one of its places.
LEMMA RemoveAtIs ==
  ASSUME NEW S, NEW s \in Seq(S), NEW i \in DOMAIN s
  PROVE  /\ RemoveAt(s, i) \in Seq(S)
         /\ Len(RemoveAt(s, i)) = Len(s) - 1
         /\ \A j \in 1..(Len(s) - 1) : RemoveAt(s, i)[j] = IF j < i THEN s[j] ELSE s[j + 1]
<1> DEFINE n == Len(s)
           a == SubSeq(s, 1, i - 1)
           b == SubSeq(s, i + 1, n)
<1>1. n \in Nat /\ i \in 1..n /\ \A j \in 1..n : s[j] \in S
  OBVIOUS
<1>2. a \in Seq(S) /\ Len(a) = i - 1 /\ \A j \in 1..(i - 1) : a[j] = s[j]
  BY <1>1
<1>3. b \in Seq(S) /\ Len(b) = n - i /\ \A j \in 1..(n - i) : b[j] = s[i + j]
  BY <1>1
<1>4. RemoveAt(s, i) = a \o b
  BY DEF RemoveAt
<1> HIDE DEF a, b, n
<1>5. /\ a \o b \in Seq(S)
      /\ Len(a \o b) = n - 1
      /\ \A j \in 1..(n - 1) : (a \o b)[j] = IF j <= i - 1 THEN a[j] ELSE b[j - (i - 1)]
  <2>1. a \o b \in Seq(S) /\ Len(a \o b) = Len(a) + Len(b)
    BY <1>2, <1>3, ConcatProperties
  <2>2. Len(a) = i - 1 /\ Len(a) + Len(b) = n - 1
    BY <1>1, <1>2, <1>3
  <2>3. \A j \in 1..(Len(a) + Len(b)) : (a \o b)[j] = IF j <= Len(a) THEN a[j] ELSE b[j - Len(a)]
    BY <1>2, <1>3, ConcatProperties
  <2> QED BY <2>1, <2>2, <2>3
<1>6. ASSUME NEW j \in 1..(n - 1) PROVE (a \o b)[j] = IF j < i THEN s[j] ELSE s[j + 1]
  <2>1. CASE j < i
    <3>1. j \in 1..(i - 1)
      BY <1>1, <2>1
    <3> QED BY <1>1, <1>2, <1>5, <2>1, <3>1
  <2>2. CASE ~(j < i)
    <3>1. j - (i - 1) \in 1..(n - i) /\ i + (j - (i - 1)) = j + 1 /\ ~(j <= i - 1)
      BY <1>1, <2>2
    <3>2. (a \o b)[j] = b[j - (i - 1)]
      BY <1>5, <3>1
    <3>3. b[j - (i - 1)] = s[i + (j - (i - 1))]
      BY <1>3, <3>1
    <3>4. b[j - (i - 1)] = s[j + 1]
      BY <3>1, <3>3
    <3> QED BY <2>2, <3>2, <3>4
  <2> QED BY <2>1, <2>2
<1> QED BY <1>4, <1>5, <1>6 DEF n

=============================================================================
