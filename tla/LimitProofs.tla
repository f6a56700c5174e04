----------------------------- MODULE LimitProofs -----------------------------
(***************************************************************************)
(* What has a limited size.  The LRU cache keeps its size and evicts the   *)
(* key that was not used for the longest time, and a token bucket never    *)
(* grants more than its rate, for all sizes, capacities, speeds and costs, *)
(* and however the clock is set.  The codec of VarInt reads back what it   *)
(* wrote, and accepts nothing else.  The ring buffer of BufWriter and the  *)
(* buffer of BufReader are right for every size and whatever the stream    *)
(* takes and gives each time; writer and reader keep in the Pipe what each *)
(* promises alone.                                                         *)
(***************************************************************************)
EXTENDS LRUCache, TokenBucket, Pipe, VarInt, DataLemmas

-----------------------------------------------------------------------------
(* LRUCache.                                                               *)

Node == [id : Nat \ {0}, k : Key, size : ValueSizes]

OneIdEach(list) == \A i, j \in DOMAIN list : list[i].id = list[j].id => i = j

Named(list, map) ==
  /\ map = [x \in DOMAIN map |-> map[x]]
  /\ DOMAIN map = {list[i].k : i \in DOMAIN list}
  /\ \A i \in DOMAIN list : map[list[i].k] = list[i].id

CacheOK(c) ==
  /\ c.l \in Seq(Node)
  /\ OneIdEach(c.l)
  /\ Named(c.l, c.m)
  /\ c.sz = SumFunction(Sizes(c.l))

Before(u, x, y) == \E a, b \in DOMAIN u : a < b /\ u[a] = x /\ u[b] = y

\* The keys of the list were used, in its order.
Ordered(list, u) ==
  /\ \A i \in DOMAIN list : list[i].k \in ToSet(u)
  /\ \A i, j \in DOMAIN list : i < j => Before(u, list[i].k, list[j].k)

\* The fields of a node.
LEMMA NodeFields ==
  ASSUME NEW e \in Node
  PROVE  e.id \in Nat \ {0} /\ e.k \in Key /\ e.size \in Nat /\ e.size > 0
<1>1. e.size \in ValueSizes /\ e.id \in Nat \ {0} /\ e.k \in Key
  BY DEF Node
<1>2. e.size \in Nat \ {0}
  BY <1>1, LRUAssumption
<1> QED BY <1>1, <1>2

\* The sizes of a list of nodes.
LEMMA SizesOf ==
  ASSUME NEW s \in Seq(Node)
  PROVE  /\ Sizes(s) \in [1..Len(s) -> Nat]
         /\ Sizes(s) \in [1..Len(s) -> Int]
         /\ \A i \in 1..Len(s) : Sizes(s)[i] = s[i].size /\ s[i].size \in Nat /\ s[i].size > 0
         /\ SumFunction(Sizes(s)) \in Nat
<1>1. DOMAIN s = 1..Len(s) /\ Len(s) \in Nat /\ \A i \in 1..Len(s) : s[i] \in Node
  OBVIOUS
<1>2. \A i \in 1..Len(s) : s[i].size \in Nat /\ s[i].size > 0
  BY <1>1, NodeFields
<1>3. Sizes(s) = [i \in 1..Len(s) |-> s[i].size]
  BY <1>1 DEF Sizes
<1>4. Sizes(s) \in [1..Len(s) -> Nat]
  BY <1>2, <1>3
<1>5. Sizes(s) \in [1..Len(s) -> Int]
  BY <1>4
<1>6. SumFunction(Sizes(s)) \in Nat
  BY <1>1, <1>4, SumNat
<1> QED BY <1>2, <1>3, <1>4, <1>5, <1>6

\* A node less, and its size less.
LEMMA SumOfRemoved ==
  ASSUME NEW s \in Seq(Node), NEW i \in DOMAIN s
  PROVE  SumFunction(Sizes(RemoveAt(s, i))) = SumFunction(Sizes(s)) - s[i].size
<1> DEFINE n == Len(s)
           r == RemoveAt(s, i)
           f == Sizes(s)
           g == Sizes(r)
<1>1. n \in Nat /\ i \in 1..n
  OBVIOUS
<1>2. f \in [1..n -> Int] /\ f[i] = s[i].size /\ f[i] \in Int /\ \A j \in 1..n : f[j] = s[j].size
  BY <1>1, SizesOf
<1>3. r \in Seq(Node) /\ Len(r) = n - 1 /\ \A j \in 1..(n - 1) : r[j] = IF j < i THEN s[j] ELSE s[j + 1]
  BY RemoveAtIs
<1>4. SumFunction(g) \in Int /\ g \in [1..(n - 1) -> Int] /\ \A j \in 1..(n - 1) : g[j] = r[j].size
  <2> HIDE DEF r, n
  <2> QED BY <1>3, SizesOf
<1> HIDE DEF n, f, g, r
<1>5. g = Without(f, n, i)
  <2>1. ASSUME NEW j \in 1..(n - 1) PROVE g[j] = Without(f, n, i)[j]
    <3>1. j \in 1..n /\ j + 1 \in 1..n
      BY <1>1
    <3>2. g[j] = r[j].size /\ f[j] = s[j].size /\ f[j + 1] = s[j + 1].size
      BY <1>2, <1>4, <3>1
    <3>3. r[j] = IF j < i THEN s[j] ELSE s[j + 1]
      BY <1>3
    <3>4. Without(f, n, i)[j] = IF j < i THEN f[j] ELSE f[j + 1]
      BY DEF Without
    <3> QED BY <3>2, <3>3, <3>4
  <2> QED BY <1>4, <2>1 DEF Without
<1>6. SumFunction(f) = f[i] + SumFunction(g)
  BY <1>1, <1>2, <1>5, SumWithout
<1>7. SumFunction(g) = SumFunction(f) - f[i]
  BY <1>2, <1>4, <1>6
<1> QED BY <1>2, <1>7 DEF f, g, r

\* A node more, and its size more.
LEMMA SumOfAppended ==
  ASSUME NEW s \in Seq(Node), NEW e \in Node
  PROVE  SumFunction(Sizes(Append(s, e))) = SumFunction(Sizes(s)) + e.size
<1> DEFINE t == Append(s, e)
           n == Len(t)
<1>1. t \in Seq(Node) /\ n \in DOMAIN t /\ t[n] = e
  OBVIOUS
<1>2. RemoveAt(t, n) = s
  BY DEF RemoveAt
<1> HIDE DEF t, n
<1>3. SumFunction(Sizes(t)) \in Nat /\ SumFunction(Sizes(s)) \in Nat
  BY <1>1, SizesOf
<1>4. e.size \in Nat
  BY NodeFields
<1>5. SumFunction(Sizes(s)) = SumFunction(Sizes(t)) - e.size
  BY <1>1, <1>2, SumOfRemoved
<1>6. SumFunction(Sizes(t)) = SumFunction(Sizes(s)) + e.size
  BY <1>3, <1>4, <1>5
<1> QED BY <1>6 DEF t

\* A key of the map is found at its own node,
LEMMA FoundAt ==
  ASSUME NEW c, CacheOK(c), NEW k \in DOMAIN c.m
  PROVE  LET i == IdxOf(c.l, c.m[k]) IN
         i \in DOMAIN c.l /\ c.l[i].k = k /\ c.l[i].id = c.m[k]
<1>1. PICK i \in DOMAIN c.l : c.l[i].k = k /\ c.l[i].id = c.m[k]
  BY DEF CacheOK, Named
<1>2. IdxOf(c.l, c.m[k]) = i
  BY <1>1 DEF IdxOf, CacheOK, OneIdEach
<1> QED BY <1>1, <1>2

\* and no other node has it.
LEMMA KeysDiffer ==
  ASSUME NEW c, CacheOK(c), NEW i \in DOMAIN c.l, NEW j \in DOMAIN c.l, c.l[i].k = c.l[j].k
  PROVE  i = j
BY DEF CacheOK, Named, OneIdEach

\* Erase keeps list, map and sum in step, and the order of the others.
LEMMA EraseOK ==
  ASSUME NEW c, CacheOK(c), NEW k
  PROVE  /\ CacheOK(AfterErase(c, k))
         /\ DOMAIN AfterErase(c, k).m = DOMAIN c.m \ {k}
         /\ AfterErase(c, k).sz <= c.sz
         /\ \A u : Ordered(c.l, u) => Ordered(AfterErase(c, k).l, u)
<1>1. CASE k \notin DOMAIN c.m
  <2>1. c.sz \in Nat
    BY SizesOf DEF CacheOK
  <2> QED BY <1>1, <2>1 DEF AfterErase
<1>2. CASE k \in DOMAIN c.m
  <2> DEFINE i == IdxOf(c.l, c.m[k])
             d == AfterErase(c, k)
             n == Len(c.l)
  <2>1. i \in DOMAIN c.l /\ c.l[i].k = k /\ c.l[i].id = c.m[k] /\ c.l \in Seq(Node)
    BY <1>2, FoundAt DEF CacheOK
  <2>2. /\ d.l = RemoveAt(c.l, i)
        /\ d.m = WithoutKey(c.m, k)
        /\ d.sz = c.sz - c.l[i].size
    BY <1>2 DEF AfterErase, Cache, NotNode, NodeOf
  <2> HIDE DEF i, d
  <2>3. /\ d.l \in Seq(Node)
        /\ Len(d.l) = n - 1
        /\ \A j \in 1..(n - 1) : d.l[j] = IF j < i THEN c.l[j] ELSE c.l[j + 1]
    BY <2>1, <2>2, RemoveAtIs
  <2>4. d.sz = SumFunction(Sizes(d.l))
    BY <2>1, <2>2, SumOfRemoved DEF CacheOK
  <2>5. n \in Nat /\ DOMAIN c.l = 1..n /\ DOMAIN d.l = 1..(n - 1) /\ i \in 1..n
    BY <2>1, <2>3
  <2> DEFINE was(j) == IF j < i THEN j ELSE j + 1
  <2>a. \A j \in DOMAIN d.l : was(j) \in DOMAIN c.l /\ was(j) /= i
    BY <2>5
  <2>b. \A j \in DOMAIN d.l : d.l[j] = c.l[was(j)]
    BY <2>3, <2>5
  <2>c. \A j, x \in DOMAIN d.l : (was(j) = was(x) => j = x) /\ (j < x => was(j) < was(x))
    BY <2>5
  <2> HIDE DEF was
  <2>6. OneIdEach(d.l)
    BY <2>a, <2>b, <2>c DEF OneIdEach, CacheOK
  <2>7. \A j \in DOMAIN d.l : \E x \in DOMAIN c.l : x /= i /\ d.l[j] = c.l[x]
    BY <2>a, <2>b
  <2>8. \A x \in DOMAIN c.l : x /= i => \E j \in DOMAIN d.l : d.l[j] = c.l[x]
    <3> SUFFICES ASSUME NEW x \in DOMAIN c.l, x /= i PROVE \E j \in DOMAIN d.l : d.l[j] = c.l[x]
      OBVIOUS
    <3>1. CASE x < i
      <4>1. x \in 1..(n - 1) /\ d.l[x] = c.l[x]
        BY <2>3, <2>5, <3>1
      <4> QED BY <2>5, <4>1
    <3>2. CASE x > i
      <4>1. x - 1 \in 1..(n - 1) /\ d.l[x - 1] = c.l[x]
        BY <2>3, <2>5, <3>2
      <4> QED BY <2>5, <4>1
    <3> QED BY <2>5, <3>1, <3>2
  <2>9. \A x \in DOMAIN c.l : x /= i => c.l[x].k /= k
    BY <2>1, KeysDiffer
  <2>10. DOMAIN d.m = DOMAIN c.m \ {k} /\ \A x \in DOMAIN d.m : d.m[x] = c.m[x]
    BY <2>2 DEF WithoutKey
  <2>11. DOMAIN d.m = {d.l[j].k : j \in DOMAIN d.l}
    <3>1. ASSUME NEW x \in DOMAIN d.m PROVE \E j \in DOMAIN d.l : d.l[j].k = x
      <4>1. PICK y \in DOMAIN c.l : c.l[y].k = x
        BY <2>10 DEF CacheOK, Named
      <4> QED BY <2>1, <2>8, <2>10, <4>1
    <3>2. ASSUME NEW j \in DOMAIN d.l PROVE d.l[j].k \in DOMAIN d.m
      <4>1. PICK x \in DOMAIN c.l : x /= i /\ d.l[j] = c.l[x]
        BY <2>7
      <4> QED BY <2>9, <2>10, <4>1 DEF CacheOK, Named
    <3> QED BY <3>1, <3>2
  <2>12. \A j \in DOMAIN d.l : d.m[d.l[j].k] = d.l[j].id
    BY <2>7, <2>10, <2>11 DEF CacheOK, Named
  <2>13. d.m = [x \in DOMAIN d.m |-> d.m[x]]
    BY <2>2 DEF WithoutKey
  <2>14. CacheOK(d)
    BY <2>3, <2>4, <2>6, <2>11, <2>12, <2>13 DEF CacheOK, Named
  <2>15. d.sz <= c.sz
    <3>1. c.sz \in Nat /\ c.l[i].size \in Nat
      BY <2>1, <2>5, SizesOf DEF CacheOK
    <3> QED BY <2>2, <3>1
  <2>16. \A u : Ordered(c.l, u) => Ordered(d.l, u)
    BY <2>a, <2>b, <2>c DEF Ordered
  <2> QED BY <2>10, <2>14, <2>15, <2>16 DEF d
<1> QED BY <1>1, <1>2
-----------------------------------------------------------------------------
(* The front of the list is dropped, and a new node is put at its end.     *)

\* What a longer prefix adds.
LEMMA PrefixGrows ==
  ASSUME NEW s \in Seq(Node), NEW i \in 1..Len(s)
  PROVE  /\ SubSeq(s, 1, i - 1) \in Seq(Node)
         /\ SumFunction(Sizes(SubSeq(s, 1, i))) = SumFunction(Sizes(SubSeq(s, 1, i - 1))) + s[i].size
<1>1. SubSeq(s, 1, i - 1) \in Seq(Node) /\ s[i] \in Node
  OBVIOUS
<1>2. SubSeq(s, 1, i) = Append(SubSeq(s, 1, i - 1), s[i])
  OBVIOUS
<1> QED BY <1>1, <1>2, SumOfAppended

\* The list in two parts.
LEMMA FrontAndRest ==
  ASSUME NEW s \in Seq(Node), NEW i \in 0..Len(s)
  PROVE  LET rest == SubSeq(s, i + 1, Len(s)) IN
         /\ rest \in Seq(Node)
         /\ Len(rest) = Len(s) - i
         /\ \A j \in 1..(Len(s) - i) : rest[j] = s[i + j]
         /\ SumFunction(Sizes(SubSeq(s, 1, i))) \in Nat
         /\ SumFunction(Sizes(s)) = SumFunction(Sizes(SubSeq(s, 1, i))) + SumFunction(Sizes(rest))
<1> DEFINE n == Len(s)
           front == SubSeq(s, 1, i)
           rest == SubSeq(s, i + 1, n)
           f == Sizes(s)
<1>1. n \in Nat /\ i \in 0..n /\ f \in [1..n -> Int] /\ \A j \in 1..n : f[j] = s[j].size
  BY SizesOf
<1>2. front \in Seq(Node) /\ Len(front) = i /\ \A j \in 1..i : front[j] = s[j]
  OBVIOUS
<1>3. rest \in Seq(Node) /\ Len(rest) = n - i /\ \A j \in 1..(n - i) : rest[j] = s[i + j]
  OBVIOUS
<1> HIDE DEF front, rest, f, n
<1>4. Sizes(front) = PrefixOf(f, i)
  <2>1. Sizes(front) \in [1..i -> Int] /\ \A j \in 1..i : Sizes(front)[j] = front[j].size
    BY <1>2, SizesOf
  <2>2. \A j \in 1..i : j \in 1..n
    BY <1>1
  <2>3. \A j \in 1..i : Sizes(front)[j] = f[j]
    BY <1>1, <1>2, <2>1, <2>2
  <2> QED BY <2>1, <2>3 DEF PrefixOf
<1>5. Sizes(rest) = RestOf(f, n, i)
  <2>1. Sizes(rest) \in [1..(n - i) -> Int] /\ \A j \in 1..(n - i) : Sizes(rest)[j] = rest[j].size
    BY <1>3, SizesOf
  <2>2. \A j \in 1..(n - i) : i + j \in 1..n
    BY <1>1
  <2>3. \A j \in 1..(n - i) : Sizes(rest)[j] = f[i + j]
    BY <1>1, <1>3, <2>1, <2>2
  <2> QED BY <2>1, <2>3 DEF RestOf
<1>6. SumFunction(f) = SumFunction(Sizes(front)) + SumFunction(Sizes(rest))
  BY <1>1, <1>4, <1>5, SumSplit
<1>7. SumFunction(Sizes(front)) \in Nat
  BY <1>2, SizesOf
<1> QED BY <1>3, <1>6, <1>7 DEF f, front, rest, n

\* The nodes that Erase leaves are those of the list before.
LEMMA SameNode ==
  ASSUME NEW s, CacheOK(s), NEW k, NEW a \in DOMAIN AfterErase(s, k).l
  PROVE  NodeOf(s.l, s.m[AfterErase(s, k).l[a].k]) = AfterErase(s, k).l[a]
<1> DEFINE d == AfterErase(s, k)
<1>1. PICK x \in DOMAIN s.l : s.l[x] = d.l[a]
  <2>1. CASE k \notin DOMAIN s.m
    BY <2>1 DEF AfterErase
  <2>2. CASE k \in DOMAIN s.m
    <3> DEFINE i == IdxOf(s.l, s.m[k])
    <3>1. i \in DOMAIN s.l /\ s.l \in Seq(Node)
      BY <2>2, FoundAt DEF CacheOK
    <3>2. d.l = RemoveAt(s.l, i)
      BY <2>2 DEF AfterErase, Cache, NotNode
    <3>a. a \in DOMAIN d.l
      OBVIOUS
    <3> HIDE DEF i, d
    <3>b. /\ d.l \in Seq(Node) /\ Len(d.l) = Len(s.l) - 1
          /\ \A j \in 1..(Len(s.l) - 1) : d.l[j] = IF j < i THEN s.l[j] ELSE s.l[j + 1]
      BY <3>1, <3>2, RemoveAtIs
    <3>c. DOMAIN d.l = 1..(Len(s.l) - 1)
      BY <3>b
    <3>3. a \in 1..(Len(s.l) - 1) /\ d.l[a] = IF a < i THEN s.l[a] ELSE s.l[a + 1]
      BY <3>a, <3>b, <3>c
    <3>4. a \in DOMAIN s.l /\ a + 1 \in DOMAIN s.l
      BY <3>1, <3>3
    <3> QED BY <3>3, <3>4
  <2> QED BY <2>1, <2>2
<1> HIDE DEF d
<1>2. s.l[x].k \in DOMAIN s.m /\ s.m[s.l[x].k] = s.l[x].id
  BY DEF CacheOK, Named
<1>3. NodeOf(s.l, s.l[x].id) = s.l[x]
  BY FoundAt, KeysDiffer, <1>2 DEF NodeOf
<1>4. NodeOf(s.l, s.m[d.l[a].k]) = d.l[a]
  BY <1>1, <1>2, <1>3
<1> QED BY <1>4 DEF d

\* Where EvictFor stops.
Dropped(c, i) == SumFunction(Sizes(SubSeq(c.l, 1, i)))
Fits(c, n) == {i \in 0..Len(c.l) : c.sz - Dropped(c, i) <= SzMax - n \/ i = Len(c.l)}
Evicted(c, n) == Min(Fits(c, n))

\* EvictFor by the number of nodes that it drops.
LEMMA EvictForIs ==
  ASSUME NEW c, NEW n
  PROVE  LET i0 == Evicted(c, n) IN
         EvictFor(c, n) = Cache(SubSeq(c.l, i0 + 1, Len(c.l)),
                                [j \in DOMAIN c.m \ {c.l[j].k : j \in 1..i0} |-> c.m[j]],
                                c.sz - Dropped(c, i0))
BY DEF EvictFor, Evicted, Fits, Dropped

\* EvictFor keeps list, map and sum in step, makes the room that is asked for, and
\* drops no node too many.
LEMMA EvictOK ==
  ASSUME NEW c, CacheOK(c), NEW n \in Nat, n <= SzMax
  PROVE  LET d == EvictFor(c, n)
             i0 == Evicted(c, n)
         IN  /\ CacheOK(d)
             /\ i0 \in 0..Len(c.l)
             /\ DOMAIN d.m = {c.l[i].k : i \in (i0 + 1)..Len(c.l)}
             /\ d.sz <= SzMax - n
             /\ i0 > 0 => d.sz + c.l[i0].size > SzMax - n
             /\ \A u : Ordered(c.l, u) => Ordered(d.l, u)
<1> DEFINE d == EvictFor(c, n)
           i0 == Evicted(c, n)
           N == Len(c.l)
<1>1. c.l \in Seq(Node) /\ N \in Nat /\ DOMAIN c.l = 1..N /\ c.sz = SumFunction(Sizes(c.l)) /\ c.sz \in Nat
  BY SizesOf DEF CacheOK
<1>2. i0 \in 0..N /\ i0 \in Fits(c, n) /\ \A i \in Fits(c, n) : i0 <= i
  <2>1. Fits(c, n) \in SUBSET Nat /\ N \in Fits(c, n) /\ Fits(c, n) \subseteq 0..N
    BY <1>1 DEF Fits
  <2> QED BY <2>1, MinIs DEF Evicted
<1>3. /\ d.l = SubSeq(c.l, i0 + 1, N)
      /\ d.m = [j \in DOMAIN c.m \ {c.l[j].k : j \in 1..i0} |-> c.m[j]]
      /\ d.sz = c.sz - Dropped(c, i0)
  BY EvictForIs DEF Cache
<1> HIDE DEF d, i0
<1>4. /\ d.l \in Seq(Node) /\ Len(d.l) = N - i0 /\ \A j \in 1..(N - i0) : d.l[j] = c.l[i0 + j]
      /\ Dropped(c, i0) \in Nat
      /\ c.sz = Dropped(c, i0) + SumFunction(Sizes(d.l))
  BY <1>1, <1>2, <1>3, FrontAndRest DEF Dropped
<1>5. d.sz = SumFunction(Sizes(d.l)) /\ d.sz \in Nat
  <2>1. SumFunction(Sizes(d.l)) \in Nat
    BY <1>4, SizesOf
  <2> QED BY <1>3, <1>4, <2>1
<1>6. d.sz <= SzMax - n
  <2>1. CASE c.sz - Dropped(c, i0) <= SzMax - n
    BY <1>3, <2>1
  <2>2. CASE i0 = N
    <3>1. Len(d.l) = 0
      BY <1>1, <1>4, <2>2
    <3>2. Sizes(d.l) \in [{} -> Int]
      BY <1>4, <3>1, SizesOf
    <3>3. d.sz = 0
      BY <1>5, <3>2, SumEmpty
    <3> QED BY <3>3, LRUAssumption
  <2> QED BY <1>2, <2>1, <2>2 DEF Fits
<1>7. i0 > 0 => d.sz + c.l[i0].size > SzMax - n
  <2> SUFFICES ASSUME i0 > 0 PROVE d.sz + c.l[i0].size > SzMax - n
    OBVIOUS
  <2>1. i0 \in 1..N /\ i0 - 1 \in 0..N /\ ~(i0 <= i0 - 1)
    BY <1>1, <1>2
  <2>2. i0 - 1 \notin Fits(c, n)
    BY <1>2, <2>1
  <2>3. ~(c.sz - Dropped(c, i0 - 1) <= SzMax - n)
    BY <2>1, <2>2 DEF Fits
  <2>4. Dropped(c, i0) = Dropped(c, i0 - 1) + c.l[i0].size
    BY <1>1, <2>1, PrefixGrows DEF Dropped
  <2>5. Dropped(c, i0 - 1) \in Nat
    BY <1>1, <2>1, PrefixGrows, SizesOf DEF Dropped
  <2>6. c.l[i0].size \in Nat
    BY <1>1, <2>1, SizesOf
  <2> QED BY <1>1, <1>3, <2>3, <2>4, <2>5, <2>6, LRUAssumption
<1>8. \A j \in DOMAIN d.l : i0 + j \in DOMAIN c.l /\ i0 + j > i0 /\ d.l[j] = c.l[i0 + j]
  BY <1>1, <1>2, <1>4
<1>9. \A x \in (i0 + 1)..N : x \in DOMAIN c.l /\ x - i0 \in DOMAIN d.l /\ d.l[x - i0] = c.l[x]
  <2> SUFFICES ASSUME NEW x \in (i0 + 1)..N
               PROVE  x \in DOMAIN c.l /\ x - i0 \in DOMAIN d.l /\ d.l[x - i0] = c.l[x]
    OBVIOUS
  <2>1. x \in 1..N /\ x - i0 \in 1..(N - i0) /\ i0 + (x - i0) = x
    BY <1>1, <1>2
  <2>2. d.l[x - i0] = c.l[i0 + (x - i0)]
    BY <1>4, <2>1
  <2> QED BY <1>1, <1>4, <2>1, <2>2
<1>10. DOMAIN d.m = {c.l[i].k : i \in (i0 + 1)..N} /\ \A x \in DOMAIN d.m : d.m[x] = c.m[x]
  <2>1. DOMAIN d.m = DOMAIN c.m \ {c.l[j].k : j \in 1..i0} /\ \A x \in DOMAIN d.m : d.m[x] = c.m[x]
    BY <1>3
  <2>2. ASSUME NEW x \in DOMAIN d.m PROVE \E i \in (i0 + 1)..N : x = c.l[i].k
    <3>1. PICK i \in 1..N : c.l[i].k = x
      BY <1>1, <2>1 DEF CacheOK, Named
    <3>2. i \notin 1..i0
      BY <2>1, <3>1
    <3>3. i \in (i0 + 1)..N
      BY <1>1, <1>2, <3>2
    <3> QED BY <3>1, <3>3
  <2>3. ASSUME NEW i \in (i0 + 1)..N PROVE c.l[i].k \in DOMAIN d.m
    <3>1. \A j \in 1..i0 : j \in DOMAIN c.l /\ i /= j
      BY <1>1, <1>2
    <3>2. i \in DOMAIN c.l
      BY <1>9
    <3>3. \A j \in 1..i0 : c.l[j].k /= c.l[i].k
      BY <3>1, <3>2, KeysDiffer
    <3>4. c.l[i].k \in DOMAIN c.m
      BY <3>2 DEF CacheOK, Named
    <3> QED BY <2>1, <3>3, <3>4
  <2> QED BY <2>1, <2>2, <2>3
<1>11. OneIdEach(d.l)
  <2> SUFFICES ASSUME NEW i \in DOMAIN d.l, NEW j \in DOMAIN d.l, d.l[i].id = d.l[j].id PROVE i = j
    BY DEF OneIdEach
  <2>1. i0 + i = i0 + j
    BY <1>8 DEF CacheOK, OneIdEach
  <2>2. \A x, y \in DOMAIN d.l : i0 + x = i0 + y => x = y
    BY <1>1, <1>2, <1>4
  <2> QED BY <2>1, <2>2
<1>12. Named(d.l, d.m)
  <2>1. \A j \in DOMAIN d.l : i0 + j \in (i0 + 1)..N
    BY <1>1, <1>2, <1>4
  <2>2. DOMAIN d.m = {d.l[j].k : j \in DOMAIN d.l}
    BY <1>8, <1>9, <1>10, <2>1
  <2>3. \A j \in DOMAIN d.l : d.m[d.l[j].k] = d.l[j].id
    BY <1>8, <1>10, <2>2, SMTT(40) DEF CacheOK, Named
  <2>4. d.m = [x \in DOMAIN d.m |-> d.m[x]]
    BY <1>3
  <2> QED BY <2>2, <2>3, <2>4 DEF Named
<1>13. CacheOK(d)
  BY <1>4, <1>5, <1>11, <1>12 DEF CacheOK
<1>14. ASSUME NEW u, Ordered(c.l, u) PROVE Ordered(d.l, u)
  <2>1. \A i, j \in DOMAIN d.l : i < j => i0 + i < i0 + j
    BY <1>2, <1>4
  <2> QED BY <1>8, <1>14, <2>1 DEF Ordered
<1> QED BY <1>2, <1>6, <1>7, <1>10, <1>13, <1>14 DEF d, i0

\* A node with a new name and a new key goes to the end.
LEMMA AppendOK ==
  ASSUME NEW c, CacheOK(c), NEW e \in Node, e.k \notin DOMAIN c.m, e.id \notin Ids(c.l)
  PROVE  LET d == Cache(Append(c.l, e),
                        [j \in DOMAIN c.m \cup {e.k} |-> IF j = e.k THEN e.id ELSE c.m[j]],
                        c.sz + e.size)
         IN  /\ CacheOK(d)
             /\ DOMAIN d.m = DOMAIN c.m \cup {e.k}
<1> DEFINE N == Len(c.l)
           dl == Append(c.l, e)
           dm == [j \in DOMAIN c.m \cup {e.k} |-> IF j = e.k THEN e.id ELSE c.m[j]]
           d == Cache(dl, dm, c.sz + e.size)
<1>1. c.l \in Seq(Node) /\ N \in Nat /\ DOMAIN c.l = 1..N
  BY DEF CacheOK
<1>2. d.l = dl /\ d.m = dm /\ d.sz = c.sz + e.size
  BY DEF Cache
<1>3. /\ dl \in Seq(Node) /\ DOMAIN dl = 1..(N + 1) /\ dl[N + 1] = e
      /\ \A i \in 1..N : dl[i] = c.l[i]
  BY <1>1
<1>4. DOMAIN dm = DOMAIN c.m \cup {e.k} /\ dm[e.k] = e.id /\ \A x \in DOMAIN c.m : dm[x] = c.m[x]
  OBVIOUS
<1>5. dm = [x \in DOMAIN dm |-> dm[x]]
  OBVIOUS
<1>6. SumFunction(Sizes(dl)) = c.sz + e.size
  BY <1>1, SumOfAppended DEF CacheOK
<1> HIDE DEF dl, dm
<1>7. \A i \in DOMAIN dl : i \in DOMAIN c.l \/ i = N + 1
  BY <1>1, <1>3
<1>8. \A i \in DOMAIN c.l : c.l[i].id /= e.id /\ i \in DOMAIN dl /\ dl[i] = c.l[i]
  BY <1>1, <1>3 DEF Ids
<1>9. OneIdEach(dl)
  BY <1>3, <1>7, <1>8 DEF OneIdEach, CacheOK
<1>10. Named(dl, dm)
  <2>1. \A i \in DOMAIN dl : dl[i].k \in DOMAIN dm /\ dm[dl[i].k] = dl[i].id
    BY <1>3, <1>4, <1>7, <1>8 DEF CacheOK, Named
  <2>2. \A x \in DOMAIN dm : \E i \in DOMAIN dl : dl[i].k = x
    <3>1. N + 1 \in DOMAIN dl
      BY <1>1, <1>3
    <3> SUFFICES ASSUME NEW x \in DOMAIN dm PROVE \E i \in DOMAIN dl : dl[i].k = x
      OBVIOUS
    <3>2. CASE x = e.k
      BY <1>3, <3>1, <3>2
    <3>3. CASE x \in DOMAIN c.m
      <4>1. PICK i \in DOMAIN c.l : c.l[i].k = x
        BY <3>3 DEF CacheOK, Named
      <4> QED BY <1>8, <4>1
    <3> QED BY <1>4, <3>2, <3>3
  <2>3. DOMAIN dm = {dl[i].k : i \in DOMAIN dl}
    BY <2>1, <2>2
  <2>4. \A i \in DOMAIN dl : dm[dl[i].k] = dl[i].id
    BY <2>1
  <2> QED BY <1>5, <2>3, <2>4 DEF Named
<1>11. CacheOK(d)
  BY <1>2, <1>3, <1>6, <1>9, <1>10 DEF CacheOK
<1> QED BY <1>2, <1>4, <1>11 DEF dl, dm

\* There are no more names than nodes.
LEMMA FewIds ==
  ASSUME NEW s \in Seq(Node)
  PROVE  /\ IsFiniteSet(Ids(s))
         /\ Cardinality(Ids(s)) <= Len(s)
         /\ OneIdEach(s) => Cardinality(Ids(s)) = Len(s)
<1> DEFINE n == Len(s)
           f == [i \in 1..n |-> s[i].id]
           T == Ids(s)
<1>1. n \in Nat /\ DOMAIN s = 1..n
  OBVIOUS
<1>2. f \in Surjection(1..n, T)
  BY <1>1 DEF Surjection, Ids
<1>3. IsFiniteSet(1..n) /\ Cardinality(1..n) = n
  BY <1>1, FS_Interval
<1>4. OneIdEach(s) => f \in Injection(1..n, T)
  BY <1>1, <1>2 DEF OneIdEach, Injection, IsInjective, Surjection
<1> HIDE DEF f, T, n
<1>5. IsFiniteSet(T) /\ Cardinality(T) <= n
  BY <1>2, <1>3, FS_Surjection
<1>6. OneIdEach(s) => Cardinality(T) = n
  BY <1>2, <1>3, <1>4, FS_Surjection
<1> QED BY <1>5, <1>6 DEF T, n

\* A list node that is not in use is always found.
LEMMA FreshIdIs ==
  ASSUME NEW s \in Seq(Node)
  PROVE  FreshId(s) \in Nat \ {0} /\ FreshId(s) \notin Ids(s)
<1> DEFINE n == Len(s)
           Free == 1..(n + 1) \ Ids(s)
<1>1. n \in Nat /\ IsFiniteSet(1..(n + 1)) /\ Cardinality(1..(n + 1)) = n + 1
  BY FS_Interval
<1>2. Free /= {}
  <2> SUFFICES ASSUME 1..(n + 1) \subseteq Ids(s) PROVE FALSE
    OBVIOUS
  <2>1. Cardinality(1..(n + 1)) <= Cardinality(Ids(s)) /\ Cardinality(Ids(s)) <= n
    BY FewIds, FS_Subset
  <2>2. Cardinality(Ids(s)) \in Nat
    BY FewIds, FS_CardinalityType
  <2> QED BY <1>1, <2>1, <2>2
<1>3. Free \in SUBSET Nat
  BY <1>1
<1>4. Min(Free) \in Free
  <2> HIDE DEF Free
  <2> QED BY <1>2, <1>3, MinIs
<1> QED BY <1>1, <1>4 DEF FreshId

\* The insertion of Put.
LEMMA InsertOK ==
  ASSUME NEW c, CacheOK(c), NEW k \in Key, NEW n \in ValueSizes, k \notin DOMAIN c.m
  PROVE  LET d == AfterInsert(c, k, n)
             e == [id |-> FreshId(c.l), k |-> k, size |-> n]
         IN  /\ CacheOK(d)
             /\ DOMAIN d.m = DOMAIN c.m \cup {k}
             /\ d.sz = c.sz + n
             /\ d.l = Append(c.l, e) /\ e \in Node /\ e.k = k
<1> DEFINE e == [id |-> FreshId(c.l), k |-> k, size |-> n]
<1>1. FreshId(c.l) \in Nat \ {0} /\ FreshId(c.l) \notin Ids(c.l)
  BY FreshIdIs DEF CacheOK
<1>2. e \in Node /\ e.k = k /\ e.id = FreshId(c.l) /\ e.size = n
  BY <1>1 DEF Node
<1> HIDE DEF e
<1>3. AfterInsert(c, k, n) = Cache(Append(c.l, e),
                                   [j \in DOMAIN c.m \cup {e.k} |-> IF j = e.k THEN e.id ELSE c.m[j]],
                                   c.sz + e.size)
  BY <1>2 DEF AfterInsert, e
<1>4. AfterInsert(c, k, n).l = Append(c.l, e) /\ AfterInsert(c, k, n).sz = c.sz + n
  BY <1>2, <1>3 DEF Cache
<1>5. CacheOK(AfterInsert(c, k, n)) /\ DOMAIN AfterInsert(c, k, n).m = DOMAIN c.m \cup {e.k}
  BY <1>1, <1>2, <1>3, AppendOK
<1> QED BY <1>2, <1>4, <1>5 DEF e

-----------------------------------------------------------------------------
(* The keys by their last use.                                             *)

Distinct(u) == \A a, b \in DOMAIN u : u[a] = u[b] => a = b

\* uses after k is used.
UsedNow(u, k) == Append(IF k \in ToSet(u) THEN RemoveAt(u, CHOOSE i \in DOMAIN u : u[i] = k) ELSE u, k)

\* u with the key k, if it is there, taken out.
TakenOut(u, v, k) ==
  /\ v \in Seq(Key) /\ Distinct(v)
  /\ ToSet(v) = ToSet(u) \ {k}
  /\ \A x, y \in Key : x /= k /\ y /= k /\ Before(u, x, y) => Before(v, x, y)

\* RemoveAt takes one key out of the order and leaves the others.
LEMMA TakeOut ==
  ASSUME NEW u \in Seq(Key), Distinct(u), NEW k \in ToSet(u)
  PROVE  TakenOut(u, RemoveAt(u, CHOOSE i \in DOMAIN u : u[i] = k), k)
<1> DEFINE p == CHOOSE i \in DOMAIN u : u[i] = k
           v == RemoveAt(u, p)
           n == Len(u)
<1>1. p \in DOMAIN u /\ u[p] = k
  BY DEF ToSet
<1>2. n \in Nat /\ DOMAIN u = 1..n
  OBVIOUS
<1> HIDE DEF p
<1>3. v \in Seq(Key) /\ Len(v) = n - 1 /\ \A j \in 1..(n - 1) : v[j] = IF j < p THEN u[j] ELSE u[j + 1]
  BY <1>1, RemoveAtIs
<1> HIDE DEF v, n
<1>4. DOMAIN v = 1..(n - 1)
  BY <1>3
<1> DEFINE was(j) == IF j < p THEN j ELSE j + 1
           now(j) == IF j < p THEN j ELSE j - 1
<1>5. \A j \in DOMAIN v : was(j) \in DOMAIN u /\ was(j) /= p
  BY <1>1, <1>2, <1>4
<1>6. \A j \in DOMAIN v : v[j] = u[was(j)]
  BY <1>3, <1>4
<1>7. \A i, j \in DOMAIN v : was(i) = was(j) => i = j
  BY <1>1, <1>2, <1>4
<1>8. \A j \in DOMAIN u : j /= p => now(j) \in DOMAIN v /\ was(now(j)) = j
  BY <1>1, <1>2, <1>4
<1>9. \A i, j \in DOMAIN u : i /= p /\ j /= p /\ i < j => now(i) < now(j)
  BY <1>1, <1>2
<1> HIDE DEF was, now
<1>10. Distinct(v)
  BY <1>5, <1>6, <1>7 DEF Distinct
<1>11. \A j \in DOMAIN u : j /= p => now(j) \in DOMAIN v /\ v[now(j)] = u[j]
  BY <1>6, <1>8
<1>12. \A j \in DOMAIN v : v[j] /= k
  BY <1>1, <1>5, <1>6 DEF Distinct
<1>13. ToSet(v) = ToSet(u) \ {k}
  <2>1. \A x \in ToSet(v) : x \in ToSet(u) \ {k}
    BY <1>5, <1>6, <1>12 DEF ToSet
  <2>2. \A x \in ToSet(u) \ {k} : x \in ToSet(v)
    BY <1>1, <1>11 DEF ToSet
  <2> QED BY <2>1, <2>2
<1>14. ASSUME NEW x \in Key, NEW y \in Key, x /= k, y /= k, Before(u, x, y)
       PROVE  Before(v, x, y)
  <2>1. PICK a, b \in DOMAIN u : a < b /\ u[a] = x /\ u[b] = y
    BY <1>14 DEF Before
  <2>2. a /= p /\ b /= p
    BY <1>1, <1>14, <2>1
  <2> QED BY <1>9, <1>11, <2>1, <2>2 DEF Before
<1> QED BY <1>3, <1>10, <1>13, <1>14 DEF TakenOut, v, p

\* The key that is used becomes the last, the others stay in order.
LEMMA UsedOK ==
  ASSUME NEW u \in Seq(Key), Distinct(u), NEW k \in Key
  PROVE  LET v == UsedNow(u, k) IN
         /\ v \in Seq(Key) /\ Distinct(v)
         /\ ToSet(v) = ToSet(u) \cup {k}
         /\ \A x, y \in Key : x /= k /\ y /= k /\ Before(u, x, y) => Before(v, x, y)
         /\ \A x \in ToSet(u) : x /= k => Before(v, x, k)
<1> DEFINE w == IF k \in ToSet(u) THEN RemoveAt(u, CHOOSE i \in DOMAIN u : u[i] = k) ELSE u
           v == Append(w, k)
           n == Len(w)
<1>1. TakenOut(u, w, k)
  <2>1. CASE k \in ToSet(u)
    BY <2>1, TakeOut
  <2>2. CASE k \notin ToSet(u)
    BY <2>2 DEF TakenOut
  <2> QED BY <2>1, <2>2
<1>2. UsedNow(u, k) = v
  BY DEF UsedNow
<1> HIDE DEF w
<1>3. w \in Seq(Key) /\ Distinct(w) /\ ToSet(w) = ToSet(u) \ {k}
  BY <1>1 DEF TakenOut
<1>4. n \in Nat /\ DOMAIN w = 1..n
  BY <1>3
<1>5. /\ v \in Seq(Key) /\ DOMAIN v = 1..(n + 1) /\ v[n + 1] = k
      /\ \A i \in 1..n : v[i] = w[i]
  BY <1>3
<1> HIDE DEF v, n
<1>6. \A i \in DOMAIN w : i \in DOMAIN v /\ v[i] = w[i] /\ i < n + 1 /\ w[i] /= k
  <2>1. \A i \in DOMAIN w : w[i] \in ToSet(w)
    BY DEF ToSet
  <2>2. \A i \in DOMAIN w : i \in DOMAIN v /\ v[i] = w[i] /\ i < n + 1
    BY <1>4, <1>5
  <2> QED BY <1>3, <2>1, <2>2
<1>7. \A i \in DOMAIN v : i \in DOMAIN w \/ i = n + 1
  BY <1>4, <1>5
<1>8. n + 1 \in DOMAIN v
  BY <1>4, <1>5
<1>9. Distinct(v)
  BY <1>3, <1>5, <1>6, <1>7 DEF Distinct
<1>10. ToSet(v) = ToSet(u) \cup {k}
  <2>1. \A x \in ToSet(v) : x \in ToSet(u) \cup {k}
    BY <1>3, <1>5, <1>6, <1>7 DEF ToSet
  <2>2. \A x \in ToSet(w) : x \in ToSet(v)
    BY <1>6 DEF ToSet
  <2>3. k \in ToSet(v)
    BY <1>5, <1>8 DEF ToSet
  <2> QED BY <1>3, <2>1, <2>2, <2>3
<1>11. ASSUME NEW x \in Key, NEW y \in Key, x /= k, y /= k, Before(u, x, y)
       PROVE  Before(v, x, y)
  <2>1. Before(w, x, y)
    BY <1>1, <1>11 DEF TakenOut
  <2> QED BY <1>6, <2>1 DEF Before
<1>12. ASSUME NEW x \in ToSet(u), x /= k PROVE Before(v, x, k)
  <2>1. PICK i \in DOMAIN w : w[i] = x
    BY <1>3, <1>12 DEF ToSet
  <2> QED BY <1>5, <1>6, <1>8, <2>1 DEF Before
<1> QED BY <1>2, <1>5, <1>9, <1>10, <1>11, <1>12

\* When list and uses both get the key at the end, they agree as before.
LEMMA StillOrdered ==
  ASSUME NEW s \in Seq(Node), NEW u \in Seq(Key), Distinct(u), Ordered(s, u), NEW k \in Key,
         NEW e \in Node, e.k = k, \A i \in DOMAIN s : s[i].k /= k
  PROVE  Ordered(Append(s, e), UsedNow(u, k))
<1> DEFINE n == Len(s)
           t == Append(s, e)
           v == UsedNow(u, k)
<1>1. n \in Nat /\ DOMAIN s = 1..n
  OBVIOUS
<1>2. DOMAIN t = 1..(n + 1) /\ t[n + 1] = e /\ \A i \in 1..n : t[i] = s[i]
  BY <1>1
<1>3. /\ ToSet(v) = ToSet(u) \cup {k}
      /\ \A x, y \in Key : x /= k /\ y /= k /\ Before(u, x, y) => Before(v, x, y)
      /\ \A x \in ToSet(u) : x /= k => Before(v, x, k)
  BY UsedOK
<1> HIDE DEF n, t, v
<1>4. \A i \in DOMAIN t : (i \in DOMAIN s /\ t[i] = s[i]) \/ (i = n + 1 /\ t[i] = e)
  BY <1>1, <1>2
<1>5. \A i \in DOMAIN s : s[i].k \in Key
  BY <1>1, NodeFields
<1>6. \A i \in DOMAIN t : t[i].k \in ToSet(v)
  BY <1>3, <1>4 DEF Ordered
<1>7. ASSUME NEW i \in DOMAIN t, NEW j \in DOMAIN t, i < j PROVE Before(v, t[i].k, t[j].k)
  <2>1. i \in DOMAIN s /\ t[i] = s[i]
    BY <1>1, <1>2, <1>4, <1>7
  <2>2. CASE j \in DOMAIN s /\ t[j] = s[j]
    BY <1>3, <1>5, <1>7, <2>1, <2>2 DEF Ordered
  <2>3. CASE t[j] = e
    BY <1>3, <2>1, <2>3 DEF Ordered
  <2> QED BY <1>4, <2>2, <2>3
<1> QED BY <1>6, <1>7 DEF Ordered, t, v

-----------------------------------------------------------------------------
(* The operations.                                                         *)

LRUInv ==
  /\ CacheOK(Cache(l, m, sz))
  /\ sz <= SzMax
  /\ uses \in Seq(Key)
  /\ Distinct(uses)
  /\ Ordered(l, uses)

\* What a Cache is made of.
LEMMA StateIs ==
  ASSUME NEW a, NEW b, NEW c
  PROVE  Cache(a, b, c).l = a /\ Cache(a, b, c).m = b /\ Cache(a, b, c).sz = c
BY DEF Cache

\* A Cache and its three parts.
LEMMA StateOK ==
  ASSUME NEW c, CacheOK(c)
  PROVE  CacheOK(Cache(c.l, c.m, c.sz))
BY DEF CacheOK, Cache

\* The action on uses.
LEMMA UsedIs ==
  ASSUME NEW k \in Key, Used(k)
  PROVE  uses' = UsedNow(uses, k)
BY DEF Used, UsedNow, LastUse

\* The empty cache.
LEMMA InitOK == LRUInit => LRUInv
<1> SUFFICES ASSUME LRUInit PROVE LRUInv
  OBVIOUS
<1>1. l = <<>> /\ m = [k \in {} |-> 0] /\ sz = 0 /\ uses = <<>>
  BY DEF LRUInit
<1>2. l \in Seq(Node) /\ uses \in Seq(Key) /\ DOMAIN l = {} /\ DOMAIN uses = {} /\ DOMAIN m = {}
  BY <1>1
<1>3. OneIdEach(l) /\ Named(l, m) /\ Distinct(uses) /\ Ordered(l, uses)
  BY <1>1, <1>2 DEF OneIdEach, Named, Distinct, Ordered
<1>4. Sizes(l) \in [{} -> Int]
  BY <1>2 DEF Sizes
<1>5. sz = SumFunction(Sizes(l)) /\ sz <= SzMax
  BY <1>1, <1>4, SumEmpty, LRUAssumption
<1>6. CacheOK(Cache(l, m, sz))
  <2> DEFINE c == Cache(l, m, sz)
  <2>1. c.l = l /\ c.m = m /\ c.sz = sz
    BY StateIs
  <2> HIDE DEF c
  <2>2. CacheOK(c)
    BY <1>2, <1>3, <1>5, <2>1 DEF CacheOK
  <2> QED BY <2>2 DEF c
<1> QED BY <1>2, <1>3, <1>5, <1>6 DEF LRUInv

\* Get moves a node to the end.
LEMMA GetOK ==
  ASSUME LRUInv, NEW k \in Key, CacheGet(k)
  PROVE  LRUInv'
<1> DEFINE c == Cache(l, m, sz)
           d == AfterErase(c, k)
           e == NodeOf(l, m[k])
           r == NotNode(l, m[k])
<1>1. /\ k \in DOMAIN m /\ uses' = UsedNow(uses, k) /\ l' = Append(r, e)
      /\ m' = m /\ sz' = sz
  BY UsedIs DEF CacheGet
<1>2. CacheOK(c) /\ c.l = l /\ c.m = m /\ c.sz = sz
  BY StateIs DEF LRUInv
<1>3. d = Cache(r, WithoutKey(m, k), sz - e.size)
  BY <1>1, <1>2 DEF AfterErase
<1>4. d.l = r /\ d.m = WithoutKey(m, k) /\ d.sz = sz - e.size
  BY <1>3, StateIs
<1>5. IdxOf(l, m[k]) \in DOMAIN l /\ e = l[IdxOf(l, m[k])] /\ e.k = k /\ e.id = m[k]
  BY <1>1, <1>2, FoundAt DEF NodeOf
<1>6. e \in Node /\ l \in Seq(Node)
  BY <1>2, <1>5 DEF CacheOK
<1> HIDE DEF c, d, e, r
<1>7. CacheOK(d) /\ DOMAIN d.m = DOMAIN m \ {k} /\ Ordered(r, uses)
  BY <1>2, <1>4, EraseOK DEF d, LRUInv
<1>8. e.id \notin Ids(r)
  <2> SUFFICES ASSUME NEW i \in DOMAIN r, r[i].id = e.id PROVE FALSE
    BY DEF Ids
  <2>1. r[i].k \in DOMAIN d.m /\ d.m[r[i].k] = e.id
    BY <1>4, <1>7 DEF CacheOK, Named
  <2>2. r[i].k \in DOMAIN m \ {k} /\ m[r[i].k] = m[k]
    BY <1>4, <1>5, <1>7, <2>1 DEF WithoutKey
  <2>3. PICK x \in DOMAIN l : l[x].k = r[i].k
    BY <1>2, <2>2 DEF CacheOK, Named
  <2>4. l[x].id = e.id
    BY <1>2, <1>5, <2>2, <2>3 DEF CacheOK, Named
  <2>5. x = IdxOf(l, m[k])
    BY <1>2, <1>5, <2>4 DEF CacheOK, OneIdEach
  <2> QED BY <1>5, <2>2, <2>3, <2>5
<1> DEFINE g == Cache(Append(d.l, e), [j \in DOMAIN d.m \cup {e.k} |-> IF j = e.k THEN e.id ELSE d.m[j]], d.sz + e.size)
<1>9. CacheOK(g)
  BY <1>4, <1>5, <1>6, <1>7, <1>8, AppendOK
<1>10. g = Cache(l', m', sz')
  <2>1. [j \in DOMAIN d.m \cup {e.k} |-> IF j = e.k THEN e.id ELSE d.m[j]] = m
    <3>1. DOMAIN d.m \cup {e.k} = DOMAIN m
      BY <1>1, <1>5, <1>7
    <3>2. m = [j \in DOMAIN m |-> m[j]]
      BY <1>2 DEF CacheOK, Named
    <3>3. \A j \in DOMAIN m : m[j] = IF j = e.k THEN e.id ELSE d.m[j]
      BY <1>4, <1>5, <1>7 DEF WithoutKey
    <3> QED BY <3>1, <3>2, <3>3
  <2>2. d.sz + e.size = sz
    <3>1. sz \in Nat /\ e.size \in Nat
      BY <1>2, <1>6, SizesOf, NodeFields DEF CacheOK
    <3> QED BY <1>4, <3>1
  <2> QED BY <1>1, <1>4, <2>1, <2>2
<1>11. \A i \in DOMAIN r : r[i].k /= k
  BY <1>4, <1>7 DEF CacheOK, Named
<1>12. r \in Seq(Node)
  BY <1>4, <1>7 DEF CacheOK
<1>13. Ordered(l', uses') /\ uses' \in Seq(Key) /\ Distinct(uses')
  BY <1>1, <1>5, <1>6, <1>7, <1>11, <1>12, StillOrdered, UsedOK DEF LRUInv
<1> QED BY <1>1, <1>9, <1>10, <1>13 DEF LRUInv

\* Erase.
LEMMA EraseStepOK ==
  ASSUME LRUInv, NEW k \in Key, CacheErase(k)
  PROVE  LRUInv'
<1> DEFINE c == Cache(l, m, sz)
           d == AfterErase(c, k)
<1>1. l' = d.l /\ m' = d.m /\ sz' = d.sz /\ uses' = uses
  BY DEF CacheErase, Becomes
<1>2. CacheOK(c) /\ c.l = l /\ c.sz = sz /\ sz \in Nat
  BY StateIs, SizesOf DEF LRUInv, CacheOK
<1> HIDE DEF c, d
<1>a. CacheOK(d) /\ d.sz <= sz /\ Ordered(d.l, uses)
  BY <1>2, EraseOK DEF d, LRUInv
<1>3. CacheOK(d) /\ d.sz <= sz /\ Ordered(d.l, uses) /\ d.sz \in Nat
  BY <1>a, SizesOf DEF CacheOK
<1>4. CacheOK(Cache(l', m', sz'))
  BY <1>1, <1>3, StateIs DEF CacheOK
<1>5. sz' <= SzMax
  BY <1>1, <1>2, <1>3, LRUAssumption DEF LRUInv
<1> QED BY <1>1, <1>3, <1>4, <1>5 DEF LRUInv

\* What a Put that is not refused makes of the list.
LEMMA PutIs ==
  ASSUME LRUInv, NEW k \in Key, NEW n \in ValueSizes, CachePut(k, n), n <= SzMax
  PROVE  LET c == AfterErase(Cache(l, m, sz), k)
             d == EvictFor(c, n)
             e == [id |-> FreshId(d.l), k |-> k, size |-> n]
         IN  /\ CacheOK(c) /\ DOMAIN c.m = DOMAIN m \ {k} /\ Ordered(c.l, uses)
             /\ n \in Nat
             /\ Evicted(c, n) \in 0..Len(c.l)
             /\ DOMAIN d.m = {c.l[i].k : i \in (Evicted(c, n) + 1)..Len(c.l)}
             /\ CacheOK(d) /\ k \notin DOMAIN d.m /\ d.sz <= SzMax - n /\ Ordered(d.l, uses)
             /\ Evicted(c, n) > 0 => d.sz + c.l[Evicted(c, n)].size > SzMax - n
             /\ l' = Append(d.l, e) /\ e \in Node /\ e.k = k
             /\ CacheOK(Cache(l', m', sz'))
             /\ DOMAIN m' = DOMAIN d.m \cup {k}
             /\ sz' = d.sz + n
             /\ uses' = UsedNow(uses, k)
<1> DEFINE s == Cache(l, m, sz)
           c == AfterErase(s, k)
           d == EvictFor(c, n)
           e == [id |-> FreshId(d.l), k |-> k, size |-> n]
           g == AfterInsert(d, k, n)
<1>1. n \in Nat /\ ~(n > SzMax)
  BY LRUAssumption
<1>2. Becomes(g) /\ uses' = UsedNow(uses, k)
  BY <1>1, UsedIs DEF CachePut
<1>3. CacheOK(s) /\ s.l = l /\ s.m = m
  BY StateIs DEF LRUInv
<1> HIDE DEF s
<1>4. CacheOK(c) /\ DOMAIN c.m = DOMAIN m \ {k} /\ Ordered(c.l, uses)
  BY <1>3, EraseOK DEF LRUInv
<1> HIDE DEF c
<1>5. /\ CacheOK(d) /\ Evicted(c, n) \in 0..Len(c.l)
      /\ DOMAIN d.m = {c.l[i].k : i \in (Evicted(c, n) + 1)..Len(c.l)}
      /\ d.sz <= SzMax - n
      /\ Evicted(c, n) > 0 => d.sz + c.l[Evicted(c, n)].size > SzMax - n
      /\ Ordered(d.l, uses)
  BY <1>1, <1>4, EvictOK
<1>6. k \notin DOMAIN d.m
  <2>1. c.l \in Seq(Node) /\ \A i \in DOMAIN c.l : c.l[i].k \in DOMAIN c.m
    BY <1>4 DEF CacheOK, Named
  <2>2. \A i \in (Evicted(c, n) + 1)..Len(c.l) : i \in DOMAIN c.l
    BY <1>5, <2>1
  <2>3. \A i \in DOMAIN c.l : c.l[i].k /= k
    BY <1>4, <2>1
  <2> QED BY <1>5, <2>2, <2>3
<1> HIDE DEF d
<1>7. /\ CacheOK(g) /\ DOMAIN g.m = DOMAIN d.m \cup {k} /\ g.sz = d.sz + n
      /\ g.l = Append(d.l, e) /\ e \in Node /\ e.k = k
  BY <1>5, <1>6, InsertOK
<1> HIDE DEF e, g
<1>8. l' = g.l /\ m' = g.m /\ sz' = g.sz
  BY <1>2 DEF Becomes
<1>9. CacheOK(Cache(l', m', sz'))
  BY <1>7, <1>8, StateOK
<1> QED BY <1>1, <1>2, <1>4, <1>5, <1>6, <1>7, <1>8, <1>9 DEF s, c, d, e

\* Put, refused or not.
LEMMA PutOK ==
  ASSUME LRUInv, NEW k \in Key, NEW n \in ValueSizes, CachePut(k, n)
  PROVE  LRUInv'
<1>0. n \in Nat /\ SzMax \in Nat
  BY LRUAssumption
<1>1. CASE n > SzMax
  <2>1. CacheErase(k)
    BY <1>1 DEF CachePut, CacheErase
  <2> QED BY <2>1, EraseStepOK
<1>2. CASE n <= SzMax
  <2> DEFINE d == EvictFor(AfterErase(Cache(l, m, sz), k), n)
             e == [id |-> FreshId(d.l), k |-> k, size |-> n]
  <2>1. /\ CacheOK(d) /\ k \notin DOMAIN d.m /\ d.sz <= SzMax - n /\ Ordered(d.l, uses)
        /\ l' = Append(d.l, e) /\ e \in Node /\ e.k = k
        /\ CacheOK(Cache(l', m', sz')) /\ sz' = d.sz + n
        /\ uses' = UsedNow(uses, k)
    BY <1>2, PutIs
  <2> HIDE DEF d, e
  <2>2. d.l \in Seq(Node) /\ d.sz \in Nat /\ \A i \in DOMAIN d.l : d.l[i].k /= k
    <3>1. d.l \in Seq(Node) /\ d.sz = SumFunction(Sizes(d.l)) /\ Named(d.l, d.m)
      BY <2>1 DEF CacheOK
    <3>2. d.sz \in Nat
      BY <3>1, SizesOf
    <3>3. \A i \in DOMAIN d.l : d.l[i].k \in DOMAIN d.m
      BY <3>1 DEF Named
    <3> QED BY <2>1, <3>1, <3>2, <3>3
  <2>3. Ordered(l', uses') /\ uses' \in Seq(Key) /\ Distinct(uses')
    BY <2>1, <2>2, StillOrdered, UsedOK DEF LRUInv
  <2>4. sz' <= SzMax
    BY <1>0, <2>1, <2>2
  <2> QED BY <2>1, <2>3, <2>4 DEF LRUInv
<1> QED BY <1>0, <1>1, <1>2

\* The invariant is kept by every step.
LEMMA LRUInductive == LRUInv /\ [LRUNext]_lruVars => LRUInv'
<1> SUFFICES ASSUME LRUInv, [LRUNext]_lruVars PROVE LRUInv'
  OBVIOUS
<1>1. CASE UNCHANGED lruVars
  BY <1>1 DEF lruVars, LRUInv
<1>2. CASE LRUNext
  BY <1>2, GetOK, EraseStepOK, PutOK DEF LRUNext
<1> QED BY <1>1, <1>2

\* The list, the map, the sum and the order of use agree in every state.
THEOREM LRUInvariant == LRUSpec => []LRUInv
<1> QED BY InitOK, LRUInductive, PTL DEF LRUSpec

\* The list and the map name each other one to one, and sz_ is the sum of the
\* sizes and never exceeds sz_max_: for any keys, sizes and limit.
THEOREM LRUConsistent == LRUSpec => []CacheConsistent
<1>1. LRUInv => CacheConsistent
  <2> SUFFICES ASSUME LRUInv PROVE CacheConsistent
    OBVIOUS
  <2>1. l \in Seq(Node) /\ OneIdEach(l) /\ Named(l, m) /\ sz = SumFunction(Sizes(l)) /\ sz <= SzMax
    BY StateIs DEF LRUInv, CacheOK
  <2>2. Cardinality(Ids(l)) = Len(l)
    BY <2>1, FewIds
  <2> QED BY <2>1, <2>2 DEF CacheConsistent, Named
<1> QED BY <1>1, LRUInvariant, PTL

\* The position of a key in uses is that of its last use.
LEMMA LastUseIs ==
  ASSUME LRUInv, NEW a \in DOMAIN uses
  PROVE  LastUse(uses[a]) = a
BY DEF LRUInv, Distinct, LastUse

\* Before is the order of the last uses.
LEMMA BeforeIs ==
  ASSUME LRUInv, NEW x, NEW y, Before(uses, x, y)
  PROVE  LastUse(x) < LastUse(y) /\ LastUse(x) \in Nat /\ LastUse(y) \in Nat
<1>1. PICK a, b \in DOMAIN uses : a < b /\ uses[a] = x /\ uses[b] = y
  BY DEF Before
<1>2. a \in Nat /\ b \in Nat
  BY DEF LRUInv
<1> QED BY <1>1, <1>2, LastUseIs

\* A Put evicts the keys that were not used for the longest time, and not one
\* more than the new value needs.
THEOREM LRUEvictsLeastRecent == LRUSpec => EvictsLeastRecent
<1> DEFINE Fair == DOMAIN m \ DOMAIN m' /= {} =>
       \A k \in Key, n \in ValueSizes : CachePut(k, n) =>
         LET evicted == DOMAIN m \ (DOMAIN m' \cup {k}) IN
         \A j \in evicted :
           /\ \A kept \in DOMAIN m' \ {k} : LastUse(j) < LastUse(kept)
           /\ (\A other \in evicted : LastUse(other) <= LastUse(j)) =>
                 sz' + NodeOf(l, m[j]).size > SzMax
<1>1. ASSUME LRUInv PROVE Fair
  <2> SUFFICES ASSUME NEW k \in Key, NEW n \in ValueSizes, CachePut(k, n),
                      NEW j \in DOMAIN m \ (DOMAIN m' \cup {k})
               PROVE  /\ \A kept \in DOMAIN m' \ {k} : LastUse(j) < LastUse(kept)
                      /\ (\A other \in DOMAIN m \ (DOMAIN m' \cup {k}) : LastUse(other) <= LastUse(j)) =>
                           sz' + NodeOf(l, m[j]).size > SzMax
    OBVIOUS
  <2> DEFINE s == Cache(l, m, sz)
             c == AfterErase(s, k)
             d == EvictFor(c, n)
             i0 == Evicted(c, n)
             N == Len(c.l)
  <2>0. n \in Nat /\ SzMax \in Nat
    BY LRUAssumption
  <2>1. n <= SzMax
    <3> SUFFICES ASSUME n > SzMax PROVE FALSE
      BY <2>0
    <3>1. m' = c.m
      BY DEF CachePut, Becomes
    <3>2. CacheOK(s) /\ s.m = m
      BY <1>1, StateIs DEF LRUInv
    <3>3. DOMAIN m' = DOMAIN m \ {k}
      BY <3>1, <3>2, EraseOK
    <3> QED BY <3>3
  <2>2. /\ CacheOK(c) /\ DOMAIN c.m = DOMAIN m \ {k} /\ Ordered(c.l, uses)
        /\ i0 \in 0..N
        /\ DOMAIN d.m = {c.l[i].k : i \in (i0 + 1)..N}
        /\ CacheOK(d) /\ k \notin DOMAIN d.m
        /\ i0 > 0 => d.sz + c.l[i0].size > SzMax - n
        /\ DOMAIN m' = DOMAIN d.m \cup {k} /\ sz' = d.sz + n
    BY <1>1, <2>1, PutIs
  <2>3. CacheOK(s) /\ s.l = l /\ s.m = m
    BY <1>1, StateIs DEF LRUInv
  <2> HIDE DEF s, c, d, i0
  <2>4. c.l \in Seq(Node) /\ DOMAIN c.l = 1..N /\ N \in Nat /\ DOMAIN c.m = {c.l[i].k : i \in DOMAIN c.l}
    BY <2>2 DEF CacheOK, Named
  <2>5. PICK a \in 1..N : c.l[a].k = j
    BY <2>2, <2>4
  <2>6. a <= i0
    <3> SUFFICES ASSUME a > i0 PROVE FALSE
      BY <2>2, <2>5
    <3>1. a \in (i0 + 1)..N
      BY <2>2, <2>4
    <3> QED BY <2>2, <2>5, <3>1
  <2>7. ASSUME NEW kept \in DOMAIN m' \ {k} PROVE LastUse(j) < LastUse(kept)
    <3>1. PICK b \in (i0 + 1)..N : c.l[b].k = kept
      BY <2>2
    <3>2. a < b /\ b \in 1..N
      BY <2>2, <2>4, <2>6
    <3>3. Before(uses, j, kept)
      BY <2>2, <2>4, <2>5, <3>1, <3>2 DEF Ordered
    <3> QED BY <1>1, <3>3, BeforeIs
  <2>8. ASSUME \A other \in DOMAIN m \ (DOMAIN m' \cup {k}) : LastUse(other) <= LastUse(j)
        PROVE  sz' + NodeOf(l, m[j]).size > SzMax
    <3>1. i0 \in 1..N /\ i0 > 0
      BY <2>2, <2>4, <2>5, <2>6
    <3> DEFINE final == c.l[i0].k
    <3>2. final \in DOMAIN m \ (DOMAIN m' \cup {k})
      <4>1. final \in DOMAIN m \ {k}
        BY <2>2, <2>4, <3>1
      <4>2. \A b \in (i0 + 1)..N : b \in DOMAIN c.l /\ b /= i0
        BY <2>4, <3>1
      <4>3. final \notin DOMAIN d.m
        BY <2>2, <2>4, <3>1, <4>2, KeysDiffer
      <4> QED BY <2>2, <4>1, <4>3
    <3>3. a = i0
      <4> SUFFICES ASSUME a < i0 PROVE FALSE
        BY <2>4, <2>5, <2>6, <3>1
      <4>1. Before(uses, j, final)
        BY <2>2, <2>4, <2>5, <3>1 DEF Ordered
      <4>2. LastUse(j) < LastUse(final) /\ LastUse(j) \in Nat /\ LastUse(final) \in Nat
        BY <1>1, <4>1, BeforeIs
      <4>3. LastUse(final) <= LastUse(j)
        BY <2>8, <3>2
      <4> QED BY <4>2, <4>3
    <3>4. NodeOf(l, m[j]) = c.l[i0]
      BY <2>3, <2>5, <3>3, SameNode DEF c
    <3>5. d.sz \in Nat /\ c.l[i0].size \in Nat
      BY <2>2, <2>4, <3>1, SizesOf DEF CacheOK
    <3> QED BY <2>0, <2>2, <3>1, <3>4, <3>5
  <2> QED BY <2>7, <2>8
<1>2. LRUInv => [Fair]_lruVars
  BY <1>1
<1> QED BY <1>2, LRUInvariant, PTL DEF EvictsLeastRecent

-----------------------------------------------------------------------------
(* TokenBucket.                                                            *)

(* What is in the bucket and what the window has granted are together no   *)
(* more than what was in it at first and what has come in; the time of the *)
(* last call is the latest that the clock has shown.                       *)
BucketInv ==
  /\ BucketTypeOK
  /\ last_time = shown
  /\ since <= shown
  /\ curr_value <= max_value
  /\ curr_value >= -MaxCost
  /\ granted + curr_value <= max_value + speed * (shown - since)

(* What Reset makes of its arguments is within the limits.                 *)
LEMMA ResetWithinLimits ==
  /\ \A s \in Speed : SpeedFor(s) \in MinSpeed..MaxSpeed
  /\ \A cap \in Capacity : CapacityFor(cap) \in 0..MaxCapacity
BY TokenBucketAssumption DEF SpeedFor, CapacityFor, Clamp

(* What a product gains when a factor grows.                               *)
LEMMA Accrues ==
  ASSUME NEW k \in Nat, NEW a \in Int, NEW b \in Int, NEW c \in Int
  PROVE  k * (c - a) = k * (b - a) + k * (c - b)
OBVIOUS

(* Time that passes brings nothing below zero.                             *)
LEMMA NothingLost ==
  ASSUME NEW k \in Nat, NEW d \in Nat
  PROVE  k * d \in Nat
OBVIOUS

\* A new bucket.
LEMMA BucketInitInv == BucketInit => BucketInv
BY ResetWithinLimits, TokenBucketAssumption DEF BucketInit, BucketInv, BucketTypeOK

\* Reset empties the window and fills the bucket.
LEMMA ResetInv ==
  ASSUME BucketInv, NEW s \in Speed, NEW cap \in Capacity, ResetBucket(s, cap)
  PROVE  BucketInv'
<1>1. /\ clock' = clock /\ last_time' = clock /\ shown' = clock /\ since' = clock /\ granted' = 0
      /\ speed' = SpeedFor(s) /\ max_value' = CapacityFor(cap) /\ curr_value' = max_value'
  BY DEF ResetBucket
<1>2. speed' \in MinSpeed..MaxSpeed /\ max_value' \in 0..MaxCapacity
  BY <1>1, ResetWithinLimits
<1>3. clock \in 0..MaxClock /\ MinSpeed \in Nat /\ MaxSpeed \in Nat /\ MaxCapacity \in Nat /\ MaxCost \in Nat
  BY TokenBucketAssumption DEF BucketInv, BucketTypeOK
<1>4. BucketTypeOK'
  BY <1>1, <1>2, <1>3 DEF BucketTypeOK
<1>5. speed' * (shown' - since') = 0
  BY <1>1, <1>2, <1>3
<1> QED BY <1>1, <1>2, <1>3, <1>4, <1>5 DEF BucketInv

\* A call takes what it grants.
LEMMA TryCostInv ==
  ASSUME BucketInv, NEW c \in Cost, TryCost(c)
  PROVE  BucketInv'
<1> DEFINE found == Filled(clock)
           come == speed * (found.time - last_time)
<1>1. /\ clock \in Nat /\ speed \in Nat /\ max_value \in Nat /\ curr_value \in Int
      /\ last_time \in Nat /\ since \in Nat /\ granted \in Nat
      /\ c \in Int /\ 0 < c /\ c <= MaxCost /\ MaxCost \in Nat
  BY TokenBucketAssumption DEF BucketInv, BucketTypeOK, TryCost
<1>2. /\ found.time \in 0..MaxClock /\ found.time >= last_time
      /\ found.time = shown' /\ last_time' = found.time
  BY <1>1, TokenBucketAssumption DEF TryCost, Filled, BucketInv, BucketTypeOK
<1>3. come \in Nat
  BY <1>1, <1>2, NothingLost
<1>4. /\ found.value \in Int /\ found.value <= max_value
      /\ found.value >= -MaxCost /\ found.value <= curr_value + come
  <2>1. CASE clock > last_time
    <3>1. come = speed * (clock - last_time)
      BY <2>1 DEF Filled
    <3> QED BY <1>1, <1>3, <2>1, <3>1 DEF Filled, BucketInv
  <2>2. CASE ~ (clock > last_time)
    BY <1>1, <1>3, <2>2 DEF Filled, BucketInv
  <2> QED BY <2>1, <2>2
<1>5. speed * (shown' - since) = speed * (shown - since) + come
  BY <1>1, <1>2, Accrues DEF BucketInv
<1> HIDE DEF found, come
<1>6. /\ curr_value' \in Int /\ curr_value' <= max_value /\ curr_value' >= -MaxCost
      /\ curr_value' = IF Grants(found.value) THEN found.value - c ELSE found.value
  BY <1>1, <1>4 DEF TryCost, Grants, found
<1>7. CASE /\ since' = since
           /\ granted' = granted + (IF Grants(found.value) THEN c ELSE 0)
  <2>1. granted' \in Nat /\ granted' + curr_value' = granted + found.value
    BY <1>1, <1>4, <1>6, <1>7
  <2>2. speed * (shown - since) \in Int
    BY <1>1, <1>2 DEF BucketInv
  <2>3. granted' + curr_value' <= max_value + speed * (shown' - since)
    BY <1>1, <1>3, <1>4, <1>5, <2>1, <2>2 DEF BucketInv
  <2> QED BY <1>1, <1>2, <1>6, <1>7, <2>1, <2>3, TokenBucketAssumption DEF BucketInv, BucketTypeOK, TryCost
<1>8. CASE /\ since' = shown'
           /\ granted' = IF Grants(found.value) THEN c ELSE 0
  <2>1. granted' \in Nat /\ granted' + curr_value' = found.value
    BY <1>1, <1>4, <1>6, <1>8
  <2>2. speed * (shown' - since') = 0
    BY <1>1, <1>2, <1>8
  <2> QED BY <1>1, <1>2, <1>4, <1>6, <1>8, <2>1, <2>2, TokenBucketAssumption DEF BucketInv, BucketTypeOK, TryCost
<1> QED BY <1>7, <1>8 DEF TryCost, found

\* The invariant is kept by every step,
LEMMA BucketStep == BucketInv /\ [BucketNext]_bucketVars => BucketInv'
<1> SUFFICES ASSUME BucketInv, [BucketNext]_bucketVars PROVE BucketInv'
  OBVIOUS
<1>1. CASE \E s \in Speed, cap \in Capacity : ResetBucket(s, cap)
  BY <1>1, ResetInv
<1>2. CASE \E c \in Cost : TryCost(c)
  BY <1>2, TryCostInv
<1>3. CASE SetClock
  BY <1>3 DEF SetClock, BucketInv, BucketTypeOK
<1>4. CASE UNCHANGED bucketVars
  BY <1>4 DEF bucketVars, BucketInv, BucketTypeOK
<1> QED BY <1>1, <1>2, <1>3, <1>4 DEF BucketNext, TryNothing

\* and so holds always.
LEMMA BucketInvAlways == BucketSpec => []BucketInv
<1> QED BY BucketInitInv, BucketStep, PTL DEF BucketSpec

(* Every window that begins with a call grants at most what the bucket can *)
(* hold, what the clock brings and one cost, whatever TryCost and Reset    *)
(* are called with and however the clock is set.                           *)
THEOREM RateIsBounded == BucketSpec => []RateBounded
<1>1. BucketInv => RateBounded
  <2> SUFFICES ASSUME BucketInv PROVE RateBounded
    OBVIOUS
  <2>1. speed * (shown - since) \in Int
    BY TokenBucketAssumption DEF BucketInv, BucketTypeOK
  <2> QED BY <2>1, TokenBucketAssumption DEF BucketInv, BucketTypeOK, RateBounded
<1> QED BY <1>1, BucketInvAlways, PTL


-----------------------------------------------------------------------------
(* VarInt: a codec that reads back every number, and accepts no other      *)
(* string.  The forms are one lemma each for packing and unpacking, which  *)
(* are then instantiated for the 8 forms of each kind.                     *)


Num == [1..8 -> Byte]

\* b |-> (b % ek) + mark takes B to H, and h |-> (h % dk) + add takes it back.
Matched(B, H, ek, mark, dk, add) ==
  /\ B \subseteq Byte /\ H \subseteq Byte
  /\ \A b \in B : (b % ek) + mark \in H /\ ((((b % ek) + mark) % dk) + add) = b
  /\ \A h \in H : (h % dk) + add \in B /\ ((((h % dk) + add) % ek) + mark) = h

Filled8(s, len, dk, add, fill) == [i \in 1..(8 - len) |-> fill] \o Marked(SubSeq(s, 1, len), dk, add)

\* A number is a sequence of 8 bytes.
LEMMA NumIs ==
  ASSUME NEW n \in Num
  PROVE  n \in Seq(Byte) /\ Len(n) = 8
<1> DEFINE s == [i \in 1..8 |-> n[i]]
<1>1. n = s /\ \A i \in 1..8 : n[i] \in Byte
  BY DEF Num
<1>2. s \in Seq(Byte) /\ Len(s) = 8
  BY <1>1
<1> QED BY <1>1, <1>2

\* The low bytes of a number.
LEMMA LowIs ==
  ASSUME NEW n \in Num, NEW len \in 1..8
  PROVE  Low(n, len) \in Seq(Byte) /\ Len(Low(n, len)) = len /\ \A j \in 1..len : Low(n, len)[j] = n[8 - len + j]
<1>1. \A i \in (9 - len)..8 : n[i] \in Byte
  BY DEF Num
<1>2. /\ SubSeq(n, 9 - len, 8) \in Seq(Byte)
      /\ Len(SubSeq(n, 9 - len, 8)) = len
      /\ \A j \in 1..(8 - (9 - len) + 1) : SubSeq(n, 9 - len, 8)[j] = n[(9 - len) + j - 1]
  BY <1>1, SubSeqProperties
<1>3. \A j \in 1..len : j \in 1..(8 - (9 - len) + 1) /\ (9 - len) + j - 1 = 8 - len + j
  OBVIOUS
<1> QED BY <1>2, <1>3 DEF Low

\* A mark changes the first byte only.
LEMMA MarkedIs ==
  ASSUME NEW s \in Seq(Byte), s /= <<>>, NEW keep, NEW mark, (s[1] % keep) + mark \in Byte
  PROVE  LET t == Marked(s, keep, mark) IN
         /\ t \in Seq(Byte) /\ Len(t) = Len(s)
         /\ t[1] = (s[1] % keep) + mark
         /\ \A j \in 2..Len(s) : t[j] = s[j]
BY DEF Marked

\* Sequences of bytes that agree at every place are one.
LEMMA SameBytes ==
  ASSUME NEW s \in Seq(Byte), NEW t \in Seq(Byte), Len(s) = Len(t), \A i \in 1..Len(s) : s[i] = t[i]
  PROVE  s = t
BY SeqEqual

\* Bytes widened to 8 by fill are a number.
LEMMA FilledIs ==
  ASSUME NEW len \in 1..7, NEW fill \in Byte, NEW t \in Seq(Byte), Len(t) = len
  PROVE  LET n == [i \in 1..(8 - len) |-> fill] \o t IN
         /\ n \in Seq(Byte) /\ Len(n) = 8 /\ n \in Num
         /\ \A i \in 1..(8 - len) : n[i] = fill
         /\ \A j \in 1..len : n[8 - len + j] = t[j]
<1> DEFINE z == [i \in 1..(8 - len) |-> fill]
           n == z \o t
<1>1. z \in Seq(Byte) /\ Len(z) = 8 - len /\ \A i \in 1..(8 - len) : z[i] = fill
  OBVIOUS
<1> HIDE DEF z
<1>2. /\ n \in Seq(Byte) /\ Len(n) = Len(z) + Len(t)
      /\ \A i \in 1..(Len(z) + Len(t)) : n[i] = IF i <= Len(z) THEN z[i] ELSE t[i - Len(z)]
  BY <1>1, ConcatProperties
<1> HIDE DEF n
<1>3. Len(n) = 8 /\ n \in [1..8 -> Byte]
  <2>1. Len(n) = 8
    BY <1>1, <1>2
  <2> QED BY <1>2, <2>1, LenProperties
<1>4. \A i \in 1..(8 - len) : n[i] = fill
  BY <1>1, <1>2
<1>5. ASSUME NEW j \in 1..len PROVE n[8 - len + j] = t[j]
  <2>1. 8 - len + j \in 1..(Len(z) + Len(t)) /\ ~(8 - len + j <= Len(z)) /\ (8 - len + j) - Len(z) = j
    BY <1>1
  <2>2. n[8 - len + j] = t[(8 - len + j) - Len(z)]
    BY <1>2, <2>1
  <2> QED BY <2>1, <2>2
<1> QED BY <1>2, <1>3, <1>4, <1>5 DEF n, z, Num

\* s is n in len bytes, the first marked, and n is s widened by fill.
PackedAs(s, n, len, fill, B, H, ek, mark, dk, add) ==
  /\ s \in Seq(Byte) /\ Len(s) = len /\ s[1] \in H /\ s = Marked(Low(n, len), ek, mark)
  /\ n \in Num /\ n[9 - len] \in B /\ \A i \in 1..(8 - len) : n[i] = fill
  /\ n = Filled8(s, len, dk, add, fill)

\* A number that fits is packed in len bytes, and can be unpacked.
LEMMA Packs ==
  ASSUME NEW n \in Num, NEW len \in 1..7, NEW fill \in Byte, NEW B, NEW H, NEW ek, NEW mark, NEW dk, NEW add,
         Matched(B, H, ek, mark, dk, add), n[9 - len] \in B, \A i \in 1..(8 - len) : n[i] = fill
  PROVE  PackedAs(Marked(Low(n, len), ek, mark), n, len, fill, B, H, ek, mark, dk, add)
<1> DEFINE w == Low(n, len)
           s == Marked(w, ek, mark)
           t == Marked(s, dk, add)
<1>1. w \in Seq(Byte) /\ Len(w) = len /\ \A j \in 1..len : w[j] = n[8 - len + j]
  <2>1. len \in 1..8
    OBVIOUS
  <2> QED BY <2>1, LowIs
<1>2. w[1] = n[9 - len] /\ w /= <<>>
  <2>1. 1 \in 1..len /\ 8 - len + 1 = 9 - len
    OBVIOUS
  <2>2. w[1] = n[8 - len + 1]
    BY <1>1, <2>1
  <2>3. Len(<<>>) = 0
    OBVIOUS
  <2> QED BY <1>1, <2>1, <2>2, <2>3
<1>3. /\ (w[1] % ek) + mark \in H /\ (w[1] % ek) + mark \in Byte
      /\ ((((w[1] % ek) + mark) % dk) + add) = n[9 - len]
  BY <1>2 DEF Matched
<1>4. n[9 - len] \in Byte
  BY DEF Num
<1> HIDE DEF w
<1>5. s \in Seq(Byte) /\ Len(s) = len /\ s[1] = (w[1] % ek) + mark /\ \A j \in 2..len : s[j] = w[j]
  BY <1>1, <1>2, <1>3, MarkedIs
<1> HIDE DEF s
<1>6. SubSeq(s, 1, len) = s /\ s /= <<>>
  BY <1>5
<1>7. t \in Seq(Byte) /\ Len(t) = len /\ t[1] = n[9 - len] /\ \A j \in 2..len : t[j] = s[j]
  <2>1. (s[1] % dk) + add = n[9 - len]
    BY <1>3, <1>5
  <2> QED BY <1>4, <1>5, <1>6, <2>1, MarkedIs
<1> HIDE DEF t
<1>8. \A j \in 1..len : t[j] = n[8 - len + j]
  <2> SUFFICES ASSUME NEW j \in 1..len PROVE t[j] = n[8 - len + j]
    OBVIOUS
  <2>1. CASE j = 1
    BY <1>7, <2>1
  <2>2. CASE j /= 1
    <3>1. j \in 2..len
      BY <2>2
    <3> QED BY <1>1, <1>5, <1>7, <3>1
  <2> QED BY <2>1, <2>2
<1> DEFINE r == [i \in 1..(8 - len) |-> fill] \o t
<1>9. /\ r \in Seq(Byte) /\ Len(r) = 8
      /\ \A i \in 1..(8 - len) : r[i] = fill
      /\ \A j \in 1..len : r[8 - len + j] = t[j]
  BY <1>7, FilledIs
<1> HIDE DEF r
<1>10. ASSUME NEW i \in 1..8 PROVE r[i] = n[i]
  <2>1. CASE i \in 1..(8 - len)
    BY <1>9, <2>1
  <2>2. CASE i \notin 1..(8 - len)
    <3>1. i - (8 - len) \in 1..len /\ 8 - len + (i - (8 - len)) = i
      BY <2>2
    <3>2. r[8 - len + (i - (8 - len))] = n[8 - len + (i - (8 - len))]
      BY <1>8, <1>9, <3>1
    <3> QED BY <3>1, <3>2
  <2> QED BY <2>1, <2>2
<1>11. r = n
  BY <1>9, <1>10, NumIs, SameBytes
<1>12. Filled8(s, len, dk, add, fill) = r
  BY <1>6 DEF Filled8, r, t
<1> QED BY <1>3, <1>5, <1>11, <1>12 DEF s, w, PackedAs

\* Bytes with the mark of a form are unpacked, and packed again are the same.
LEMMA Unpacks ==
  ASSUME NEW s \in Seq(Byte), NEW len \in 1..7, Len(s) = len, NEW fill \in Byte, NEW B, NEW H,
         NEW ek, NEW mark, NEW dk, NEW add, Matched(B, H, ek, mark, dk, add), s[1] \in H
  PROVE  PackedAs(s, Filled8(s, len, dk, add, fill), len, fill, B, H, ek, mark, dk, add)
<1> DEFINE t == Marked(s, dk, add)
           n == [i \in 1..(8 - len) |-> fill] \o t
           w == Low(n, len)
           r == Marked(w, ek, mark)
<1>1. SubSeq(s, 1, len) = s /\ s /= <<>>
  <2>1. Len(<<>>) = 0
    OBVIOUS
  <2> QED BY <2>1
<1>2. (s[1] % dk) + add \in B /\ (s[1] % dk) + add \in Byte /\ ((((s[1] % dk) + add) % ek) + mark) = s[1] /\ s[1] \in Byte
  BY DEF Matched
<1>3. t \in Seq(Byte) /\ Len(t) = len /\ t[1] = (s[1] % dk) + add /\ \A j \in 2..len : t[j] = s[j]
  BY <1>1, <1>2, MarkedIs
<1> HIDE DEF t
<1>4. /\ n \in Seq(Byte) /\ Len(n) = 8 /\ n \in Num
      /\ \A i \in 1..(8 - len) : n[i] = fill
      /\ \A j \in 1..len : n[8 - len + j] = t[j]
  BY <1>3, FilledIs
<1> HIDE DEF n
<1>5. n[9 - len] = t[1]
  <2>1. 1 \in 1..len /\ 8 - len + 1 = 9 - len
    OBVIOUS
  <2>2. n[8 - len + 1] = t[1]
    BY <1>4, <2>1
  <2> QED BY <2>1, <2>2
<1>6. w \in Seq(Byte) /\ Len(w) = len /\ \A j \in 1..len : w[j] = t[j]
  <2>1. len \in 1..8
    OBVIOUS
  <2>2. w \in Seq(Byte) /\ Len(w) = len /\ \A j \in 1..len : w[j] = n[8 - len + j]
    BY <1>4, <2>1, LowIs
  <2> QED BY <1>4, <2>2
<1> HIDE DEF w
<1>7. w[1] = t[1] /\ w /= <<>>
  <2>1. 1 \in 1..len /\ Len(<<>>) = 0
    OBVIOUS
  <2> QED BY <1>6, <2>1
<1>8. r \in Seq(Byte) /\ Len(r) = len /\ r[1] = (w[1] % ek) + mark /\ \A j \in 2..len : r[j] = w[j]
  <2>1. (w[1] % ek) + mark = s[1]
    BY <1>2, <1>3, <1>7
  <2> QED BY <1>2, <1>6, <1>7, <2>1, MarkedIs
<1> HIDE DEF r
<1>9. ASSUME NEW j \in 1..len PROVE r[j] = s[j]
  <2>1. CASE j = 1
    BY <1>2, <1>3, <1>7, <1>8, <2>1
  <2>2. CASE j /= 1
    <3>1. j \in 2..len
      BY <2>2
    <3> QED BY <1>3, <1>6, <1>8, <3>1
  <2> QED BY <2>1, <2>2
<1>10. r = s
  BY <1>8, <1>9, SameBytes
<1>11. Filled8(s, len, dk, add, fill) = n
  BY <1>1 DEF Filled8, n, t
<1> QED BY <1>2, <1>3, <1>4, <1>5, <1>10, <1>11 DEF r, w, PackedAs

\* A number whose bytes above the place top are fill, and the byte there one of B.
TopIs(n, top, B, fill) == n[top] \in B /\ \A i \in 1..(top - 1) : n[i] = fill

\* The bounds of the encoder, as what the bytes of a number are.
LEMMA BelowIs ==
  ASSUME NEW n \in Num
  PROVE  /\ Below(n, 6) <=> TopIs(n, 8, 0..63, 0)
         /\ Below(n, 13) <=> TopIs(n, 7, 0..31, 0)
         /\ Below(n, 21) <=> TopIs(n, 6, 0..31, 0)
         /\ Below(n, 28) <=> TopIs(n, 5, 0..15, 0)
         /\ Below(n, 43) <=> TopIs(n, 3, 0..7, 0)
         /\ Below(n, 44) <=> TopIs(n, 3, 0..15, 0)
<1>1. \A i \in 1..8 : n[i] \in 0..255
  BY DEF Num, Byte
<1>2. Below(n, 6) <=> TopIs(n, 8, 0..63, 0)
  <2>1. 8 - (6 \div 8) = 8 /\ 6 % 8 = 6
    OBVIOUS
  <2>2. 2^6 = 64
    OBVIOUS
  <2>3. Below(n, 6) <=> n[8] < 64 /\ \A i \in 1..(8 - 1) : n[i] = 0
    BY <2>1, <2>2 DEF Below
  <2> QED BY <1>1, <2>3 DEF TopIs
<1>3. Below(n, 13) <=> TopIs(n, 7, 0..31, 0)
  <2>1. 8 - (13 \div 8) = 7 /\ 13 % 8 = 5
    OBVIOUS
  <2>2. 2^5 = 32
    OBVIOUS
  <2>3. Below(n, 13) <=> n[7] < 32 /\ \A i \in 1..(7 - 1) : n[i] = 0
    BY <2>1, <2>2 DEF Below
  <2> QED BY <1>1, <2>3 DEF TopIs
<1>4. Below(n, 21) <=> TopIs(n, 6, 0..31, 0)
  <2>1. 8 - (21 \div 8) = 6 /\ 21 % 8 = 5
    OBVIOUS
  <2>2. 2^5 = 32
    OBVIOUS
  <2>3. Below(n, 21) <=> n[6] < 32 /\ \A i \in 1..(6 - 1) : n[i] = 0
    BY <2>1, <2>2 DEF Below
  <2> QED BY <1>1, <2>3 DEF TopIs
<1>5. Below(n, 28) <=> TopIs(n, 5, 0..15, 0)
  <2>1. 8 - (28 \div 8) = 5 /\ 28 % 8 = 4
    OBVIOUS
  <2>2. 2^4 = 16
    OBVIOUS
  <2>3. Below(n, 28) <=> n[5] < 16 /\ \A i \in 1..(5 - 1) : n[i] = 0
    BY <2>1, <2>2 DEF Below
  <2> QED BY <1>1, <2>3 DEF TopIs
<1>6. Below(n, 43) <=> TopIs(n, 3, 0..7, 0)
  <2>1. 8 - (43 \div 8) = 3 /\ 43 % 8 = 3
    OBVIOUS
  <2>2. 2^3 = 8
    OBVIOUS
  <2>3. Below(n, 43) <=> n[3] < 8 /\ \A i \in 1..(3 - 1) : n[i] = 0
    BY <2>1, <2>2 DEF Below
  <2> QED BY <1>1, <2>3 DEF TopIs
<1>7. Below(n, 44) <=> TopIs(n, 3, 0..15, 0)
  <2>1. 8 - (44 \div 8) = 3 /\ 44 % 8 = 4
    OBVIOUS
  <2>2. 2^4 = 16
    OBVIOUS
  <2>3. Below(n, 44) <=> n[3] < 16 /\ \A i \in 1..(3 - 1) : n[i] = 0
    BY <2>1, <2>2 DEF Below
  <2> QED BY <1>1, <2>3 DEF TopIs
<1> QED BY <1>2, <1>3, <1>4, <1>5, <1>6, <1>7

\* The same for negative numbers.
LEMMA NotBelowIs ==
  ASSUME NEW n \in Num, Negative(n)
  PROVE  /\ NotBelowMinus(n, 6) <=> TopIs(n, 8, 192..255, 255)
         /\ NotBelowMinus(n, 21) <=> TopIs(n, 6, 224..255, 255)
         /\ NotBelowMinus(n, 44) <=> TopIs(n, 3, 240..255, 255)
<1>1. \A i \in 1..8 : n[i] \in 0..255 /\ Complement(n)[i] = 255 - n[i] /\ Complement(n)[i] \in 0..255
  <2>1. \A i \in 1..8 : n[i] \in 0..255
    BY DEF Num, Byte
  <2> DEFINE c == Complement(n)
  <2>2. \A i \in 1..8 : c[i] = 255 - n[i]
    BY DEF Complement
  <2> HIDE DEF c
  <2>3. ASSUME NEW i \in 1..8 PROVE n[i] \in 0..255 /\ c[i] = 255 - n[i] /\ c[i] \in 0..255
    <3>1. n[i] \in 0..255 /\ c[i] = 255 - n[i]
      BY <2>1, <2>2
    <3> QED BY <3>1
  <2>4. \A i \in 1..8 : n[i] \in 0..255 /\ c[i] = 255 - n[i] /\ c[i] \in 0..255
    BY <2>3
  <2> QED BY <2>4 DEF c
<1>2. Complement(n) \in Num
  BY <1>1 DEF Num, Byte, Complement
<1>3. \A i \in 1..8 : Complement(n)[i] = 0 <=> n[i] = 255
  <2> DEFINE c == Complement(n)
  <2>1. \A i \in 1..8 : n[i] \in 0..255 /\ c[i] = 255 - n[i]
    BY <1>1
  <2> HIDE DEF c
  <2>2. ASSUME NEW i \in 1..8 PROVE c[i] = 0 <=> n[i] = 255
    <3>1. n[i] \in 0..255 /\ c[i] = 255 - n[i]
      BY <2>1
    <3> QED BY <3>1
  <2> QED BY <2>2 DEF c
<1>4. NotBelowMinus(n, 6) <=> TopIs(n, 8, 192..255, 255)
  <2>1. NotBelowMinus(n, 6) <=> TopIs(Complement(n), 8, 0..63, 0)
    BY <1>2, BelowIs, Zenon DEF NotBelowMinus
  <2>2. Complement(n)[8] = 255 - n[8] /\ n[8] \in 0..255
    BY <1>1
  <2>3. Complement(n)[8] \in 0..63 <=> n[8] \in 192..255
    BY <2>2
  <2>4. \A i \in 1..(8 - 1) : Complement(n)[i] = 0 <=> n[i] = 255
    BY <1>3
  <2> QED BY <2>1, <2>3, <2>4 DEF TopIs
<1>5. NotBelowMinus(n, 21) <=> TopIs(n, 6, 224..255, 255)
  <2>1. NotBelowMinus(n, 21) <=> TopIs(Complement(n), 6, 0..31, 0)
    BY <1>2, BelowIs, Zenon DEF NotBelowMinus
  <2>2. Complement(n)[6] = 255 - n[6] /\ n[6] \in 0..255
    BY <1>1
  <2>3. Complement(n)[6] \in 0..31 <=> n[6] \in 224..255
    BY <2>2
  <2>4. \A i \in 1..(6 - 1) : Complement(n)[i] = 0 <=> n[i] = 255
    BY <1>3
  <2> QED BY <2>1, <2>3, <2>4 DEF TopIs
<1>6. NotBelowMinus(n, 44) <=> TopIs(n, 3, 240..255, 255)
  <2>1. NotBelowMinus(n, 44) <=> TopIs(Complement(n), 3, 0..15, 0)
    BY <1>2, BelowIs, Zenon DEF NotBelowMinus
  <2>2. Complement(n)[3] = 255 - n[3] /\ n[3] \in 0..255
    BY <1>1
  <2>3. Complement(n)[3] \in 0..15 <=> n[3] \in 240..255
    BY <2>2
  <2>4. \A i \in 1..(3 - 1) : Complement(n)[i] = 0 <=> n[i] = 255
    BY <1>3
  <2> QED BY <2>1, <2>3, <2>4 DEF TopIs
<1> QED BY <1>4, <1>5, <1>6

\* The marks of the forms.
LEMMA Marks ==
  /\ Matched(0..63, 128..191, 64, 128, 64, 0)
  /\ Matched(0..31, 192..223, 32, 192, 32, 0)
  /\ Matched(0..15, 224..239, 16, 224, 16, 0)
  /\ Matched(0..7, 240..247, 8, 240, 8, 0)
  /\ Matched(192..255, 64..127, 128, 0, 64, 192)
  /\ Matched(224..255, 32..63, 64, 0, 32, 224)
  /\ Matched(240..255, 16..31, 32, 0, 16, 240)
BY DEF Matched, Byte

\* What fits a form fits the longer ones.
LEMMA Shorter ==
  ASSUME NEW n \in Num
  PROVE  /\ Below(n, 6) => Below(n, 13)
         /\ Below(n, 13) => Below(n, 28)
         /\ Below(n, 28) => Below(n, 43)
         /\ Below(n, 43) => ~ Negative(n)
<1>1. Below(n, 6) => Below(n, 13)
  BY BelowIs DEF TopIs
<1>2. Below(n, 13) => Below(n, 28)
  BY BelowIs DEF TopIs
<1>3. Below(n, 28) => Below(n, 43)
  BY BelowIs DEF TopIs
<1>4. Below(n, 43) => ~ Negative(n)
  BY BelowIs DEF TopIs, Negative
<1> QED BY <1>1, <1>2, <1>3, <1>4

\* The same for negative numbers.
LEMMA ShorterNeg ==
  ASSUME NEW n \in Num, Negative(n)
  PROVE  /\ NotBelowMinus(n, 6) => NotBelowMinus(n, 21)
         /\ NotBelowMinus(n, 21) => NotBelowMinus(n, 44)
<1>1. NotBelowMinus(n, 6) => NotBelowMinus(n, 21)
  BY NotBelowIs DEF TopIs
<1>2. NotBelowMinus(n, 21) => NotBelowMinus(n, 44)
  BY NotBelowIs DEF TopIs
<1> QED BY <1>1, <1>2

\* The CASE of EncodeUInt, with the arms made disjoint.
LEMMA EncodeUIntIs ==
  ASSUME NEW n \in Num
  PROVE  /\ Below(n, 6) => EncodeUInt(n) = Marked(Low(n, 1), 64, 128)
         /\ Below(n, 13) /\ ~ Below(n, 6) => EncodeUInt(n) = Marked(Low(n, 2), 32, 192)
         /\ Below(n, 28) /\ ~ Below(n, 13) => EncodeUInt(n) = Marked(Low(n, 4), 16, 224)
         /\ Below(n, 43) /\ ~ Below(n, 28) => EncodeUInt(n) = Marked(Low(n, 6), 8, 240)
         /\ ~ Below(n, 43) => EncodeUInt(n) = <<248>> \o n
BY Shorter DEF EncodeUInt

\* The CASE of Encode, with the arms made disjoint.
LEMMA EncodeIs ==
  ASSUME NEW n \in Num
  PROVE  /\ ~ Negative(n) => Encode(n) = EncodeUInt(n)
         /\ Negative(n) =>
              /\ NotBelowMinus(n, 6) => Encode(n) = Marked(Low(n, 1), 128, 0)
              /\ NotBelowMinus(n, 21) /\ ~ NotBelowMinus(n, 6) => Encode(n) = Marked(Low(n, 3), 64, 0)
              /\ NotBelowMinus(n, 44) /\ ~ NotBelowMinus(n, 21) => Encode(n) = Marked(Low(n, 6), 32, 0)
              /\ ~ NotBelowMinus(n, 44) => Encode(n) = <<15>> \o n
BY ShorterNeg DEF Encode

\* RemainLen of the reader agrees with the lengths of the forms of the decoder.
LEMMA Remains ==
  /\ \A f \in UIntForms : \A b \in f.heads : RemainLen(b) = f.len - 1 /\ b >= 128 /\ b \in Byte
  /\ \A f \in NegForms : \A b \in f.heads : RemainLen(b) = f.len - 1 /\ b < 128 /\ b \in Byte
<1>1. \A f \in UIntForms : \A b \in f.heads : RemainLen(b) = f.len - 1 /\ b >= 128 /\ b \in Byte
  BY DEF UIntForms, Form, RemainLen, Byte
<1>2. \A f \in NegForms : \A b \in f.heads : RemainLen(b) = f.len - 1 /\ b < 128 /\ b \in Byte
  BY DEF NegForms, Form, RemainLen, Byte
<1> QED BY <1>1, <1>2

\* Forms have no first byte in common.
LEMMA OneUIntForm ==
  ASSUME NEW s \in Seq(Byte), NEW f \in UIntForms, s[1] \in f.heads, Len(s) >= f.len
  PROVE  DecodeAs(UIntForms, s) = {f}
<1>1. \A g \in UIntForms : g.len = f.len => g = f
  <2>1. \A h, j, k, b : Form(h, j, k, b).len = j
    BY DEF Form
  <2> QED BY <2>1 DEF UIntForms
<1>2. \A g \in UIntForms : g.len \in Int
  BY DEF UIntForms, Form
<1>3. \A g \in UIntForms : s[1] \in g.heads => g.len - 1 = f.len - 1
  BY Remains, Zenon
<1>4. \A g \in UIntForms : s[1] \in g.heads => g = f
  BY <1>1, <1>2, <1>3
<1> QED BY <1>4 DEF DecodeAs

\* The same for negative numbers.
LEMMA OneNegForm ==
  ASSUME NEW s \in Seq(Byte), NEW f \in NegForms, s[1] \in f.heads, Len(s) >= f.len
  PROVE  DecodeAs(NegForms, s) = {f}
<1>1. \A g \in NegForms : g.len = f.len => g = f
  <2>1. \A h, j, k, b : Form(h, j, k, b).len = j
    BY DEF Form
  <2> QED BY <2>1 DEF NegForms
<1>2. \A g \in NegForms : g.len \in Int
  BY DEF NegForms, Form
<1>3. \A g \in NegForms : s[1] \in g.heads => g.len - 1 = f.len - 1
  BY Remains, Zenon
<1>4. \A g \in NegForms : s[1] \in g.heads => g = f
  BY <1>1, <1>2, <1>3
<1> QED BY <1>4 DEF DecodeAs

\* What follows the first of 9 bytes.
LEMMA RestIs ==
  ASSUME NEW s \in Seq(Byte), Len(s) = 9
  PROVE  /\ SubSeq(s, 2, 9) \in Seq(Byte) /\ Len(SubSeq(s, 2, 9)) = 8
         /\ \A i \in 1..8 : SubSeq(s, 2, 9)[i] = s[i + 1]
<1>1. \A i \in 2..9 : s[i] \in Byte
  <2>1. \A i \in 2..9 : i \in 1..Len(s)
    OBVIOUS
  <2> QED BY <2>1, ElementOfSeq
<1>2. /\ SubSeq(s, 2, 9) \in Seq(Byte)
      /\ Len(SubSeq(s, 2, 9)) = IF 2 <= 9 THEN 9 - 2 + 1 ELSE 0
      /\ \A i \in 1..(9 - 2 + 1) : SubSeq(s, 2, 9)[i] = s[2 + i - 1]
  BY <1>1, SubSeqProperties
<1>3. \A i \in 1..8 : i \in 1..(9 - 2 + 1) /\ 2 + i - 1 = i + 1
  OBVIOUS
<1> QED BY <1>2, <1>3

\* A byte before 8 others.
LEMMA Prefixed ==
  ASSUME NEW n \in Seq(Byte), Len(n) = 8, NEW b \in Byte
  PROVE  LET s == <<b>> \o n IN
         s \in Seq(Byte) /\ Len(s) = 9 /\ s[1] = b /\ \A i \in 2..9 : s[i] = n[i - 1]
<1> DEFINE h == <<b>>
<1>1. h \in Seq(Byte) /\ Len(h) = 1 /\ h[1] = b
  OBVIOUS
<1> HIDE DEF h
<1>2. /\ h \o n \in Seq(Byte) /\ Len(h \o n) = Len(h) + Len(n)
      /\ \A i \in 1..(Len(h) + Len(n)) : (h \o n)[i] = IF i <= Len(h) THEN h[i] ELSE n[i - Len(h)]
  BY <1>1, ConcatProperties
<1>3. \A i \in 2..9 : i \in 1..(Len(h) + Len(n)) /\ ~(i <= Len(h)) /\ i - Len(h) = i - 1
  BY <1>1
<1>4. 1 \in 1..(Len(h) + Len(n)) /\ 1 <= Len(h) /\ Len(h) + Len(n) = 9
  BY <1>1
<1> QED BY <1>1, <1>2, <1>3, <1>4 DEF h

\* The form of 9 bytes is read back,
LEMMA WideIs ==
  ASSUME NEW n \in Num, NEW b \in Byte
  PROVE  LET s == <<b>> \o n IN
         s \in Seq(Byte) /\ Len(s) = 9 /\ s[1] = b /\ SubSeq(s, 2, 9) = n
<1> DEFINE s == <<b>> \o n
<1>1. n \in Seq(Byte) /\ Len(n) = 8 /\ <<b>> \in Seq(Byte) /\ Len(<<b>>) = 1
  BY NumIs
<1>2. s \in Seq(Byte) /\ Len(s) = 9 /\ s[1] = b /\ \A i \in 2..9 : s[i] = n[i - 1]
  BY <1>1, Prefixed
<1> HIDE DEF s
<1>3. /\ SubSeq(s, 2, 9) \in Seq(Byte) /\ Len(SubSeq(s, 2, 9)) = 8
      /\ \A i \in 1..8 : SubSeq(s, 2, 9)[i] = s[i + 1]
  BY <1>2, RestIs
<1>4. \A i \in 1..8 : s[i + 1] = n[i]
  <2> SUFFICES ASSUME NEW i \in 1..8 PROVE s[i + 1] = n[i]
    OBVIOUS
  <2>1. i + 1 \in 2..9 /\ (i + 1) - 1 = i
    OBVIOUS
  <2>2. s[i + 1] = n[(i + 1) - 1]
    BY <1>2, <2>1
  <2> QED BY <2>1, <2>2
<1>5. SubSeq(s, 2, 9) = n
  BY <1>1, <1>3, <1>4, SameBytes
<1> QED BY <1>2, <1>5 DEF s

\* and written again.
LEMMA WideBack ==
  ASSUME NEW s \in Seq(Byte), Len(s) = 9
  PROVE  SubSeq(s, 2, 9) \in Num /\ <<s[1]>> \o SubSeq(s, 2, 9) = s
<1> DEFINE n == SubSeq(s, 2, 9)
<1>1. n \in Seq(Byte) /\ Len(n) = 8 /\ \A i \in 1..8 : n[i] = s[i + 1]
  BY RestIs
<1>2. n \in Num
  BY <1>1, LenProperties DEF Num
<1> HIDE DEF n
<1>3. s[1] \in Byte
  OBVIOUS
<1> DEFINE r == <<s[1]>> \o n
<1>4. r \in Seq(Byte) /\ Len(r) = 9 /\ r[1] = s[1] /\ \A i \in 2..9 : r[i] = n[i - 1]
  BY <1>1, <1>3, Prefixed
<1> HIDE DEF r
<1>5. ASSUME NEW i \in 1..9 PROVE r[i] = s[i]
  <2>1. CASE i = 1
    BY <1>4, <2>1
  <2>2. CASE i /= 1
    <3>1. i \in 2..9 /\ i - 1 \in 1..8 /\ (i - 1) + 1 = i
      BY <2>2
    <3>2. n[i - 1] = s[(i - 1) + 1]
      BY <1>1, <3>1
    <3> QED BY <1>4, <3>1, <3>2
  <2> QED BY <2>1, <2>2
<1>6. r = s
  BY <1>4, <1>5, SameBytes
<1> QED BY <1>2, <1>6 DEF r, n

\* What becomes of s, the whole of an encoding in form f.
UIntGives(s, f) ==
  /\ RemainLen(s[1]) = Len(s) - 1 /\ s /= <<>> /\ Len(s) \in 1..9
  /\ s[1] >= 128
  /\ DecodeUInt(s) = IF f.len > 1 /\ Below(Widened(f, s, 0), f.short) THEN Failed
                  ELSE [ok |-> TRUE, n |-> Widened(f, s, 0), len |-> f.len]

\* A string of the length of its form is decoded in that form.
LEMMA UIntRead ==
  ASSUME NEW s \in Seq(Byte), NEW f \in UIntForms, s[1] \in f.heads, Len(s) = f.len
  PROVE  UIntGives(s, f)
<1>1. f.len \in 1..9
  <2>1. \A h, j, k, b : Form(h, j, k, b).len = j
    BY DEF Form
  <2> QED BY <2>1 DEF UIntForms
<1>2. DecodeAs(UIntForms, s) = {f}
  BY <1>1, OneUIntForm
<1>3. DecodeUInt(s) = IF f.len > 1 /\ Below(Widened(f, s, 0), f.short) THEN Failed
                  ELSE [ok |-> TRUE, n |-> Widened(f, s, 0), len |-> f.len]
  BY <1>2 DEF DecodeUInt
<1>4. RemainLen(s[1]) = f.len - 1 /\ s[1] >= 128
  BY Remains
<1> QED BY <1>1, <1>3, <1>4 DEF UIntGives

\* s is the whole of an encoding and the decoder reads it as n.
UIntReads(s, n) ==
  /\ s \in Seq(Byte) /\ s /= <<>> /\ Len(s) \in 1..9 /\ RemainLen(s[1]) = Len(s) - 1 /\ s[1] >= 128
  /\ DecodeUInt(s) = [ok |-> TRUE, n |-> n, len |-> Len(s)]

\* What is added to the first byte that counts.
UIntAdd(add, keep) == add = 0

\* A number that fits a form and no shorter one is read back from it.
LEMMA UIntPacked ==
  ASSUME NEW n \in Num, NEW len \in 1..7, NEW H, NEW keep, NEW short, NEW B, NEW ek, NEW mark, NEW top, NEW add, NEW fill,
         Form(H, len, keep, short) \in UIntForms, Matched(B, H, ek, mark, keep, add), UIntAdd(add, keep), fill = 0,
         top = 9 - len, TopIs(n, top, B, fill), len > 1 => ~ Below(n, short)
  PROVE  UIntReads(Marked(Low(n, len), ek, mark), n)
<1> DEFINE f == Form(H, len, keep, short)
           s == Marked(Low(n, len), ek, mark)
<1>1. n[9 - len] \in B /\ \A i \in 1..(8 - len) : n[i] = fill
  BY DEF TopIs
<1>2. fill \in Byte
  BY DEF Byte
<1>3. s \in Seq(Byte) /\ Len(s) = len /\ s[1] \in H /\ Filled8(s, len, keep, add, fill) = n
  <2>1. PackedAs(s, n, len, fill, B, H, ek, mark, keep, add)
    BY <1>1, <1>2, Packs
  <2> QED BY <2>1 DEF PackedAs
<1>5. f.heads = H /\ f.len = len /\ f.short = short /\ f.keep = keep
  BY DEF Form
<1> HIDE DEF f, s
<1>20. len /= 9 /\ (IF fill = 0 THEN 0 ELSE 256 - keep) = add
  BY DEF UIntAdd
<1>4. Widened(f, s, fill) = n
  BY <1>3, <1>5, <1>20 DEF Widened, Filled8
<1>6. f \in UIntForms
  BY DEF f
<1>7. s[1] \in f.heads /\ Len(s) = f.len
  BY <1>3, <1>5
<1>8. UIntGives(s, f)
  BY <1>3, <1>6, <1>7, UIntRead
<1>9. UIntReads(s, n)
  BY <1>3, <1>4, <1>5, <1>8 DEF UIntReads, UIntGives
<1> QED BY <1>9 DEF s

\* What a decoder makes of s in a form of less than 9 bytes.
UIntUnpackedAs(s, n, len, short, B, ek, mark, top, fill) ==
  /\ UIntReads(s, n) /\ n \in Num
  /\ TopIs(n, top, B, fill) /\ Marked(Low(n, len), ek, mark) = s
  /\ len > 1 => ~ Below(n, short)

\* A string in a form is unpacked to a number that has it.
LEMMA UIntUnpacked ==
  ASSUME NEW s \in Seq(Byte), NEW len \in 1..7, NEW H, NEW keep, NEW short, NEW B, NEW ek, NEW mark, NEW top, NEW add, NEW fill,
         Form(H, len, keep, short) \in UIntForms, Matched(B, H, ek, mark, keep, add), UIntAdd(add, keep), fill = 0,
         top = 9 - len, s[1] \in H, Len(s) = len, DecodeUInt(s).ok
  PROVE  UIntUnpackedAs(s, DecodeUInt(s).n, len, short, B, ek, mark, top, fill)
<1> DEFINE f == Form(H, len, keep, short)
           d == DecodeUInt(s)
           n == Filled8(s, len, keep, add, fill)
<1>2. f.heads = H /\ f.len = len /\ f.short = short /\ f.keep = keep
  BY DEF Form
<1>3. 0 \in Byte
  BY DEF Byte
<1>4. n \in Num /\ n[9 - len] \in B /\ (\A i \in 1..(8 - len) : n[i] = fill) /\ Marked(Low(n, len), ek, mark) = s
  <2>1. PackedAs(s, n, len, fill, B, H, ek, mark, keep, add)
    BY <1>3, Unpacks
  <2> QED BY <2>1 DEF PackedAs
<1> HIDE DEF f
<1>20. len /= 9 /\ (IF fill = 0 THEN 0 ELSE 256 - keep) = add
  BY DEF UIntAdd
<1>1. Widened(f, s, fill) = n
  BY <1>2, <1>20 DEF Widened, Filled8
<1> HIDE DEF n
<1>5. TopIs(n, top, B, fill)
  BY <1>4 DEF TopIs
<1>6. f \in UIntForms
  BY DEF f
<1>7. UIntGives(s, f)
  BY <1>2, <1>6, UIntRead
<1>8. Failed.ok = FALSE
  BY DEF Failed
<1>9. ~ (len > 1 /\ Below(n, short)) /\ d = [ok |-> TRUE, n |-> n, len |-> len]
  BY <1>1, <1>2, <1>7, <1>8 DEF UIntGives
<1>10. d.n = n
  BY <1>9
<1>11. UIntReads(s, n)
  BY <1>7, <1>9 DEF UIntReads, UIntGives
<1> QED BY <1>4, <1>5, <1>9, <1>10, <1>11 DEF UIntUnpackedAs

\* What becomes of s, the whole of an encoding in form f.
NegGives(s, f) ==
  /\ RemainLen(s[1]) = Len(s) - 1 /\ s /= <<>> /\ Len(s) \in 1..9
  /\ s[1] < 128
  /\ DecodeNeg(s) = IF f.len > 1 /\ NotBelowMinus(Widened(f, s, 255), f.short) THEN Failed
                  ELSE [ok |-> TRUE, n |-> Widened(f, s, 255), len |-> f.len]

\* The same for negative numbers.
LEMMA NegRead ==
  ASSUME NEW s \in Seq(Byte), NEW f \in NegForms, s[1] \in f.heads, Len(s) = f.len
  PROVE  NegGives(s, f)
<1>1. f.len \in 1..9
  <2>1. \A h, j, k, b : Form(h, j, k, b).len = j
    BY DEF Form
  <2> QED BY <2>1 DEF NegForms
<1>2. DecodeAs(NegForms, s) = {f}
  BY <1>1, OneNegForm
<1>3. DecodeNeg(s) = IF f.len > 1 /\ NotBelowMinus(Widened(f, s, 255), f.short) THEN Failed
                  ELSE [ok |-> TRUE, n |-> Widened(f, s, 255), len |-> f.len]
  BY <1>2 DEF DecodeNeg
<1>4. RemainLen(s[1]) = f.len - 1 /\ s[1] < 128
  BY Remains
<1> QED BY <1>1, <1>3, <1>4 DEF NegGives

\* s is the whole of an encoding and the decoder reads it as n.
NegReads(s, n) ==
  /\ s \in Seq(Byte) /\ s /= <<>> /\ Len(s) \in 1..9 /\ RemainLen(s[1]) = Len(s) - 1 /\ s[1] < 128
  /\ DecodeNeg(s) = [ok |-> TRUE, n |-> n, len |-> Len(s)]

\* What is added to the first byte that counts.
NegAdd(add, keep) == add = 256 - keep

\* The same for negative numbers.
LEMMA NegPacked ==
  ASSUME NEW n \in Num, NEW len \in 1..7, NEW H, NEW keep, NEW short, NEW B, NEW ek, NEW mark, NEW top, NEW add, NEW fill,
         Form(H, len, keep, short) \in NegForms, Matched(B, H, ek, mark, keep, add), NegAdd(add, keep), fill = 255,
         top = 9 - len, TopIs(n, top, B, fill), len > 1 => ~ NotBelowMinus(n, short)
  PROVE  NegReads(Marked(Low(n, len), ek, mark), n)
<1> DEFINE f == Form(H, len, keep, short)
           s == Marked(Low(n, len), ek, mark)
<1>1. n[9 - len] \in B /\ \A i \in 1..(8 - len) : n[i] = fill
  BY DEF TopIs
<1>2. fill \in Byte
  BY DEF Byte
<1>3. s \in Seq(Byte) /\ Len(s) = len /\ s[1] \in H /\ Filled8(s, len, keep, add, fill) = n
  <2>1. PackedAs(s, n, len, fill, B, H, ek, mark, keep, add)
    BY <1>1, <1>2, Packs
  <2> QED BY <2>1 DEF PackedAs
<1>5. f.heads = H /\ f.len = len /\ f.short = short /\ f.keep = keep
  BY DEF Form
<1> HIDE DEF f, s
<1>20. len /= 9 /\ (IF fill = 0 THEN 0 ELSE 256 - keep) = add
  BY DEF NegAdd
<1>4. Widened(f, s, fill) = n
  BY <1>3, <1>5, <1>20 DEF Widened, Filled8
<1>6. f \in NegForms
  BY DEF f
<1>7. s[1] \in f.heads /\ Len(s) = f.len
  BY <1>3, <1>5
<1>8. NegGives(s, f)
  BY <1>3, <1>6, <1>7, NegRead
<1>9. NegReads(s, n)
  BY <1>3, <1>4, <1>5, <1>8 DEF NegReads, NegGives
<1> QED BY <1>9 DEF s

\* What a decoder makes of s in a form of less than 9 bytes.
NegUnpackedAs(s, n, len, short, B, ek, mark, top, fill) ==
  /\ NegReads(s, n) /\ n \in Num
  /\ TopIs(n, top, B, fill) /\ Marked(Low(n, len), ek, mark) = s
  /\ len > 1 => ~ NotBelowMinus(n, short)

\* The same for negative numbers.
LEMMA NegUnpacked ==
  ASSUME NEW s \in Seq(Byte), NEW len \in 1..7, NEW H, NEW keep, NEW short, NEW B, NEW ek, NEW mark, NEW top, NEW add, NEW fill,
         Form(H, len, keep, short) \in NegForms, Matched(B, H, ek, mark, keep, add), NegAdd(add, keep), fill = 255,
         top = 9 - len, s[1] \in H, Len(s) = len, DecodeNeg(s).ok
  PROVE  NegUnpackedAs(s, DecodeNeg(s).n, len, short, B, ek, mark, top, fill)
<1> DEFINE f == Form(H, len, keep, short)
           d == DecodeNeg(s)
           n == Filled8(s, len, keep, add, fill)
<1>2. f.heads = H /\ f.len = len /\ f.short = short /\ f.keep = keep
  BY DEF Form
<1>3. 255 \in Byte
  BY DEF Byte
<1>4. n \in Num /\ n[9 - len] \in B /\ (\A i \in 1..(8 - len) : n[i] = fill) /\ Marked(Low(n, len), ek, mark) = s
  <2>1. PackedAs(s, n, len, fill, B, H, ek, mark, keep, add)
    BY <1>3, Unpacks, ZenonT(40)
  <2> QED BY <2>1 DEF PackedAs
<1> HIDE DEF f
<1>20. len /= 9 /\ (IF fill = 0 THEN 0 ELSE 256 - keep) = add
  BY DEF NegAdd
<1>1. Widened(f, s, fill) = n
  BY <1>2, <1>20 DEF Widened, Filled8
<1> HIDE DEF n
<1>5. TopIs(n, top, B, fill)
  BY <1>4 DEF TopIs
<1>6. f \in NegForms
  BY DEF f
<1>7. NegGives(s, f)
  BY <1>2, <1>6, NegRead
<1>8. Failed.ok = FALSE
  BY DEF Failed
<1>9. ~ (len > 1 /\ NotBelowMinus(n, short)) /\ d = [ok |-> TRUE, n |-> n, len |-> len]
  BY <1>1, <1>2, <1>7, <1>8 DEF NegGives
<1>10. d.n = n
  BY <1>9
<1>11. NegReads(s, n)
  BY <1>7, <1>9 DEF NegReads, NegGives
<1> QED BY <1>4, <1>5, <1>9, <1>10, <1>11 DEF NegUnpackedAs

\* What is encoded is decoded, and its first byte tells how long it is.
LEMMA UIntRoundTrip ==
  ASSUME NEW n \in Num
  PROVE  UIntReads(EncodeUInt(n), n)
<1>1. CASE Below(n, 6)
  <2>1. EncodeUInt(n) = Marked(Low(n, 1), 64, 128)
    BY <1>1, EncodeUIntIs
  <2>2. TopIs(n, 8, 0..63, 0)
    BY <1>1, BelowIs
  <2>3. Form(128..191, 1, 64, 0) \in UIntForms
    BY DEF UIntForms
  <2>4. Matched(0..63, 128..191, 64, 128, 64, 0)
    BY Marks
  <2>5. 1 \in 1..7 /\ 8 = 9 - 1 /\ UIntAdd(0, 64) /\ (1 > 1 => ~ Below(n, 0))
    BY <1>1 DEF UIntAdd
  <2>6. UIntReads(Marked(Low(n, 1), 64, 128), n)
    BY <2>2, <2>3, <2>4, <2>5, UIntPacked
  <2> QED BY <2>1, <2>6
<1>2. CASE Below(n, 13) /\ ~ Below(n, 6)
  <2>1. EncodeUInt(n) = Marked(Low(n, 2), 32, 192)
    BY <1>2, EncodeUIntIs
  <2>2. TopIs(n, 7, 0..31, 0)
    BY <1>2, BelowIs
  <2>3. Form(192..223, 2, 32, 6) \in UIntForms
    BY DEF UIntForms
  <2>4. Matched(0..31, 192..223, 32, 192, 32, 0)
    BY Marks
  <2>5. 2 \in 1..7 /\ 7 = 9 - 2 /\ UIntAdd(0, 32) /\ (2 > 1 => ~ Below(n, 6))
    BY <1>2 DEF UIntAdd
  <2>6. UIntReads(Marked(Low(n, 2), 32, 192), n)
    BY <2>2, <2>3, <2>4, <2>5, UIntPacked
  <2> QED BY <2>1, <2>6
<1>3. CASE Below(n, 28) /\ ~ Below(n, 13)
  <2>1. EncodeUInt(n) = Marked(Low(n, 4), 16, 224)
    BY <1>3, EncodeUIntIs
  <2>2. TopIs(n, 5, 0..15, 0)
    BY <1>3, BelowIs
  <2>3. Form(224..239, 4, 16, 13) \in UIntForms
    BY DEF UIntForms
  <2>4. Matched(0..15, 224..239, 16, 224, 16, 0)
    BY Marks
  <2>5. 4 \in 1..7 /\ 5 = 9 - 4 /\ UIntAdd(0, 16) /\ (4 > 1 => ~ Below(n, 13))
    BY <1>3 DEF UIntAdd
  <2>6. UIntReads(Marked(Low(n, 4), 16, 224), n)
    BY <2>2, <2>3, <2>4, <2>5, UIntPacked
  <2> QED BY <2>1, <2>6
<1>4. CASE Below(n, 43) /\ ~ Below(n, 28)
  <2>1. EncodeUInt(n) = Marked(Low(n, 6), 8, 240)
    BY <1>4, EncodeUIntIs
  <2>2. TopIs(n, 3, 0..7, 0)
    BY <1>4, BelowIs
  <2>3. Form(240..247, 6, 8, 28) \in UIntForms
    BY DEF UIntForms
  <2>4. Matched(0..7, 240..247, 8, 240, 8, 0)
    BY Marks
  <2>5. 6 \in 1..7 /\ 3 = 9 - 6 /\ UIntAdd(0, 8) /\ (6 > 1 => ~ Below(n, 28))
    BY <1>4 DEF UIntAdd
  <2>6. UIntReads(Marked(Low(n, 6), 8, 240), n)
    BY <2>2, <2>3, <2>4, <2>5, UIntPacked
  <2> QED BY <2>1, <2>6
<1>5. CASE ~ Below(n, 43)
  <2> DEFINE f == Form({248}, 9, 1, 43)
             s == <<248>> \o n
  <2>1. EncodeUInt(n) = s
    BY <1>5, EncodeUIntIs
  <2>2. s \in Seq(Byte) /\ Len(s) = 9 /\ s[1] = 248 /\ SubSeq(s, 2, 9) = n
    <3>1. 248 \in Byte
      BY DEF Byte
    <3> QED BY <3>1, WideIs
  <2>3. f \in UIntForms
    BY DEF UIntForms
  <2>4. f.heads = {248} /\ f.len = 9 /\ f.short = 43
    BY DEF Form
  <2> HIDE DEF f, s
  <2>5. Widened(f, s, 0) = n
    BY <2>2, <2>4 DEF Widened
  <2>6. s[1] \in f.heads /\ Len(s) = f.len
    BY <2>2, <2>4
  <2>7. UIntGives(s, f)
    <3>1. s \in Seq(Byte)
      BY <2>2
    <3> QED BY <2>3, <2>6, <3>1, UIntRead
  <2> QED BY <1>5, <2>1, <2>2, <2>4, <2>5, <2>7 DEF UIntReads, UIntGives
<1> QED BY <1>1, <1>2, <1>3, <1>4, <1>5

\* What is encoded is decoded, and its first byte tells how long it is.
LEMMA NegRoundTrip ==
  ASSUME NEW n \in Num, Negative(n)
  PROVE  NegReads(Encode(n), n)
<1>1. CASE NotBelowMinus(n, 6)
  <2>1. Encode(n) = Marked(Low(n, 1), 128, 0)
    BY <1>1, EncodeIs
  <2>2. TopIs(n, 8, 192..255, 255)
    BY <1>1, NotBelowIs
  <2>3. Form(64..127, 1, 64, 0) \in NegForms
    BY DEF NegForms
  <2>4. Matched(192..255, 64..127, 128, 0, 64, 192)
    BY Marks
  <2>5. 1 \in 1..7 /\ 8 = 9 - 1 /\ NegAdd(192, 64) /\ (1 > 1 => ~ NotBelowMinus(n, 0))
    BY <1>1 DEF NegAdd
  <2>6. NegReads(Marked(Low(n, 1), 128, 0), n)
    BY <2>2, <2>3, <2>4, <2>5, NegPacked
  <2> QED BY <2>1, <2>6
<1>2. CASE NotBelowMinus(n, 21) /\ ~ NotBelowMinus(n, 6)
  <2>1. Encode(n) = Marked(Low(n, 3), 64, 0)
    BY <1>2, EncodeIs
  <2>2. TopIs(n, 6, 224..255, 255)
    BY <1>2, NotBelowIs
  <2>3. Form(32..63, 3, 32, 6) \in NegForms
    BY DEF NegForms
  <2>4. Matched(224..255, 32..63, 64, 0, 32, 224)
    BY Marks
  <2>5. 3 \in 1..7 /\ 6 = 9 - 3 /\ NegAdd(224, 32) /\ (3 > 1 => ~ NotBelowMinus(n, 6))
    BY <1>2 DEF NegAdd
  <2>6. NegReads(Marked(Low(n, 3), 64, 0), n)
    BY <2>2, <2>3, <2>4, <2>5, NegPacked
  <2> QED BY <2>1, <2>6
<1>3. CASE NotBelowMinus(n, 44) /\ ~ NotBelowMinus(n, 21)
  <2>1. Encode(n) = Marked(Low(n, 6), 32, 0)
    BY <1>3, EncodeIs
  <2>2. TopIs(n, 3, 240..255, 255)
    BY <1>3, NotBelowIs
  <2>3. Form(16..31, 6, 16, 21) \in NegForms
    BY DEF NegForms
  <2>4. Matched(240..255, 16..31, 32, 0, 16, 240)
    BY Marks
  <2>5. 6 \in 1..7 /\ 3 = 9 - 6 /\ NegAdd(240, 16) /\ (6 > 1 => ~ NotBelowMinus(n, 21))
    BY <1>3 DEF NegAdd
  <2>6. NegReads(Marked(Low(n, 6), 32, 0), n)
    BY <2>2, <2>3, <2>4, <2>5, NegPacked
  <2> QED BY <2>1, <2>6
<1>4. CASE ~ NotBelowMinus(n, 44)
  <2> DEFINE f == Form({15}, 9, 1, 44)
             s == <<15>> \o n
  <2>1. Encode(n) = s
    BY <1>4, EncodeIs
  <2>2. s \in Seq(Byte) /\ Len(s) = 9 /\ s[1] = 15 /\ SubSeq(s, 2, 9) = n
    <3>1. 15 \in Byte
      BY DEF Byte
    <3> QED BY <3>1, WideIs
  <2>3. f \in NegForms
    BY DEF NegForms
  <2>4. f.heads = {15} /\ f.len = 9 /\ f.short = 44
    BY DEF Form
  <2> HIDE DEF f, s
  <2>5. Widened(f, s, 255) = n
    BY <2>2, <2>4 DEF Widened
  <2>6. s[1] \in f.heads /\ Len(s) = f.len
    BY <2>2, <2>4
  <2>7. NegGives(s, f)
    <3>1. s \in Seq(Byte)
      BY <2>2
    <3> QED BY <2>3, <2>6, <3>1, NegRead
  <2> QED BY <1>4, <2>1, <2>2, <2>4, <2>5, <2>7 DEF NegReads, NegGives
<1> QED BY <1>1, <1>2, <1>3, <1>4

\* What a decoder accepts is the one encoding of its number.
LEMMA UIntCanonical ==
  ASSUME NEW s \in Seq(Byte), s /= <<>>, RemainLen(s[1]) = Len(s) - 1, DecodeUInt(s).ok
  PROVE  LET n == DecodeUInt(s).n IN UIntReads(s, n) /\ n \in Num /\ EncodeUInt(n) = s
<1> DEFINE d == DecodeUInt(s)
           n == d.n
<1>1. PICK f \in UIntForms : Len(s) >= f.len /\ s[1] \in f.heads
  <2>1. DecodeAs(UIntForms, s) /= {}
    BY DEF DecodeUInt, Failed
  <2> QED BY <2>1 DEF DecodeAs
<1>2. Len(s) = f.len
  <2>1. RemainLen(s[1]) = f.len - 1 /\ f.len \in Int
    <3>1. \A h, j, k, b : Form(h, j, k, b).len = j
      BY DEF Form
    <3>2. f.len \in Int
      BY <3>1 DEF UIntForms
    <3> QED BY <1>1, <3>2, Remains
  <2> QED BY <2>1
<1> HIDE DEF d
<1>3. CASE f = Form(128..191, 1, 64, 0)
  <2>1. f.heads = 128..191 /\ f.len = 1
    BY <1>3 DEF Form
  <2>2. s[1] \in 128..191 /\ Len(s) = 1 /\ 1 \in 1..7 /\ 8 = 9 - 1 /\ UIntAdd(0, 64)
    BY <1>1, <1>2, <2>1 DEF UIntAdd
  <2>3. Matched(0..63, 128..191, 64, 128, 64, 0)
    BY Marks
  <2>4. Form(128..191, 1, 64, 0) \in UIntForms
    BY <1>3
  <2>5. /\ UIntReads(s, n) /\ n \in Num
        /\ TopIs(n, 8, 0..63, 0) /\ Marked(Low(n, 1), 64, 128) = s
        /\ 1 > 1 => ~ Below(n, 0)
    <3>1. UIntUnpackedAs(s, n, 1, 0, 0..63, 64, 128, 8, 0)
      BY <2>2, <2>3, <2>4, UIntUnpacked DEF d
    <3> QED BY <3>1 DEF UIntUnpackedAs
  <2>6. Below(n, 6)
    BY <2>5, BelowIs
  <2> QED BY <2>5, <2>6, EncodeUIntIs DEF d
<1>4. CASE f = Form(192..223, 2, 32, 6)
  <2>1. f.heads = 192..223 /\ f.len = 2
    BY <1>4 DEF Form
  <2>2. s[1] \in 192..223 /\ Len(s) = 2 /\ 2 \in 1..7 /\ 7 = 9 - 2 /\ UIntAdd(0, 32)
    BY <1>1, <1>2, <2>1 DEF UIntAdd
  <2>3. Matched(0..31, 192..223, 32, 192, 32, 0)
    BY Marks
  <2>4. Form(192..223, 2, 32, 6) \in UIntForms
    BY <1>4
  <2>5. /\ UIntReads(s, n) /\ n \in Num
        /\ TopIs(n, 7, 0..31, 0) /\ Marked(Low(n, 2), 32, 192) = s
        /\ 2 > 1 => ~ Below(n, 6)
    <3>1. UIntUnpackedAs(s, n, 2, 6, 0..31, 32, 192, 7, 0)
      BY <2>2, <2>3, <2>4, UIntUnpacked DEF d
    <3> QED BY <3>1 DEF UIntUnpackedAs
  <2>6. Below(n, 13) /\ ~ Below(n, 6)
    BY <2>5, BelowIs
  <2> QED BY <2>5, <2>6, EncodeUIntIs DEF d
<1>5. CASE f = Form(224..239, 4, 16, 13)
  <2>1. f.heads = 224..239 /\ f.len = 4
    BY <1>5 DEF Form
  <2>2. s[1] \in 224..239 /\ Len(s) = 4 /\ 4 \in 1..7 /\ 5 = 9 - 4 /\ UIntAdd(0, 16)
    BY <1>1, <1>2, <2>1 DEF UIntAdd
  <2>3. Matched(0..15, 224..239, 16, 224, 16, 0)
    BY Marks
  <2>4. Form(224..239, 4, 16, 13) \in UIntForms
    BY <1>5
  <2>5. /\ UIntReads(s, n) /\ n \in Num
        /\ TopIs(n, 5, 0..15, 0) /\ Marked(Low(n, 4), 16, 224) = s
        /\ 4 > 1 => ~ Below(n, 13)
    <3>1. UIntUnpackedAs(s, n, 4, 13, 0..15, 16, 224, 5, 0)
      BY <2>2, <2>3, <2>4, UIntUnpacked DEF d
    <3> QED BY <3>1 DEF UIntUnpackedAs
  <2>6. Below(n, 28) /\ ~ Below(n, 13)
    BY <2>5, BelowIs
  <2> QED BY <2>5, <2>6, EncodeUIntIs DEF d
<1>6. CASE f = Form(240..247, 6, 8, 28)
  <2>1. f.heads = 240..247 /\ f.len = 6
    BY <1>6 DEF Form
  <2>2. s[1] \in 240..247 /\ Len(s) = 6 /\ 6 \in 1..7 /\ 3 = 9 - 6 /\ UIntAdd(0, 8)
    BY <1>1, <1>2, <2>1 DEF UIntAdd
  <2>3. Matched(0..7, 240..247, 8, 240, 8, 0)
    BY Marks
  <2>4. Form(240..247, 6, 8, 28) \in UIntForms
    BY <1>6
  <2>5. /\ UIntReads(s, n) /\ n \in Num
        /\ TopIs(n, 3, 0..7, 0) /\ Marked(Low(n, 6), 8, 240) = s
        /\ 6 > 1 => ~ Below(n, 28)
    <3>1. UIntUnpackedAs(s, n, 6, 28, 0..7, 8, 240, 3, 0)
      BY <2>2, <2>3, <2>4, UIntUnpacked DEF d
    <3> QED BY <3>1 DEF UIntUnpackedAs
  <2>6. Below(n, 43) /\ ~ Below(n, 28)
    BY <2>5, BelowIs
  <2> QED BY <2>5, <2>6, EncodeUIntIs DEF d
<1>7. CASE f = Form({248}, 9, 1, 43)
  <2>1. f.heads = {248} /\ f.len = 9 /\ f.short = 43
    BY <1>7 DEF Form
  <2>2. Widened(f, s, 0) = SubSeq(s, 2, 9)
    BY <2>1 DEF Widened
  <2>3. s[1] = 248 /\ SubSeq(s, 2, 9) \in Num /\ <<s[1]>> \o SubSeq(s, 2, 9) = s
    BY <1>1, <1>2, <2>1, WideBack
  <2>4. UIntGives(s, f)
    BY <1>1, <1>2, UIntRead
  <2> DEFINE w == SubSeq(s, 2, 9)
  <2>5. Failed.ok = FALSE
    BY DEF Failed
  <2> HIDE DEF w
  <2>6. w \in Num /\ <<248>> \o w = s
    BY <2>3 DEF w
  <2>7. Widened(f, s, 0) = w
    BY <2>2 DEF w
  <2>8. d = [ok |-> TRUE, n |-> w, len |-> 9] /\ ~ Below(w, 43)
    <3>1. d = IF 9 > 1 /\ Below(w, 43) THEN Failed ELSE [ok |-> TRUE, n |-> w, len |-> 9]
      BY <2>1, <2>4, <2>7 DEF d, UIntGives
    <3>2. d.ok
      BY DEF d
    <3> QED BY <2>5, <3>1, <3>2
  <2>9. d.n = w /\ UIntReads(s, w)
    <3>1. d.n = w
      BY <2>8
    <3>2. Len(s) = 9
      BY <1>2, <2>1
    <3> QED BY <2>4, <2>8, <3>1, <3>2 DEF UIntReads, UIntGives, d
  <2>10. EncodeUInt(w) = s
    BY <2>6, <2>8, EncodeUIntIs
  <2> QED BY <2>6, <2>9, <2>10 DEF d
<1> QED BY <1>3, <1>4, <1>5, <1>6, <1>7 DEF UIntForms

\* What a decoder accepts is the one encoding of its number.
LEMMA NegCanonical ==
  ASSUME NEW s \in Seq(Byte), s /= <<>>, RemainLen(s[1]) = Len(s) - 1, DecodeNeg(s).ok
  PROVE  LET n == DecodeNeg(s).n IN NegReads(s, n) /\ n \in Num /\ Negative(n) /\ Encode(n) = s
<1> DEFINE d == DecodeNeg(s)
           n == d.n
<1>1. PICK f \in NegForms : Len(s) >= f.len /\ s[1] \in f.heads
  <2>1. DecodeAs(NegForms, s) /= {}
    BY DEF DecodeNeg, Failed
  <2> QED BY <2>1 DEF DecodeAs
<1>2. Len(s) = f.len
  <2>1. RemainLen(s[1]) = f.len - 1 /\ f.len \in Int
    <3>1. \A h, j, k, b : Form(h, j, k, b).len = j
      BY DEF Form
    <3>2. f.len \in Int
      BY <3>1 DEF NegForms
    <3> QED BY <1>1, <3>2, Remains
  <2> QED BY <2>1
<1> HIDE DEF d
<1>3. CASE f = Form(64..127, 1, 64, 0)
  <2>1. f.heads = 64..127 /\ f.len = 1
    BY <1>3 DEF Form
  <2>2. s[1] \in 64..127 /\ Len(s) = 1 /\ 1 \in 1..7 /\ 8 = 9 - 1 /\ NegAdd(192, 64)
    BY <1>1, <1>2, <2>1 DEF NegAdd
  <2>3. Matched(192..255, 64..127, 128, 0, 64, 192)
    BY Marks
  <2>4. Form(64..127, 1, 64, 0) \in NegForms
    BY <1>3
  <2>5. /\ NegReads(s, n) /\ n \in Num
        /\ TopIs(n, 8, 192..255, 255) /\ Marked(Low(n, 1), 128, 0) = s
        /\ 1 > 1 => ~ NotBelowMinus(n, 0)
    <3>1. NegUnpackedAs(s, n, 1, 0, 192..255, 128, 0, 8, 255)
      BY <2>2, <2>3, <2>4, NegUnpacked DEF d
    <3> QED BY <3>1 DEF NegUnpackedAs
  <2>6. Negative(n)
    BY <2>5 DEF TopIs, Negative
  <2>7. NotBelowMinus(n, 6)
    BY <2>5, <2>6, NotBelowIs
  <2> QED BY <2>5, <2>6, <2>7, EncodeIs DEF d
<1>4. CASE f = Form(32..63, 3, 32, 6)
  <2>1. f.heads = 32..63 /\ f.len = 3
    BY <1>4 DEF Form
  <2>2. s[1] \in 32..63 /\ Len(s) = 3 /\ 3 \in 1..7 /\ 6 = 9 - 3 /\ NegAdd(224, 32)
    BY <1>1, <1>2, <2>1 DEF NegAdd
  <2>3. Matched(224..255, 32..63, 64, 0, 32, 224)
    BY Marks
  <2>4. Form(32..63, 3, 32, 6) \in NegForms
    BY <1>4
  <2>5. /\ NegReads(s, n) /\ n \in Num
        /\ TopIs(n, 6, 224..255, 255) /\ Marked(Low(n, 3), 64, 0) = s
        /\ 3 > 1 => ~ NotBelowMinus(n, 6)
    <3>1. NegUnpackedAs(s, n, 3, 6, 224..255, 64, 0, 6, 255)
      BY <2>2, <2>3, <2>4, NegUnpacked DEF d
    <3> QED BY <3>1 DEF NegUnpackedAs
  <2>6. Negative(n)
    BY <2>5 DEF TopIs, Negative
  <2>7. NotBelowMinus(n, 21) /\ ~ NotBelowMinus(n, 6)
    BY <2>5, <2>6, NotBelowIs
  <2> QED BY <2>5, <2>6, <2>7, EncodeIs DEF d
<1>5. CASE f = Form(16..31, 6, 16, 21)
  <2>1. f.heads = 16..31 /\ f.len = 6
    BY <1>5 DEF Form
  <2>2. s[1] \in 16..31 /\ Len(s) = 6 /\ 6 \in 1..7 /\ 3 = 9 - 6 /\ NegAdd(240, 16)
    BY <1>1, <1>2, <2>1 DEF NegAdd
  <2>3. Matched(240..255, 16..31, 32, 0, 16, 240)
    BY Marks
  <2>4. Form(16..31, 6, 16, 21) \in NegForms
    BY <1>5
  <2>5. /\ NegReads(s, n) /\ n \in Num
        /\ TopIs(n, 3, 240..255, 255) /\ Marked(Low(n, 6), 32, 0) = s
        /\ 6 > 1 => ~ NotBelowMinus(n, 21)
    <3>1. NegUnpackedAs(s, n, 6, 21, 240..255, 32, 0, 3, 255)
      BY <2>2, <2>3, <2>4, NegUnpacked DEF d
    <3> QED BY <3>1 DEF NegUnpackedAs
  <2>6. Negative(n)
    BY <2>5 DEF TopIs, Negative
  <2>7. NotBelowMinus(n, 44) /\ ~ NotBelowMinus(n, 21)
    BY <2>5, <2>6, NotBelowIs
  <2> QED BY <2>5, <2>6, <2>7, EncodeIs DEF d
<1>6. CASE f = Form({15}, 9, 1, 44)
  <2>1. f.heads = {15} /\ f.len = 9 /\ f.short = 44
    BY <1>6 DEF Form
  <2>2. Widened(f, s, 255) = SubSeq(s, 2, 9)
    BY <2>1 DEF Widened
  <2>3. s[1] = 15 /\ SubSeq(s, 2, 9) \in Num /\ <<s[1]>> \o SubSeq(s, 2, 9) = s
    BY <1>1, <1>2, <2>1, WideBack
  <2>4. NegGives(s, f)
    BY <1>1, <1>2, NegRead
  <2> DEFINE w == SubSeq(s, 2, 9)
  <2>5. Failed.ok = FALSE
    BY DEF Failed
  <2> HIDE DEF w
  <2>6. w \in Num /\ <<15>> \o w = s
    BY <2>3 DEF w
  <2>7. Widened(f, s, 255) = w
    BY <2>2 DEF w
  <2>8. d = [ok |-> TRUE, n |-> w, len |-> 9] /\ ~ NotBelowMinus(w, 44)
    <3>1. d = IF 9 > 1 /\ NotBelowMinus(w, 44) THEN Failed ELSE [ok |-> TRUE, n |-> w, len |-> 9]
      BY <2>1, <2>4, <2>7 DEF d, NegGives
    <3>2. d.ok
      BY DEF d
    <3> QED BY <2>5, <3>1, <3>2
  <2>9. d.n = w /\ NegReads(s, w)
    <3>1. d.n = w
      BY <2>8
    <3>2. Len(s) = 9
      BY <1>2, <2>1
    <3> QED BY <2>4, <2>8, <3>1, <3>2 DEF NegReads, NegGives, d
  <2>10. Negative(w)
    BY <2>8 DEF NotBelowMinus
  <2>11. Encode(w) = s
    BY <2>6, <2>8, <2>10, EncodeIs
  <2> QED BY <2>6, <2>9, <2>10, <2>11 DEF d
<1> QED BY <1>3, <1>4, <1>5, <1>6 DEF NegForms

-----------------------------------------------------------------------------
(* Both kinds of numbers, and a stream of them.                            *)

Kind == {"int", "uint"}
Enc(kind, n) == IF kind = "int" THEN Encode(n) ELSE EncodeUInt(n)
Dec(kind, s) == IF kind = "int" THEN Decode(s) ELSE DecodeUInt(s)

\* s is one whole encoding, which is read as n.
Reads(kind, s, n) ==
  /\ s \in Seq(Byte) /\ Len(s) >= 1 /\ RemainLen(s[1]) = Len(s) - 1
  /\ Dec(kind, s) = [ok |-> TRUE, n |-> n, len |-> Len(s)]

\* Decode takes what is no negative number to DecodeUInt.
LEMMA DecodeIs ==
  ASSUME NEW s, s /= <<>>
  PROVE  /\ s[1] < 128 => Decode(s) = DecodeNeg(s)
         /\ ~ (s[1] < 128) => Decode(s) = IF DecodeUInt(s).ok /\ Negative(DecodeUInt(s).n) THEN Failed ELSE DecodeUInt(s)
BY DEF Decode

\* What is encoded is read as what it was, for both kinds.
LEMMA RoundTrip ==
  ASSUME NEW kind \in Kind, NEW n \in Num
  PROVE  Reads(kind, Enc(kind, n), n)
<1>1. UIntReads(EncodeUInt(n), n)
  BY UIntRoundTrip
<1>2. Reads("uint", EncodeUInt(n), n)
  <2> DEFINE s == EncodeUInt(n)
  <2> HIDE DEF s
  <2> SUFFICES Reads("uint", s, n)
    BY DEF s
  <2>1. UIntReads(s, n)
    BY <1>1 DEF s
  <2> QED BY <2>1 DEF UIntReads, Reads, Dec
<1>3. CASE kind = "uint"
  BY <1>2, <1>3 DEF Enc
<1>4. CASE kind = "int" /\ Negative(n)
  <2> DEFINE s == Encode(n)
  <2>1. NegReads(s, n)
    BY <1>4, NegRoundTrip
  <2> HIDE DEF s
  <2>2. Dec("int", s) = DecodeNeg(s)
    BY <2>1, DecodeIs DEF NegReads, Dec
  <2>3. Reads("int", s, n)
    BY <2>1, <2>2 DEF NegReads, Reads
  <2> QED BY <1>4, <2>3 DEF s, Enc
<1>5. CASE kind = "int" /\ ~ Negative(n)
  <2> DEFINE s == EncodeUInt(n)
  <2>1. Encode(n) = s
    BY <1>5, EncodeIs
  <2> HIDE DEF s
  <2>2. UIntReads(s, n)
    BY <1>1 DEF s
  <2>3. ~ (s[1] < 128) /\ s /= <<>>
    <3>1. s[1] \in Byte /\ s[1] >= 128
      BY <2>2 DEF UIntReads
    <3>2. s /= <<>>
      BY <2>2 DEF UIntReads
    <3>3. ASSUME NEW b \in Byte, b >= 128 PROVE ~ (b < 128)
      BY <3>3 DEF Byte
    <3> QED BY <3>1, <3>2, <3>3
  <2>4. DecodeUInt(s).n = n
    BY <2>2 DEF UIntReads
  <2>5. Dec("int", s) = DecodeUInt(s)
    BY <1>5, <2>3, <2>4, DecodeIs DEF Dec
  <2>6. Reads("int", s, n)
    BY <2>2, <2>5 DEF UIntReads, Reads
  <2> QED BY <1>5, <2>1, <2>6 DEF Enc
<1> QED BY <1>3, <1>4, <1>5 DEF Kind

\* What a decoder accepts is the one encoding of its number, for both kinds.
LEMMA Canonical ==
  ASSUME NEW kind \in Kind, NEW s \in Seq(Byte), Len(s) >= 1, RemainLen(s[1]) = Len(s) - 1, Dec(kind, s).ok
  PROVE  Dec(kind, s).len = Len(s) /\ Enc(kind, Dec(kind, s).n) = s
<1>1. s /= <<>>
  OBVIOUS
<1>2. ASSUME DecodeUInt(s).ok
      PROVE  /\ DecodeUInt(s).len = Len(s) /\ EncodeUInt(DecodeUInt(s).n) = s
             /\ DecodeUInt(s).n \in Num
  <2>1. UIntReads(s, DecodeUInt(s).n) /\ DecodeUInt(s).n \in Num /\ EncodeUInt(DecodeUInt(s).n) = s
    BY <1>1, <1>2, UIntCanonical
  <2> QED BY <2>1 DEF UIntReads
<1>3. CASE kind = "uint"
  BY <1>2, <1>3 DEF Dec, Enc
<1>4. CASE kind = "int" /\ s[1] < 128
  <2>1. Dec(kind, s) = DecodeNeg(s)
    BY <1>1, <1>4, DecodeIs DEF Dec
  <2>2. NegReads(s, DecodeNeg(s).n) /\ Encode(DecodeNeg(s).n) = s
    BY <1>1, <2>1, NegCanonical
  <2>3. DecodeNeg(s).len = Len(s)
    BY <2>2 DEF NegReads
  <2> QED BY <1>4, <2>1, <2>2, <2>3 DEF Enc
<1>5. CASE kind = "int" /\ ~ (s[1] < 128)
  <2>1. Dec(kind, s) = IF DecodeUInt(s).ok /\ Negative(DecodeUInt(s).n) THEN Failed ELSE DecodeUInt(s)
    BY <1>1, <1>5, DecodeIs DEF Dec
  <2>2. Failed.ok = FALSE
    BY DEF Failed
  <2>3. Dec(kind, s) = DecodeUInt(s) /\ DecodeUInt(s).ok /\ ~ Negative(DecodeUInt(s).n)
    BY <2>1, <2>2
  <2>4. Encode(DecodeUInt(s).n) = EncodeUInt(DecodeUInt(s).n)
    BY <1>2, <2>3, EncodeIs
  <2> QED BY <1>2, <1>5, <2>3, <2>4 DEF Enc
<1> QED BY <1>3, <1>4, <1>5 DEF Kind

Due == [kind : Kind, n : Num]

\* The bytes e are in w, after the first a.
HoldsAt(w, a, e) == a + Len(e) <= Len(w) /\ \A j \in 1..Len(e) : w[a + j] = e[j]

\* The number q[i] is the bytes of w from cut[i - 1] to cut[i].
CutAt(w, q, cut, i) ==
  LET e == Enc(q[i].kind, q[i].n) IN cut[i] = cut[i - 1] + Len(e) /\ HoldsAt(w, cut[i - 1], e)

Laid(w, q, cut) ==
  /\ cut \in [0..Len(q) -> Nat] /\ cut[0] = 0 /\ cut[Len(q)] = Len(w)
  /\ \A i \in 1..Len(q) : CutAt(w, q, cut, i)

\* No encoding is empty.
LEMMA EncIs ==
  ASSUME NEW r \in Due
  PROVE  LET e == Enc(r.kind, r.n) IN e \in Seq(Byte) /\ Len(e) >= 1 /\ Len(e) \in Nat
BY RoundTrip DEF Due, Reads

\* Put lays one more number on the wire.
LEMMA LaidAppend ==
  ASSUME NEW w \in Seq(Byte), NEW q \in Seq(Due), NEW cut, Laid(w, q, cut), NEW r \in Due
  PROVE  \E c : Laid(w \o Enc(r.kind, r.n), Append(q, r), c)
<1> DEFINE e == Enc(r.kind, r.n)
           x == w \o e
           p == Append(q, r)
           due_len == Len(q)
           c == [i \in 0..(due_len + 1) |-> IF i = due_len + 1 THEN Len(x) ELSE cut[i]]
<1>1. e \in Seq(Byte) /\ Len(e) \in Nat
  BY EncIs
<1>2. due_len \in Nat /\ Len(w) \in Nat
  OBVIOUS
<1>3. p \in Seq(Due) /\ Len(p) = due_len + 1 /\ p[due_len + 1] = r /\ \A i \in 1..due_len : p[i] = q[i]
  OBVIOUS
<1> HIDE DEF e
<1>4. /\ x \in Seq(Byte) /\ Len(x) = Len(w) + Len(e)
      /\ \A i \in 1..(Len(w) + Len(e)) : x[i] = IF i <= Len(w) THEN w[i] ELSE e[i - Len(w)]
  BY <1>1, ConcatProperties
<1> HIDE DEF x, p
<1>5. cut \in [0..due_len -> Nat] /\ cut[0] = 0 /\ cut[due_len] = Len(w) /\ \A i \in 1..due_len : CutAt(w, q, cut, i)
  BY DEF Laid
<1> HIDE DEF due_len
<1>6. c \in [0..(due_len + 1) -> Nat] /\ c[0] = 0 /\ c[due_len + 1] = Len(x) /\ \A i \in 0..due_len : c[i] = cut[i]
  BY <1>1, <1>2, <1>4, <1>5
<1> HIDE DEF c
<1>7. ASSUME NEW i \in 1..due_len PROVE CutAt(x, p, c, i)
  <2> DEFINE g == Enc(q[i].kind, q[i].n)
             a == cut[i - 1]
  <2>1. q[i] \in Due
    BY DEF due_len
  <2>2. g \in Seq(Byte) /\ Len(g) \in Nat
    BY <2>1, EncIs
  <2>3. i - 1 \in 0..due_len /\ i \in 0..due_len
    BY <1>2
  <2>4. p[i] = q[i] /\ c[i] = cut[i] /\ c[i - 1] = a /\ a \in Nat
    BY <1>3, <1>5, <1>6, <2>3
  <2>5. cut[i] = a + Len(g) /\ HoldsAt(w, a, g)
    BY <1>5 DEF CutAt
  <2> HIDE DEF g, a
  <2>6. HoldsAt(x, a, g)
    <3>1. a + Len(g) <= Len(x)
      BY <1>1, <1>2, <1>4, <2>2, <2>4, <2>5 DEF HoldsAt
    <3>2. ASSUME NEW j \in 1..Len(g) PROVE x[a + j] = g[j]
      <4>1. a + Len(g) <= Len(w) /\ w[a + j] = g[j]
        BY <2>5 DEF HoldsAt
      <4>2. a + j \in 1..(Len(w) + Len(e)) /\ a + j <= Len(w)
        BY <1>1, <1>2, <2>2, <2>4, <4>1
      <4>3. x[a + j] = w[a + j]
        BY <1>4, <4>2
      <4> QED BY <4>1, <4>3
    <3> QED BY <3>1, <3>2 DEF HoldsAt
  <2> QED BY <2>4, <2>5, <2>6 DEF CutAt, g
<1>8. CutAt(x, p, c, due_len + 1)
  <2>1. (due_len + 1) - 1 = due_len /\ due_len \in 0..due_len
    BY <1>2
  <2>2. c[(due_len + 1) - 1] = Len(w)
    BY <1>5, <1>6, <2>1
  <2>3. HoldsAt(x, Len(w), e)
    <3>1. ASSUME NEW j \in 1..Len(e) PROVE x[Len(w) + j] = e[j]
      <4>1. Len(w) + j \in 1..(Len(w) + Len(e)) /\ ~ (Len(w) + j <= Len(w)) /\ (Len(w) + j) - Len(w) = j
        BY <1>1, <1>2
      <4>2. x[Len(w) + j] = e[(Len(w) + j) - Len(w)]
        BY <1>4, <4>1
      <4> QED BY <4>1, <4>2
    <3>2. Len(w) + Len(e) <= Len(x)
      BY <1>1, <1>2, <1>4
    <3> QED BY <3>1, <3>2 DEF HoldsAt
  <2>4. Enc(p[due_len + 1].kind, p[due_len + 1].n) = e
    BY <1>3 DEF e
  <2> QED BY <1>4, <1>6, <2>2, <2>3, <2>4 DEF CutAt
<1>9. \A i \in 1..(due_len + 1) : i = due_len + 1 \/ i \in 1..due_len
  BY <1>2
<1>10. Laid(x, p, c)
  BY <1>3, <1>6, <1>7, <1>8, <1>9 DEF Laid
<1> QED BY <1>10 DEF x, p, e

\* Load takes the first number off the wire.
LEMMA LaidTail ==
  ASSUME NEW w \in Seq(Byte), NEW q \in Seq(Due), q /= <<>>, NEW cut, Laid(w, q, cut)
  PROVE  LET e == Enc(q[1].kind, q[1].n) IN
         /\ HoldsAt(w, 0, e)
         /\ \E c : Laid(SubSeq(w, Len(e) + 1, Len(w)), Tail(q), c)
<1> DEFINE e == Enc(q[1].kind, q[1].n)
           x == SubSeq(w, Len(e) + 1, Len(w))
           p == Tail(q)
           due_len == Len(q)
           k == Len(e)
           c == [i \in 0..(due_len - 1) |-> cut[i + 1] - k]
<1>1. due_len \in Nat /\ due_len >= 1 /\ q[1] \in Due /\ Len(w) \in Nat
  OBVIOUS
<1>2. e \in Seq(Byte) /\ k \in Nat
  BY <1>1, EncIs
<1>3. p \in Seq(Due) /\ Len(p) = due_len - 1 /\ \A i \in 1..(due_len - 1) : p[i] = q[i + 1]
  OBVIOUS
<1> HIDE DEF p, due_len
<1>4. cut \in [0..due_len -> Nat] /\ cut[0] = 0 /\ cut[due_len] = Len(w) /\ \A i \in 1..due_len : CutAt(w, q, cut, i)
  BY DEF Laid, due_len
<1>5. cut[1] = k /\ HoldsAt(w, 0, e)
  <2>1. 1 \in 1..due_len /\ 1 - 1 = 0
    BY <1>1
  <2>2. CutAt(w, q, cut, 1)
    BY <1>4, <2>1
  <2> HIDE DEF e
  <2>3. cut[1] = cut[1 - 1] + Len(e) /\ HoldsAt(w, cut[1 - 1], e)
    BY <2>2 DEF CutAt, e
  <2>4. cut[1 - 1] = 0
    BY <1>4, <2>1
  <2>5. cut[1] = 0 + Len(e) /\ HoldsAt(w, 0, e)
    BY <2>3, <2>4
  <2> QED BY <1>2, <2>5
<1>6. k <= Len(w)
  BY <1>2, <1>5 DEF HoldsAt
<1> HIDE DEF e
<1>7. x \in Seq(Byte) /\ Len(x) = Len(w) - k /\ \A i \in 1..(Len(w) - k) : x[i] = w[k + i]
  <2>1. k + 1 \in 1..(Len(w) + 1)
    BY <1>1, <1>2, <1>6
  <2>2. \A i \in (k + 1)..Len(w) : w[i] \in Byte
    BY <1>2
  <2>3. /\ x \in Seq(Byte)
        /\ Len(x) = IF k + 1 <= Len(w) THEN Len(w) - (k + 1) + 1 ELSE 0
        /\ \A i \in 1..(Len(w) - (k + 1) + 1) : x[i] = w[(k + 1) + i - 1]
    BY <1>1, <1>2, <2>2, SubSeqProperties
  <2>4. Len(x) = Len(w) - k
    BY <1>1, <1>2, <1>6, <2>3
  <2>5. ASSUME NEW i \in 1..(Len(w) - k) PROVE x[i] = w[k + i]
    <3>1. i \in 1..(Len(w) - (k + 1) + 1) /\ (k + 1) + i - 1 = k + i
      BY <1>1, <1>2
    <3>2. x[i] = w[(k + 1) + i - 1]
      BY <2>3, <3>1
    <3> QED BY <3>1, <3>2
  <2> QED BY <2>3, <2>4, <2>5
<1> HIDE DEF x, k
<1>8. \A i \in 1..due_len : cut[i] >= k
  <2> DEFINE T == {i \in Nat : i + 1 \in 1..due_len => cut[i + 1] >= k}
  <2>1. 0 \in T
    BY <1>2, <1>5
  <2>2. ASSUME NEW i \in Nat, i \in T PROVE i + 1 \in T
    <3> SUFFICES ASSUME i + 2 \in 1..due_len PROVE cut[i + 2] >= k
      OBVIOUS
    <3> DEFINE g == Enc(q[i + 2].kind, q[i + 2].n)
    <3>1. q[i + 2] \in Due
      BY DEF due_len
    <3>2. Len(g) \in Nat
      BY <3>1, EncIs
    <3> HIDE DEF g
    <3>3. CutAt(w, q, cut, i + 2)
      BY <1>4
    <3>4. cut[i + 2] = cut[(i + 2) - 1] + Len(g)
      BY <3>3 DEF CutAt, g
    <3>5. i + 1 \in 1..due_len /\ (i + 2) - 1 = i + 1 /\ i + 1 \in 0..due_len
      BY <1>1
    <3>6. cut[i + 1] \in Nat /\ cut[i + 1] >= k
      BY <1>4, <2>2, <3>5
    <3> QED BY <1>2, <3>2, <3>4, <3>5, <3>6
  <2>3. Nat \subseteq T
    <3> HIDE DEF T
    <3> QED BY <2>1, <2>2, InductionNat
  <2>4. ASSUME NEW i \in 1..due_len PROVE cut[i] >= k
    <3>1. i - 1 \in Nat /\ (i - 1) + 1 = i
      BY <1>1
    <3>2. i - 1 \in T
      BY <2>3, <3>1
    <3> QED BY <3>1, <3>2
  <2> QED BY <2>4
<1>9. c \in [0..(due_len - 1) -> Nat] /\ \A i \in 0..(due_len - 1) : c[i] = cut[i + 1] - k
  <2>1. ASSUME NEW i \in 0..(due_len - 1) PROVE cut[i + 1] - k \in Nat
    <3>1. i + 1 \in 1..due_len /\ i + 1 \in 0..due_len
      BY <1>1
    <3>2. cut[i + 1] \in Nat /\ cut[i + 1] >= k
      BY <1>4, <1>8, <3>1
    <3> QED BY <1>2, <3>2
  <2> QED BY <2>1
<1> HIDE DEF c
<1>10. c[0] = 0 /\ c[due_len - 1] = Len(x)
  <2>1. 0 \in 0..(due_len - 1) /\ due_len - 1 \in 0..(due_len - 1) /\ 0 + 1 = 1 /\ (due_len - 1) + 1 = due_len
    BY <1>1
  <2>2. c[0] = cut[0 + 1] - k /\ c[due_len - 1] = cut[(due_len - 1) + 1] - k
    BY <1>9, <2>1
  <2>3. c[0] = k - k /\ c[due_len - 1] = Len(w) - k
    BY <1>4, <1>5, <2>1, <2>2 DEF k
  <2> QED BY <1>2, <1>7, <2>3
<1>11. ASSUME NEW i \in 1..(due_len - 1) PROVE CutAt(x, p, c, i)
  <2> DEFINE g == Enc(q[i + 1].kind, q[i + 1].n)
  <2>1. /\ i \in 0..(due_len - 1) /\ i - 1 \in 0..(due_len - 1) /\ (i - 1) + 1 = i /\ (i + 1) - 1 = i
        /\ i \in 1..due_len /\ i + 1 \in 1..due_len /\ i \in 0..due_len /\ i + 1 \in 0..due_len
    BY <1>1
  <2>2. q[i + 1] \in Due
    BY <2>1 DEF due_len
  <2>3. g \in Seq(Byte) /\ Len(g) \in Nat
    BY <2>2, EncIs
  <2> HIDE DEF g
  <2>4. CutAt(w, q, cut, i + 1)
    BY <1>4, <2>1
  <2>5. cut[i + 1] = cut[(i + 1) - 1] + Len(g) /\ HoldsAt(w, cut[(i + 1) - 1], g)
    BY <2>4 DEF CutAt, g
  <2> DEFINE a == cut[i]
  <2>6. cut[i + 1] = a + Len(g) /\ HoldsAt(w, a, g) /\ a \in Nat /\ a >= k
    BY <1>4, <1>8, <2>1, <2>5
  <2>7. c[i] = cut[i + 1] - k /\ c[i - 1] = a - k
    <3>1. c[i - 1] = cut[(i - 1) + 1] - k
      BY <1>9, <2>1
    <3> QED BY <1>9, <2>1, <3>1
  <2> HIDE DEF a
  <2>8. c[i] = c[i - 1] + Len(g)
    BY <1>2, <2>3, <2>6, <2>7
  <2>9. HoldsAt(x, a - k, g)
    <3>1. a + Len(g) <= Len(w)
      BY <2>6 DEF HoldsAt
    <3>2. (a - k) + Len(g) <= Len(x)
      BY <1>1, <1>2, <1>7, <2>3, <2>6, <3>1
    <3>3. ASSUME NEW j \in 1..Len(g) PROVE x[(a - k) + j] = g[j]
      <4>1. (a - k) + j \in 1..(Len(w) - k) /\ k + ((a - k) + j) = a + j
        BY <1>1, <1>2, <2>3, <2>6, <3>1
      <4>2. x[(a - k) + j] = w[k + ((a - k) + j)]
        BY <1>7, <4>1
      <4>3. w[a + j] = g[j]
        BY <2>6 DEF HoldsAt
      <4> QED BY <4>1, <4>2, <4>3
    <3> QED BY <3>2, <3>3 DEF HoldsAt
  <2>10. Enc(p[i].kind, p[i].n) = g
    BY <1>3 DEF g
  <2> QED BY <2>7, <2>8, <2>9, <2>10 DEF CutAt
<1>12. Laid(x, p, c)
  BY <1>3, <1>9, <1>10, <1>11 DEF Laid
<1> QED BY <1>5, <1>12 DEF x, p, e, k

\* What Load gives: the parts of last', and the rest of the wire.
LEMMA TakenIs ==
  ASSUME wire \in Seq(Byte), wire /= <<>>, Whole
  PROVE  LET s == SubSeq(wire, 1, Taken) IN
         /\ s \in Seq(Byte) /\ Len(s) = Taken /\ Len(s) >= 1 /\ RemainLen(s[1]) = Len(s) - 1
         /\ Taken = 1 + RemainLen(wire[1]) /\ Taken \in 1..Len(wire) /\ \A i \in 1..Taken : s[i] = wire[i]
<1> DEFINE b == RemainLen(wire[1])
           s == SubSeq(wire, 1, Taken)
<1>1. b \in 0..(Len(wire) - 1) /\ Len(wire) \in Nat
  BY DEF Whole
<1>2. Taken = 1 + b /\ ~ (b < 0)
  <2> HIDE DEF b
  <2>1. ~ (b < 0)
    BY <1>1
  <2> QED BY <1>1, <2>1 DEF Taken, b
<1> HIDE DEF b
<1>3. Taken \in 1..Len(wire)
  BY <1>1, <1>2
<1> DEFINE t == Taken
<1> HIDE DEF t
<1>4. t \in 1..Len(wire)
  BY <1>3 DEF t
<1>5. \A i \in 1..t : wire[i] \in Byte
  <2>1. \A i \in 1..t : i \in 1..Len(wire)
    BY <1>4
  <2> QED BY <2>1, ElementOfSeq
<1>6. /\ SubSeq(wire, 1, t) \in Seq(Byte)
      /\ Len(SubSeq(wire, 1, t)) = IF 1 <= t THEN t - 1 + 1 ELSE 0
      /\ \A i \in 1..(t - 1 + 1) : SubSeq(wire, 1, t)[i] = wire[1 + i - 1]
  BY <1>4, <1>5, SubSeqProperties
<1>7. \A i \in 1..t : i \in 1..(t - 1 + 1) /\ 1 + i - 1 = i
  BY <1>4
<1>8. s = SubSeq(wire, 1, t)
  BY DEF t
<1> HIDE DEF s
<1>9. s \in Seq(Byte) /\ Len(s) = t /\ \A i \in 1..t : s[i] = wire[i]
  BY <1>4, <1>6, <1>7, <1>8
<1>10. s[1] = wire[1] /\ t >= 1
  BY <1>4, <1>9
<1>11. RemainLen(s[1]) = t - 1
  BY <1>1, <1>2, <1>10 DEF b, t
<1> QED BY <1>2, <1>3, <1>9, <1>10, <1>11 DEF s, t, b

\* The inductive invariant: the wire holds what is due, number after number.
VarIntInv ==
  /\ wire \in Seq(Byte) /\ due \in Seq(Due)
  /\ due /= <<>> => \E cut : Laid(wire, due, cut)
  /\ NumbersSurvive

\* Put preserves the invariant.
LEMMA PutKeeps ==
  ASSUME VarIntInv, NEW kind \in Kind, NEW n \in Number, Put(kind, n)
  PROVE  VarIntInv'
<1> DEFINE r == [kind |-> kind, n |-> n]
<1>1. n \in Num
  BY VarIntAssumption DEF Num
<1>2. r \in Due /\ r.kind = kind /\ r.n = n
  BY <1>1 DEF Due
<1> HIDE DEF r
<1>3. wire' = wire \o Enc(r.kind, r.n) /\ due' = Append(due, r) /\ last' = NoLoad /\ (due = <<>> => wire = <<>>)
  BY <1>2 DEF Put, Enc, r
<1>4. wire \in Seq(Byte) /\ due \in Seq(Due)
  BY DEF VarIntInv
<1>5. \E cut : Laid(wire, due, cut)
  <2>1. CASE due /= <<>>
    BY <2>1 DEF VarIntInv
  <2>2. CASE due = <<>>
    <3> DEFINE cut == [i \in 0..0 |-> 0]
    <3>1. Laid(<<>>, <<>>, cut)
      BY DEF Laid
    <3> QED BY <1>3, <2>2, <3>1
  <2> QED BY <2>1, <2>2
<1>6. \E c : Laid(wire', due', c)
  BY <1>2, <1>3, <1>4, <1>5, LaidAppend
<1>7. wire' \in Seq(Byte) /\ due' \in Seq(Due)
  <2>1. Enc(r.kind, r.n) \in Seq(Byte)
    BY <1>2, EncIs
  <2> QED BY <1>2, <1>3, <1>4, <2>1
<1>8. NumbersSurvive'
  BY <1>3 DEF NumbersSurvive, NoLoad
<1> QED BY <1>6, <1>7, <1>8 DEF VarIntInv

\* So does Load: it takes the whole of the first number, and no more.
LEMMA LoadKeeps ==
  ASSUME VarIntInv, NEW kind \in Kind, Load(kind)
  PROVE  VarIntInv'
<1> DEFINE s == SubSeq(wire, 1, Taken)
           d == IF ~ Whole THEN Failed ELSE Dec(kind, s)
           want == IF due = <<>> THEN <<>> ELSE due[1].n
<1>1. wire \in Seq(Byte) /\ due \in Seq(Due) /\ wire /= <<>> /\ (due /= <<>> => due[1].kind = kind)
  BY DEF VarIntInv, Load
<1>2. /\ last' = [kind |-> kind, bytes |-> s, d |-> d, want |-> want]
      /\ wire' = SubSeq(wire, Taken + 1, Len(wire))
      /\ due' = IF due = <<>> THEN <<>> ELSE Tail(due)
  BY DEF Load, Dec
<1>3. last'.kind = kind /\ last'.bytes = s /\ last'.d = d /\ last'.want = want
  BY <1>2
<1>4. ASSUME d.ok PROVE d.len = Len(s) /\ Enc(kind, d.n) = s
  <2>1. Failed.ok = FALSE
    BY DEF Failed
  <2>2. Whole /\ d = Dec(kind, s)
    BY <1>4, <2>1
  <2>3. s \in Seq(Byte) /\ Len(s) >= 1 /\ RemainLen(s[1]) = Len(s) - 1
    BY <1>1, <2>2, TakenIs
  <2> HIDE DEF s, d
  <2>4. Dec(kind, s).ok
    BY <1>4, <2>2
  <2>5. Dec(kind, s).len = Len(s) /\ Enc(kind, Dec(kind, s).n) = s
    BY <2>3, <2>4, Canonical
  <2> QED BY <2>2, <2>5
<1>5. ASSUME due /= <<>>
      PROVE  d.ok /\ d.n = want /\ \E c : Laid(wire', due', c)
  <2> DEFINE r == due[1]
             e == Enc(r.kind, r.n)
  <2>1. r \in Due /\ r.kind = kind /\ r.n \in Num
    <3>1. r \in Due
      BY <1>1, <1>5
    <3>2. r.kind = kind
      BY <1>1, <1>5
    <3> HIDE DEF r
    <3> QED BY <3>1, <3>2 DEF Due
  <2>2. PICK cut : Laid(wire, due, cut)
    BY <1>5 DEF VarIntInv
  <2>3. HoldsAt(wire, 0, e) /\ \E c : Laid(SubSeq(wire, Len(e) + 1, Len(wire)), Tail(due), c)
    BY <1>1, <1>5, <2>2, LaidTail
  <2> HIDE DEF r
  <2>4. Reads(kind, e, r.n)
    BY <2>1, RoundTrip
  <2>5. e \in Seq(Byte) /\ Len(e) >= 1 /\ RemainLen(e[1]) = Len(e) - 1 /\ Dec(kind, e) = [ok |-> TRUE, n |-> r.n, len |-> Len(e)]
    BY <2>4 DEF Reads
  <2> HIDE DEF e
  <2>6. Len(e) \in Nat /\ Len(e) <= Len(wire) /\ Len(wire) \in Nat /\ \A j \in 1..Len(e) : wire[j] = e[j]
    <3>1. Len(e) \in Nat /\ Len(wire) \in Nat
      BY <1>1, <2>5
    <3>2. \A j \in 1..Len(e) : 0 + j = j
      BY <3>1
    <3>3. 0 + Len(e) <= Len(wire) /\ \A j \in 1..Len(e) : wire[0 + j] = e[j]
      BY <2>3 DEF HoldsAt
    <3> QED BY <3>1, <3>2, <3>3
  <2>7. wire[1] = e[1]
    BY <2>5, <2>6
  <2>8. RemainLen(wire[1]) = Len(e) - 1
    BY <2>5, <2>7
  <2>9. Whole
    <3>1. Len(e) - 1 \in 0..(Len(wire) - 1)
      BY <2>5, <2>6
    <3> QED BY <2>8, <3>1 DEF Whole
  <2>10. s \in Seq(Byte) /\ Len(s) = Taken /\ Taken = 1 + RemainLen(wire[1]) /\ \A i \in 1..Taken : s[i] = wire[i]
    BY <1>1, <2>9, TakenIs
  <2>11. Taken = Len(e)
    BY <2>6, <2>8, <2>10
  <2> HIDE DEF s
  <2>12. s = e
    <3>1. Len(s) = Len(e) /\ \A i \in 1..Len(s) : s[i] = e[i]
      BY <2>6, <2>10, <2>11
    <3> QED BY <2>5, <2>10, <3>1, SameBytes
  <2>13. d = [ok |-> TRUE, n |-> r.n, len |-> Len(e)]
    BY <2>5, <2>9, <2>12
  <2>14. want = r.n
    BY <1>5 DEF r
  <2>15. \E c : Laid(wire', due', c)
    BY <1>2, <1>5, <2>3, <2>11
  <2> HIDE DEF d, want
  <2> QED BY <2>13, <2>14, <2>15
<1>6. wire' \in Seq(Byte) /\ due' \in Seq(Due)
  <2>1. Taken \in Nat
    <3>1. CASE Whole
      BY <1>1, <3>1, TakenIs
    <3>2. CASE ~ Whole
      BY <1>1, <3>2 DEF Whole, Taken
    <3> QED BY <3>1, <3>2
  <2>2. wire' \in Seq(Byte)
    <3> DEFINE t == Taken
    <3> HIDE DEF t
    <3>1. t \in Nat
      BY <2>1 DEF t
    <3>2. \A i \in (t + 1)..Len(wire) : wire[i] \in Byte
      BY <1>1, <3>1
    <3>3. SubSeq(wire, t + 1, Len(wire)) \in Seq(Byte)
      BY <1>1, <3>1, <3>2, SubSeqProperties
    <3> QED BY <1>2, <3>3 DEF t
  <2>3. due' \in Seq(Due)
    BY <1>1, <1>2
  <2> QED BY <2>2, <2>3
<1>7. due' /= <<>> => \E c : Laid(wire', due', c)
  BY <1>2, <1>5
<1>8. NumbersSurvive'
  <2>1. want /= <<>> => d.ok /\ d.n = want
    BY <1>5
  <2> HIDE DEF s, d, want
  <2> SUFFICES /\ last'.want /= <<>> => last'.d.ok /\ last'.d.n = last'.want
               /\ last'.d.ok =>
                    /\ last'.d.len = Len(last'.bytes)
                    /\ last'.bytes = IF last'.kind = "int" THEN Encode(last'.d.n) ELSE EncodeUInt(last'.d.n)
    BY DEF NumbersSurvive
  <2> QED BY <1>3, <1>4, <2>1 DEF Enc
<1> QED BY <1>6, <1>7, <1>8 DEF VarIntInv

\* The codec keeps every number of the stream, of any length.
THEOREM NumbersAreKept == VarIntSpec => []NumbersSurvive
<1>1. VarIntInit => VarIntInv
  BY DEF VarIntInit, VarIntInv, NumbersSurvive
<1>2. VarIntInv /\ [VarIntNext]_varIntVars => VarIntInv'
  <2> SUFFICES ASSUME VarIntInv, [VarIntNext]_varIntVars PROVE VarIntInv'
    OBVIOUS
  <2>1. CASE \E kind \in Kind : Load(kind)
    BY <2>1, LoadKeeps
  <2>2. CASE \E kind \in Kind : \E n \in Number : Put(kind, n)
    BY <2>2, PutKeeps
  <2>3. CASE Meet
    <3>1. due' = due /\ wire' \in Seq(Byte) /\ last' = NoLoad /\ wire = <<>>
      BY <2>3, VarIntAssumption DEF Meet
    <3>2. due \in Seq(Due) /\ wire \in Seq(Byte)
      BY DEF VarIntInv
    <3>3. due = <<>>
      <4> SUFFICES ASSUME due /= <<>> PROVE FALSE
        OBVIOUS
      <4> DEFINE e == Enc(due[1].kind, due[1].n)
      <4>1. PICK cut : Laid(wire, due, cut)
        BY DEF VarIntInv
      <4>2. HoldsAt(wire, 0, e)
        BY <3>2, <4>1, LaidTail
      <4>3. due[1] \in Due
        BY <3>2
      <4>4. Len(e) \in Nat /\ Len(e) >= 1
        BY <4>3, EncIs
      <4> HIDE DEF e
      <4>5. Len(wire) = 0
        BY <3>1
      <4> QED BY <4>2, <4>4, <4>5 DEF HoldsAt
    <3>4. NumbersSurvive'
      BY <3>1 DEF NumbersSurvive, NoLoad
    <3> QED BY <3>1, <3>2, <3>3, <3>4 DEF VarIntInv
  <2>4. CASE Looked
    BY <2>4 DEF Looked, VarIntInv, NumbersSurvive
  <2>5. CASE UNCHANGED varIntVars
    BY <2>5 DEF varIntVars, VarIntInv, NumbersSurvive, Laid, CutAt
  <2> QED BY <2>1, <2>2, <2>3, <2>4, <2>5 DEF VarIntNext, Kind
<1>3. VarIntInv => NumbersSurvive
  BY DEF VarIntInv
<1> QED BY <1>1, <1>2, <1>3, PTL DEF VarIntSpec

-----------------------------------------------------------------------------
(* BufWriter: the three invariants are inductive together; only the wrap   *)
(* needs an argument.                                                      *)

WriterInv == WriterTypeOK /\ WriterAssertions /\ WriterFifo

USE BufWriterAssumption

LEMMA WriterInitInv == WriterInit => WriterInv
BY DEF WriterInit, WriterInv, WriterTypeOK, WriterAssertions, WriterFifo

\* DoWrite moves the ring's first place on by r, across the wrap if it is
\* reached, so that the i-th byte left is the one that was (r + i)-th.
LEMMA DoWriteRing ==
  ASSUME WriterInv, NEW r \in 1..WBufSz, DoWrite(r)
  PROVE  /\ wstart' \in 0..(WBufSz - 1) /\ wlen' \in 0..(WBufSz - 1) /\ sent' \in Nat
         /\ wbuf' = wbuf
         /\ WriterFifo'
<1>1. /\ r \in 1..wlen /\ r <= WBufSz - wstart
      /\ wstart \in 0..(WBufSz - 1) /\ wlen \in 0..WBufSz /\ sent \in Nat
  BY DEF WriterInv, WriterTypeOK, WriterAssertions, DoWrite, SendLen, Least
<1>2. /\ wstart' \in 0..(WBufSz - 1) /\ wlen' = wlen - r /\ sent' = sent + r
      /\ wbuf' = wbuf
  BY <1>1 DEF DoWrite
<1>3. ASSUME NEW i \in 0..(wlen' - 1)
      PROVE  wbuf'[Slot(i)'] = sent' + i + 1
  <2>1. r + i \in 0..(wlen - 1)
    BY <1>1, <1>2
  <2>2. Slot(i)' = Slot(r + i)
    BY <1>1, <1>2, <2>1 DEF DoWrite, Slot
  <2>3. wbuf[Slot(r + i)] = sent + (r + i) + 1
    BY <2>1 DEF WriterInv, WriterFifo
  <2> QED BY <1>1, <1>2, <2>2, <2>3
<1>4. WriterFifo'
  BY <1>3 DEF WriterFifo
<1> QED BY <1>1, <1>2, <1>4

\* WriteAllCopy fills places that the ring does not use.
LEMMA CopyRing ==
  ASSUME WriterInv, WriteAllCopy
  PROVE  WriterInv'
<1> DEFINE n == Least(left, Room)
<1>1. /\ wstart \in 0..(WBufSz - 1) /\ wlen \in 0..(WBufSz - 1) /\ sent \in Nat
      /\ left \in Nat \ {0} /\ Room \in Nat \ {0}
      /\ wbuf \in [0..(WBufSz - 1) -> Nat]
  BY DEF WriterInv, WriterTypeOK, WriterAssertions, WriteAllCopy, Room, TailAt
<1>2. n \in 1..left /\ n <= Room
  BY <1>1 DEF Least
<1>3. /\ TailAt \in 0..(WBufSz - 1)
      /\ wlen + n <= WBufSz
      /\ TailAt + n <= WBufSz
  BY <1>1, <1>2 DEF TailAt, Room
<1>4. /\ wstart' = wstart /\ sent' = sent /\ wlen' = wlen + n /\ left' = left - n
      /\ wop' = IF left = n THEN "none" ELSE "writeall"
      /\ wbuf' = [k \in 0..(WBufSz - 1) |->
                    IF k \in TailAt..(TailAt + n - 1) THEN accepted + 1 + (k - TailAt)
                                                      ELSE wbuf[k]]
  BY DEF WriteAllCopy
<1>5. accepted + 1 \in Nat
  BY <1>1 DEF accepted
<1> HIDE DEF n
<1>6. wbuf' \in [0..(WBufSz - 1) -> Nat]
  <2>1. ASSUME NEW k \in 0..(WBufSz - 1)
        PROVE  (IF k \in TailAt..(TailAt + n - 1) THEN accepted + 1 + (k - TailAt)
                                                  ELSE wbuf[k]) \in Nat
    BY <1>1, <1>3, <1>5
  <2> QED BY <1>4, <2>1
<1>7. WriterTypeOK'
  BY <1>1, <1>2, <1>3, <1>4, <1>6 DEF WriterTypeOK
<1>8. WriterAssertions'
  BY <1>1, <1>2, <1>3, <1>4 DEF WriterAssertions, Room, TailAt
<1>9. ASSUME NEW i \in 0..(wlen' - 1)
      PROVE  wbuf'[Slot(i)'] = sent' + i + 1
  <2>1. i \in 0..(wlen + n - 1) /\ Slot(i)' = Slot(i)
    BY <1>1, <1>2, <1>3, <1>4 DEF Slot
  <2>2. Slot(i) \in 0..(WBufSz - 1)
    BY <1>1, <1>2, <1>3, <2>1 DEF Slot
  <2>3. CASE i < wlen
    <3>1. Slot(i) \notin TailAt..(TailAt + n - 1)
      BY <1>1, <1>2, <1>3, <2>1, <2>3 DEF Slot, TailAt, Room
    <3>2. wbuf[Slot(i)] = sent + i + 1
      BY <1>1, <2>1, <2>3 DEF WriterInv, WriterFifo
    <3> QED BY <1>4, <2>1, <2>2, <3>1, <3>2
  <2>4. CASE i >= wlen
    <3>1. Slot(i) = TailAt + (i - wlen)
      BY <1>1, <1>2, <1>3, <2>1, <2>4 DEF Slot, TailAt, Room
    <3>2. Slot(i) \in TailAt..(TailAt + n - 1)
      BY <1>1, <1>2, <1>3, <2>1, <2>4, <3>1
    <3>3. wbuf'[Slot(i)] = accepted + 1 + (Slot(i) - TailAt)
      BY <1>4, <2>2, <3>2
    <3> QED BY <1>1, <1>3, <1>4, <2>1, <3>1, <3>3 DEF accepted
  <2> QED BY <1>1, <2>1, <2>3, <2>4
<1> QED BY <1>7, <1>8, <1>9 DEF WriterInv, WriterFifo

LEMMA WriterStepInv == WriterInv /\ [WriterNext]_writerVars => WriterInv'
<1> SUFFICES ASSUME WriterInv, [WriterNext]_writerVars PROVE WriterInv'
  OBVIOUS
<1>0. /\ wstart \in 0..(WBufSz - 1) /\ wlen \in 0..WBufSz /\ sent \in Nat /\ left \in Nat
      /\ wbuf \in [0..(WBufSz - 1) -> Nat]
  BY DEF WriterInv, WriterTypeOK, WriterAssertions
<1>1. ASSUME UNCHANGED <<wstart, wlen, wbuf, sent>> PROVE WriterFifo'
  BY <1>1 DEF WriterInv, WriterFifo, Slot
<1>2. ASSUME NEW k \in 1..MaxBytes, WriteAllStart(k) PROVE WriterInv'
  BY <1>0, <1>1, <1>2
  DEF WriteAllStart, WriterInv, WriterTypeOK, WriterAssertions, Room, TailAt
<1>3. ASSUME NEW r \in 1..WBufSz, WriteAllDoWrite(r) PROVE WriterInv'
  <2>1. /\ wstart' \in 0..(WBufSz - 1) /\ wlen' \in 0..(WBufSz - 1) /\ sent' \in Nat
        /\ wbuf' = wbuf /\ WriterFifo'
    BY <1>3, DoWriteRing DEF WriteAllDoWrite
  <2>2. Room' > 0
    <3>1. PICK a \in 0..(WBufSz - 1), b \in 0..(WBufSz - 1) : wstart' = a /\ wlen' = b
      BY <2>1
    <3> QED BY <3>1 DEF Room, TailAt
  <2>3. wop = "writeall" /\ wop' = wop /\ left' = left /\ left > 0
    BY <1>3 DEF WriteAllDoWrite, WriterInv, WriterAssertions
  <2>4. WriterTypeOK'
    BY <1>0, <2>1, <2>3 DEF WriterTypeOK
  <2>5. WriterAssertions'
    BY <2>1, <2>2, <2>3 DEF WriterAssertions
  <2> QED BY <2>1, <2>4, <2>5 DEF WriterInv
<1>4. ASSUME NEW r \in 1..WBufSz, FlushDoWrite(r) PROVE WriterInv'
  <2>1. /\ wstart' \in 0..(WBufSz - 1) /\ wlen' \in 0..(WBufSz - 1) /\ sent' \in Nat
        /\ wbuf' = wbuf /\ WriterFifo'
    BY <1>4, DoWriteRing DEF FlushDoWrite
  <2>2. wop' \in {"none", "flush"} /\ left' = left /\ (wop' = "flush" => wlen' /= 0)
    BY <1>4 DEF FlushDoWrite
  <2>3. wlen' /= 0 => SendLen' > 0
    <3>1. PICK a \in 0..(WBufSz - 1), b \in 0..(WBufSz - 1) : wstart' = a /\ wlen' = b
      BY <2>1
    <3> QED BY <3>1 DEF SendLen, Least
  <2>4. WriterTypeOK'
    BY <1>0, <2>1, <2>2 DEF WriterTypeOK
  <2>5. WriterAssertions'
    BY <2>1, <2>2, <2>3 DEF WriterAssertions
  <2> QED BY <2>1, <2>4, <2>5 DEF WriterInv
<1>5. CASE WriteAllCopy
  BY <1>5, CopyRing
<1>6. CASE FlushStart \/ DoWriteFails \/ UNCHANGED writerVars
  BY <1>0, <1>1, <1>6
  DEF FlushStart, DoWriteFails, writerVars, WriterInv, WriterTypeOK, WriterAssertions,
      SendLen, Least, Room, TailAt
<1> QED BY <1>2, <1>3, <1>4, <1>5, <1>6 DEF WriterNext

(* The ring buffer's types and indices, for every size of the buffer.      *)
THEOREM WriterTypeCorrect == WriterSpec => []WriterTypeOK
<1>1. WriterInv => WriterTypeOK
  BY DEF WriterInv
<1> QED BY <1>1, WriterInitInv, WriterStepInv, PTL DEF WriterSpec

(* No assertion of DoWrite or WriteAll fails: do_write_ is never called    *)
(* with a size of 0, and nothing is copied outside of the free part.       *)
THEOREM WriterAssertionsHold == WriterSpec => []WriterAssertions
<1>1. WriterInv => WriterAssertions
  BY DEF WriterInv
<1> QED BY <1>1, WriterInitInv, WriterStepInv, PTL DEF WriterSpec

(* The bytes that do_write_ gets are those accepted by WriteAll, in order  *)
(* and each once, however often the ring wraps.                            *)
THEOREM WriterIsFifo == WriterSpec => []WriterFifo
<1>1. WriterInv => WriterFifo
  BY DEF WriterInv
<1> QED BY <1>1, WriterInitInv, WriterStepInv, PTL DEF WriterSpec

(* A Flush that goes on until it succeeds has sent all that was accepted.  *)
THEOREM FlushSendsAll == WriterSpec => FlushSends
<1>1. WriterInv /\ [WriterNext]_writerVars
        => [wop = "flush" /\ wop' = "none" /\ sent' /= sent => sent' = accepted]_writerVars
  <2> SUFFICES ASSUME WriterInv, WriterNext, wop = "flush", wop' = "none", sent' /= sent
               PROVE  sent' = accepted
    BY DEF writerVars
  <2>1. PICK r \in 1..WBufSz : FlushDoWrite(r)
    BY DEF WriterNext, WriteAllStart, WriteAllDoWrite, WriteAllCopy, FlushStart, DoWriteFails
  <2>2. wlen' = 0 /\ wlen' = wlen - r /\ sent' = sent + r
    BY <2>1 DEF FlushDoWrite, DoWrite
  <2> QED BY <2>2 DEF accepted, WriterInv, WriterTypeOK
<1> QED BY <1>1, WriterInitInv, WriterStepInv, PTL DEF WriterSpec, FlushSends

-----------------------------------------------------------------------------
(* BufReader.                                                              *)

(* What a call in progress has is part of what it asked for, and has not   *)
(* reached an end_ch.  The buffer never holds more than was given.         *)
InProgress ==
  /\ rlen <= taken
  /\ Len(call.got) <= given
  /\ call.state = "busy" =>
       /\ Len(call.got) < call.sz
       /\ call.op = "read" => Len(call.got) = 0

ReaderInv == ReaderTypeOK /\ ReaderFifo /\ ReadResults /\ InProgress

USE BufReaderAssumption

LEMMA Concat ==
  ASSUME NEW s \in Seq(Nat), NEW t \in Seq(Nat)
  PROVE  /\ s \o t \in Seq(Nat) /\ Len(s \o t) = Len(s) + Len(t)
         /\ \A k \in 1..Len(s) : (s \o t)[k] = s[k]
         /\ \A k \in 1..Len(t) : (s \o t)[Len(s) + k] = t[k]
OBVIOUS

-----------------------------------------------------------------------------
LEMMA ReaderInitInv == ReaderInit => ReaderInv
<1> SUFFICES ASSUME ReaderInit PROVE ReaderInv
  OBVIOUS
<1>1. /\ rlen = 0 /\ rstart = 0 /\ taken = 0 /\ given = 0
      /\ call.got = <<>> /\ Len(call.got) = 0 /\ call.sz = 1
      /\ call.state = "error" /\ call.op = "read"
  BY DEF ReaderInit, given
<1>2. ReaderTypeOK
  BY DEF ReaderInit, ReaderTypeOK, Call
<1>3. ReaderFifo /\ ReadResults /\ InProgress
  BY <1>1 DEF ReaderFifo, ReadResults, InProgress
<1> QED BY <1>2, <1>3 DEF ReaderInv

LEMMA ReadStartInv ==
  ASSUME ReaderInv, NEW op \in {"read", "full", "until"}, NEW size \in 1..MaxRead,
         ReadStart(op, size)
  PROVE  ReaderInv'
<1>1. /\ call' = [op |-> op, sz |-> size, got |-> <<>>, state |-> "busy"]
      /\ rstart' = rstart /\ rlen' = rlen /\ rbuf' = rbuf /\ taken' = taken
  BY DEF ReadStart
<1>2. call'.got = <<>> /\ Len(call'.got) = 0 /\ call'.state = "busy" /\ call'.sz = size /\ call'.op = op
  BY <1>1
<1>3. ReaderTypeOK'
  BY <1>1 DEF ReaderInv, ReaderTypeOK, Call
<1>4. ReaderFifo'
  BY <1>1, <1>2 DEF ReaderInv, ReaderFifo, given
<1>5. ReadResults' /\ InProgress'
  BY <1>1, <1>2 DEF ReaderInv, ReaderTypeOK, ReadResults, InProgress, given
<1> QED BY <1>3, <1>4, <1>5 DEF ReaderInv

LEMMA FillGetsInv ==
  ASSUME ReaderInv, NEW r \in 1..RBufSz, FillGets(r)
  PROVE  ReaderInv'
<1>1. /\ rlen = 0 /\ rstart' = 0 /\ rlen' = r /\ taken' = taken + r /\ call' = call
      /\ rbuf' = [k \in 0..(RBufSz - 1) |-> IF k < r THEN taken + k + 1 ELSE rbuf[k]]
  BY DEF FillGets, Fill
<1>2. taken \in Nat /\ rlen \in Nat /\ rbuf \in [0..(RBufSz - 1) -> Nat]
  BY DEF ReaderInv, ReaderTypeOK
<1>3. ReaderTypeOK'
  BY <1>1, <1>2 DEF ReaderInv, ReaderTypeOK
<1>4. given' = given
  BY <1>1, <1>2 DEF given
<1>5. ReaderFifo'
  <2>1. given = taken
    BY <1>1, <1>2 DEF given
  <2>2. ASSUME NEW k \in 1..r PROVE rbuf'[k - 1] = taken + k
    <3>1. k - 1 \in 0..(RBufSz - 1) /\ k - 1 < r /\ taken + (k - 1) + 1 = taken + k
      BY <1>2
    <3> QED BY <1>1, <3>1
  <2>3. ASSUME NEW k \in 1..r PROVE rbuf'[rstart' + k - 1] = given' + k
    <3>1. rstart' + k - 1 = k - 1
      BY <1>1
    <3> QED BY <1>4, <2>1, <2>2, <3>1
  <2>4. rstart' + rlen' <= RBufSz
    BY <1>1
  <2> QED BY <1>1, <1>4, <2>3, <2>4 DEF ReaderInv, ReaderFifo
<1>6. ReadResults' /\ InProgress'
  BY <1>1, <1>2, <1>4 DEF ReaderInv, ReadResults, InProgress
<1> QED BY <1>3, <1>5, <1>6 DEF ReaderInv

LEMMA FillEndsInv ==
  ASSUME ReaderInv, NEW how \in {"eof", "error"}, FillEnds(how)
  PROVE  ReaderInv'
<1>1. /\ rlen = 0 /\ rstart' = 0 /\ rlen' = rlen /\ taken' = taken /\ rbuf' = rbuf
      /\ call' = [call EXCEPT !.state = how] /\ call.state = "busy"
  BY DEF FillEnds, Fill, Busy
<1>2. /\ call'.got = call.got /\ call'.sz = call.sz /\ call'.op = call.op /\ call'.state = how
      /\ call' \in Call
  BY <1>1 DEF ReaderInv, ReaderTypeOK, Call
<1>3. ReaderTypeOK'
  BY <1>1, <1>2 DEF ReaderInv, ReaderTypeOK
<1>4. ReaderFifo'
  BY <1>1, <1>2 DEF ReaderInv, ReaderFifo, given
<1>5. ReadResults' /\ InProgress'
  BY <1>1, <1>2 DEF ReaderInv, ReadResults, InProgress, given
<1> QED BY <1>3, <1>4, <1>5 DEF ReaderInv

(* Copy takes something, no more than there is or is asked for, and no     *)
(* byte after an end_ch.                                                   *)
LEMMA CopyLenBounds ==
  ASSUME ReaderInv, Copy
  PROVE  /\ CopyLen \in 1..rlen
         /\ CopyLen <= call.sz - Len(call.got)
         /\ call.op = "until" =>
              \A k \in 1..(CopyLen - 1) : rbuf[rstart + k - 1] \notin EndBytes
<1> DEFINE want == call.sz - Len(call.got)
           n == IF rlen < want THEN rlen ELSE want
           Ends(k) == /\ rbuf[rstart + k - 1] \in EndBytes
                      /\ \A j \in 1..(k - 1) : rbuf[rstart + j - 1] \notin EndBytes
<1>1. /\ rlen \in Nat /\ rlen > 0 /\ want \in Nat /\ want > 0
      /\ n \in 1..rlen /\ n <= want
  BY DEF Copy, Busy, ReaderInv, ReaderTypeOK, InProgress, Call
<1>2. CopyLen = UpToEnd(n)
  BY DEF CopyLen
<1>5. n <= call.sz - Len(call.got)
  BY <1>1
<1> HIDE DEF n, want
<1>3. CASE call.op = "until" /\ \E k \in 1..n : rbuf[rstart + k - 1] \in EndBytes
  <2>1. \E k \in 1..n : Ends(k)
    <3> DEFINE T == {k \in 1..n : rbuf[rstart + k - 1] \in EndBytes}
    <3>1. n \in Nat /\ \E k \in 1..n : k \in T
      BY <1>1, <1>3
    <3>2. PICK k \in 1..n : k \in T /\ \A j \in 1..(k - 1) : j \notin T
      <4> HIDE DEF T
      <4> QED BY <3>1, FirstOf
    <3>3. \A j \in 1..(k - 1) : j \in 1..n
      BY <1>1
    <3> QED BY <3>2, <3>3
  <2>2. UpToEnd(n) = CHOOSE k \in 1..n : Ends(k)
    BY <1>3 DEF UpToEnd
  <2>3. UpToEnd(n) \in 1..n /\ Ends(UpToEnd(n))
    BY <2>1, <2>2
  <2>4. CopyLen \in 1..rlen /\ CopyLen <= call.sz - Len(call.got)
    <3>1. UpToEnd(n) \in 1..n
      BY <2>3
    <3> QED BY <1>1, <1>2, <1>5, <3>1 DEF want
  <2>5. \A k \in 1..(CopyLen - 1) : rbuf[rstart + k - 1] \notin EndBytes
    <3>1. CopyLen \in 1..n /\ Ends(CopyLen)
      BY <1>2, <2>3
    <3> QED BY <3>1
  <2> QED BY <2>4, <2>5
<1>4. CASE ~ (call.op = "until" /\ \E k \in 1..n : rbuf[rstart + k - 1] \in EndBytes)
  <2>1. UpToEnd(n) = n
    BY <1>4 DEF UpToEnd
  <2> QED BY <1>1, <1>2, <1>4, <1>5, <2>1
<1> QED BY <1>3, <1>4

LEMMA CopyInv ==
  ASSUME ReaderInv, Copy
  PROVE  ReaderInv'
<1> DEFINE n == Len(call.got)
           c == CopyLen
           got == call.got \o Copied
<1>1. /\ rlen \in Nat /\ rstart \in Nat /\ taken \in Nat /\ call \in Call
      /\ call.got \in Seq(Nat) /\ n \in Nat /\ call.sz \in 1..MaxRead
      /\ rbuf \in [0..(RBufSz - 1) -> Nat] /\ rstart + rlen <= RBufSz
      /\ given \in Nat /\ n <= given /\ call.state = "busy" /\ n < call.sz
      /\ rlen <= taken /\ given = taken - rlen
  BY DEF Copy, Busy, ReaderInv, ReaderTypeOK, ReaderFifo, InProgress, Call, given
<1>2. /\ c \in 1..rlen /\ c <= call.sz - n
      /\ call.op = "until" => \A k \in 1..(c - 1) : rbuf[rstart + k - 1] \notin EndBytes
  BY CopyLenBounds
<1>3. /\ call' = [call EXCEPT !.got = got, !.state = IF AtEnd(got) THEN "ok" ELSE "busy"]
      /\ rstart' = rstart + c /\ rlen' = rlen - c /\ rbuf' = rbuf /\ taken' = taken
  BY DEF Copy
<1>2a. /\ rlen \in Nat /\ rstart \in Nat /\ taken \in Nat /\ n \in Nat /\ given \in Nat
      /\ c \in 1..rlen /\ c <= call.sz - n /\ rstart + rlen <= RBufSz
      /\ n <= given /\ rlen <= taken /\ call.sz \in Nat /\ c \in Nat \ {0}
  BY <1>1, <1>2
<1> HIDE DEF c, n
<1>4. /\ Copied \in Seq(Nat) /\ Len(Copied) = c
      /\ \A k \in 1..c : Copied[k] = rbuf[rstart + k - 1] /\ Copied[k] = given + k
  <2>1. ASSUME NEW k \in 1..c
        PROVE  rbuf[rstart + k - 1] \in Nat /\ rbuf[rstart + k - 1] = given + k
    <3>1. k \in 1..rlen /\ given + k \in Nat
      BY <1>2a
    <3>2. rbuf[rstart + k - 1] = given + k
      BY <3>1 DEF ReaderInv, ReaderFifo
    <3> QED BY <3>1, <3>2
  <2>2. Copied = [k \in 1..c |-> rbuf[rstart + k - 1]]
    BY DEF Copied, c
  <2>3. c \in Nat
    BY <1>2a
  <2>4. Len(Copied) = c /\ \A k \in 1..c : Copied[k] = rbuf[rstart + k - 1]
    BY <2>2, <2>3
  <2>5. Copied \in Seq(Nat)
    <3>1. Copied \in [1..c -> Nat]
      BY <2>1, <2>2
    <3> QED BY <2>3, <3>1
  <2> QED BY <2>1, <2>4, <2>5
<1>5. /\ got \in Seq(Nat) /\ Len(got) = n + c
      /\ \A k \in 1..n : got[k] = call.got[k]
      /\ \A k \in 1..c : got[n + k] = Copied[k]
  <2>1. call.got \in Seq(Nat) /\ Len(call.got) = n /\ n \in Nat /\ c \in Nat
    BY <1>1, <1>2a DEF n
  <2>2. Copied \in Seq(Nat) /\ Len(Copied) = c
    BY <1>4
  <2> QED BY <2>1, <2>2, Concat
<1> HIDE DEF got
<1>6. /\ call'.got = got /\ call'.sz = call.sz /\ call'.op = call.op
      /\ call'.state = IF AtEnd(got) THEN "ok" ELSE "busy"
      /\ call' \in Call
  BY <1>1, <1>3, <1>5 DEF Call
<1>7. ReaderTypeOK'
  <2>1. rstart' \in Nat /\ rlen' \in Nat /\ taken' \in Nat
    BY <1>2a, <1>3
  <2>2. rbuf' \in [0..(RBufSz - 1) -> Nat]
    BY <1>1, <1>3
  <2> QED BY <1>6, <2>1, <2>2 DEF ReaderTypeOK
<1>8. given' = given + c
  BY <1>2a, <1>3 DEF given
<1>9. ASSUME NEW k \in 1..(n + c)
      PROVE  got[k] = given + c - (n + c) + k
  <2>1. CASE k \in 1..n
    <3>1. call.got[k] = given - n + k
      BY <2>1 DEF ReaderInv, ReaderFifo, n
    <3> QED BY <1>2a, <1>5, <2>1, <3>1
  <2>2. CASE k > n
    <3>1. k - n \in 1..c /\ n + (k - n) = k
      BY <1>2a, <2>2
    <3>2. got[k] = Copied[k - n]
      BY <1>5, <3>1
    <3> QED BY <1>2a, <1>4, <3>1, <3>2
  <2> QED BY <1>2a, <2>1, <2>2
<1>10. ASSUME NEW k \in 1..rlen'
       PROVE  rbuf'[rstart' + k - 1] = given' + k
  <2>1. c + k \in 1..rlen /\ rstart' + k - 1 = rstart + (c + k) - 1 /\ given' + k = given + (c + k)
    BY <1>2a, <1>3, <1>8
  <2> QED BY <1>3, <2>1 DEF ReaderInv, ReaderFifo
<1>11. ReaderFifo'
  <2>1. rstart' + rlen' <= RBufSz
    BY <1>2a, <1>3
  <2>2. \A k \in 1..Len(got) : got[k] = given' - Len(got) + k
    <3>1. Len(got) = n + c
      BY <1>5
    <3>2. \A k \in 1..(n + c) : got[k] = given' - (n + c) + k
      <4> SUFFICES ASSUME NEW k \in 1..(n + c) PROVE got[k] = given' - (n + c) + k
        OBVIOUS
      <4>1. got[k] = given + c - (n + c) + k
        BY <1>9
      <4> QED BY <1>2a, <1>8, <4>1
    <3> QED BY <3>1, <3>2, Zenon
  <2>3. \A k \in 1..Len(call'.got) : call'.got[k] = given' - Len(call'.got) + k
    BY <1>6, <2>2, Zenon
  <2> QED BY <1>10, <2>1, <2>3 DEF ReaderFifo
<1>12. ASSUME call.op = "until", NEW k \in 1..(n + c), got[k] \in EndBytes
       PROVE  k = n + c /\ AtEnd(got)
  <2>1. k \notin 1..n
    BY <1>1, <1>5, <1>12 DEF ReaderInv, ReadResults, n
  <2>2. k - n \in 1..c /\ got[k] = Copied[k - n]
    <3>1. k - n \in 1..c /\ n + (k - n) = k
      BY <1>2a, <2>1
    <3> QED BY <1>5, <3>1
  <2>3. k - n \notin 1..(c - 1)
    BY <1>2, <1>4, <1>12, <2>2
  <2>4. k = n + c
    BY <1>2a, <2>2, <2>3
  <2> QED BY <1>5, <1>12, <2>4 DEF AtEnd
<1>13. ReadResults'
  <2>1. Len(got) <= call.sz /\ Len(got) > 0
    BY <1>2a, <1>5
  <2>2. AtEnd(got) => /\ call.op = "full" => Len(got) = call.sz
                      /\ call.op = "until" => Len(got) = call.sz \/ got[Len(got)] \in EndBytes
    BY DEF AtEnd
  <2>3. call.op = "until" =>
          \A k \in 1..Len(got) : got[k] \in EndBytes => k = Len(got) /\ AtEnd(got)
    BY <1>5, <1>12
  <2> QED BY <1>6, <2>1, <2>2, <2>3 DEF ReadResults
<1>14. InProgress'
  <2>1. rlen' <= taken' /\ Len(got) <= given'
    BY <1>2a, <1>3, <1>5, <1>8, SMTT(40)
  <2>2. ~ AtEnd(got) => Len(got) < call.sz /\ call.op /= "read"
    <3>1. ~ AtEnd(got) => Len(got) /= call.sz /\ call.op /= "read"
      BY DEF AtEnd
    <3>2. Len(got) <= call.sz
      BY <1>2a, <1>5
    <3>3. Len(got) \in Int /\ call.sz \in Int
      BY <1>2a, <1>5
    <3> QED BY <3>1, <3>2, <3>3
  <2> QED BY <1>6, <2>1, <2>2 DEF InProgress
<1> QED BY <1>7, <1>11, <1>13, <1>14 DEF ReaderInv

LEMMA ReaderNextInv ==
  ASSUME ReaderInv, [ReaderNext]_readerVars
  PROVE  ReaderInv'
<1>1. CASE ReaderNext
  BY <1>1, ReadStartInv, FillGetsInv, FillEndsInv, CopyInv DEF ReaderNext
<1>2. CASE UNCHANGED readerVars
  <2>1. given' = given
    BY <1>2 DEF readerVars, given
  <2> QED BY <1>2, <2>1 DEF readerVars, ReaderInv, ReaderTypeOK, ReaderFifo, ReadResults, InProgress
<1> QED BY <1>1, <1>2

LEMMA ReaderInvHolds == ReaderSpec => []ReaderInv
BY ReaderInitInv, ReaderNextInv, PTL DEF ReaderSpec

(* The reader hands out the bytes of the stream in order, each once, over  *)
(* all its calls: the buffer is a queue.                                   *)
THEOREM ReaderIsFifo == ReaderSpec => []ReaderFifo
<1>1. ReaderInv => ReaderFifo
  BY DEF ReaderInv
<1> QED BY <1>1, ReaderInvHolds, PTL

(* A call ends with what the header promises: Read with something,         *)
(* ReadFull with all, ReadUntil with all or at the first end_ch.           *)
THEOREM ReadResultsHold == ReaderSpec => []ReadResults
<1>1. ReaderInv => ReadResults
  BY DEF ReaderInv
<1> QED BY <1>1, ReaderInvHolds, PTL

-----------------------------------------------------------------------------
(* Pipe.                                                                   *)

\* Nothing is read before it is sent; the end is found on an empty wire and
\* with an empty buffer, and stays the end.
WireInv ==
  /\ taken <= sent
  /\ call.state = "eof" => closed /\ taken = sent /\ rlen = 0

PipeInv == WriterInv /\ ReaderInv /\ WireInv /\ closed \in BOOLEAN

LEMMA PipeInitInv == PipeInit => PipeInv
<1> SUFFICES ASSUME PipeInit PROVE PipeInv
  OBVIOUS
<1>1. WriterInv /\ ReaderInv
  BY WriterInitInv, ReaderInitInv DEF PipeInit
<1>2. call.state = "error" /\ taken = 0 /\ sent = 0
  BY DEF PipeInit, WriterInit, ReaderInit
<1>3. WireInv
  BY <1>2 DEF WireInv
<1>4. closed \in BOOLEAN
  BY DEF PipeInit
<1> QED BY <1>1, <1>3, <1>4 DEF PipeInv

\* The writer only ever adds to what it has sent.
LEMMA WriterSends ==
  ASSUME WriterInv, WriterNext
  PROVE  sent' >= sent
<1>1. sent \in Nat
  BY DEF WriterInv, WriterTypeOK
<1> QED BY <1>1 DEF WriterNext, WriteAllStart, WriteAllDoWrite, FlushDoWrite, WriteAllCopy,
                    FlushStart, DoWriteFails, DoWrite

\* A call that is over at the end of the stream was so before, or ends now
\* with an empty buffer.
LEMMA ReaderEnds ==
  ASSUME ReaderInv, ReaderNext, call'.state = "eof"
  PROVE  rlen' = 0 /\ taken' = taken
<1>1. call \in Call
  BY DEF ReaderInv, ReaderTypeOK
<1>2. CASE \E op \in {"read", "full", "until"}, size \in 1..MaxRead : ReadStart(op, size)
  BY <1>2 DEF ReadStart
<1>3. CASE \E r \in 1..RBufSz : FillGets(r)
  BY <1>3 DEF FillGets, Fill, Busy
<1>4. CASE FillEnds("eof") \/ FillEnds("error")
  BY <1>4 DEF FillEnds, Fill
<1>5. CASE Copy
  <2> DEFINE how(got) == IF AtEnd(got) THEN "ok" ELSE "busy"
  <2>1. \E got : call' = [call EXCEPT !.got = got, !.state = how(got)]
    BY <1>5 DEF Copy
  <2>2. \A got : how(got) /= "eof"
    OBVIOUS
  <2> HIDE DEF how
  <2>3. call'.state /= "eof"
    BY <1>1, <2>1, <2>2 DEF Call
  <2> QED BY <2>3
<1> QED BY <1>2, <1>3, <1>4, <1>5 DEF ReaderNext

LEMMA PipeNextInv == PipeInv /\ [PipeNext]_pipeVars => PipeInv'
<1> SUFFICES ASSUME PipeInv, [PipeNext]_pipeVars PROVE PipeInv'
  OBVIOUS
<1> USE DEF PipeInv
<1>1. WriterInv'
  BY WriterStepInv DEF PipeNext, WriterSide, CloseWriter, ReaderSide, pipeVars, writerVars
<1>2. ReaderInv'
  BY ReaderNextInv DEF PipeNext, WriterSide, CloseWriter, ReaderSide, pipeVars, readerVars
<1>3. /\ taken \in Nat /\ sent \in Nat /\ taken' \in Nat /\ sent' \in Nat
  BY <1>1, <1>2 DEF WriterInv, WriterTypeOK, ReaderInv, ReaderTypeOK
<1>4. closed' \in BOOLEAN
  BY DEF PipeNext, WriterSide, CloseWriter, ReaderSide, pipeVars
<1>5. CASE WriterSide
  <2>1. UNCHANGED <<call, rlen, taken>> /\ ~ closed /\ WriterNext
    BY <1>5 DEF WriterSide, readerVars
  <2>2. taken' <= sent'
    BY <1>3, <2>1, WriterSends DEF WireInv
  <2>3. call'.state /= "eof"
    BY <2>1 DEF WireInv
  <2> QED BY <1>1, <1>2, <1>4, <2>2, <2>3 DEF WireInv
<1>6. CASE CloseWriter
  <2>1. UNCHANGED <<call, rlen, taken, sent>> /\ closed'
    BY <1>6 DEF CloseWriter, readerVars, writerVars
  <2> QED BY <1>1, <1>2, <1>4, <2>1 DEF WireInv
<1>7. CASE ReaderSide
  <2>1. taken' <= sent'
    BY <1>7 DEF ReaderSide, writerVars
  <2>2. ASSUME call'.state = "eof" PROVE closed' /\ taken' = sent' /\ rlen' = 0
    <3>1. rlen' = 0 /\ taken' = taken
      BY <1>7, <2>2, ReaderEnds DEF ReaderSide
    <3>2. closed /\ taken = sent
      BY <1>7, <2>2 DEF ReaderSide, WireInv
    <3> QED BY <1>7, <3>1, <3>2 DEF ReaderSide, writerVars
  <2> QED BY <1>1, <1>2, <1>4, <2>1, <2>2 DEF WireInv
<1>8. CASE UNCHANGED pipeVars
  BY <1>1, <1>2, <1>4, <1>8 DEF pipeVars, readerVars, writerVars, WireInv
<1> QED BY <1>5, <1>6, <1>7, <1>8 DEF PipeNext

(* The inductive invariant of the Pipe. *)
THEOREM PipeInvariant == PipeSpec => []PipeInv
BY PipeInitInv, PipeNextInv, PTL DEF PipeSpec

(* Each end of the Pipe is used as its module allows, so that everything   *)
(* shown of a writer and of a reader holds of the two together.            *)
THEOREM PipeRefinesEnds == PipeSpec => WriterSpec /\ ReaderSpec
<1>1. PipeInit => WriterInit /\ ReaderInit
  BY DEF PipeInit
<1>2. [PipeNext]_pipeVars => [WriterNext]_writerVars
  BY DEF PipeNext, WriterSide, CloseWriter, ReaderSide, pipeVars
<1>3. [PipeNext]_pipeVars => [ReaderNext]_readerVars
  BY DEF PipeNext, WriterSide, CloseWriter, ReaderSide, pipeVars
<1> QED BY <1>1, <1>2, <1>3, PTL DEF PipeSpec, WriterSpec, ReaderSpec

(* Types.                                                                  *)
THEOREM PipeTypeCorrect == PipeSpec => []PipeTypeOK
<1>1. PipeInv => PipeTypeOK
  BY DEF PipeInv, WireInv, WriterInv, ReaderInv, PipeTypeOK
<1> QED BY <1>1, PipeInvariant, PTL

(* A reader that finds the end of the stream has been given, in order, all *)
(* that the writer sent, whatever do_write_ and do_read_ take each time.   *)
THEOREM PipeDeliversAll == PipeSpec => []PipeDelivers
<1>1. PipeInv => PipeDelivers
  BY DEF PipeInv, WireInv, WriterInv, WriterTypeOK, ReaderInv, ReaderTypeOK, PipeDelivers, given
<1> QED BY <1>1, PipeInvariant, PTL

=============================================================================
