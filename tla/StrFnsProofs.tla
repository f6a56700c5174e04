---------------------------- MODULE StrFnsProofs ----------------------------
(***************************************************************************)
(* The functions of StrFns.tla, for texts of any bytes and length and      *)
(* integers of any width.                                                  *)
(*                                                                         *)
(* A slice is described by what it is a part of (IsPart), a list of slices *)
(* by the places it covers (IsRuns, IsSplit), a number by the digits that  *)
(* add up to it (AddsUp).  A recursive function exists by induction over a *)
(* rank (RecursiveExists); what it gives is shown by the same induction.   *)
(***************************************************************************)
EXTENDS StrFns, DataLemmas

-----------------------------------------------------------------------------
(* A recursive function exists when what step makes of it at a place       *)
(* depends only on places of a lower rank.                                 *)

\* f is as step has it at the places of a rank below n.
FollowsBelow(f, n, D, S, rank, step) ==
  f \in [D -> S] /\ \A d \in D : rank[d] < n => f[d] = step[<<d, f>>]

\* step makes an element of S at every place, of elements at lower places.
IsRecursive(D, S, rank, step) ==
  /\ S /= {} /\ rank \in [D -> Nat] /\ step \in [D \X [D -> S] -> S]
  /\ \A d \in D : \A f, g \in [D -> S] :
       (\A e \in D : rank[e] < rank[d] => f[e] = g[e]) => step[<<d, f>>] = step[<<d, g>>]

IsMade(D, S, step) == \E f \in [D -> S] : \A d \in D : f[d] = step[<<d, f>>]

LEMMA RecursiveExists ==
  ASSUME NEW D, NEW S, NEW rank, NEW step, IsRecursive(D, S, rank, step)
  PROVE  IsMade(D, S, step)
<1>0. /\ S /= {} /\ rank \in [D -> Nat] /\ step \in [D \X [D -> S] -> S]
      /\ \A d \in D : \A f, g \in [D -> S] :
           (\A e \in D : rank[e] < rank[d] => f[e] = g[e]) => step[<<d, f>>] = step[<<d, g>>]
  BY DEF IsRecursive
<1> DEFINE F(f, n) == FollowsBelow(f, n, D, S, rank, step)
<1>1. \A f \in [D -> S], d \in D : step[<<d, f>>] \in S
  BY <1>0
<1>2. ASSUME NEW f, NEW g, NEW n \in Nat, NEW d \in D, rank[d] < n + 1, F(f, n + 1), F(g, n + 1),
             \A e \in D : rank[e] < n => f[e] = g[e]
      PROVE  f[d] = g[d]
  <2>1. f \in [D -> S] /\ g \in [D -> S] /\ f[d] = step[<<d, f>>] /\ g[d] = step[<<d, g>>]
    BY <1>2 DEF FollowsBelow
  <2>2. \A e \in D : rank[e] < rank[d] => f[e] = g[e]
    BY <1>0, <1>2
  <2> QED BY <1>0, <2>1, <2>2
<1>3. \A n \in Nat : \A f, g : F(f, n) /\ F(g, n) => \A d \in D : rank[d] < n => f[d] = g[d]
  <2> DEFINE N == {n \in Nat : \A f, g : F(f, n) /\ F(g, n) => \A d \in D : rank[d] < n => f[d] = g[d]}
  <2>1. 0 \in N
    <3>1. \A d \in D : ~(rank[d] < 0)
      BY <1>0
    <3> QED BY <3>1
  <2>2. ASSUME NEW n \in Nat, n \in N PROVE n + 1 \in N
    <3>1. SUFFICES ASSUME NEW f, NEW g, F(f, n + 1), F(g, n + 1), NEW d \in D, rank[d] < n + 1
                   PROVE  f[d] = g[d]
      OBVIOUS
    <3>2. F(f, n) /\ F(g, n)
      BY <1>0, <3>1 DEF FollowsBelow
    <3>3. \A e \in D : rank[e] < n => f[e] = g[e]
      BY <2>2, <3>2
    <3> QED BY <1>2, <3>1, <3>3
  <2> HIDE DEF N
  <2>3. Nat \subseteq N
    BY <2>1, <2>2, InductionNat
  <2> QED BY <2>3 DEF N
<1>4. \A n \in Nat : \E f : F(f, n)
  <2> DEFINE N == {n \in Nat : \E f : F(f, n)}
  <2>1. 0 \in N
    <3>1. PICK s \in S : TRUE
      BY <1>0
    <3>2. [e \in D |-> s] \in [D -> S] /\ \A d \in D : ~(rank[d] < 0)
      BY <1>0
    <3> QED BY <3>2 DEF FollowsBelow
  <2>2. ASSUME NEW n \in Nat, n \in N PROVE n + 1 \in N
    <3>1. PICK f : F(f, n)
      BY <2>2
    <3> DEFINE g == [d \in D |-> step[<<d, f>>]]
    <3>2. f \in [D -> S] /\ g \in [D -> S]
      BY <1>1, <3>1 DEF FollowsBelow
    <3>3. \A d \in D : rank[d] < n => f[d] = g[d]
      BY <3>1 DEF FollowsBelow
    <3>4. ASSUME NEW d \in D, rank[d] < n + 1 PROVE g[d] = step[<<d, g>>]
      <4> HIDE DEF g
      <4>1. \A e \in D : rank[e] < rank[d] => f[e] = g[e]
        BY <1>0, <3>3, <3>4
      <4>2. step[<<d, f>>] = step[<<d, g>>]
        BY <1>0, <3>2, <4>1
      <4> QED BY <4>2 DEF g
    <3>5. F(g, n + 1)
      <4> HIDE DEF g
      <4> QED BY <3>2, <3>4 DEF FollowsBelow
    <3> QED BY <3>5
  <2> HIDE DEF N
  <2>3. Nat \subseteq N
    BY <2>1, <2>2, InductionNat
  <2> QED BY <2>3 DEF N
<1> DEFINE G == [n \in Nat |-> CHOOSE f : F(f, n)]
           h == [d \in D |-> G[rank[d] + 1][d]]
<1>5. \A n \in Nat : F(G[n], n)
  BY <1>4
<1> HIDE DEF G, F
<1>6. h \in [D -> S]
  BY <1>0, <1>5 DEF F, FollowsBelow
<1>7. ASSUME NEW d \in D PROVE h[d] = step[<<d, h>>]
  <2> DEFINE f == G[rank[d] + 1]
  <2>1. rank[d] + 1 \in Nat /\ rank[d] < rank[d] + 1
    BY <1>0
  <2>2. F(f, rank[d] + 1)
    BY <1>5, <2>1
  <2>3. f \in [D -> S] /\ f[d] = step[<<d, f>>]
    BY <2>1, <2>2 DEF F, FollowsBelow
  <2>4. ASSUME NEW e \in D, rank[e] < rank[d] PROVE f[e] = h[e]
    <3>1. rank[e] + 1 \in Nat /\ rank[e] < rank[e] + 1 /\ rank[e] + 1 <= rank[d] + 1
      BY <1>0, <2>4
    <3>2. F(G[rank[e] + 1], rank[e] + 1)
      BY <1>5, <3>1
    <3>3. F(f, rank[e] + 1)
      <4> HIDE DEF f
      <4> QED BY <1>0, <2>1, <2>2, <3>1 DEF F, FollowsBelow
    <3>4. f[e] = G[rank[e] + 1][e]
      <4> HIDE DEF f
      <4> QED BY <1>3, <3>1, <3>2, <3>3
    <3> QED BY <3>4
  <2>5. step[<<d, f>>] = step[<<d, h>>]
    <3> HIDE DEF f, h
    <3> QED BY <1>0, <1>6, <2>3, <2>4
  <2> QED BY <2>3, <2>5
<1> QED BY <1>6, <1>7 DEF IsMade

-----------------------------------------------------------------------------
(* Slices.                                                                 *)

SliceSet == [mem : Seq(Char), at : Nat, len : Nat, z : BOOLEAN]

\* A slice as the functions are given: a byte goes on behind it, which is 0
\* if it says so.
OKSlice(v) ==
  /\ v \in SliceSet
  /\ v.at + v.len < Len(v.mem)
  /\ v.z => ByteAt(v, v.len) = 0

\* w is the part of v of that length from there.
IsPart(w, v, start, len) ==
  /\ OKSlice(w)
  /\ w.mem = v.mem /\ w.at = v.at + start /\ w.len = len
  /\ \A i \in 0..len : ByteAt(w, i) = ByteAt(v, start + i)

LEMMA ByteIs ==
  ASSUME NEW v, OKSlice(v)
  PROVE  /\ v.len \in Nat /\ v.at \in Nat /\ v.mem \in Seq(Char)
         /\ \A i \in 0..v.len : ByteAt(v, i) \in Char
<1>1. v.len \in Nat /\ v.at \in Nat /\ v.mem \in Seq(Char) /\ v.at + v.len < Len(v.mem)
  BY DEF OKSlice, SliceSet
<1>2. ASSUME NEW i \in 0..v.len PROVE ByteAt(v, i) \in Char
  <2>1. v.at + i + 1 \in 1..Len(v.mem)
    BY <1>1
  <2> QED BY <1>1, <2>1, ElementOfSeq DEF ByteAt
<1> QED BY <1>1, <1>2

LEMMA TextIs ==
  ASSUME NEW v, OKSlice(v)
  PROVE  /\ TextOf(v) \in Seq(Char) /\ Len(TextOf(v)) = v.len
         /\ \A i \in 1..v.len : TextOf(v)[i] = ByteAt(v, i - 1)
<1>1. v.len \in Nat /\ v.at \in Nat /\ v.mem \in Seq(Char) /\ v.at + v.len < Len(v.mem)
  BY DEF OKSlice, SliceSet
<1>2. \A i \in (v.at + 1)..(v.at + v.len) : v.mem[i] \in Char
  BY <1>1, ElementOfSeq
<1>3. TextOf(v) \in Seq(Char) /\ Len(TextOf(v)) = v.len /\ \A i \in 1..v.len : TextOf(v)[i] = v.mem[v.at + i]
  <2> DEFINE m == v.at + 1
             n == v.at + v.len
  <2>1. m \in Int /\ n \in Int /\ n - m + 1 = v.len /\ (~ m <= n => v.len = 0)
    BY <1>1
  <2>2. \A i \in m..n : v.mem[i] \in Char
    BY <1>2
  <2>3. TextOf(v) = SubSeq(v.mem, m, n)
    BY DEF TextOf
  <2>4. \A i \in 1..(n - m + 1) : TextOf(v)[i] = v.mem[m + i - 1]
    <3> HIDE DEF m, n
    <3> QED BY <2>1, <2>2, <2>3, SubSeqProperties
  <2>5. TextOf(v) \in Seq(Char) /\ Len(TextOf(v)) = v.len
    <3> HIDE DEF m, n
    <3> QED BY <2>1, <2>2, <2>3, SubSeqProperties
  <2>6. ASSUME NEW i \in 1..v.len PROVE TextOf(v)[i] = v.mem[v.at + i]
    <3>1. m + i - 1 = v.at + i
      BY <1>1
    <3> HIDE DEF m, n
    <3>2. TextOf(v)[i] = v.mem[m + i - 1]
      BY <2>1, <2>4
    <3> QED BY <3>1, <3>2
  <2> QED BY <2>5, <2>6
<1>4. \A i \in 1..v.len : v.at + i = v.at + (i - 1) + 1
  BY <1>1
<1> QED BY <1>3, <1>4 DEF ByteAt

\* Slice(start, len) and what is known of the byte behind it.
LEMMA CutIs ==
  ASSUME NEW v, OKSlice(v), NEW start \in Nat, NEW len \in Nat, start + len <= v.len
  PROVE  IsPart(Cut(v, start, len), v, start, len)
<1> DEFINE w == Cut(v, start, len)
<1>1. v \in SliceSet /\ v.len \in Nat /\ v.at \in Nat /\ v.mem \in Seq(Char) /\ v.at + v.len < Len(v.mem)
  BY DEF OKSlice, SliceSet
<1>2. w.mem = v.mem /\ w.at = v.at + start /\ w.len = len /\ w \in SliceSet
      /\ w.z = IF v.len - start = len THEN v.z ELSE ByteAt(v, start + len) = 0
  <2> DEFINE z == IF v.len - start = len THEN v.z ELSE ByteAt(v, start + len) = 0
  <2>1. z \in BOOLEAN
    BY <1>1 DEF SliceSet
  <2>2. w = [v EXCEPT !.at = v.at + start, !.len = len, !.z = z]
    BY DEF Cut
  <2> HIDE DEF z, w
  <2>3. v.z \in BOOLEAN /\ v = [mem |-> v.mem, at |-> v.at, len |-> v.len, z |-> v.z]
    BY <1>1 DEF SliceSet
  <2>4. w = [mem |-> v.mem, at |-> v.at + start, len |-> len, z |-> z]
    BY <2>2, <2>3
  <2>5. w.mem = v.mem /\ w.at = v.at + start /\ w.len = len /\ w.z = z
    BY <2>4
  <2>6. w \in SliceSet
    BY <1>1, <2>1, <2>4 DEF SliceSet
  <2> QED BY <2>5, <2>6 DEF z
<1> HIDE DEF w
<1>3. ASSUME NEW i \in 0..len PROVE ByteAt(w, i) = ByteAt(v, start + i)
  <2>1. w.at + i + 1 = v.at + (start + i) + 1
    BY <1>1, <1>2
  <2> QED BY <1>2, <2>1 DEF ByteAt
<1>4. w.z => ByteAt(w, len) = 0
  <2>1. CASE v.len - start = len
    <3>1. start + len = v.len
      BY <1>1, <2>1
    <3> QED BY <1>2, <1>3, <2>1, <3>1 DEF OKSlice
  <2>2. CASE v.len - start /= len
    <3>1. w.z => ByteAt(v, start + len) = 0
      BY <1>2, <2>2
    <3> QED BY <1>3, <3>1
  <2> QED BY <2>1, <2>2
<1>5. w.at + w.len < Len(w.mem)
  BY <1>1, <1>2
<1> QED BY <1>2, <1>3, <1>4, <1>5 DEF IsPart, OKSlice, w

LEMMA CutFromIs ==
  ASSUME NEW v, OKSlice(v), NEW start \in 0..v.len
  PROVE  IsPart(CutFrom(v, start), v, start, v.len - start)
<1> DEFINE w == CutFrom(v, start)
           len == v.len - start
<1>1. v \in SliceSet /\ v.len \in Nat /\ v.at \in Nat /\ v.mem \in Seq(Char) /\ v.at + v.len < Len(v.mem)
  BY DEF OKSlice, SliceSet
<1>2. w.mem = v.mem /\ w.at = v.at + start /\ w.len = len /\ w \in SliceSet /\ w.z = v.z
  <2>1. len \in Nat
    BY <1>1
  <2> HIDE DEF len
  <2>2. w = [v EXCEPT !.at = v.at + start, !.len = len]
    BY DEF CutFrom, len
  <2> HIDE DEF w
  <2>3. v.z \in BOOLEAN /\ v = [mem |-> v.mem, at |-> v.at, len |-> v.len, z |-> v.z]
    BY <1>1 DEF SliceSet
  <2>4. w = [mem |-> v.mem, at |-> v.at + start, len |-> len, z |-> v.z]
    BY <2>2, <2>3
  <2>5. w.mem = v.mem /\ w.at = v.at + start /\ w.len = len /\ w.z = v.z
    BY <2>4
  <2>6. w \in SliceSet
    BY <1>1, <2>1, <2>3, <2>4 DEF SliceSet
  <2> QED BY <2>5, <2>6
<1>3. len \in Nat /\ start \in Nat /\ start + len = v.len
  BY <1>1
<1> HIDE DEF w, len
<1>4. ASSUME NEW i \in 0..len PROVE ByteAt(w, i) = ByteAt(v, start + i)
  <2>1. w.at + i + 1 = v.at + (start + i) + 1
    BY <1>1, <1>2
  <2> QED BY <1>2, <2>1 DEF ByteAt
<1>5. w.z => ByteAt(w, len) = 0
  BY <1>2, <1>3, <1>4 DEF OKSlice
<1>6. w.at + w.len < Len(w.mem)
  BY <1>1, <1>2, <1>3
<1>7. IsPart(w, v, start, len)
  BY <1>2, <1>4, <1>5, <1>6 DEF IsPart, OKSlice
<1> QED BY <1>7 DEF w, len

LEMMA SliceOfIs ==
  ASSUME NEW text \in Seq(Char)
  PROVE  /\ OKSlice(SliceOf(text)) /\ SliceOf(text).len = Len(text)
         /\ TextOf(SliceOf(text)) = text
         /\ \A i \in 0..(Len(text) - 1) : ByteAt(SliceOf(text), i) = text[i + 1]
<1> DEFINE v == SliceOf(text)
<1>1. 0 \in Char
  BY DEF Char
<1>2. Append(text, 0) \in Seq(Char) /\ Len(Append(text, 0)) = Len(text) + 1
      /\ (\A i \in 1..Len(text) : Append(text, 0)[i] = text[i]) /\ Append(text, 0)[Len(text) + 1] = 0
  BY <1>1, AppendProperties
<1>3. v \in SliceSet /\ v.mem = Append(text, 0) /\ v.at = 0 /\ v.len = Len(text) /\ v.z = TRUE
  BY <1>2 DEF SliceOf, SliceSet
<1>4. Len(text) \in Nat
  OBVIOUS
<1> HIDE DEF v
<1>5. \A i \in 0..Len(text) : ByteAt(v, i) = Append(text, 0)[i + 1]
  BY <1>3, <1>4 DEF ByteAt
<1>6. \A i \in 0..(Len(text) - 1) : ByteAt(v, i) = text[i + 1]
  BY <1>2, <1>4, <1>5
<1>7. OKSlice(v)
  BY <1>2, <1>3, <1>4, <1>5 DEF OKSlice
<1>8. TextOf(v) = text
  <2>1. TextOf(v) \in Seq(Char) /\ Len(TextOf(v)) = Len(text)
        /\ \A i \in 1..Len(text) : TextOf(v)[i] = ByteAt(v, i - 1)
    BY <1>3, <1>7, TextIs
  <2>2. \A i \in 1..Len(text) : TextOf(v)[i] = text[i]
    BY <1>4, <1>6, <2>1
  <2> QED BY <2>1, <2>2, SeqEqual
<1> QED BY <1>3, <1>6, <1>7, <1>8 DEF v

LEMMA UnknownIs ==
  ASSUME NEW v, OKSlice(v)
  PROVE  IsPart(Unknown(v), v, 0, v.len)
<1> DEFINE w == Unknown(v)
<1>1. v \in SliceSet /\ v.len \in Nat /\ v.at \in Nat /\ v.mem \in Seq(Char) /\ v.at + v.len < Len(v.mem)
  BY DEF OKSlice, SliceSet
<1>2. w.mem = v.mem /\ w.at = v.at /\ w.len = v.len /\ w \in SliceSet /\ w.z = FALSE
  BY <1>1 DEF Unknown, SliceSet
<1> HIDE DEF w
<1>3. \A i \in 0..v.len : ByteAt(w, i) = ByteAt(v, 0 + i)
  BY <1>2 DEF ByteAt
<1>4. OKSlice(w) /\ w.at = v.at + 0
  BY <1>1, <1>2 DEF OKSlice
<1>5. IsPart(w, v, 0, v.len)
  BY <1>2, <1>3, <1>4 DEF IsPart
<1> QED BY <1>5 DEF w

\* The text of a part is that of the whole from there on.
LEMMA PartText ==
  ASSUME NEW v, OKSlice(v), NEW start \in Nat, NEW len \in Nat, start + len <= v.len,
         NEW w, IsPart(w, v, start, len)
  PROVE  TextOf(w) = SubSeq(TextOf(v), start + 1, start + len)
<1> DEFINE t == TextOf(v)
           s == SubSeq(t, start + 1, start + len)
<1>1. v.len \in Nat /\ t \in Seq(Char) /\ Len(t) = v.len /\ \A i \in 1..v.len : t[i] = ByteAt(v, i - 1)
  BY ByteIs, TextIs
<1>2. TextOf(w) \in Seq(Char) /\ Len(TextOf(w)) = len /\ \A i \in 1..len : TextOf(w)[i] = ByteAt(w, i - 1)
  BY TextIs DEF IsPart
<1> HIDE DEF t
<1>3. \A i \in (start + 1)..(start + len) : t[i] \in Char
  BY <1>1, ElementOfSeq
<1>4. s \in Seq(Char) /\ Len(s) = len /\ \A i \in 1..len : s[i] = t[start + i]
  <2>1. /\ s \in Seq(Char)
        /\ Len(s) = IF start + 1 <= start + len THEN start + len - (start + 1) + 1 ELSE 0
        /\ \A i \in 1..(start + len - (start + 1) + 1) : s[i] = t[start + 1 + i - 1]
    BY <1>3, SubSeqProperties
  <2>2. \A i \in 1..len : i \in 1..(start + len - (start + 1) + 1) /\ start + 1 + i - 1 = start + i
    OBVIOUS
  <2> HIDE DEF s
  <2> QED BY <2>1, <2>2
<1>5. ASSUME NEW i \in 1..len PROVE TextOf(w)[i] = s[i]
  <2>1. i - 1 \in 0..len /\ start + i \in 1..v.len /\ start + i - 1 = start + (i - 1)
    BY <1>1
  <2>2. ByteAt(w, i - 1) = ByteAt(v, start + (i - 1))
    BY <2>1 DEF IsPart
  <2>3. TextOf(w)[i] = ByteAt(w, i - 1)
    BY <1>2
  <2>4. s[i] = t[start + i]
    BY <1>4
  <2>5. t[start + i] = ByteAt(v, start + i - 1)
    BY <1>1, <2>1
  <2> HIDE DEF s
  <2> QED BY <2>1, <2>2, <2>3, <2>4, <2>5
<1>6. TextOf(w) = s
  <2> HIDE DEF s
  <2> QED BY <1>2, <1>4, <1>5, SeqEqual
<1> QED BY <1>6 DEF t, s

-----------------------------------------------------------------------------
(* Searches.                                                               *)

LEMMA MaxIs ==
  ASSUME NEW S \in SUBSET Int, S /= {}, NEW n \in Int, \A x \in S : x <= n
  PROVE  Max(S) \in S /\ \A x \in S : x <= Max(S)
<1> DEFINE T == {n - x : x \in S}
<1>1. T \in SUBSET Nat /\ T /= {}
  <2>1. \A x \in S : n - x \in Nat
    OBVIOUS
  <2> QED BY <2>1
<1>2. PICK t \in T : \A u \in T : t <= u
  <2> HIDE DEF T
  <2> QED BY <1>1, LeastNat
<1>3. PICK x \in S : t = n - x
  BY <1>2
<1>4. \A y \in S : n - y \in T
  OBVIOUS
<1> HIDE DEF T
<1>5. \A y \in S : x >= y
  BY <1>2, <1>3, <1>4
<1>6. Max(S) \in S /\ \A y \in S : Max(S) >= y
  BY <1>5 DEF Max
<1> QED BY <1>6

\* s is in v from that place on.
Occurs(v, i, s) == \A k \in 1..Len(s) : ByteAt(v, i + k - 1) = s[k]

LEMMA OccursIs ==
  ASSUME NEW v, OKSlice(v), NEW s \in Seq(Char), NEW i \in 0..(v.len - Len(s)),
         NEW w, IsPart(w, v, i, Len(s))
  PROVE  TextOf(w) = s <=> Occurs(v, i, s)
<1>1. v.len \in Nat /\ Len(s) \in Nat
  BY ByteIs
<1>2. TextOf(w) \in Seq(Char) /\ Len(TextOf(w)) = Len(s) /\ \A k \in 1..Len(s) : TextOf(w)[k] = ByteAt(w, k - 1)
  BY TextIs DEF IsPart
<1>3. \A k \in 1..Len(s) : ByteAt(w, k - 1) = ByteAt(v, i + k - 1)
  <2>1. \A k \in 1..Len(s) : k - 1 \in 0..Len(s) /\ i + (k - 1) = i + k - 1
    BY <1>1
  <2> QED BY <2>1 DEF IsPart
<1>4. ASSUME Occurs(v, i, s) PROVE TextOf(w) = s
  <2>1. \A k \in 1..Len(s) : TextOf(w)[k] = s[k]
    BY <1>2, <1>3, <1>4 DEF Occurs
  <2> QED BY <1>2, <2>1, SeqEqual
<1>5. ASSUME TextOf(w) = s PROVE Occurs(v, i, s)
  BY <1>2, <1>3, <1>5 DEF Occurs
<1> QED BY <1>4, <1>5

\* Where Index and RIndex look.
LEMMA FoundIs ==
  ASSUME NEW v, OKSlice(v), NEW s \in Seq(Char)
  PROVE  {i \in 0..(v.len - Len(s)) : TextOf(Cut(v, i, Len(s))) = s}
           = {i \in 0..(v.len - Len(s)) : Occurs(v, i, s)}
<1>1. v.len \in Nat /\ Len(s) \in Nat
  BY ByteIs
<1>2. ASSUME NEW i \in 0..(v.len - Len(s))
      PROVE  TextOf(Cut(v, i, Len(s))) = s <=> Occurs(v, i, s)
  <2>1. i \in Nat /\ i + Len(s) <= v.len
    BY <1>1
  <2> QED BY <1>1, <2>1, CutIs, OccursIs
<1> QED BY <1>2

\* The answer of Index.
IsIndex(r, v, s) ==
  \/ r = -1 /\ \A i \in 0..(v.len - Len(s)) : ~Occurs(v, i, s)
  \/ r \in 0..(v.len - Len(s)) /\ Occurs(v, r, s) /\ \A i \in 0..(r - 1) : ~Occurs(v, i, s)

\* Index is the first place of s, and RIndex the last.
LEMMA IndexIs ==
  ASSUME NEW v, OKSlice(v), NEW s \in Seq(Char)
  PROVE  IsIndex(Index(v, s), v, s) /\ Index(v, s) \in Int
<1> DEFINE F == {i \in 0..(v.len - Len(s)) : Occurs(v, i, s)}
<1>1. Index(v, s) = IF F = {} THEN -1 ELSE Min(F)
  BY FoundIs DEF Index
<1>2. v.len \in Nat /\ Len(s) \in Nat
  BY ByteIs
<1>3. CASE F = {}
  BY <1>1, <1>3 DEF IsIndex
<1>4. CASE F /= {}
  <2>1. F \in SUBSET Nat
    OBVIOUS
  <2>2. Min(F) \in F /\ \A x \in F : Min(F) <= x
    <3> HIDE DEF F
    <3> QED BY <1>4, <2>1, MinIs
  <2> DEFINE r == Min(F)
  <2>3. r \in 0..(v.len - Len(s)) /\ Occurs(v, r, s)
    BY <2>2
  <2>4. ASSUME NEW i \in 0..(r - 1), Occurs(v, i, s) PROVE FALSE
    <3>1. i \in 0..(v.len - Len(s)) /\ i < r
      <4> HIDE DEF r
      <4> QED BY <1>2, <2>3
    <3>2. i \in F
      BY <2>4, <3>1
    <3>3. r <= i
      BY <2>2, <3>2
    <3> HIDE DEF r, F
    <3> QED BY <2>3, <3>1, <3>3
  <2> HIDE DEF r
  <2>5. Index(v, s) = r
    BY <1>1, <1>4 DEF r
  <2> QED BY <1>2, <2>3, <2>4, <2>5 DEF IsIndex
<1> QED BY <1>3, <1>4

IsRIndex(r, v, s) ==
  \/ r = -1 /\ \A i \in 0..(v.len - Len(s)) : ~Occurs(v, i, s)
  \/ r \in 0..(v.len - Len(s)) /\ Occurs(v, r, s) /\ \A i \in (r + 1)..(v.len - Len(s)) : ~Occurs(v, i, s)

LEMMA RIndexIs ==
  ASSUME NEW v, OKSlice(v), NEW s \in Seq(Char)
  PROVE  IsRIndex(RIndex(v, s), v, s) /\ RIndex(v, s) \in Int
<1> DEFINE F == {i \in 0..(v.len - Len(s)) : Occurs(v, i, s)}
<1>1. RIndex(v, s) = IF F = {} THEN -1 ELSE Max(F)
  BY FoundIs DEF RIndex
<1>2. v.len \in Nat /\ Len(s) \in Nat
  BY ByteIs
<1>3. CASE F = {}
  BY <1>1, <1>3 DEF IsRIndex
<1>4. CASE F /= {}
  <2>1. F \in SUBSET Int /\ v.len - Len(s) \in Int /\ \A x \in F : x <= v.len - Len(s)
    BY <1>2
  <2>2. Max(F) \in F /\ \A x \in F : x <= Max(F)
    <3> HIDE DEF F
    <3> QED BY <1>4, <2>1, MaxIs
  <2> DEFINE r == Max(F)
  <2>3. r \in 0..(v.len - Len(s)) /\ Occurs(v, r, s)
    BY <2>2
  <2>4. ASSUME NEW i \in (r + 1)..(v.len - Len(s)), Occurs(v, i, s) PROVE FALSE
    <3>1. i \in 0..(v.len - Len(s)) /\ i > r
      <4> HIDE DEF r
      <4> QED BY <1>2, <2>3
    <3>2. i \in F
      BY <2>4, <3>1
    <3>3. i <= r
      BY <2>2, <3>2
    <3> HIDE DEF r, F
    <3> QED BY <2>3, <3>1, <3>3
  <2> HIDE DEF r
  <2>5. RIndex(v, s) = r
    BY <1>1, <1>4 DEF r
  <2> QED BY <1>2, <2>3, <2>4, <2>5 DEF IsRIndex
<1> QED BY <1>3, <1>4

LEMMA ReverseIs ==
  ASSUME NEW s \in Seq(Char)
  PROVE  /\ Reverse(s) \in Seq(Char) /\ Len(Reverse(s)) = Len(s)
         /\ \A i \in 1..Len(s) : Reverse(s)[i] = s[Len(s) - i + 1]
<1> DEFINE t == [i \in 1..Len(s) |-> s[(Len(s) - i) + 1]]
<1>1. Len(s) \in Nat
  OBVIOUS
<1>2. ASSUME NEW i \in 1..Len(s) PROVE s[(Len(s) - i) + 1] \in Char
  <2>1. (Len(s) - i) + 1 \in 1..Len(s)
    BY <1>1
  <2> QED BY <2>1, ElementOfSeq
<1>3. t \in Seq(Char) /\ Len(t) = Len(s) /\ \A i \in 1..Len(s) : t[i] = s[(Len(s) - i) + 1]
  BY <1>1, <1>2
<1> QED BY <1>3 DEF Reverse

\* An occurrence in the reverse, counted from the end.
LEMMA OccursBack ==
  ASSUME NEW v, OKSlice(v), NEW s \in Seq(Char), NEW i \in 0..(v.len - Len(s)),
         NEW w, OKSlice(w), w = SliceOf(Reverse(TextOf(v)))
  PROVE  Occurs(v, i, s) <=> Occurs(w, v.len - Len(s) - i, Reverse(s))
<1> DEFINE t == TextOf(v)
           r == Reverse(s)
           n == v.len
           m == Len(s)
           j == n - m - i
<1>1. n \in Nat /\ t \in Seq(Char) /\ Len(t) = n /\ \A k \in 1..n : t[k] = ByteAt(v, k - 1)
  BY ByteIs, TextIs
<1>2. m \in Nat /\ r \in Seq(Char) /\ Len(r) = m /\ \A k \in 1..m : r[k] = s[m - k + 1]
  BY ReverseIs
<1>3. Reverse(t) \in Seq(Char) /\ Len(Reverse(t)) = n /\ \A k \in 1..n : Reverse(t)[k] = t[n - k + 1]
  BY <1>1, ReverseIs
<1> HIDE DEF t, r, n, m
<1>4. w = SliceOf(Reverse(t))
  BY DEF t
<1>5. \A k \in 0..(n - 1) : ByteAt(w, k) = Reverse(t)[k + 1]
  BY <1>3, <1>4, SliceOfIs
<1>6. i \in 0..(n - m)
  BY DEF n, m
<1>7. ASSUME NEW k \in 1..m PROVE ByteAt(w, j + k - 1) = ByteAt(v, i + (m - k + 1) - 1) /\ m - k + 1 \in 1..m
  <2>1. j + k - 1 \in 0..(n - 1) /\ j + k \in 1..n /\ n - (j + k) + 1 = i + (m - k + 1) /\ i + (m - k + 1) \in 1..n
        /\ j + k - 1 + 1 = j + k
    BY <1>1, <1>2, <1>6
  <2> HIDE DEF j
  <2>2. ByteAt(w, j + k - 1) = Reverse(t)[j + k]
    BY <1>5, <2>1
  <2>3. Reverse(t)[j + k] = t[i + (m - k + 1)]
    BY <1>3, <2>1
  <2>4. t[i + (m - k + 1)] = ByteAt(v, i + (m - k + 1) - 1)
    <3> DEFINE q == i + (m - k + 1)
    <3>1. q \in 1..n /\ q = i + (m - k + 1)
      BY <2>1
    <3> HIDE DEF q
    <3>2. t[q] = ByteAt(v, q - 1)
      BY <1>1, <3>1
    <3> QED BY <1>2, <1>6, <3>1, <3>2
  <2>5. m - k + 1 \in 1..m
    BY <1>2
  <2> QED BY <2>2, <2>3, <2>4, <2>5
<1> HIDE DEF j
<1>8. ASSUME Occurs(v, i, s), NEW k \in 1..m PROVE ByteAt(w, j + k - 1) = r[k]
  BY <1>2, <1>7, <1>8 DEF Occurs, m
<1>9. ASSUME \A k \in 1..m : ByteAt(w, j + k - 1) = r[k], NEW k \in 1..m PROVE ByteAt(v, i + k - 1) = s[k]
  <2> DEFINE q == m - k + 1
  <2>1. q \in 1..m /\ m - q + 1 = k
    BY <1>2
  <2> HIDE DEF q
  <2>2. r[q] = s[k] /\ ByteAt(w, j + q - 1) = r[q]
    BY <1>2, <1>9, <2>1
  <2>3. ByteAt(w, j + q - 1) = ByteAt(v, i + k - 1)
    BY <1>7, <2>1
  <2> QED BY <2>2, <2>3
<1>10. Occurs(w, j, r) <=> \A k \in 1..m : ByteAt(w, j + k - 1) = r[k]
  BY <1>2 DEF Occurs
<1>11. Occurs(v, i, s) <=> \A k \in 1..m : ByteAt(v, i + k - 1) = s[k]
  BY DEF Occurs, m
<1>12. Occurs(v, i, s) <=> Occurs(w, j, r)
  BY <1>8, <1>9, <1>10, <1>11
<1> QED BY <1>12 DEF j, r, n, m

LEMMA RIndexIsIndex ==
  ASSUME NEW v, OKSlice(v), NEW s \in Seq(Char), NEW back,
         back = Index(SliceOf(Reverse(TextOf(v))), Reverse(s))
  PROVE  RIndex(v, s) = IF back = -1 THEN -1 ELSE v.len - Len(s) - back
<1> DEFINE w == SliceOf(Reverse(TextOf(v)))
           r == Reverse(s)
           n == v.len - Len(s)
           q == RIndex(v, s)
<1>1. v.len \in Nat /\ Len(s) \in Nat /\ n \in Int
  BY ByteIs
<1>2. OKSlice(w) /\ w.len = v.len
  BY TextIs, ReverseIs, SliceOfIs
<1>3. r \in Seq(Char) /\ Len(r) = Len(s)
  BY ReverseIs
<1> HIDE DEF w, r, n
<1>4. \A i \in 0..n : Occurs(v, i, s) <=> Occurs(w, n - i, r)
  <2>1. \A i \in 0..(v.len - Len(s)) : Occurs(v, i, s) <=> Occurs(w, v.len - Len(s) - i, r)
    BY <1>2, OccursBack DEF w, r
  <2> QED BY <2>1 DEF n
<1>5. IsIndex(back, w, r) /\ back \in Int
  BY <1>2, <1>3, IndexIs DEF w, r
<1>6. IsRIndex(q, v, s) /\ q \in Int
  BY RIndexIs
<1> HIDE DEF q
<1>7. n = w.len - Len(r) /\ n = v.len - Len(s)
  BY <1>2, <1>3 DEF n
<1>8. CASE back = -1
  <2>1. \A i \in 0..n : ~Occurs(w, i, r)
    BY <1>5, <1>7, <1>8 DEF IsIndex
  <2>2. \A i \in 0..n : n - i \in 0..n
    BY <1>1
  <2>3. \A i \in 0..n : ~Occurs(v, i, s)
    BY <1>4, <2>1, <2>2
  <2>4. q = -1
    BY <1>6, <1>7, <2>3 DEF IsRIndex
  <2> QED BY <1>8, <2>4 DEF q
<1>9. CASE back /= -1
  <2>1. back \in 0..n /\ Occurs(w, back, r) /\ \A i \in 0..(back - 1) : ~Occurs(w, i, r)
    BY <1>5, <1>7, <1>9 DEF IsIndex
  <2>2. n - back \in 0..n /\ n - (n - back) = back
    BY <1>1, <2>1
  <2>3. Occurs(v, n - back, s)
    BY <1>4, <2>1, <2>2
  <2>4. q \in 0..n /\ Occurs(v, q, s) /\ \A i \in (q + 1)..n : ~Occurs(v, i, s)
    BY <1>6, <1>7, <2>2, <2>3 DEF IsRIndex
  <2>5. ~(n - back > q)
    BY <1>1, <2>1, <2>2, <2>3, <2>4
  <2>6. Occurs(w, n - q, r)
    BY <1>4, <2>4
  <2>7. ~(n - q < back)
    <3>1. n - q < back => n - q \in 0..(back - 1)
      BY <1>1, <2>1, <2>4
    <3> QED BY <2>1, <2>6, <3>1
  <2>8. q = n - back
    BY <1>1, <2>1, <2>4, <2>5, <2>7
  <2> QED BY <1>7, <1>9, <2>8 DEF q
<1> QED BY <1>8, <1>9

LEMMA PrefixIs ==
  ASSUME NEW v, OKSlice(v), NEW s \in Seq(Char)
  PROVE  HasPrefix(v, s) <=> Index(v, s) = 0
<1>1. v.len \in Nat /\ Len(s) \in Nat
  BY ByteIs
<1>2. IsIndex(Index(v, s), v, s) /\ Index(v, s) \in Int
  BY IndexIs
<1>3. CASE v.len >= Len(s)
  <2>1. 0 \in 0..(v.len - Len(s)) /\ 0 + Len(s) <= v.len /\ 0 \in Nat
    BY <1>1, <1>3
  <2>2. TextOf(Cut(v, 0, Len(s))) = s <=> Occurs(v, 0, s)
    BY <1>1, <2>1, CutIs, OccursIs
  <2>3. HasPrefix(v, s) <=> Occurs(v, 0, s)
    BY <1>3, <2>2 DEF HasPrefix
  <2>4. ASSUME Occurs(v, 0, s) PROVE Index(v, s) = 0
    BY <1>1, <1>2, <2>1, <2>4 DEF IsIndex
  <2>5. ASSUME Index(v, s) = 0 PROVE Occurs(v, 0, s)
    BY <1>2, <2>5 DEF IsIndex
  <2> QED BY <2>3, <2>4, <2>5
<1>4. CASE ~(v.len >= Len(s))
  <2>1. Index(v, s) /= 0
    BY <1>1, <1>2, <1>4 DEF IsIndex
  <2> QED BY <1>4, <2>1 DEF HasPrefix
<1> QED BY <1>3, <1>4

LEMMA SuffixIs ==
  ASSUME NEW v, OKSlice(v), NEW s \in Seq(Char)
  PROVE  HasSuffix(v, s) <=> v.len >= Len(s) /\ RIndex(v, s) = v.len - Len(s)
<1> DEFINE n == v.len - Len(s)
<1>1. v.len \in Nat /\ Len(s) \in Nat
  BY ByteIs
<1>2. IsRIndex(RIndex(v, s), v, s) /\ RIndex(v, s) \in Int
  BY RIndexIs
<1>3. CASE v.len >= Len(s)
  <2>1. n \in 0..(v.len - Len(s)) /\ n \in 0..v.len /\ v.len - n = Len(s)
    BY <1>1, <1>3
  <2> HIDE DEF n
  <2>2. IsPart(CutFrom(v, n), v, n, Len(s))
    BY <2>1, CutFromIs
  <2>3. TextOf(CutFrom(v, n)) = s <=> Occurs(v, n, s)
    BY <2>1, <2>2, OccursIs
  <2>4. HasSuffix(v, s) <=> Occurs(v, n, s)
    BY <1>3, <2>3 DEF HasSuffix, n
  <2>5. ASSUME Occurs(v, n, s) PROVE RIndex(v, s) = n
    <3>1. RIndex(v, s) /= -1
      BY <1>2, <2>1, <2>5 DEF IsRIndex
    <3>2. RIndex(v, s) \in 0..(v.len - Len(s)) /\ \A i \in (RIndex(v, s) + 1)..(v.len - Len(s)) : ~Occurs(v, i, s)
      BY <1>2, <3>1 DEF IsRIndex
    <3>3. RIndex(v, s) < n => n \in (RIndex(v, s) + 1)..(v.len - Len(s))
      BY <1>1, <1>2, <2>1
    <3>4. n = v.len - Len(s)
      BY DEF n
    <3> QED BY <1>1, <1>2, <2>1, <2>5, <3>2, <3>3, <3>4
  <2>6. ASSUME RIndex(v, s) = n PROVE Occurs(v, n, s)
    <3>1. RIndex(v, s) /= -1
      BY <1>1, <2>1, <2>6
    <3> QED BY <1>2, <2>6, <3>1 DEF IsRIndex
  <2> QED BY <1>3, <2>4, <2>5, <2>6 DEF n
<1>4. CASE ~(v.len >= Len(s))
  BY <1>4 DEF HasSuffix
<1> QED BY <1>3, <1>4

\* The places both slices have, up to the first at which they differ.
LEMMA CmpIs ==
  ASSUME NEW v, OKSlice(v), NEW w, OKSlice(w)
  PROVE  /\ Cmp(v, w) = -Cmp(w, v)
         /\ Cmp(v, w) = 0 <=> TextOf(v) = TextOf(w)
<1> DEFINE m == Min({v.len, w.len})
           D == {i \in 0..(m - 1) : ByteAt(v, i) /= ByteAt(w, i)}
           a == IF D = {} THEN v.len ELSE ByteAt(v, Min(D))
           b == IF D = {} THEN w.len ELSE ByteAt(w, Min(D))
<1>1. v.len \in Nat /\ w.len \in Nat
  BY ByteIs
<1>2. m \in {v.len, w.len} /\ m <= v.len /\ m <= w.len
  <2>1. {v.len, w.len} \in SUBSET Nat /\ {v.len, w.len} /= {}
    BY <1>1
  <2> QED BY <2>1, MinIs
<1>3. Cmp(v, w) = IF a > b THEN 1 ELSE IF a < b THEN -1 ELSE 0
  BY DEF Cmp
<1>4. Cmp(w, v) = IF b > a THEN 1 ELSE IF b < a THEN -1 ELSE 0
  <2>1. {w.len, v.len} = {v.len, w.len}
    OBVIOUS
  <2>2. {i \in 0..(Min({w.len, v.len}) - 1) : ByteAt(w, i) /= ByteAt(v, i)} = D
    BY <2>1
  <2> HIDE DEF D
  <2> QED BY <2>2 DEF Cmp
<1>5. D /= {} => Min(D) \in D
  <2>1. D \in SUBSET Nat
    BY <1>1, <1>2
  <2> HIDE DEF D
  <2> QED BY <2>1, MinIs
<1>6. TextOf(v) \in Seq(Char) /\ Len(TextOf(v)) = v.len /\ \A i \in 1..v.len : TextOf(v)[i] = ByteAt(v, i - 1)
  BY TextIs
<1>7. TextOf(w) \in Seq(Char) /\ Len(TextOf(w)) = w.len /\ \A i \in 1..w.len : TextOf(w)[i] = ByteAt(w, i - 1)
  BY TextIs
<1> HIDE DEF m
<1>8. CASE D = {}
  <2>1. a = v.len /\ b = w.len
    BY <1>8
  <2>2. \A i \in 0..(m - 1) : ByteAt(v, i) = ByteAt(w, i)
    BY <1>8
  <2> HIDE DEF a, b, D
  <2>3. ASSUME v.len = w.len PROVE TextOf(v) = TextOf(w)
    <3>1. \A i \in 1..v.len : i - 1 \in 0..(m - 1)
      BY <1>1, <1>2, <2>3
    <3>2. \A i \in 1..v.len : TextOf(v)[i] = TextOf(w)[i]
      BY <1>6, <1>7, <2>2, <2>3, <3>1
    <3> QED BY <1>6, <1>7, <2>3, <3>2, SeqEqual
  <2>4. Cmp(v, w) = 0 <=> v.len = w.len
    BY <1>1, <1>3, <2>1
  <2>5. TextOf(v) = TextOf(w) => v.len = w.len
    BY <1>6, <1>7
  <2>6. Cmp(v, w) = -Cmp(w, v)
    BY <1>1, <1>3, <1>4, <2>1
  <2> QED BY <2>3, <2>4, <2>5, <2>6
<1>9. CASE D /= {}
  <2> DEFINE i == Min(D)
  <2>1. i \in 0..(m - 1) /\ ByteAt(v, i) /= ByteAt(w, i)
    BY <1>5, <1>9
  <2>2. a = ByteAt(v, i) /\ b = ByteAt(w, i)
    BY <1>9
  <2> HIDE DEF a, b, D, i
  <2>3. i \in 0..v.len /\ i \in 0..w.len /\ i + 1 \in 1..v.len /\ i + 1 \in 1..w.len /\ i + 1 - 1 = i
    BY <1>1, <1>2, <2>1
  <2>4. a \in Int /\ b \in Int /\ a /= b
    <3>1. a \in Char /\ b \in Char
      BY <2>2, <2>3, ByteIs
    <3> QED BY <2>1, <2>2, <3>1 DEF Char
  <2>5. TextOf(v)[i + 1] = ByteAt(v, i + 1 - 1) /\ TextOf(w)[i + 1] = ByteAt(w, i + 1 - 1)
    BY <1>6, <1>7, <2>3
  <2>6. TextOf(v) /= TextOf(w)
    BY <2>1, <2>3, <2>5
  <2> QED BY <1>3, <1>4, <2>4, <2>6
<1> QED BY <1>8, <1>9

\* The searches from both ends, the prefix, the suffix and the order agree.
LEMMA SearchesAgreeHolds ==
  ASSUME NEW v, OKSlice(v), NEW s \in Seq(Char)
  PROVE  SearchesAgree(v, s)
<1>1. OKSlice(SliceOf(s)) /\ TextOf(SliceOf(s)) = s
  BY SliceOfIs
<1>2. Cmp(v, SliceOf(s)) = -Cmp(SliceOf(s), v) /\ (Cmp(v, SliceOf(s)) = 0 <=> TextOf(v) = s)
  BY <1>1, CmpIs
<1> DEFINE back == Index(SliceOf(Reverse(TextOf(v))), Reverse(s))
<1>3. RIndex(v, s) = IF back = -1 THEN -1 ELSE v.len - Len(s) - back
  BY RIndexIsIndex
<1> QED BY <1>2, <1>3, PrefixIs, SuffixIs DEF SearchesAgree

-----------------------------------------------------------------------------
(* Case and hexadecimal digits.                                            *)

LEMMA CaseOf ==
  ASSUME NEW c \in Char
  PROVE  /\ ToUpper(c) \in Char /\ ToLower(c) \in Char
         /\ ToUpper(ToLower(c)) = ToUpper(c) /\ ToLower(ToUpper(c)) = ToLower(c)
BY DEF Char, ToUpper, ToLower

LEMMA CasesAre ==
  ASSUME NEW v, OKSlice(v)
  PROVE  /\ Upper(v) \in Seq(Char) /\ Len(Upper(v)) = v.len
         /\ \A i \in 1..v.len : Upper(v)[i] = ToUpper(ByteAt(v, i - 1))
         /\ Lower(v) \in Seq(Char) /\ Len(Lower(v)) = v.len
         /\ \A i \in 1..v.len : Lower(v)[i] = ToLower(ByteAt(v, i - 1))
<1>1. v.len \in Nat /\ \A i \in 0..v.len : ByteAt(v, i) \in Char
  BY ByteIs
<1>2. \A i \in 1..v.len : ToUpper(ByteAt(v, i - 1)) \in Char /\ ToLower(ByteAt(v, i - 1)) \in Char
  <2>1. \A i \in 1..v.len : i - 1 \in 0..v.len
    BY <1>1
  <2> QED BY <1>1, <2>1, CaseOf
<1>3. Upper(v) \in Seq(Char) /\ Len(Upper(v)) = v.len /\ \A i \in 1..v.len : Upper(v)[i] = ToUpper(ByteAt(v, i - 1))
  BY <1>1, <1>2 DEF Upper
<1>4. Lower(v) \in Seq(Char) /\ Len(Lower(v)) = v.len /\ \A i \in 1..v.len : Lower(v)[i] = ToLower(ByteAt(v, i - 1))
  BY <1>1, <1>2 DEF Lower
<1> QED BY <1>3, <1>4

\* Texts that differ in case only are those with the same capitals.
LEMMA CaseAgreesHolds ==
  ASSUME NEW v, OKSlice(v), NEW w, OKSlice(w)
  PROVE  CaseAgrees(v, w)
<1>1. v.len \in Nat /\ w.len \in Nat /\ \A i \in 0..v.len : ByteAt(v, i) \in Char
  BY ByteIs
<1>2. /\ Upper(v) \in Seq(Char) /\ Len(Upper(v)) = v.len
      /\ \A i \in 1..v.len : Upper(v)[i] = ToUpper(ByteAt(v, i - 1))
  BY CasesAre
<1>3. /\ Lower(v) \in Seq(Char) /\ Len(Lower(v)) = v.len
      /\ \A i \in 1..v.len : Lower(v)[i] = ToLower(ByteAt(v, i - 1))
  BY CasesAre
<1>4. /\ Upper(w) \in Seq(Char) /\ Len(Upper(w)) = w.len
      /\ \A i \in 1..w.len : Upper(w)[i] = ToUpper(ByteAt(w, i - 1))
  BY CasesAre
<1>5. ASSUME CaseEq(v, w) PROVE Upper(v) = Upper(w)
  <2>1. v.len = w.len /\ \A i \in 0..(v.len - 1) : ToUpper(ByteAt(v, i)) = ToUpper(ByteAt(w, i))
    BY <1>5 DEF CaseEq
  <2>2. \A i \in 1..v.len : i - 1 \in 0..(v.len - 1)
    BY <1>1
  <2>3. \A i \in 1..v.len : Upper(v)[i] = Upper(w)[i]
    BY <1>2, <1>4, <2>1, <2>2
  <2> QED BY <1>2, <1>4, <2>1, <2>3, SeqEqual
<1>6. ASSUME Upper(v) = Upper(w) PROVE CaseEq(v, w)
  <2>1. v.len = w.len
    BY <1>2, <1>4, <1>6
  <2>2. ASSUME NEW i \in 0..(v.len - 1) PROVE ToUpper(ByteAt(v, i)) = ToUpper(ByteAt(w, i))
    <3>1. i + 1 \in 1..v.len /\ i + 1 \in 1..w.len /\ i + 1 - 1 = i
      BY <1>1, <2>1
    <3>2. Upper(v)[i + 1] = ToUpper(ByteAt(v, i + 1 - 1)) /\ Upper(w)[i + 1] = ToUpper(ByteAt(w, i + 1 - 1))
      BY <1>2, <1>4, <3>1
    <3> QED BY <1>6, <3>1, <3>2
  <2> QED BY <2>1, <2>2 DEF CaseEq
<1>7. Upper(SliceOf(Lower(v))) = Upper(v)
  <2> DEFINE t == Lower(v)
             u == SliceOf(t)
  <2>1. OKSlice(u) /\ u.len = v.len /\ \A i \in 0..(v.len - 1) : ByteAt(u, i) = t[i + 1]
    BY <1>3, SliceOfIs
  <2> HIDE DEF t, u
  <2>2. Upper(u) \in Seq(Char) /\ Len(Upper(u)) = v.len /\ \A i \in 1..v.len : Upper(u)[i] = ToUpper(ByteAt(u, i - 1))
    BY <2>1, CasesAre
  <2>3. ASSUME NEW i \in 1..v.len PROVE Upper(u)[i] = Upper(v)[i]
    <3>1. i - 1 \in 0..(v.len - 1) /\ i - 1 + 1 = i /\ i - 1 \in 0..v.len
      BY <1>1
    <3>2. ByteAt(u, i - 1) = t[i] /\ t[i] = ToLower(ByteAt(v, i - 1))
      BY <1>3, <2>1, <3>1 DEF t
    <3>3. ToUpper(ToLower(ByteAt(v, i - 1))) = ToUpper(ByteAt(v, i - 1))
      BY <1>1, <3>1, CaseOf
    <3> QED BY <1>2, <2>2, <3>2, <3>3
  <2>4. Upper(u) = Upper(v)
    BY <1>2, <2>2, <2>3, SeqEqual
  <2> QED BY <2>4 DEF t, u
<1>8. Lower(SliceOf(Upper(v))) = Lower(v)
  <2> DEFINE t == Upper(v)
             u == SliceOf(t)
  <2>1. OKSlice(u) /\ u.len = v.len /\ \A i \in 0..(v.len - 1) : ByteAt(u, i) = t[i + 1]
    BY <1>2, SliceOfIs
  <2> HIDE DEF t, u
  <2>2. Lower(u) \in Seq(Char) /\ Len(Lower(u)) = v.len /\ \A i \in 1..v.len : Lower(u)[i] = ToLower(ByteAt(u, i - 1))
    BY <2>1, CasesAre
  <2>3. ASSUME NEW i \in 1..v.len PROVE Lower(u)[i] = Lower(v)[i]
    <3>1. i - 1 \in 0..(v.len - 1) /\ i - 1 + 1 = i /\ i - 1 \in 0..v.len
      BY <1>1
    <3>2. ByteAt(u, i - 1) = t[i] /\ t[i] = ToUpper(ByteAt(v, i - 1))
      BY <1>2, <2>1, <3>1 DEF t
    <3>3. ToLower(ToUpper(ByteAt(v, i - 1))) = ToLower(ByteAt(v, i - 1))
      BY <1>1, <3>1, CaseOf
    <3> QED BY <1>3, <2>2, <3>2, <3>3
  <2>4. Lower(u) = Lower(v)
    BY <1>3, <2>2, <2>3, SeqEqual
  <2> QED BY <2>4 DEF t, u
<1> QED BY <1>5, <1>6, <1>7, <1>8 DEF CaseAgrees

LEMMA HexDigitIs ==
  ASSUME NEW n \in 0..15, NEW u \in BOOLEAN
  PROVE  HexDigit(n, u) \in Char /\ CToI(HexDigit(n, u)) = n
<1>1. CASE n < 10
  BY <1>1 DEF HexDigit, CToI, Digit, Char
<1>2. CASE ~(n < 10)
  BY <1>2 DEF HexDigit, CToI, Digit, Char
<1> QED BY <1>1, <1>2

LEMMA CToIIs ==
  ASSUME NEW c
  PROVE  CToI(c) \in -1..15
<1>1. CASE c \in Digit
  BY <1>1 DEF CToI, Digit
<1>2. CASE c \notin Digit /\ c \in 65..70
  BY <1>2 DEF CToI
<1>3. CASE c \notin Digit /\ c \notin 65..70 /\ c \in 97..102
  BY <1>3 DEF CToI
<1>4. CASE c \notin Digit /\ c \notin 65..70 /\ c \notin 97..102
  BY <1>4 DEF CToI
<1> QED BY <1>1, <1>2, <1>3, <1>4

LEMMA HexDigitOf ==
  ASSUME NEW c \in Char, CToI(c) >= 0
  PROVE  ToUpper(HexDigit(CToI(c), TRUE)) = ToUpper(c)
BY DEF Char, CToI, Digit, HexDigit, ToUpper

LEMMA Nibbles ==
  ASSUME NEW c \in Char
  PROVE  c \div 16 \in 0..15 /\ c % 16 \in 0..15 /\ (c \div 16) * 16 + (c % 16) = c
<1>1. c \in Int /\ 0 <= c /\ c <= 255
  BY DEF Char
<1>2. c \div 16 \in Int /\ c % 16 \in 0..15
  BY <1>1
<1>3. c = 16 * (c \div 16) + (c % 16)
  BY <1>1
<1> QED BY <1>1, <1>2, <1>3

\* The places of the two digits of a byte.
LEMMA TwoPlaces ==
  ASSUME NEW n \in Nat, NEW i \in 1..n
  PROVE  /\ 2 * i - 1 \in 1..(2 * n) /\ (2 * i - 1 - 1) \div 2 = i - 1 /\ (2 * i - 1) % 2 = 1
         /\ 2 * i \in 1..(2 * n) /\ (2 * i - 1) \div 2 = i - 1 /\ (2 * i) % 2 = 0
OBVIOUS

LEMMA WhichPlace ==
  ASSUME NEW n \in Nat, NEW i \in 1..(2 * n)
  PROVE  \E j \in 1..n : i = 2 * j - 1 \/ i = 2 * j
<1>1. CASE i % 2 = 1
  <2> DEFINE j == (i + 1) \div 2
  <2>1. j \in 1..n /\ i = 2 * j - 1
    BY <1>1
  <2> QED BY <2>1
<1>2. CASE i % 2 = 0
  <2> DEFINE j == i \div 2
  <2>1. j \in 1..n /\ i = 2 * j
    BY <1>2
  <2> QED BY <2>1
<1>3. i % 2 \in {0, 1}
  OBVIOUS
<1> QED BY <1>1, <1>2, <1>3

LEMMA HexIs ==
  ASSUME NEW v, OKSlice(v), NEW u \in BOOLEAN
  PROVE  /\ Hex(v, u) \in Seq(Char) /\ Len(Hex(v, u)) = 2 * v.len
         /\ \A i \in 1..v.len : /\ Hex(v, u)[2 * i - 1] = HexDigit(ByteAt(v, i - 1) \div 16, u)
                                /\ Hex(v, u)[2 * i] = HexDigit(ByteAt(v, i - 1) % 16, u)
<1> DEFINE h == Hex(v, u)
<1>1. v.len \in Nat /\ \A i \in 0..v.len : ByteAt(v, i) \in Char
  BY ByteIs
<1>2. h = [i \in 1..(2 * v.len) |->
             HexDigit(IF i % 2 = 1 THEN ByteAt(v, (i - 1) \div 2) \div 16 ELSE ByteAt(v, (i - 1) \div 2) % 16, u)]
  BY DEF Hex
<1> HIDE DEF h
<1>3. ASSUME NEW i \in 1..v.len
      PROVE  /\ h[2 * i - 1] = HexDigit(ByteAt(v, i - 1) \div 16, u)
             /\ h[2 * i] = HexDigit(ByteAt(v, i - 1) % 16, u)
             /\ ByteAt(v, i - 1) \in Char
  <2>1. /\ 2 * i - 1 \in 1..(2 * v.len) /\ (2 * i - 1 - 1) \div 2 = i - 1 /\ (2 * i - 1) % 2 = 1
        /\ 2 * i \in 1..(2 * v.len) /\ (2 * i - 1) \div 2 = i - 1 /\ (2 * i) % 2 = 0
    BY <1>1, TwoPlaces
  <2> DEFINE p == 2 * i - 1
             q == 2 * i
  <2>2. h[p] = HexDigit(IF p % 2 = 1 THEN ByteAt(v, (p - 1) \div 2) \div 16 ELSE ByteAt(v, (p - 1) \div 2) % 16, u)
    <3>1. p \in 1..(2 * v.len)
      BY <2>1
    <3> HIDE DEF p
    <3> QED BY <1>2, <3>1
  <2>3. h[q] = HexDigit(IF q % 2 = 1 THEN ByteAt(v, (q - 1) \div 2) \div 16 ELSE ByteAt(v, (q - 1) \div 2) % 16, u)
    <3>1. q \in 1..(2 * v.len)
      BY <2>1
    <3> HIDE DEF q
    <3> QED BY <1>2, <3>1
  <2>4. p % 2 = 1 /\ (p - 1) \div 2 = i - 1 /\ q % 2 /= 1 /\ (q - 1) \div 2 = i - 1
    BY <2>1
  <2>5. i - 1 \in 0..v.len
    BY <1>1
  <2>6. h[p] = HexDigit(ByteAt(v, i - 1) \div 16, u)
    <3> HIDE DEF p
    <3> QED BY <2>2, <2>4
  <2>7. h[q] = HexDigit(ByteAt(v, i - 1) % 16, u)
    <3> HIDE DEF q
    <3> QED BY <2>3, <2>4
  <2> QED BY <1>1, <2>5, <2>6, <2>7
<1>4. ASSUME NEW i \in 1..(2 * v.len) PROVE h[i] \in Char
  <2>1. PICK j \in 1..v.len : i = 2 * j - 1 \/ i = 2 * j
    BY <1>1, WhichPlace
  <2>2. ByteAt(v, j - 1) \div 16 \in 0..15 /\ ByteAt(v, j - 1) % 16 \in 0..15
    BY <1>3, Nibbles
  <2>3. h[2 * j - 1] \in Char /\ h[2 * j] \in Char
    BY <1>3, <2>2, HexDigitIs
  <2> QED BY <2>1, <2>3
<1>5. h \in Seq(Char) /\ Len(h) = 2 * v.len
  <2>1. 2 * v.len \in Nat
    BY <1>1
  <2> DEFINE n == 2 * v.len
  <2> HIDE DEF n
  <2>2. h \in [1..n -> Char]
    <3>1. DOMAIN h = 1..n /\ h = [i \in 1..n |-> h[i]]
      BY <1>2 DEF n
    <3> QED BY <1>4, <3>1 DEF n
  <2>3. n \in Nat
    BY <2>1 DEF n
  <2> QED BY <2>2, <2>3 DEF n
<1> QED BY <1>3, <1>5 DEF h

\* The bytes that pairs of digits stand for.
Unhexed(v) == [i \in 1..(v.len \div 2) |-> CToI(ByteAt(v, 2 * i - 2)) * 16 + CToI(ByteAt(v, 2 * i - 1))]

\* Hex and back.
LEMMA UnhexOfHex ==
  ASSUME NEW v, OKSlice(v), NEW u \in BOOLEAN
  PROVE  Unhex(SliceOf(Hex(v, u))) = [ok |-> TRUE, s |-> TextOf(v)]
<1> DEFINE h == Hex(v, u)
           w == SliceOf(h)
<1>1. v.len \in Nat /\ \A i \in 0..v.len : ByteAt(v, i) \in Char
  BY ByteIs
<1>2. /\ h \in Seq(Char) /\ Len(h) = 2 * v.len
      /\ \A i \in 1..v.len : /\ h[2 * i - 1] = HexDigit(ByteAt(v, i - 1) \div 16, u)
                             /\ h[2 * i] = HexDigit(ByteAt(v, i - 1) % 16, u)
  BY HexIs
<1> HIDE DEF h
<1>3. w.len = 2 * v.len /\ \A i \in 0..(2 * v.len - 1) : ByteAt(w, i) = h[i + 1]
  BY <1>2, SliceOfIs
<1> HIDE DEF w
<1>4. ASSUME NEW i \in 1..v.len
      PROVE  /\ CToI(ByteAt(w, 2 * i - 2)) = ByteAt(v, i - 1) \div 16
             /\ CToI(ByteAt(w, 2 * i - 1)) = ByteAt(v, i - 1) % 16
             /\ ByteAt(v, i - 1) \div 16 \in 0..15 /\ ByteAt(v, i - 1) % 16 \in 0..15
             /\ CToI(ByteAt(w, 2 * i - 2)) * 16 + CToI(ByteAt(w, 2 * i - 1)) = ByteAt(v, i - 1)
  <2>1. 2 * i - 2 \in 0..(2 * v.len - 1) /\ 2 * i - 2 + 1 = 2 * i - 1
        /\ 2 * i - 1 \in 0..(2 * v.len - 1) /\ 2 * i - 1 + 1 = 2 * i /\ i - 1 \in 0..v.len
    BY <1>1
  <2>2. ByteAt(w, 2 * i - 2) = HexDigit(ByteAt(v, i - 1) \div 16, u)
    <3>1. ByteAt(w, 2 * i - 2) = h[2 * i - 2 + 1]
      BY <1>3, <2>1
    <3> QED BY <1>2, <2>1, <3>1
  <2>3. ByteAt(w, 2 * i - 1) = HexDigit(ByteAt(v, i - 1) % 16, u)
    <3>1. ByteAt(w, 2 * i - 1) = h[2 * i - 1 + 1]
      BY <1>3, <2>1
    <3> QED BY <1>2, <2>1, <3>1
  <2>4. ByteAt(v, i - 1) \div 16 \in 0..15 /\ ByteAt(v, i - 1) % 16 \in 0..15
        /\ (ByteAt(v, i - 1) \div 16) * 16 + (ByteAt(v, i - 1) % 16) = ByteAt(v, i - 1)
    BY <1>1, <2>1, Nibbles
  <2>5. CToI(ByteAt(w, 2 * i - 2)) = ByteAt(v, i - 1) \div 16 /\ CToI(ByteAt(w, 2 * i - 1)) = ByteAt(v, i - 1) % 16
    BY <2>2, <2>3, <2>4, HexDigitIs
  <2>6. CToI(ByteAt(w, 2 * i - 2)) * 16 + CToI(ByteAt(w, 2 * i - 1)) = ByteAt(v, i - 1)
    <3> DEFINE a == CToI(ByteAt(w, 2 * i - 2))
               b == CToI(ByteAt(w, 2 * i - 1))
    <3>1. a = ByteAt(v, i - 1) \div 16 /\ b = ByteAt(v, i - 1) % 16
      BY <2>5
    <3> HIDE DEF a, b
    <3>2. a * 16 + b = ByteAt(v, i - 1)
      BY <2>4, <3>1
    <3> QED BY <3>2 DEF a, b
  <2> QED BY <2>4, <2>5, <2>6
<1>5. ASSUME NEW i \in 0..(w.len - 1) PROVE ~(CToI(ByteAt(w, i)) < 0)
  <2>1. i + 1 \in 1..(2 * v.len)
    BY <1>1, <1>3
  <2>2. PICK j \in 1..v.len : i + 1 = 2 * j - 1 \/ i + 1 = 2 * j
    BY <1>1, <2>1, WhichPlace
  <2>3. i = 2 * j - 2 \/ i = 2 * j - 1
    BY <1>1, <1>3, <2>2
  <2>4. ByteAt(v, j - 1) \div 16 \in 0..15 /\ ByteAt(v, j - 1) % 16 \in 0..15
    BY <1>4
  <2>5. CToI(ByteAt(w, i)) \in 0..15
    BY <1>4, <2>3, <2>4
  <2> QED BY <2>5
<1>6. w.len % 2 = 0 /\ w.len \div 2 = v.len
  BY <1>1, <1>3
<1>7. Unhexed(w) = TextOf(v)
  <2>1. TextOf(v) \in Seq(Char) /\ Len(TextOf(v)) = v.len /\ \A i \in 1..v.len : TextOf(v)[i] = ByteAt(v, i - 1)
    BY TextIs
  <2>2. TextOf(v) = [i \in 1..v.len |-> TextOf(v)[i]]
    BY <2>1
  <2>3. \A i \in 1..v.len : CToI(ByteAt(w, 2 * i - 2)) * 16 + CToI(ByteAt(w, 2 * i - 1)) = TextOf(v)[i]
    BY <1>4, <2>1
  <2>4. Unhexed(w) = [i \in 1..v.len |-> CToI(ByteAt(w, 2 * i - 2)) * 16 + CToI(ByteAt(w, 2 * i - 1))]
    BY <1>6 DEF Unhexed
  <2> QED BY <2>2, <2>3, <2>4
<1>8. Unhex(w) = [ok |-> TRUE, s |-> Unhexed(w)]
  BY <1>5, <1>6 DEF Unhex, Unhexed
<1> QED BY <1>7, <1>8 DEF h, w

\* Unhex and back, but for the case of the digits.
LEMMA HexOfUnhex ==
  ASSUME NEW v, OKSlice(v), Unhex(v).ok
  PROVE  CaseEq(SliceOf(Hex(SliceOf(Unhex(v).s), TRUE)), v)
<1> DEFINE n == v.len \div 2
           s == Unhexed(v)
           x == SliceOf(s)
           h == Hex(x, TRUE)
           w == SliceOf(h)
<1>1. v.len \in Nat /\ \A i \in 0..v.len : ByteAt(v, i) \in Char
  BY ByteIs
<1>2. v.len % 2 = 0 /\ \A i \in 0..(v.len - 1) : ~(CToI(ByteAt(v, i)) < 0)
  <2>1. CASE v.len % 2 /= 0 \/ \E i \in 0..(v.len - 1) : CToI(ByteAt(v, i)) < 0
    BY <2>1 DEF Unhex
  <2> QED BY <2>1
<1>3. Unhex(v).s = s
  BY <1>2 DEF Unhex, Unhexed
<1>4. n \in Nat /\ v.len = 2 * n
  BY <1>1, <1>2
<1>5. ASSUME NEW i \in 0..(v.len - 1) PROVE CToI(ByteAt(v, i)) \in 0..15
  BY <1>2, CToIIs
<1>6. ASSUME NEW i \in 1..n
      PROVE  /\ 2 * i - 2 \in 0..(v.len - 1) /\ 2 * i - 1 \in 0..(v.len - 1)
             /\ s[i] \in Char /\ s[i] \div 16 = CToI(ByteAt(v, 2 * i - 2)) /\ s[i] % 16 = CToI(ByteAt(v, 2 * i - 1))
  <2>1. 2 * i - 2 \in 0..(v.len - 1) /\ 2 * i - 1 \in 0..(v.len - 1)
    BY <1>4
  <2> DEFINE a == CToI(ByteAt(v, 2 * i - 2))
             b == CToI(ByteAt(v, 2 * i - 1))
  <2>2. a \in 0..15 /\ b \in 0..15
    BY <1>5, <2>1
  <2>3. s[i] = a * 16 + b
    BY DEF Unhexed
  <2> HIDE DEF a, b, s
  <2>4. s[i] \in Char /\ s[i] \div 16 = a /\ s[i] % 16 = b
    BY <2>2, <2>3 DEF Char
  <2> QED BY <2>1, <2>4 DEF a, b
<1>7. s \in Seq(Char) /\ Len(s) = n
  <2>1. s \in [1..n -> Char]
    <3>1. DOMAIN s = 1..n /\ s = [i \in 1..n |-> s[i]]
      BY DEF Unhexed
    <3> HIDE DEF s, n
    <3> QED BY <1>6, <3>1
  <2> HIDE DEF s, n
  <2> QED BY <1>4, <2>1
<1> HIDE DEF n, s
<1>8. OKSlice(x) /\ x.len = n /\ \A i \in 0..(n - 1) : ByteAt(x, i) = s[i + 1]
  BY <1>7, SliceOfIs
<1> HIDE DEF x
<1>9. /\ h \in Seq(Char) /\ Len(h) = 2 * n
      /\ \A i \in 1..n : /\ h[2 * i - 1] = HexDigit(ByteAt(x, i - 1) \div 16, TRUE)
                         /\ h[2 * i] = HexDigit(ByteAt(x, i - 1) % 16, TRUE)
  BY <1>8, HexIs
<1> HIDE DEF h
<1>10. w.len = 2 * n /\ \A i \in 0..(2 * n - 1) : ByteAt(w, i) = h[i + 1]
  BY <1>9, SliceOfIs
<1> HIDE DEF w
<1>11. ASSUME NEW i \in 0..(w.len - 1) PROVE ToUpper(ByteAt(w, i)) = ToUpper(ByteAt(v, i))
  <2>1. i + 1 \in 1..(2 * n)
    BY <1>4, <1>10
  <2>2. PICK j \in 1..n : i + 1 = 2 * j - 1 \/ i + 1 = 2 * j
    BY <1>4, <2>1, WhichPlace
  <2>3. j - 1 \in 0..(n - 1) /\ j - 1 + 1 = j
    BY <1>4
  <2>4. ByteAt(x, j - 1) = s[j]
    BY <1>8, <2>3
  <2>5. i \in 0..(v.len - 1) /\ i \in 0..v.len
    BY <1>4, <1>10
  <2>6. ByteAt(w, i) = HexDigit(CToI(ByteAt(v, i)), TRUE)
    <3>1. CASE i + 1 = 2 * j - 1
      <4>1. i = 2 * j - 2
        BY <1>4, <1>10, <3>1
      <4>2. ByteAt(w, i) = h[i + 1] /\ h[i + 1] = HexDigit(s[j] \div 16, TRUE)
        BY <1>4, <1>9, <1>10, <2>4, <3>1
      <4> QED BY <1>6, <4>1, <4>2
    <3>2. CASE i + 1 = 2 * j
      <4>1. i = 2 * j - 1
        BY <1>4, <1>10, <3>2
      <4>2. ByteAt(w, i) = h[i + 1] /\ h[i + 1] = HexDigit(s[j] % 16, TRUE)
        BY <1>4, <1>9, <1>10, <2>4, <3>2
      <4> QED BY <1>6, <4>1, <4>2
    <3> QED BY <2>2, <3>1, <3>2
  <2>7. ByteAt(v, i) \in Char /\ CToI(ByteAt(v, i)) >= 0
    BY <1>1, <1>5, <2>5
  <2> QED BY <2>6, <2>7, HexDigitOf
<1>12. CaseEq(w, v)
  BY <1>4, <1>10, <1>11 DEF CaseEq
<1> QED BY <1>3, <1>12 DEF w, h, x

LEMMA HexAgreesHolds ==
  ASSUME NEW v, OKSlice(v)
  PROVE  HexAgrees(v)
BY UnhexOfHex, HexOfUnhex DEF HexAgrees

-----------------------------------------------------------------------------
(* Trims.                                                                  *)

\* The place at which the bytes of chs that v starts with end.
IsFront(p, v, chs) ==
  /\ p \in 0..v.len
  /\ \A i \in 0..(p - 1) : ByteAt(v, i) \in chs
  /\ p < v.len => ByteAt(v, p) \notin chs

LEMMA LTrimIs ==
  ASSUME NEW v, OKSlice(v), NEW chs
  PROVE  \E p \in 0..v.len : LTrim(v, chs) = CutFrom(v, p) /\ IsFront(p, v, chs)
<1> DEFINE B == {i \in 0..(v.len - 1) : ByteAt(v, i) \notin chs}
           p == Min({v.len} \cup B)
<1>1. v.len \in Nat
  BY ByteIs
<1>2. p \in {v.len} \cup B /\ \A x \in {v.len} \cup B : p <= x
  <2>1. {v.len} \cup B \in SUBSET Nat /\ {v.len} \cup B /= {}
    BY <1>1
  <2> HIDE DEF B
  <2> QED BY <2>1, MinIs
<1>3. LTrim(v, chs) = CutFrom(v, p)
  BY DEF LTrim
<1>4. p \in 0..v.len /\ (p < v.len => ByteAt(v, p) \notin chs)
  <2> HIDE DEF p
  <2> QED BY <1>1, <1>2
<1>5. ASSUME NEW i \in 0..(p - 1) PROVE ByteAt(v, i) \in chs
  <2>1. i \in 0..(v.len - 1) /\ i < p
    <3> HIDE DEF p
    <3> QED BY <1>1, <1>4
  <2>2. i \in B => p <= i
    <3> HIDE DEF p, B
    <3> QED BY <1>2
  <2>3. i \notin B
    <3> HIDE DEF p, B
    <3> QED BY <1>4, <2>1, <2>2
  <2> QED BY <2>1, <2>3
<1> HIDE DEF p
<1> QED BY <1>3, <1>4, <1>5 DEF IsFront

\* The place at which the bytes of chs that v ends with start.
IsBack(q, v, chs) ==
  /\ q \in 0..v.len
  /\ \A i \in q..(v.len - 1) : ByteAt(v, i) \in chs
  /\ q > 0 => ByteAt(v, q - 1) \notin chs

LEMMA RTrimIs ==
  ASSUME NEW v, OKSlice(v), NEW chs
  PROVE  \E q \in 0..v.len : RTrim(v, chs) = Cut(v, 0, q) /\ IsBack(q, v, chs)
<1> DEFINE B == {i \in 0..(v.len - 1) : ByteAt(v, i) \notin chs}
           m == Max({-1} \cup B)
           q == m + 1
<1>1. v.len \in Nat
  BY ByteIs
<1>2. m \in {-1} \cup B /\ \A x \in {-1} \cup B : x <= m
  <2>1. {-1} \cup B \in SUBSET Int /\ {-1} \cup B /= {} /\ \A x \in {-1} \cup B : x <= v.len
    BY <1>1
  <2> DEFINE T == {-1} \cup B
  <2>2. v.len \in Int
    BY <1>1
  <2> HIDE DEF T
  <2>3. Max(T) \in T /\ \A x \in T : x <= Max(T)
    BY <2>1, <2>2, MaxIs DEF T
  <2> QED BY <2>3 DEF T
<1>3. RTrim(v, chs) = Cut(v, 0, q)
  BY DEF RTrim
<1>4. m \in -1..(v.len - 1) /\ (m > -1 => ByteAt(v, m) \notin chs)
  <2> HIDE DEF m
  <2> QED BY <1>1, <1>2
<1>5. ASSUME NEW i \in q..(v.len - 1) PROVE ByteAt(v, i) \in chs
  <2>1. i \in 0..(v.len - 1) /\ i > m
    <3> HIDE DEF m
    <3> QED BY <1>1, <1>4
  <2>2. i \in B => i <= m
    <3> HIDE DEF m, B
    <3> QED BY <1>2
  <2>3. i \notin B
    <3> HIDE DEF m, B
    <3> QED BY <1>4, <2>1, <2>2
  <2> QED BY <2>1, <2>3
<1> HIDE DEF m
<1>6. q \in 0..v.len /\ q - 1 = m /\ (q > 0 => m > -1)
  BY <1>1, <1>4
<1> HIDE DEF q
<1> QED BY <1>3, <1>4, <1>5, <1>6 DEF IsBack

\* A part of a part.
LEMMA PartOfPart ==
  ASSUME NEW v, OKSlice(v), NEW a \in Nat, NEW m \in Nat, a + m <= v.len, NEW w, IsPart(w, v, a, m),
         NEW b \in Nat, NEW n \in Nat, b + n <= m, NEW x, IsPart(x, w, b, n)
  PROVE  IsPart(x, v, a + b, n)
<1>1. OKSlice(x) /\ x.mem = v.mem /\ x.len = n /\ v.at \in Nat
  BY ByteIs DEF IsPart
<1>2. x.at = v.at + (a + b)
  <2>1. x.at = w.at + b /\ w.at = v.at + a
    BY DEF IsPart
  <2> QED BY <1>1, <2>1
<1>3. ASSUME NEW i \in 0..n PROVE ByteAt(x, i) = ByteAt(v, a + b + i)
  <2>1. b + i \in 0..m /\ a + (b + i) = a + b + i
    OBVIOUS
  <2>2. ByteAt(x, i) = ByteAt(w, b + i)
    BY DEF IsPart
  <2>3. ByteAt(w, b + i) = ByteAt(v, a + (b + i))
    BY <2>1 DEF IsPart
  <2> QED BY <2>1, <2>2, <2>3
<1> QED BY <1>1, <1>2, <1>3 DEF IsPart

\* What Trim leaves of v: from p, of length q.
IsTrim(w, v, chs, p, q) ==
  /\ p \in 0..v.len /\ q \in 0..(v.len - p)
  /\ IsPart(w, v, p, q)
  /\ \A i \in 0..(p - 1) : ByteAt(v, i) \in chs
  /\ \A i \in (p + q)..(v.len - 1) : ByteAt(v, i) \in chs
  /\ q > 0 => ByteAt(v, p) \notin chs /\ ByteAt(v, p + q - 1) \notin chs

\* Trim leaves what lies between the first and the last byte that is not trimmed.
LEMMA TrimIs ==
  ASSUME NEW v, OKSlice(v), NEW chs
  PROVE  \E p, q \in Nat : IsTrim(Trim(v, chs), v, chs, p, q)
<1>1. v.len \in Nat
  BY ByteIs
<1>2. PICK p \in 0..v.len : LTrim(v, chs) = CutFrom(v, p) /\ IsFront(p, v, chs)
  BY LTrimIs
<1> DEFINE w == CutFrom(v, p)
           n == v.len - p
<1>3. IsPart(w, v, p, n)
  BY CutFromIs
<1>4. n \in Nat /\ p \in Nat /\ p + n = v.len
  BY <1>1
<1> HIDE DEF n
<1>5. OKSlice(w) /\ w.len = n /\ \A i \in 0..n : ByteAt(w, i) = ByteAt(v, p + i)
  BY <1>3 DEF IsPart
<1>6. PICK q \in 0..w.len : RTrim(w, chs) = Cut(w, 0, q) /\ IsBack(q, w, chs)
  BY <1>5, RTrimIs
<1> HIDE DEF w
<1> DEFINE x == Cut(w, 0, q)
<1>7. q \in Nat /\ 0 + q <= n /\ 0 + q <= w.len /\ 0 \in Nat /\ p + 0 = p
  BY <1>4, <1>5, <1>6
<1>8. IsPart(x, w, 0, q)
  BY <1>5, <1>7, CutIs
<1>9. IsPart(x, v, p, q)
  <2> HIDE DEF x
  <2>1. IsPart(x, v, p + 0, q)
    BY <1>3, <1>4, <1>7, <1>8, PartOfPart
  <2> QED BY <1>7, <2>1
<1>10. Trim(v, chs) = x
  BY <1>2, <1>6 DEF Trim, w
<1> HIDE DEF x
<1>11. \A i \in 0..(p - 1) : ByteAt(v, i) \in chs
  BY <1>2 DEF IsFront
<1>12. ASSUME NEW i \in (p + q)..(v.len - 1) PROVE ByteAt(v, i) \in chs
  <2>1. i - p \in q..(w.len - 1) /\ i - p \in 0..n /\ p + (i - p) = i
    BY <1>1, <1>4, <1>5, <1>7
  <2>2. ByteAt(w, i - p) \in chs
    BY <1>6, <2>1 DEF IsBack
  <2> QED BY <1>5, <2>1, <2>2
<1>13. ASSUME q > 0 PROVE ByteAt(v, p) \notin chs /\ ByteAt(v, p + q - 1) \notin chs
  <2>1. p < v.len /\ q - 1 \in 0..n /\ p + (q - 1) = p + q - 1
    BY <1>4, <1>7, <1>13
  <2>2. ByteAt(v, p) \notin chs
    BY <1>2, <2>1 DEF IsFront
  <2>3. ByteAt(w, q - 1) \notin chs
    BY <1>6, <1>13 DEF IsBack
  <2> QED BY <1>5, <2>1, <2>2, <2>3
<1>14. q \in 0..(v.len - p)
  BY <1>4, <1>7
<1>15. IsTrim(x, v, chs, p, q)
  BY <1>9, <1>11, <1>12, <1>13, <1>14 DEF IsTrim
<1> QED BY <1>4, <1>7, <1>10, <1>15

LEMMA TrimsAgreeHolds ==
  ASSUME NEW v, OKSlice(v)
  PROVE  TrimsAgree(v)
<1> DEFINE t == Trim(v, Space)
<1>1. PICK p \in Nat, q \in Nat : IsTrim(t, v, Space, p, q)
  BY TrimIs
<1> HIDE DEF t
<1>2. v.len \in Nat /\ v.at \in Nat /\ p + q <= v.len
  BY <1>1, ByteIs DEF IsTrim
<1>3. t.at = v.at + p /\ t.len = q /\ OKSlice(t)
  BY <1>1 DEF IsTrim, IsPart
<1>4. ZeroEndTrue(t)
  BY <1>3 DEF ZeroEndTrue, OKSlice
<1>5. t.at - v.at = p
  BY <1>2, <1>3
<1>6. ASSUME NEW i \in 0..(v.len - 1)
      PROVE  i \in p..(p + q - 1)
               <=> \E j, k \in 0..(v.len - 1) : j <= i /\ i <= k /\ {ByteAt(v, j), ByteAt(v, k)} \cap Space = {}
  <2>1. ASSUME i \in p..(p + q - 1)
        PROVE  \E j, k \in 0..(v.len - 1) : j <= i /\ i <= k /\ {ByteAt(v, j), ByteAt(v, k)} \cap Space = {}
    <3>1. q > 0 /\ p \in 0..(v.len - 1) /\ p + q - 1 \in 0..(v.len - 1) /\ p <= i /\ i <= p + q - 1
      BY <1>2, <2>1
    <3>2. ByteAt(v, p) \notin Space /\ ByteAt(v, p + q - 1) \notin Space
      BY <1>1, <3>1 DEF IsTrim
    <3>3. {ByteAt(v, p), ByteAt(v, p + q - 1)} \cap Space = {}
      BY <3>2
    <3> QED BY <3>1, <3>3
  <2>2. ASSUME NEW j \in 0..(v.len - 1), NEW k \in 0..(v.len - 1), j <= i, i <= k,
               {ByteAt(v, j), ByteAt(v, k)} \cap Space = {}
        PROVE  i \in p..(p + q - 1)
    <3>1. ByteAt(v, j) \notin Space /\ ByteAt(v, k) \notin Space
      BY <2>2
    <3>2. ~(j \in 0..(p - 1))
      BY <1>1, <3>1 DEF IsTrim
    <3>3. ~(k \in (p + q)..(v.len - 1))
      BY <1>1, <3>1 DEF IsTrim
    <3> QED BY <1>2, <2>2, <3>2, <3>3
  <2> QED BY <2>1, <2>2
<1>7. t.at - v.at + t.len - 1 = p + q - 1
  BY <1>3, <1>5
<1> QED BY <1>4, <1>5, <1>6, <1>7 DEF TrimsAgree, t

-----------------------------------------------------------------------------
(* Joins.                                                                  *)

\* A function that is given at 0 and by one step from each place to the next.
\* step makes an element of S of one.
IsLoop(n, S, s0, step) == n \in Nat /\ s0 \in S /\ step \in [(1..n) \X S -> S]

IsLooped(n, S, s0, step) ==
  \E f \in [0..n -> S] : f[0] = s0 /\ \A i \in 1..n : f[i] = step[<<i, f[i - 1]>>]

LEMMA LoopExists ==
  ASSUME NEW n, NEW S, NEW s0, NEW step, IsLoop(n, S, s0, step)
  PROVE  IsLooped(n, S, s0, step)
<1>0. n \in Nat /\ s0 \in S /\ step \in [(1..n) \X S -> S]
  BY DEF IsLoop
<1> DEFINE D == 0..n
           rank == [d \in D |-> d]
           by == [p \in D \X [D -> S] |-> IF p[1] = 0 THEN s0 ELSE step[<<p[1], p[2][p[1] - 1]>>]]
<1>1. rank \in [D -> Nat] /\ \A d \in D : rank[d] = d
  BY <1>0
<1>2. \A d \in D, f \in [D -> S] : by[<<d, f>>] = IF d = 0 THEN s0 ELSE step[<<d, f[d - 1]>>]
  OBVIOUS
<1>3. ASSUME NEW d \in D, NEW f \in [D -> S] PROVE by[<<d, f>>] \in S
  <2>1. CASE d = 0
    BY <1>0, <1>2, <2>1
  <2>2. CASE d /= 0
    <3>1. d \in 1..n /\ d - 1 \in D
      BY <1>0, <2>2
    <3>2. f[d - 1] \in S
      BY <3>1
    <3>3. step[<<d, f[d - 1]>>] \in S
      BY <1>0, <3>1, <3>2
    <3> QED BY <1>2, <2>2, <3>3
  <2> QED BY <2>1, <2>2
<1>4. by \in [D \X [D -> S] -> S]
  <2>1. \A p \in D \X [D -> S] : p = <<p[1], p[2]>> /\ p[1] \in D /\ p[2] \in [D -> S]
    OBVIOUS
  <2>2. \A p \in D \X [D -> S] : by[p] \in S
    <3> HIDE DEF by, D
    <3> QED BY <1>3, <2>1
  <2> QED BY <2>2
<1> HIDE DEF rank, by
<1>5. ASSUME NEW d \in D, NEW f \in [D -> S], NEW g \in [D -> S], \A e \in D : rank[e] < rank[d] => f[e] = g[e]
      PROVE  by[<<d, f>>] = by[<<d, g>>]
  <2>1. CASE d = 0
    BY <1>2, <2>1
  <2>2. CASE d /= 0
    <3>1. d - 1 \in D /\ d - 1 < d
      BY <1>0, <2>2
    <3>2. f[d - 1] = g[d - 1]
      BY <1>1, <1>5, <3>1
    <3> QED BY <1>2, <3>2
  <2> QED BY <2>1, <2>2
<1>6. S /= {}
  BY <1>0
<1>7. \E f \in [D -> S] : \A d \in D : f[d] = by[<<d, f>>]
  <2>1. \A d \in D : \A f, g \in [D -> S] :
          (\A e \in D : rank[e] < rank[d] => f[e] = g[e]) => by[<<d, f>>] = by[<<d, g>>]
    BY <1>5
  <2> HIDE DEF D
  <2>2. IsRecursive(D, S, rank, by)
    BY <1>1, <1>4, <1>6, <2>1 DEF IsRecursive
  <2>3. IsMade(D, S, by)
    BY <2>2, RecursiveExists
  <2> QED BY <2>3 DEF IsMade
<1>8. PICK f \in [D -> S] : \A d \in D : f[d] = by[<<d, f>>]
  BY <1>7
<1>9. f[0] = s0 /\ \A i \in 1..n : f[i] = step[<<i, f[i - 1]>>]
  <2>1. f[0] = s0
    <3>1. 0 \in D
      BY <1>0
    <3> HIDE DEF D
    <3> QED BY <1>2, <1>8, <3>1
  <2>2. \A i \in 1..n : i \in D /\ i /= 0
    BY <1>0
  <2>3. \A i \in 1..n : f[i] = step[<<i, f[i - 1]>>]
    <3> HIDE DEF D
    <3> QED BY <1>2, <1>8, <2>2
  <2> QED BY <2>1, <2>3
<1> QED BY <1>9 DEF IsLooped

\* f holds what is joined of the first texts.
Joins(f, sep, texts) ==
  /\ f \in [0..Len(texts) -> Seq(Char)]
  /\ f[0] = <<>>
  /\ \A i \in 1..Len(texts) : f[i] = f[i - 1] \o (IF i > 1 THEN sep ELSE <<>>) \o texts[i]

LEMMA ThreeTexts ==
  ASSUME NEW a \in Seq(Char), NEW b \in Seq(Char), NEW c \in Seq(Char)
  PROVE  a \o b \o c \in Seq(Char) /\ Len(a \o b \o c) = Len(a) + Len(b) + Len(c)
<1>1. a \o b \in Seq(Char) /\ Len(a \o b) = Len(a) + Len(b)
  BY ConcatProperties
<1> DEFINE d == a \o b
<1> HIDE DEF d
<1>2. d \in Seq(Char) /\ Len(d) = Len(a) + Len(b)
  BY <1>1 DEF d
<1>3. d \o c \in Seq(Char) /\ Len(d \o c) = Len(d) + Len(c)
  BY <1>2, ConcatProperties
<1> QED BY <1>2, <1>3 DEF d

LEMMA JoinsExist ==
  ASSUME NEW sep \in Seq(Char), NEW texts \in Seq(Seq(Char))
  PROVE  \E f : Joins(f, sep, texts)
<1> DEFINE n == Len(texts)
           between(i) == IF i > 1 THEN sep ELSE <<>>
           step == [p \in (1..n) \X Seq(Char) |-> p[2] \o between(p[1]) \o texts[p[1]]]
<1>1. n \in Nat /\ <<>> \in Seq(Char) /\ \A i \in 1..n : texts[i] \in Seq(Char)
  BY ElementOfSeq
<1> HIDE DEF n
<1>2. \A i \in 1..n, r \in Seq(Char) : r \o between(i) \o texts[i] \in Seq(Char)
  <2>1. \A i \in 1..n : between(i) \in Seq(Char)
    BY <1>1
  <2> HIDE DEF between
  <2> QED BY <1>1, <2>1, ThreeTexts
<1>3. step \in [(1..n) \X Seq(Char) -> Seq(Char)]
  <2>1. \A p \in (1..n) \X Seq(Char) : p[1] \in 1..n /\ p[2] \in Seq(Char)
    OBVIOUS
  <2>2. \A p \in (1..n) \X Seq(Char) : p[2] \o between(p[1]) \o texts[p[1]] \in Seq(Char)
    <3> HIDE DEF between
    <3> QED BY <1>2, <2>1
  <2> HIDE DEF between
  <2> QED BY <2>2
<1>4. \A i \in 1..n, r \in Seq(Char) : step[<<i, r>>] = r \o between(i) \o texts[i]
  OBVIOUS
<1> HIDE DEF step
<1>5. PICK f \in [0..n -> Seq(Char)] : f[0] = <<>> /\ \A i \in 1..n : f[i] = step[<<i, f[i - 1]>>]
  <2>1. \E f \in [0..n -> Seq(Char)] : f[0] = <<>> /\ \A i \in 1..n : f[i] = step[<<i, f[i - 1]>>]
    <3> DEFINE e == <<>>
    <3>1. IsLoop(n, Seq(Char), e, step)
      BY <1>1, <1>3 DEF IsLoop
    <3> HIDE DEF e
    <3>2. IsLooped(n, Seq(Char), e, step)
      BY <3>1, LoopExists
    <3> QED BY <3>2 DEF IsLooped, e
  <2> QED BY <2>1
<1>6. \A i \in 1..n : f[i] = f[i - 1] \o between(i) \o texts[i]
  <2>1. \A i \in 1..n : f[i - 1] \in Seq(Char)
    BY <1>1
  <2> QED BY <1>4, <1>5, <2>1
<1>7. Joins(f, sep, texts)
  BY <1>5, <1>6 DEF Joins, n
<1> QED BY <1>7

\* Two functions that are given in the same way are the same.
GivenAlike(f, g, n) ==
  f[0] = g[0] /\ \A i \in 1..n : f[i - 1] = g[i - 1] => f[i] = g[i]

LEMMA LoopUnique ==
  ASSUME NEW n \in Nat, NEW f, NEW g, GivenAlike(f, g, n)
  PROVE  \A i \in 0..n : f[i] = g[i]
<1> DEFINE N == {i \in Nat : i <= n => f[i] = g[i]}
<1>0. f[0] = g[0] /\ \A i \in 1..n : f[i - 1] = g[i - 1] => f[i] = g[i]
  BY DEF GivenAlike
<1>1. 0 \in N
  BY <1>0
<1>2. ASSUME NEW i \in Nat, i \in N PROVE i + 1 \in N
  <2>1. SUFFICES ASSUME i + 1 <= n PROVE f[i + 1] = g[i + 1]
    OBVIOUS
  <2>2. i + 1 \in 1..n /\ i + 1 - 1 = i /\ f[i] = g[i]
    BY <1>2, <2>1
  <2> DEFINE j == i + 1
  <2>3. j \in 1..n /\ f[j - 1] = g[j - 1]
    BY <2>2
  <2> HIDE DEF j
  <2>4. f[j] = g[j]
    BY <1>0, <2>3
  <2> QED BY <2>4 DEF j
<1> HIDE DEF N
<1>3. Nat \subseteq N
  BY <1>1, <1>2, InductionNat
<1> QED BY <1>3 DEF N

\* The length that Join counts first is that of what it makes.
LEMMA TotalIs ==
  ASSUME NEW sep \in Seq(Char), NEW texts \in Seq(Seq(Char)), NEW f, Joins(f, sep, texts)
  PROVE  TotalLen(sep, texts) = IF texts = <<>> THEN -Len(sep) ELSE Len(f[Len(texts)])
<1> DEFINE n == Len(texts)
           G(g) == g = [i \in 0..n |-> IF i = 0 THEN -Len(sep) ELSE g[i - 1] + Len(sep) + Len(texts[i])]
           total == CHOOSE g : G(g)
<1>1. n \in Nat /\ Len(sep) \in Nat /\ \A i \in 1..n : texts[i] \in Seq(Char)
  BY ElementOfSeq
<1>2. TotalLen(sep, texts) = total[n]
  BY DEF TotalLen
<1> HIDE DEF n
<1>3. \A i \in 1..n : Len(texts[i]) \in Nat
  BY <1>1
<1>4. \E g : G(g)
  <2> DEFINE step == [p \in (1..n) \X Int |-> p[2] + Len(sep) + Len(texts[p[1]])]
             s0 == -Len(sep)
  <2>1. step \in [(1..n) \X Int -> Int]
    <3>1. \A p \in (1..n) \X Int : p[1] \in 1..n /\ p[2] \in Int
      OBVIOUS
    <3>2. \A p \in (1..n) \X Int : p[2] + Len(sep) + Len(texts[p[1]]) \in Int
      BY <1>1, <1>3, <3>1
    <3> QED BY <3>2
  <2>2. \A i \in 1..n, r \in Int : step[<<i, r>>] = r + Len(sep) + Len(texts[i])
    OBVIOUS
  <2>3. s0 \in Int
    BY <1>1
  <2> HIDE DEF step, s0
  <2>4. IsLoop(n, Int, s0, step)
    BY <1>1, <2>1, <2>3 DEF IsLoop
  <2>5. PICK g \in [0..n -> Int] : g[0] = s0 /\ \A i \in 1..n : g[i] = step[<<i, g[i - 1]>>]
    BY <2>4, LoopExists DEF IsLooped
  <2>6. ASSUME NEW i \in 0..n
        PROVE  g[i] = IF i = 0 THEN -Len(sep) ELSE g[i - 1] + Len(sep) + Len(texts[i])
    <3>1. CASE i = 0
      BY <2>5, <3>1 DEF s0
    <3>2. CASE i /= 0
      <4>1. i \in 1..n /\ i - 1 \in 0..n
        BY <1>1, <3>2
      <4>2. g[i - 1] \in Int
        BY <4>1
      <4> QED BY <2>2, <2>5, <3>2, <4>1, <4>2
    <3> QED BY <3>1, <3>2
  <2>7. G(g)
    BY <2>6
  <2> QED BY <2>7
<1>5. G(total)
  BY <1>4
<1> HIDE DEF total
<1>6. \A i \in 0..n : total[i] = IF i = 0 THEN -Len(sep) ELSE total[i - 1] + Len(sep) + Len(texts[i])
  BY <1>5
<1>7. total[0] = -Len(sep)
  BY <1>1, <1>6
<1>8. f \in [0..n -> Seq(Char)] /\ f[0] = <<>>
      /\ \A i \in 1..n : f[i] = f[i - 1] \o (IF i > 1 THEN sep ELSE <<>>) \o texts[i]
  BY DEF Joins, n
<1>9. \A i \in 1..n : Len(f[i]) = Len(f[i - 1]) + (IF i > 1 THEN Len(sep) ELSE 0) + Len(texts[i]) /\ Len(f[i - 1]) \in Nat
  <2> TAKE i \in 1..n
  <2> DEFINE m == IF i > 1 THEN sep ELSE <<>>
  <2>1. f[i - 1] \in Seq(Char) /\ texts[i] \in Seq(Char) /\ m \in Seq(Char)
    BY <1>1, <1>8
  <2>2. Len(m) = IF i > 1 THEN Len(sep) ELSE 0
    OBVIOUS
  <2>3. f[i] = f[i - 1] \o m \o texts[i]
    BY <1>8
  <2> HIDE DEF m
  <2>4. Len(f[i]) = Len(f[i - 1]) + Len(m) + Len(texts[i])
    BY <2>1, <2>3, ThreeTexts
  <2> QED BY <2>1, <2>2, <2>4
<1>10. CASE n = 0
  <2>1. texts = <<>>
    BY <1>10 DEF n
  <2> QED BY <1>2, <1>7, <1>10, <2>1
<1>11. CASE n /= 0
  <2> DEFINE h == [i \in 0..n |-> IF i = 0 THEN total[0] ELSE Len(f[i])]
  <2>1. ASSUME NEW i \in 1..n, h[i - 1] = total[i - 1] PROVE h[i] = total[i]
    <3>1. i \in 0..n /\ i - 1 \in 0..n /\ i /= 0
      BY <1>1
    <3>2. total[i] = total[i - 1] + Len(sep) + Len(texts[i])
      BY <1>6, <3>1
    <3>3. h[i] = Len(f[i])
      BY <3>1
    <3>4. CASE i = 1
      <4>1. f[i - 1] = <<>> /\ total[i - 1] = -Len(sep)
        BY <1>7, <1>8, <3>4
      <4>2. Len(f[i - 1]) = 0
        BY <4>1
      <4>3. Len(texts[i]) \in Nat /\ ~(i > 1)
        BY <1>3, <3>4
      <4>4. Len(f[i]) = Len(f[i - 1]) + (IF i > 1 THEN Len(sep) ELSE 0) + Len(texts[i])
        BY <1>9
      <4>5. Len(f[i]) = Len(texts[i])
        BY <4>2, <4>3, <4>4
      <4> HIDE DEF h
      <4>6. total[i] = Len(texts[i])
        <5> DEFINE l == Len(sep)
                   m == Len(texts[i])
                   t == total[i - 1]
        <5>1. l \in Nat /\ m \in Nat /\ t = -l /\ total[i] = t + l + m
          BY <1>1, <3>2, <4>1, <4>3
        <5> HIDE DEF l, m, t
        <5>2. total[i] = m
          BY <5>1
        <5> QED BY <5>2 DEF m
      <4> QED BY <3>3, <4>5, <4>6
    <3>5. CASE i /= 1
      <4>1. i > 1 /\ i - 1 /= 0
        BY <3>5
      <4>2. h[i - 1] = Len(f[i - 1])
        BY <3>1, <4>1
      <4> HIDE DEF h
      <4>3. Len(f[i]) = Len(f[i - 1]) + Len(sep) + Len(texts[i])
        BY <1>9, <4>1
      <4> QED BY <2>1, <3>2, <3>3, <4>2, <4>3
    <3> QED BY <3>4, <3>5
  <2>2. h[0] = total[0]
    BY <1>1
  <2>3. h[n] = Len(f[n]) /\ n \in 0..n
    BY <1>1, <1>11
  <2> HIDE DEF h
  <2>4. \A i \in 0..n : h[i] = total[i]
    <3>1. GivenAlike(h, total, n)
      BY <2>1, <2>2 DEF GivenAlike
    <3> QED BY <1>1, <3>1, LoopUnique, SMTT(40)
  <2>5. texts /= <<>>
    BY <1>11 DEF n
  <2> QED BY <1>2, <2>3, <2>4, <2>5 DEF n
<1> QED BY <1>10, <1>11

LEMMA JoinIs ==
  ASSUME NEW sep \in Seq(Char), NEW texts \in Seq(Seq(Char)), NEW f, Joins(f, sep, texts)
  PROVE  Join(sep, texts) = f[Len(texts)]
<1> DEFINE n == Len(texts)
           G(g) == g = [i \in 0..n |-> IF i = 0 THEN <<>>
                                       ELSE g[i - 1] \o (IF i > 1 THEN sep ELSE <<>>) \o texts[i]]
           joined == CHOOSE g : G(g)
<1>1. n \in Nat /\ Len(sep) \in Nat
  OBVIOUS
<1>2. Join(sep, texts) = IF TotalLen(sep, texts) <= 0 THEN <<>> ELSE joined[n]
  BY DEF Join
<1>3. f \in [0..n -> Seq(Char)] /\ f[0] = <<>>
      /\ \A i \in 1..n : f[i] = f[i - 1] \o (IF i > 1 THEN sep ELSE <<>>) \o texts[i]
  BY DEF Joins
<1> HIDE DEF n
<1>4. G(f)
  <2>1. \A i \in 0..n : i = 0 \/ i \in 1..n
    BY <1>1
  <2>2. \A i \in 0..n : f[i] = IF i = 0 THEN <<>> ELSE f[i - 1] \o (IF i > 1 THEN sep ELSE <<>>) \o texts[i]
    BY <1>3, <2>1
  <2> QED BY <1>3, <2>2
<1>5. G(joined)
  BY <1>4
<1> HIDE DEF joined
<1>6. \A i \in 0..n : joined[i] = IF i = 0 THEN <<>> ELSE joined[i - 1] \o (IF i > 1 THEN sep ELSE <<>>) \o texts[i]
  BY <1>5
<1>7. joined[0] = f[0]
  <2>1. 0 \in 0..n
    BY <1>1
  <2>2. joined[0] = <<>>
    BY <1>6, <2>1
  <2> QED BY <1>3, <2>2
<1>8. ASSUME NEW i \in 1..n, joined[i - 1] = f[i - 1] PROVE joined[i] = f[i]
  <2>1. i \in 0..n /\ i /= 0
    BY <1>1
  <2> QED BY <1>3, <1>6, <1>8, <2>1
<1>9. joined[n] = f[n]
  <2>1. \A i \in 0..n : joined[i] = f[i]
    <3>1. GivenAlike(joined, f, n)
      BY <1>7, <1>8 DEF GivenAlike
    <3> QED BY <1>1, <3>1, LoopUnique, SMTT(40)
  <2>2. n \in 0..n
    BY <1>1
  <2> QED BY <2>1, <2>2
<1>10. f[n] \in Seq(Char)
  BY <1>1, <1>3
<1>11. CASE TotalLen(sep, texts) <= 0
  <2>1. f[n] = <<>>
    <3>1. CASE texts = <<>>
      <4>1. n = 0
        BY <3>1 DEF n
      <4> QED BY <1>3, <4>1
    <3>2. CASE texts /= <<>>
      <4>1. Len(f[n]) <= 0
        BY <1>11, <3>2, TotalIs DEF n
      <4> QED BY <1>10, <4>1, EmptySeq
    <3> QED BY <3>1, <3>2
  <2> QED BY <1>2, <1>11, <2>1 DEF n
<1>12. CASE ~(TotalLen(sep, texts) <= 0)
  BY <1>2, <1>9, <1>12 DEF n
<1> QED BY <1>11, <1>12

-----------------------------------------------------------------------------
(* Splits at a separator.                                                  *)

\* p is what is left from o on, where the separator is not found any more.
LastPart(p, o, v, sep) ==
  o \in 0..v.len /\ p = CutFrom(v, o) /\ Index(p, sep) = -1

\* p goes from o to where the separator is found, and q is from behind that.
InnerPart(p, q, o, v, sep) ==
  LET j == Index(CutFrom(v, o), sep) IN
  /\ o \in 0..v.len /\ j /= -1
  /\ p = Cut(CutFrom(v, o), 0, j)
  /\ q.at = v.at + o + j + Len(sep)

LEMMA LastPartIs ==
  ASSUME NEW v, OKSlice(v), NEW sep \in Seq(Char), NEW p, NEW o, LastPart(p, o, v, sep)
  PROVE  IsPart(p, v, o, v.len - o) /\ p.at = v.at + o /\ OKSlice(p) /\ p \in SliceSet
<1>1. IsPart(p, v, o, v.len - o)
  BY CutFromIs DEF LastPart
<1> QED BY <1>1 DEF IsPart, OKSlice

LEMMA InnerPartIs ==
  ASSUME NEW v, OKSlice(v), NEW sep \in Seq(Char), NEW p, NEW q, NEW o, InnerPart(p, q, o, v, sep)
  PROVE  /\ IsPart(p, v, o, p.len) /\ p.at = v.at + o /\ OKSlice(p) /\ p \in SliceSet
         /\ p.len \in Nat /\ o + p.len + Len(sep) <= v.len
         /\ p.len = Index(CutFrom(v, o), sep)
         /\ q.at = v.at + (o + p.len + Len(sep))
         /\ Occurs(v, o + p.len, sep)
         /\ sep /= <<>> => Index(p, sep) = -1
<1> DEFINE w == CutFrom(v, o)
           j == Index(w, sep)
           m == Len(sep)
<1>1. v.len \in Nat /\ v.at \in Nat /\ m \in Nat /\ o \in 0..v.len /\ j /= -1 /\ p = Cut(w, 0, j) /\ q.at = v.at + o + j + m
  BY ByteIs DEF InnerPart
<1>2. IsPart(w, v, o, v.len - o)
  BY <1>1, CutFromIs
<1>3. OKSlice(w) /\ w.len = v.len - o /\ \A i \in 0..w.len : ByteAt(w, i) = ByteAt(v, o + i)
  BY <1>2 DEF IsPart
<1> HIDE DEF w
<1>4. j \in 0..(w.len - m) /\ Occurs(w, j, sep) /\ \A i \in 0..(j - 1) : ~Occurs(w, i, sep)
  BY <1>1, <1>3, IndexIs DEF IsIndex
<1> HIDE DEF j, m
<1>5. j \in Nat /\ 0 + j <= w.len /\ 0 \in Nat /\ o + j + m <= v.len /\ o + 0 = o /\ o \in Nat /\ v.len - o \in Nat
      /\ o + (v.len - o) <= v.len /\ 0 + j <= v.len - o
  BY <1>1, <1>3, <1>4
<1>6. IsPart(p, w, 0, j)
  BY <1>1, <1>3, <1>5, CutIs
<1>7. IsPart(p, v, o + 0, j)
  BY <1>2, <1>5, <1>6, PartOfPart
<1>8. IsPart(p, v, o, j) /\ p.len = j /\ p.at = v.at + o /\ OKSlice(p) /\ p \in SliceSet
      /\ \A i \in 0..j : ByteAt(p, i) = ByteAt(w, 0 + i)
  BY <1>5, <1>6, <1>7 DEF IsPart, OKSlice
<1>9. q.at = v.at + (o + p.len + m)
  BY <1>1, <1>5, <1>8
<1>10. Occurs(v, o + j, sep)
  <2> SUFFICES ASSUME NEW k \in 1..Len(sep) PROVE ByteAt(v, o + j + k - 1) = sep[k]
    BY DEF Occurs
  <2>1. j + k - 1 \in 0..w.len /\ o + (j + k - 1) = o + j + k - 1
    BY <1>1, <1>3, <1>4 DEF m
  <2>2. ByteAt(w, j + k - 1) = sep[k]
    BY <1>4 DEF Occurs
  <2>3. ByteAt(w, j + k - 1) = ByteAt(v, o + (j + k - 1))
    BY <1>3, <2>1
  <2> QED BY <2>1, <2>2, <2>3
<1>11. ASSUME sep /= <<>> PROVE Index(p, sep) = -1
  <2>1. m > 0
    BY <1>11 DEF m
  <2>2. ASSUME NEW i \in 0..(p.len - m), Occurs(p, i, sep) PROVE FALSE
    <3>1. i \in 0..(j - 1)
      BY <1>1, <1>5, <1>8, <2>1
    <3>2. ASSUME NEW k \in 1..Len(sep) PROVE ByteAt(w, i + k - 1) = sep[k]
      <4>1. i + k - 1 \in 0..j /\ 0 + (i + k - 1) = i + k - 1
        BY <1>1, <1>5, <1>8 DEF m
      <4>2. ByteAt(p, i + k - 1) = sep[k]
        BY <2>2 DEF Occurs
      <4>3. ByteAt(p, i + k - 1) = ByteAt(w, 0 + (i + k - 1))
        BY <1>8, <4>1
      <4> QED BY <4>1, <4>2, <4>3
    <3>3. Occurs(w, i, sep)
      BY <3>2 DEF Occurs
    <3> QED BY <1>4, <3>1, <3>3
  <2>3. IsIndex(Index(p, sep), p, sep) /\ Index(p, sep) \in Int
    BY <1>8, IndexIs
  <2> QED BY <2>2, <2>3 DEF IsIndex, m
<1> QED BY <1>1, <1>5, <1>8, <1>9, <1>10, <1>11 DEF j, m, w

\* parts is what v is split into from i on.
IsSplit(parts, v, sep, i) ==
  /\ parts \in Seq(SliceSet) /\ parts /= <<>>
  /\ parts[1].at = v.at + i
  /\ LastPart(parts[Len(parts)], parts[Len(parts)].at - v.at, v, sep)
  /\ \A k \in 1..(Len(parts) - 1) : InnerPart(parts[k], parts[k + 1], parts[k].at - v.at, v, sep)

LEMMA ConsIs ==
  ASSUME NEW E, NEW x \in E, NEW t \in Seq(E)
  PROVE  /\ <<x>> \o t \in Seq(E) /\ Len(<<x>> \o t) = Len(t) + 1
         /\ (<<x>> \o t)[1] = x /\ \A k \in 1..Len(t) : (<<x>> \o t)[k + 1] = t[k]
<1>1. <<x>> \in Seq(E) /\ Len(<<x>>) = 1 /\ <<x>>[1] = x /\ Len(t) \in Nat
  OBVIOUS
<1> DEFINE c == <<x>>
           s == c \o t
<1> HIDE DEF c
<1>2. /\ s \in Seq(E) /\ Len(s) = Len(c) + Len(t)
      /\ \A i \in 1..(Len(c) + Len(t)) : s[i] = IF i <= Len(c) THEN c[i] ELSE t[i - Len(c)]
  BY <1>1, ConcatProperties DEF c
<1>3. Len(c) = 1 /\ c[1] = x
  BY <1>1 DEF c
<1> HIDE DEF s
<1>4. s[1] = x
  BY <1>1, <1>2, <1>3
<1>5. ASSUME NEW k \in 1..Len(t) PROVE s[k + 1] = t[k]
  <2> DEFINE i == k + 1
  <2>1. i \in 1..(Len(c) + Len(t)) /\ ~(i <= Len(c)) /\ i - Len(c) = k
    BY <1>1, <1>3
  <2> HIDE DEF i
  <2>2. s[i] = t[k]
    BY <1>2, <2>1
  <2> QED BY <2>2 DEF i
<1>6. s \in Seq(E) /\ Len(s) = Len(t) + 1
  BY <1>1, <1>2, <1>3
<1> QED BY <1>4, <1>5, <1>6 DEF s, c

LEMMA SplitOfOne ==
  ASSUME NEW v, OKSlice(v), NEW sep \in Seq(Char), NEW i \in 0..v.len,
         Index(CutFrom(v, i), sep) = -1
  PROVE  IsSplit(<<CutFrom(v, i)>>, v, sep, i)
<1> DEFINE p == CutFrom(v, i)
           parts == <<p>>
<1>1. LastPart(p, i, v, sep)
  BY DEF LastPart
<1>2. p.at = v.at + i /\ p \in SliceSet /\ v.at \in Nat
  BY <1>1, LastPartIs, ByteIs
<1> HIDE DEF p
<1>3. parts \in Seq(SliceSet) /\ Len(parts) = 1 /\ parts[1] = p /\ parts /= <<>>
  BY <1>2
<1>4. p.at - v.at = i
  BY <1>2
<1> HIDE DEF parts
<1>5. IsSplit(parts, v, sep, i)
  <2>1. \A k \in 1..(Len(parts) - 1) : FALSE
    BY <1>3
  <2> QED BY <1>1, <1>2, <1>3, <1>4, <2>1 DEF IsSplit
<1> QED BY <1>5 DEF parts, p

LEMMA SplitOfMore ==
  ASSUME NEW v, OKSlice(v), NEW sep \in Seq(Char), NEW i \in 0..v.len,
         NEW j, j = Index(CutFrom(v, i), sep), j /= -1, NEW t, IsSplit(t, v, sep, i + j + Len(sep))
  PROVE  IsSplit(<<Cut(CutFrom(v, i), 0, j)>> \o t, v, sep, i)
<1> DEFINE p == Cut(CutFrom(v, i), 0, j)
           parts == <<p>> \o t
           n == Len(t)
<1>1. v.at \in Nat /\ v.len \in Nat /\ Len(sep) \in Nat /\ j \in Int
  <2>1. OKSlice(CutFrom(v, i))
    BY CutFromIs DEF IsPart
  <2> QED BY <2>1, ByteIs, IndexIs
<1>2. t \in Seq(SliceSet) /\ n \in Nat \ {0} /\ t[1].at = v.at + (i + j + Len(sep))
  BY EmptySeq DEF IsSplit
<1>3. t[1].at = v.at + i + j + Len(sep)
  BY <1>1, <1>2
<1>4. InnerPart(p, t[1], i, v, sep)
  BY <1>3 DEF InnerPart
<1>5. p.at = v.at + i /\ p \in SliceSet
  BY <1>4, InnerPartIs
<1> HIDE DEF p
<1>6. /\ parts \in Seq(SliceSet) /\ Len(parts) = n + 1
      /\ parts[1] = p /\ \A k \in 1..n : parts[k + 1] = t[k]
  BY <1>2, <1>5, ConsIs
<1> HIDE DEF parts, n
<1>7. parts /= <<>>
  BY <1>2, <1>6
<1>8. LastPart(parts[n + 1], parts[n + 1].at - v.at, v, sep)
  <2>1. n \in 1..n
    BY <1>2
  <2>2. parts[n + 1] = t[n]
    BY <1>6, <2>1
  <2> QED BY <2>2 DEF IsSplit, n
<1>9. ASSUME NEW k \in 1..n PROVE InnerPart(parts[k], parts[k + 1], parts[k].at - v.at, v, sep)
  <2>1. CASE k = 1
    <3>1. parts[k] = p /\ parts[k + 1] = t[1] /\ p.at - v.at = i
      BY <1>1, <1>2, <1>5, <1>6, <2>1
    <3> QED BY <1>4, <3>1
  <2>2. CASE k /= 1
    <3> DEFINE m == k - 1
    <3>1. m \in 1..(n - 1) /\ m \in 1..n /\ m + 1 \in 1..n /\ k = m + 1
      BY <1>2, <2>2
    <3> HIDE DEF m
    <3>2. parts[k] = t[m] /\ parts[k + 1] = t[m + 1]
      BY <1>6, <3>1
    <3>3. InnerPart(t[m], t[m + 1], t[m].at - v.at, v, sep)
      BY <3>1 DEF IsSplit, n
    <3> QED BY <3>2, <3>3
  <2> QED BY <2>1, <2>2
<1>10. IsSplit(parts, v, sep, i)
  <2>1. LastPart(parts[Len(parts)], parts[Len(parts)].at - v.at, v, sep)
    BY <1>6, <1>8
  <2>2. Len(parts) - 1 = n
    BY <1>2, <1>6
  <2>3. \A k \in 1..(Len(parts) - 1) : InnerPart(parts[k], parts[k + 1], parts[k].at - v.at, v, sep)
    BY <1>9, <2>2
  <2>4. parts[1].at = v.at + i
    BY <1>5, <1>6
  <2>5. parts \in Seq(SliceSet) /\ parts /= <<>>
    BY <1>6, <1>7
  <2> QED BY <2>1, <2>3, <2>4, <2>5, Zenon DEF IsSplit
<1> QED BY <1>10 DEF parts, p

\* Where the separator is found, and the part before that.
LEMMA SplitPlace ==
  ASSUME NEW v, OKSlice(v), NEW sep \in Seq(Char), NEW i \in 0..v.len,
         NEW j, j = Index(CutFrom(v, i), sep)
  PROVE  /\ j \in Int /\ (j < 0 <=> j = -1)
         /\ OKSlice(CutFrom(v, i)) /\ CutFrom(v, i) \in SliceSet
         /\ j /= -1 => /\ j \in Nat /\ i + j + Len(sep) \in i..v.len
                       /\ OKSlice(Cut(CutFrom(v, i), 0, j)) /\ Cut(CutFrom(v, i), 0, j) \in SliceSet
<1> DEFINE w == CutFrom(v, i)
<1>1. v.len \in Nat /\ Len(sep) \in Nat
  BY ByteIs
<1>2. OKSlice(w) /\ w.len = v.len - i
  BY CutFromIs DEF IsPart
<1> HIDE DEF w
<1>3. w \in SliceSet
  BY <1>2 DEF OKSlice
<1>4. j \in Int /\ IsIndex(j, w, sep)
  BY <1>2, IndexIs DEF w
<1>5. j < 0 <=> j = -1
  BY <1>1, <1>2, <1>4 DEF IsIndex
<1>6. ASSUME j /= -1
      PROVE  j \in Nat /\ i + j + Len(sep) \in i..v.len /\ OKSlice(Cut(w, 0, j)) /\ Cut(w, 0, j) \in SliceSet
  <2>1. j \in 0..(w.len - Len(sep))
    BY <1>4, <1>6 DEF IsIndex
  <2>2. j \in Nat /\ i + j + Len(sep) \in i..v.len /\ 0 + j <= w.len /\ 0 \in Nat
    BY <1>1, <1>2, <2>1
  <2>3. IsPart(Cut(w, 0, j), w, 0, j)
    BY <1>2, <2>2, CutIs
  <2> QED BY <2>2, <2>3 DEF IsPart, OKSlice
<1> QED BY <1>2, <1>3, <1>4, <1>5, <1>6 DEF w

\* Split ends, and its parts lie between the first places of the separator.
LEMMA SplitAtIs ==
  ASSUME NEW v, OKSlice(v), NEW sep \in Seq(Char), sep /= <<>>
  PROVE  IsSplit(SplitAt(v, sep), v, sep, 0)
<1> DEFINE D == 0..v.len
           S == Seq(SliceSet)
           j(i) == Index(CutFrom(v, i), sep)
           body(i, f) == IF j(i) < 0 THEN <<CutFrom(v, i)>>
                         ELSE <<Cut(CutFrom(v, i), 0, j(i))>> \o f[i + j(i) + Len(sep)]
           G(g) == g = [i \in D |-> body(i, g)]
           split == CHOOSE g : G(g)
<1>1. v.len \in Nat /\ Len(sep) \in Nat /\ Len(sep) > 0 /\ 0 \in D
  BY ByteIs, EmptySeq
<1>2. SplitAt(v, sep) = split[0]
  BY DEF SplitAt
<1>3. ASSUME NEW i \in D
      PROVE  /\ j(i) \in Int /\ (j(i) < 0 <=> j(i) = -1) /\ CutFrom(v, i) \in SliceSet
             /\ j(i) /= -1 => /\ i + j(i) + Len(sep) \in D /\ i < i + j(i) + Len(sep)
                              /\ Cut(CutFrom(v, i), 0, j(i)) \in SliceSet
  <2>1. /\ j(i) \in Int /\ (j(i) < 0 <=> j(i) = -1)
        /\ CutFrom(v, i) \in SliceSet
        /\ j(i) /= -1 => /\ j(i) \in Nat /\ i + j(i) + Len(sep) \in i..v.len
                         /\ Cut(CutFrom(v, i), 0, j(i)) \in SliceSet
    BY SplitPlace
  <2> HIDE DEF j
  <2>2. j(i) /= -1 => i + j(i) + Len(sep) \in D /\ i < i + j(i) + Len(sep)
    BY <1>1, <2>1
  <2> QED BY <2>1, <2>2
<1> HIDE DEF j
<1>4. \E g : g \in [D -> S] /\ G(g)
  <2> DEFINE rank == [i \in D |-> v.len - i]
             step == [p \in D \X [D -> S] |-> body(p[1], p[2])]
  <2>1. rank \in [D -> Nat]
    BY <1>1
  <2>2. ASSUME NEW i \in D, NEW f \in [D -> S] PROVE body(i, f) \in S
    <3>1. CASE j(i) < 0
      BY <1>3, <3>1
    <3>2. CASE ~(j(i) < 0)
      <4>1. f[i + j(i) + Len(sep)] \in S /\ Cut(CutFrom(v, i), 0, j(i)) \in SliceSet
        BY <1>3, <3>2
      <4>2. <<Cut(CutFrom(v, i), 0, j(i))>> \o f[i + j(i) + Len(sep)] \in S
        BY <4>1, ConsIs
      <4> QED BY <3>2, <4>2
    <3> QED BY <3>1, <3>2
  <2>3. \A i \in D : \A f, g \in [D -> S] :
          (\A e \in D : rank[e] < rank[i] => f[e] = g[e]) => body(i, f) = body(i, g)
    <3> SUFFICES ASSUME NEW i \in D, NEW f \in [D -> S], NEW g \in [D -> S],
                        \A e \in D : rank[e] < rank[i] => f[e] = g[e]
                 PROVE  body(i, f) = body(i, g)
      OBVIOUS
    <3>1. CASE j(i) < 0
      BY <3>1
    <3>2. CASE ~(j(i) < 0)
      <4> DEFINE e == i + j(i) + Len(sep)
      <4>1. e \in D /\ i < e
        BY <1>3, <3>2
      <4> HIDE DEF e
      <4>2. rank[e] < rank[i]
        BY <1>1, <4>1
      <4>3. f[e] = g[e]
        BY <4>1, <4>2
      <4> QED BY <3>2, <4>3 DEF e
    <3> QED BY <3>1, <3>2
  <2> HIDE DEF rank, body
  <2>4. \A i \in D, f \in [D -> S] : step[<<i, f>>] = body(i, f)
    OBVIOUS
  <2>5. step \in [D \X [D -> S] -> S]
    <3>1. \A p \in D \X [D -> S] : p[1] \in D /\ p[2] \in [D -> S]
      OBVIOUS
    <3> HIDE DEF D, S
    <3>2. \A p \in D \X [D -> S] : body(p[1], p[2]) \in S
      BY <2>2, <3>1
    <3> QED BY <3>2
  <2>6. S /= {}
    BY EmptySeq
  <2> HIDE DEF D, S, step
  <2>7. IsRecursive(D, S, rank, step)
    <3>1. \A i \in D : \A f, g \in [D -> S] :
            (\A e \in D : rank[e] < rank[i] => f[e] = g[e]) => step[<<i, f>>] = step[<<i, g>>]
      <4> SUFFICES ASSUME NEW i \in D, NEW f \in [D -> S], NEW g \in [D -> S],
                          \A e \in D : rank[e] < rank[i] => f[e] = g[e]
                   PROVE  step[<<i, f>>] = step[<<i, g>>]
        BY Zenon
      <4>1. body(i, f) = body(i, g)
        BY <2>3, Zenon
      <4>2. step[<<i, f>>] = body(i, f) /\ step[<<i, g>>] = body(i, g)
        BY <2>4, Zenon
      <4> QED BY <4>1, <4>2, Zenon
    <3> QED BY <2>1, <2>5, <2>6, <3>1, Zenon DEF IsRecursive
  <2>8. PICK f \in [D -> S] : \A d \in D : f[d] = step[<<d, f>>]
    BY <2>7, RecursiveExists DEF IsMade
  <2>9. \A d \in D : f[d] = body(d, f)
    BY <2>4, <2>8
  <2>10. f = [d \in D |-> body(d, f)]
    BY <2>8, <2>9
  <2> QED BY <2>8, <2>10
<1>5. G(split)
  <2> HIDE DEF G
  <2> QED BY <1>4
<1> HIDE DEF split
<1>6. \A i \in D : split[i] = body(i, split)
  <2> HIDE DEF D, body
  <2> QED BY <1>5
<1> HIDE DEF G
<1> DEFINE N == {n \in Nat : \A i \in D : v.len - i < n => IsSplit(split[i], v, sep, i)}
<1>7. 0 \in N
  <2>1. \A i \in D : ~(v.len - i < 0)
    BY <1>1
  <2> QED BY <2>1
<1>8. ASSUME NEW n \in Nat, n \in N PROVE n + 1 \in N
  <2> SUFFICES ASSUME NEW i \in D, v.len - i < n + 1 PROVE IsSplit(split[i], v, sep, i)
    OBVIOUS
  <2>1. CASE j(i) < 0
    <3>1. split[i] = <<CutFrom(v, i)>> /\ j(i) = -1
      BY <1>3, <1>6, <2>1
    <3>2. Index(CutFrom(v, i), sep) = -1
      BY <3>1 DEF j
    <3> QED BY <3>1, <3>2, SplitOfOne
  <2>2. CASE ~(j(i) < 0)
    <3> DEFINE e == i + j(i) + Len(sep)
    <3>1. split[i] = <<Cut(CutFrom(v, i), 0, j(i))>> \o split[e] /\ j(i) /= -1
      BY <1>3, <1>6, <2>2
    <3>2. e \in D /\ i < e
      BY <1>3, <2>2
    <3>3. IsSplit(split[e], v, sep, e)
      <4> HIDE DEF e
      <4>1. v.len - e < n
        BY <1>1, <3>2
      <4> QED BY <1>8, <3>2, <4>1
    <3>4. j(i) = Index(CutFrom(v, i), sep)
      BY DEF j
    <3> HIDE DEF D
    <3>5. i \in 0..v.len
      BY DEF D
    <3> QED BY <3>1, <3>3, <3>4, <3>5, SplitOfMore
  <2> QED BY <2>1, <2>2
<1> HIDE DEF N
<1>9. Nat \subseteq N
  BY <1>7, <1>8, InductionNat
<1>10. v.len + 1 \in N /\ v.len - 0 < v.len + 1
  BY <1>1, <1>9
<1> QED BY <1>1, <1>2, <1>10 DEF N

LEMMA OccursText ==
  ASSUME NEW v, OKSlice(v), NEW s \in Seq(Char), NEW i \in 0..(v.len - Len(s)), Occurs(v, i, s)
  PROVE  s = SubSeq(TextOf(v), i + 1, i + Len(s))
<1>1. v.len \in Nat /\ Len(s) \in Nat /\ i \in Nat /\ i + Len(s) <= v.len
  BY ByteIs
<1>2. IsPart(Cut(v, i, Len(s)), v, i, Len(s))
  BY <1>1, CutIs
<1>3. TextOf(Cut(v, i, Len(s))) = s
  BY <1>2, OccursIs
<1>4. TextOf(Cut(v, i, Len(s))) = SubSeq(TextOf(v), i + 1, i + Len(s))
  BY <1>1, <1>2, PartText
<1> QED BY <1>3, <1>4

LEMMA Adjacent ==
  ASSUME NEW t \in Seq(Char), NEW a \in Nat, NEW b \in Nat, NEW c \in Nat, a <= b, b <= c, c <= Len(t)
  PROVE  SubSeq(t, a + 1, b) \o SubSeq(t, b + 1, c) = SubSeq(t, a + 1, c)
<1> DEFINE m == a + 1
<1>1. m \in 1..(Len(t) + 1) /\ b \in (m - 1)..Len(t) /\ c \in b..Len(t)
  OBVIOUS
<1> HIDE DEF m
<1>2. SubSeq(t, m, b) \o SubSeq(t, b + 1, c) = SubSeq(t, m, c)
  BY <1>1, ConcatAdjacentSubSeq
<1> QED BY <1>2 DEF m

\* p is a part that starts at o, and ends where q says.
PartFrom(p, o, v, sep) ==
  /\ o \in Nat /\ p.len \in Nat /\ o + p.len <= v.len
  /\ OKSlice(p) /\ IsPart(p, v, o, p.len)
  /\ TextOf(p) = SubSeq(TextOf(v), o + 1, o + p.len)
  /\ sep /= <<>> => Index(p, sep) = -1

PartUpTo(p, q, o, v, sep) ==
  /\ q.at - v.at = o + p.len + Len(sep) /\ o + p.len + Len(sep) <= v.len
  /\ Index(CutFrom(v, o), sep) = p.len
  /\ p = Cut(CutFrom(v, o), 0, p.len)
  /\ sep = SubSeq(TextOf(v), o + p.len + 1, o + p.len + Len(sep))

LEMMA LastIs ==
  ASSUME NEW v, OKSlice(v), NEW sep \in Seq(Char), NEW p, NEW o, LastPart(p, o, v, sep)
  PROVE  PartFrom(p, o, v, sep) /\ o + p.len = v.len
<1>1. v.len \in Nat /\ o \in 0..v.len
  BY ByteIs DEF LastPart
<1>2. IsPart(p, v, o, v.len - o) /\ OKSlice(p) /\ Index(p, sep) = -1
  BY LastPartIs DEF LastPart
<1>3. p.len = v.len - o
  BY <1>2 DEF IsPart
<1>4. IsPart(p, v, o, p.len)
  BY <1>2, <1>3
<1>5. o \in Nat /\ p.len \in Nat /\ o + p.len = v.len /\ o + p.len <= v.len
  BY <1>1, <1>3
<1>6. TextOf(p) = SubSeq(TextOf(v), o + 1, o + p.len)
  BY <1>4, <1>5, PartText
<1> QED BY <1>2, <1>4, <1>5, <1>6 DEF PartFrom

LEMMA InnerIs ==
  ASSUME NEW v, OKSlice(v), NEW sep \in Seq(Char), NEW p, NEW q, NEW o, InnerPart(p, q, o, v, sep)
  PROVE  PartFrom(p, o, v, sep) /\ PartUpTo(p, q, o, v, sep)
<1> DEFINE l == p.len
           m == Len(sep)
           e == o + l
<1>1. v.len \in Nat /\ v.at \in Nat /\ m \in Nat /\ o \in Nat
  <2>1. v.len \in Nat /\ v.at \in Nat /\ o \in 0..v.len
    BY ByteIs DEF InnerPart
  <2> QED BY <2>1
<1>2. /\ IsPart(p, v, o, l) /\ OKSlice(p) /\ l \in Nat /\ o + l + m <= v.len
      /\ l = Index(CutFrom(v, o), sep) /\ q.at = v.at + (o + l + m)
      /\ Occurs(v, e, sep) /\ (sep /= <<>> => Index(p, sep) = -1)
  BY InnerPartIs
<1>3. p = Cut(CutFrom(v, o), 0, l)
  BY <1>2 DEF InnerPart
<1> HIDE DEF l, m
<1>4. e \in Nat /\ e \in 0..(v.len - m) /\ o + l <= v.len
  BY <1>1, <1>2
<1>5. q.at - v.at = o + l + m
  BY <1>1, <1>2
<1>6. sep = SubSeq(TextOf(v), e + 1, e + m)
  <2> HIDE DEF e
  <2> QED BY <1>2, <1>4, OccursText DEF m
<1>7. TextOf(p) = SubSeq(TextOf(v), o + 1, o + l)
  BY <1>1, <1>2, <1>4, PartText
<1>8. PartFrom(p, o, v, sep)
  BY <1>1, <1>2, <1>4, <1>7 DEF PartFrom, l
<1>9. PartUpTo(p, q, o, v, sep)
  BY <1>2, <1>3, <1>5, <1>6 DEF PartUpTo, l, m
<1> QED BY <1>8, <1>9

LEMMA PartIs ==
  ASSUME NEW v, OKSlice(v), NEW sep \in Seq(Char), NEW i, NEW parts, IsSplit(parts, v, sep, i),
         NEW k \in 1..Len(parts)
  PROVE  /\ PartFrom(parts[k], parts[k].at - v.at, v, sep)
         /\ k = Len(parts) => /\ parts[k].at - v.at + parts[k].len = v.len
                              /\ parts[k] = CutFrom(v, parts[k].at - v.at)
         /\ k < Len(parts) => PartUpTo(parts[k], parts[k + 1], parts[k].at - v.at, v, sep)
<1>1. Len(parts) \in Nat
  BY DEF IsSplit
<1> DEFINE o == parts[k].at - v.at
<1>2. CASE k = Len(parts)
  <2>1. LastPart(parts[k], o, v, sep)
    BY <1>2 DEF IsSplit
  <2> HIDE DEF o
  <2>2. PartFrom(parts[k], o, v, sep) /\ o + parts[k].len = v.len /\ parts[k] = CutFrom(v, o)
    BY <2>1, LastIs DEF LastPart
  <2>3. ~(k < Len(parts))
    BY <1>1, <1>2
  <2> QED BY <2>2, <2>3 DEF o
<1>3. CASE k /= Len(parts)
  <2>1. k \in 1..(Len(parts) - 1)
    BY <1>1, <1>3
  <2>2. InnerPart(parts[k], parts[k + 1], o, v, sep)
    BY <2>1 DEF IsSplit
  <2> HIDE DEF o
  <2>3. PartFrom(parts[k], o, v, sep) /\ PartUpTo(parts[k], parts[k + 1], o, v, sep)
    BY <2>2, InnerIs
  <2> QED BY <1>3, <2>3 DEF o
<1> QED BY <1>2, <1>3

LEMMA TextsAre ==
  ASSUME NEW v, OKSlice(v), NEW sep \in Seq(Char), NEW i, NEW parts, IsSplit(parts, v, sep, i)
  PROVE  /\ Texts(parts) \in Seq(Seq(Char)) /\ Len(Texts(parts)) = Len(parts)
         /\ \A k \in 1..Len(parts) : Texts(parts)[k] = TextOf(parts[k])
<1>1. parts \in Seq(SliceSet) /\ Len(parts) \in Nat /\ DOMAIN parts = 1..Len(parts)
  BY LenProperties DEF IsSplit
<1>2. \A k \in 1..Len(parts) : TextOf(parts[k]) \in Seq(Char)
  BY PartIs, TextIs DEF PartFrom
<1>3. Texts(parts) = [k \in 1..Len(parts) |-> TextOf(parts[k])]
  BY <1>1 DEF Texts
<1> QED BY <1>1, <1>2, <1>3

\* What is joined up to a part is the text up to its end.
LEMMA JoinedUpTo ==
  ASSUME NEW v, OKSlice(v), NEW sep \in Seq(Char), NEW i \in Nat, NEW parts, IsSplit(parts, v, sep, i),
         NEW f, Joins(f, sep, Texts(parts)), NEW k \in 1..Len(parts)
  PROVE  /\ i <= parts[k].at - v.at
         /\ f[k] = SubSeq(TextOf(v), i + 1, parts[k].at - v.at + parts[k].len)
<1> DEFINE n == Len(parts)
           t == TextOf(v)
           o(h) == parts[h].at - v.at
           e(h) == o(h) + parts[h].len
           N == {h \in Nat : h + 1 <= n => i <= o(h + 1) /\ f[h + 1] = SubSeq(t, i + 1, e(h + 1))}
<1>1. /\ v.len \in Nat /\ v.at \in Nat /\ Len(sep) \in Nat /\ n \in Nat
      /\ t \in Seq(Char) /\ Len(t) = v.len /\ parts[1].at = v.at + i
  BY ByteIs, TextIs DEF IsSplit
<1>2. ASSUME NEW h \in 1..n
      PROVE  /\ o(h) \in Nat /\ parts[h].len \in Nat /\ o(h) + parts[h].len <= v.len
             /\ TextOf(parts[h]) = SubSeq(t, o(h) + 1, e(h))
             /\ h < n => /\ o(h + 1) = e(h) + Len(sep) /\ e(h) + Len(sep) <= v.len
                         /\ sep = SubSeq(t, e(h) + 1, e(h) + Len(sep))
  <2>1. PartFrom(parts[h], o(h), v, sep) /\ (h < n => PartUpTo(parts[h], parts[h + 1], o(h), v, sep))
    BY PartIs
  <2> QED BY <2>1 DEF PartFrom, PartUpTo
<1>3. \A h \in 1..n : Texts(parts)[h] = TextOf(parts[h])
  BY TextsAre
<1>4. f[0] = <<>> /\ \A h \in 1..n : f[h] = f[h - 1] \o (IF h > 1 THEN sep ELSE <<>>) \o Texts(parts)[h]
  BY TextsAre, ZenonT(40) DEF Joins
<1> HIDE DEF t, n
<1>5. \A h \in 1..n : e(h) \in Nat /\ e(h) <= v.len /\ o(h) <= e(h)
  <2> TAKE h \in 1..n
  <2> DEFINE x == o(h)
             l == parts[h].len
  <2>1. x \in Nat /\ l \in Nat /\ x + l <= v.len
    BY <1>2
  <2> HIDE DEF x, l
  <2>2. x + l \in Nat /\ x + l <= v.len /\ x <= x + l
    BY <2>1
  <2> QED BY <2>2 DEF x, l
<1>6. o(1) = i
  BY <1>1
<1> HIDE DEF o, e
<1>7. 0 \in N
  <2> SUFFICES ASSUME 0 + 1 <= n PROVE i <= o(0 + 1) /\ f[0 + 1] = SubSeq(t, i + 1, e(0 + 1))
    OBVIOUS
  <2>1. 1 \in 1..n /\ 0 + 1 = 1 /\ 1 - 1 = 0
    BY <1>1
  <2>2. f[1] = f[0] \o <<>> \o Texts(parts)[1]
    <3>1. ~(1 > 1)
      OBVIOUS
    <3>2. f[1] = f[0] \o (IF 1 > 1 THEN sep ELSE <<>>) \o Texts(parts)[1]
      BY <1>4, <2>1
    <3> QED BY <3>1, <3>2, Zenon
  <2>3. Texts(parts)[1] = SubSeq(t, i + 1, e(1))
    BY <1>2, <1>3, <1>6, <2>1
  <2>4. Texts(parts)[1] \in Seq(Char)
    <3>1. Texts(parts) \in Seq(Seq(Char)) /\ Len(Texts(parts)) = n
      BY TextsAre DEF n
    <3> QED BY <2>1, <3>1, ElementOfSeq
  <2>5. f[1] = Texts(parts)[1]
    BY <1>4, <2>2, <2>4
  <2> QED BY <1>6, <2>1, <2>3, <2>5
<1>8. ASSUME NEW h \in Nat, h \in N PROVE h + 1 \in N
  <2> DEFINE a == h + 1
             b == a + 1
  <2> SUFFICES ASSUME b <= n PROVE i <= o(b) /\ f[b] = SubSeq(t, i + 1, e(b))
    OBVIOUS
  <2>1. a \in 1..n /\ b \in 1..n /\ a < n /\ b > 1 /\ b - 1 = a /\ a + 1 = b
    BY <1>1
  <2>2. i <= o(a) /\ f[a] = SubSeq(t, i + 1, e(a))
    BY <1>8, <2>1
  <2> HIDE DEF a, b
  <2>3. f[b] = f[a] \o sep \o Texts(parts)[b]
    BY <1>4, <2>1
  <2>4. sep = SubSeq(t, e(a) + 1, e(a) + Len(sep)) /\ o(b) = e(a) + Len(sep) /\ e(a) + Len(sep) <= v.len
    BY <1>2, <2>1
  <2>5. Texts(parts)[b] = SubSeq(t, o(b) + 1, e(b))
    BY <1>2, <1>3, <2>1
  <2>6. e(a) \in Nat /\ e(b) \in Nat /\ o(a) \in Nat /\ o(b) \in Nat /\ o(b) <= e(b) /\ o(a) <= e(a) /\ e(b) <= v.len
    BY <1>2, <1>5, <2>1
  <2> DEFINE ea == e(a)
             eb == e(b)
             oa == o(a)
             ob == o(b)
             m == Len(sep)
             l == Len(t)
  <2>7. /\ ea \in Nat /\ eb \in Nat /\ oa \in Nat /\ ob \in Nat /\ ob <= eb /\ oa <= ea /\ eb <= l
        /\ i <= oa /\ ob = ea + m /\ m \in Nat /\ l \in Nat
    BY <1>1, <2>2, <2>4, <2>6
  <2> HIDE DEF ea, eb, oa, ob, m, l
  <2>8. i <= ea /\ ea <= ob /\ ob <= l /\ i <= ob
    BY <2>7
  <2>9. SubSeq(t, i + 1, ea) \o SubSeq(t, ea + 1, ob) = SubSeq(t, i + 1, ob)
    BY <1>1, <2>7, <2>8, Adjacent, SMTT(40) DEF l
  <2>10. SubSeq(t, i + 1, ob) \o SubSeq(t, ob + 1, eb) = SubSeq(t, i + 1, eb)
    BY <1>1, <2>7, <2>8, Adjacent, SMTT(40) DEF l
  <2>11. sep = SubSeq(t, ea + 1, ob)
    BY <2>4 DEF ea, ob
  <2>12. f[a] \o sep = SubSeq(t, i + 1, ob)
    BY <2>2, <2>9, <2>11 DEF ea
  <2>13. f[b] = SubSeq(t, i + 1, eb)
    BY <2>3, <2>5, <2>10, <2>12 DEF ob, eb
  <2> QED BY <2>8, <2>13 DEF ob, eb
<1> HIDE DEF N
<1>9. Nat \subseteq N
  BY <1>7, <1>8, InductionNat
<1>10. k - 1 \in N /\ k - 1 + 1 = k /\ k - 1 + 1 <= n
  BY <1>1, <1>9 DEF n
<1>11. i <= o(k) /\ f[k] = SubSeq(t, i + 1, e(k))
  BY <1>10 DEF N
<1> QED BY <1>11 DEF o, e, t

\* Joined with the separator, the parts are the text again.
LEMMA JoinOfSplit ==
  ASSUME NEW v, OKSlice(v), NEW sep \in Seq(Char), NEW i \in 0..v.len, NEW parts, IsSplit(parts, v, sep, i)
  PROVE  /\ Join(sep, Texts(parts)) = SubSeq(TextOf(v), i + 1, v.len)
         /\ TotalLen(sep, Texts(parts)) = Len(Join(sep, Texts(parts)))
<1> DEFINE texts == Texts(parts)
           n == Len(parts)
<1>1. texts \in Seq(Seq(Char)) /\ Len(texts) = n
  BY TextsAre
<1>2. PICK f : Joins(f, sep, texts)
  BY <1>1, JoinsExist
<1>3. n \in Nat /\ n \in 1..n /\ n /= 0
  <2>1. n \in Nat \ {0}
    BY EmptySeq DEF IsSplit
  <2> QED BY <2>1
<1>4. f[n] = SubSeq(TextOf(v), i + 1, parts[n].at - v.at + parts[n].len)
  BY <1>2, <1>3, JoinedUpTo
<1>5. parts[n].at - v.at + parts[n].len = v.len
  BY <1>3, PartIs
<1> HIDE DEF texts
<1>6. Join(sep, texts) = f[n]
  BY <1>1, <1>2, JoinIs
<1>7. TotalLen(sep, texts) = Len(f[n])
  <2>1. texts /= <<>>
    BY <1>1, <1>3
  <2> QED BY <1>1, <1>2, <2>1, TotalIs
<1> QED BY <1>4, <1>5, <1>6, <1>7 DEF texts

LEMMA SplitAtAgrees ==
  ASSUME NEW v, OKSlice(v), NEW sep \in Seq(Char), sep /= <<>>
  PROVE  SplitsAgree(v, sep)
<1> DEFINE parts == SplitAt(v, sep)
<1>1. IsSplit(parts, v, sep, 0)
  BY SplitAtIs
<1>2. Split(v, sep) = parts
  BY DEF Split
<1> HIDE DEF parts
<1>3. v.len \in Nat /\ 0 \in 0..v.len /\ TextOf(v) \in Seq(Char) /\ Len(TextOf(v)) = v.len
  BY ByteIs, TextIs
<1>4. DOMAIN parts = 1..Len(parts)
  BY <1>1 DEF IsSplit
<1>5. ASSUME NEW k \in DOMAIN parts PROVE ZeroEndTrue(parts[k]) /\ Index(parts[k], sep) = -1
  <2>1. OKSlice(parts[k]) /\ Index(parts[k], sep) = -1
    BY <1>1, <1>4, PartIs, SMTT(40) DEF PartFrom
  <2> QED BY <2>1 DEF OKSlice, ZeroEndTrue
<1>6. Join(sep, Texts(parts)) = SubSeq(TextOf(v), 0 + 1, v.len)
      /\ TotalLen(sep, Texts(parts)) = Len(Join(sep, Texts(parts)))
  BY <1>1, <1>3, JoinOfSplit
<1>7. Join(sep, Texts(parts)) = TextOf(v)
  <2>1. SubSeq(TextOf(v), 1, Len(TextOf(v))) = TextOf(v)
    BY <1>3, SubSeqFull
  <2> QED BY <1>3, <1>6, <2>1
<1> QED BY <1>2, <1>3, <1>5, <1>6, <1>7 DEF SplitsAgree

-----------------------------------------------------------------------------
(* Splits at white space.                                                  *)

\* What is not white space at a place of v.
Black(v, x) == x \in 0..(v.len - 1) /\ ByteAt(v, x) \notin Space

InPart(v, x, part) == x \in (part.at - v.at)..(part.at - v.at + part.len - 1)

EndOf(v, i) ==
  Min({CutFrom(v, i).len} \cup {j \in 1..(CutFrom(v, i).len - 1) : ByteAt(CutFrom(v, i), j) \in Space})

NextOf(v, i) == LTrim(CutFrom(CutFrom(v, i), EndOf(v, i)), Space).at - v.at

\* From i there is other than white space up to i + e, and white space from there to n.
IsRunAt(v, i, e, n) ==
  /\ e \in Nat /\ n \in Nat /\ e >= 1 /\ i + e <= n /\ n <= v.len
  /\ \A x \in (i + 1)..(i + e - 1) : Black(v, x)
  /\ \A x \in (i + e)..(n - 1) : ~Black(v, x)
  /\ ~Black(v, i + e)
  /\ n < v.len => Black(v, n)
  /\ IsPart(Cut(CutFrom(v, i), 0, e), v, i, e)

LEMMA RunPlace ==
  ASSUME NEW v, OKSlice(v), NEW i \in 0..(v.len - 1)
  PROVE  IsRunAt(v, i, EndOf(v, i), NextOf(v, i))
<1> DEFINE s == CutFrom(v, i)
           B == {j \in 1..(s.len - 1) : ByteAt(s, j) \in Space}
           e == EndOf(v, i)
           w == CutFrom(s, e)
<1>1. v.len \in Nat /\ v.at \in Nat /\ i \in Nat /\ i \in 0..v.len
  BY ByteIs
<1>2. IsPart(s, v, i, v.len - i)
  BY <1>1, CutFromIs
<1>3. OKSlice(s) /\ s.len = v.len - i /\ s.at = v.at + i /\ s.len \in Nat /\ s.len >= 1
      /\ \A j \in 0..s.len : ByteAt(s, j) = ByteAt(v, i + j)
  BY <1>1, <1>2 DEF IsPart
<1> HIDE DEF s
<1>4. e \in {s.len} \cup B /\ \A x \in {s.len} \cup B : e <= x
  <2>1. {s.len} \cup B \in SUBSET Nat /\ {s.len} \cup B /= {}
    BY <1>3
  <2>2. e = Min({s.len} \cup B)
    BY DEF EndOf, s
  <2> HIDE DEF B, e
  <2> QED BY <2>1, <2>2, MinIs
<1> HIDE DEF e
<1>5. e \in Nat /\ e >= 1 /\ e <= s.len /\ (e < s.len => ByteAt(s, e) \in Space) /\ e \in 0..s.len
  BY <1>3, <1>4
<1>6. ASSUME NEW j \in 1..(e - 1) PROVE ByteAt(s, j) \notin Space
  <2>1. j \in 1..(s.len - 1) /\ ~(e <= j)
    BY <1>3, <1>5
  <2>2. j \notin B
    <3> HIDE DEF B
    <3> QED BY <1>4, <2>1
  <2> QED BY <2>1, <2>2
<1> HIDE DEF B
<1>7. IsPart(Cut(s, 0, e), v, i, e)
  <2>1. 0 + e <= s.len /\ 0 \in Nat /\ i + 0 = i /\ v.len - i \in Nat /\ i + (v.len - i) <= v.len /\ 0 + e <= v.len - i
    BY <1>1, <1>3, <1>5
  <2>2. IsPart(Cut(s, 0, e), s, 0, e)
    BY <1>3, <1>5, <2>1, CutIs
  <2>3. IsPart(Cut(s, 0, e), v, i + 0, e)
    BY <1>1, <1>2, <1>5, <2>1, <2>2, PartOfPart
  <2> QED BY <2>1, <2>3
<1>8. IsPart(w, s, e, s.len - e)
  BY <1>3, <1>5, CutFromIs
<1>9. OKSlice(w) /\ w.len = s.len - e /\ w.at = s.at + e /\ w.len \in Nat
      /\ \A j \in 0..w.len : ByteAt(w, j) = ByteAt(s, e + j)
  BY <1>3, <1>5, <1>8 DEF IsPart
<1> HIDE DEF w
<1>10. PICK p \in 0..w.len : LTrim(w, Space) = CutFrom(w, p) /\ IsFront(p, w, Space)
  BY <1>9, LTrimIs
<1> DEFINE n == NextOf(v, i)
<1>11. n = CutFrom(w, p).at - v.at
  BY <1>10 DEF NextOf, w, s, e
<1>12. CutFrom(w, p).at = w.at + p
  BY <1>9, <1>10, CutFromIs DEF IsPart
<1> HIDE DEF n
<1>13. n = i + e + p /\ n \in Nat /\ i + e <= n /\ n <= v.len
  BY <1>1, <1>3, <1>5, <1>9, <1>10, <1>11, <1>12
<1>14. ASSUME NEW x \in (i + 1)..(i + e - 1) PROVE Black(v, x)
  <2>1. x - i \in 1..(e - 1) /\ x - i \in 0..s.len /\ i + (x - i) = x /\ x \in 0..(v.len - 1)
    BY <1>1, <1>3, <1>5
  <2>2. ByteAt(s, x - i) \notin Space
    BY <1>6, <2>1
  <2>3. ByteAt(s, x - i) = ByteAt(v, x)
    BY <1>3, <2>1
  <2> QED BY <2>1, <2>2, <2>3 DEF Black
<1>15. ASSUME NEW j \in 0..w.len PROVE ByteAt(w, j) = ByteAt(v, i + e + j)
  <2>1. e + j \in 0..s.len /\ i + (e + j) = i + e + j
    BY <1>1, <1>3, <1>5, <1>9
  <2>2. ByteAt(w, j) = ByteAt(s, e + j)
    BY <1>9
  <2>3. ByteAt(s, e + j) = ByteAt(v, i + (e + j))
    BY <1>3, <2>1
  <2> QED BY <2>1, <2>2, <2>3
<1>16. ASSUME NEW x \in (i + e)..(n - 1) PROVE ~Black(v, x)
  <2>1. x - i - e \in 0..(p - 1) /\ x - i - e \in 0..w.len /\ i + e + (x - i - e) = x
    BY <1>1, <1>5, <1>9, <1>10, <1>13
  <2>2. ByteAt(w, x - i - e) \in Space
    BY <1>10, <2>1 DEF IsFront
  <2>3. ByteAt(w, x - i - e) = ByteAt(v, x)
    BY <1>15, <2>1
  <2> QED BY <2>2, <2>3 DEF Black
<1>17. ~Black(v, i + e)
  <2>1. CASE e < s.len
    <3>1. ByteAt(s, e) \in Space /\ ByteAt(s, e) = ByteAt(v, i + e)
      BY <1>3, <1>5, <2>1
    <3> QED BY <3>1 DEF Black
  <2>2. CASE ~(e < s.len)
    <3>1. i + e = v.len
      BY <1>1, <1>3, <1>5, <2>2
    <3> QED BY <1>1, <3>1 DEF Black
  <2> QED BY <2>1, <2>2
<1>18. ASSUME n < v.len PROVE Black(v, n)
  <2>1. p < w.len
    BY <1>1, <1>3, <1>5, <1>9, <1>13, <1>18
  <2>2. ByteAt(w, p) \notin Space
    BY <1>10, <2>1 DEF IsFront
  <2>3. ByteAt(w, p) = ByteAt(v, n)
    BY <1>10, <1>13, <1>15
  <2>4. n \in 0..(v.len - 1)
    BY <1>1, <1>13, <1>18
  <2> QED BY <2>2, <2>3, <2>4 DEF Black
<1>19. IsRunAt(v, i, e, n)
  BY <1>5, <1>7, <1>13, <1>14, <1>16, <1>17, <1>18 DEF IsRunAt, s
<1> QED BY <1>19 DEF e, n

\* A run of v that starts no sooner than i.
IsRun(p, v, i) ==
  /\ OKSlice(p) /\ p.mem = v.mem /\ p.len \in Nat /\ p.len > 0 /\ p.at \in Nat
  /\ v.at + i <= p.at /\ p.at + p.len <= v.at + v.len
  /\ ~Black(v, p.at - v.at + p.len)
  /\ p.at - v.at = i \/ ~Black(v, p.at - v.at - 1)

\* parts are the runs of v from i on.
IsRuns(parts, v, i) ==
  /\ parts \in Seq(SliceSet)
  /\ \A x \in i..(v.len - 1) : Black(v, x) <=> \E k \in 1..Len(parts) : InPart(v, x, parts[k])
  /\ \A k \in 1..Len(parts) : IsRun(parts[k], v, i)
  /\ \A j, k \in 1..Len(parts) : j < k => parts[j].at < parts[k].at

LEMMA NoRuns ==
  ASSUME NEW v, OKSlice(v)
  PROVE  IsRuns(<<>>, v, v.len)
<1>1. v.len \in Nat
  BY ByteIs
<1>2. <<>> \in Seq(SliceSet) /\ Len(<<>>) = 0
  BY EmptySeq
<1>3. \A x \in v.len..(v.len - 1) : FALSE
  BY <1>1
<1>4. \A k \in 1..Len(<<>>) : FALSE
  BY <1>2
<1> QED BY <1>2, <1>3, <1>4 DEF IsRuns

LEMMA MoreRuns ==
  ASSUME NEW v, OKSlice(v), NEW i \in 0..(v.len - 1), Black(v, i), NEW e, NEW n, IsRunAt(v, i, e, n),
         NEW t, IsRuns(t, v, n), NEW c, c = Cut(CutFrom(v, i), 0, e)
  PROVE  IsRuns(<<c>> \o t, v, i)
<1> DEFINE parts == <<c>> \o t
           m == Len(t)
<1>1. v.len \in Nat /\ v.at \in Nat /\ i \in Nat /\ i < v.len
  BY ByteIs
<1>2. e \in Nat /\ n \in Nat /\ e >= 1 /\ i + e <= n /\ n <= v.len /\ i < n
  BY <1>1 DEF IsRunAt
<1>3. OKSlice(c) /\ c.mem = v.mem /\ c.at = v.at + i /\ c.len = e /\ c \in SliceSet
  BY DEF IsRunAt, IsPart, OKSlice
<1>4. t \in Seq(SliceSet) /\ m \in Nat
  BY DEF IsRuns
<1>5. parts \in Seq(SliceSet) /\ Len(parts) = m + 1 /\ parts[1] = c /\ \A k \in 1..m : parts[k + 1] = t[k]
  BY <1>3, <1>4, ConsIs
<1> HIDE DEF parts
<1>6. ASSUME NEW k \in 1..m PROVE IsRun(t[k], v, n)
  BY DEF IsRuns
<1> HIDE DEF m
<1>7. ASSUME NEW k \in 1..Len(parts) PROVE k = 1 \/ \E h \in 1..m : k = h + 1 /\ parts[k] = t[h]
  <2>1. CASE k /= 1
    <3>1. k - 1 \in 1..m /\ k = (k - 1) + 1
      BY <1>4, <1>5, <2>1
    <3> QED BY <1>5, <3>1
  <2> QED BY <2>1
<1>8. IsRun(c, v, i)
  <2>1. c.len \in Nat /\ c.len > 0 /\ c.at \in Nat /\ v.at + i <= c.at /\ c.at + c.len <= v.at + v.len
        /\ c.at - v.at = i /\ c.at - v.at + c.len = i + e
    BY <1>1, <1>2, <1>3
  <2>2. ~Black(v, c.at - v.at + c.len)
    BY <2>1 DEF IsRunAt
  <2> QED BY <1>3, <2>1, <2>2 DEF IsRun
<1>9. ASSUME NEW h \in 1..m PROVE IsRun(t[h], v, i) /\ c.at < t[h].at
  <2> DEFINE p == t[h]
             a == p.at
             l == p.len
  <2>1. IsRun(p, v, n)
    BY <1>6
  <2>2. /\ OKSlice(p) /\ p.mem = v.mem /\ l \in Nat /\ l > 0 /\ a \in Nat
        /\ v.at + n <= a /\ a + l <= v.at + v.len
        /\ ~Black(v, a - v.at + l)
        /\ a - v.at = n \/ ~Black(v, a - v.at - 1)
    BY <2>1 DEF IsRun
  <2> HIDE DEF a, l, p
  <2>3. v.at + i <= a /\ c.at < a /\ n < v.len
    BY <1>1, <1>2, <1>3, <2>2
  <2>4. CASE a - v.at = n
    <3>1. Black(v, n)
      BY <2>3 DEF IsRunAt
    <3>2. i + e /= n
      BY <3>1 DEF IsRunAt
    <3>3. n - 1 \in (i + e)..(n - 1)
      BY <1>1, <1>2, <3>2
    <3>4. ~Black(v, n - 1)
      BY <3>3 DEF IsRunAt
    <3>5. ~Black(v, a - v.at - 1)
      BY <2>4, <3>4
    <3> QED BY <2>2, <2>3, <3>5 DEF IsRun, a, l, p
  <2>5. CASE a - v.at /= n
    BY <2>2, <2>3, <2>5 DEF IsRun, a, l, p
  <2> QED BY <2>4, <2>5
<1>10. ASSUME NEW k \in 1..Len(parts) PROVE IsRun(parts[k], v, i)
  <2>1. CASE k = 1
    BY <1>5, <1>8, <2>1
  <2>2. ASSUME NEW h \in 1..m, parts[k] = t[h] PROVE IsRun(parts[k], v, i)
    BY <1>9, <2>2
  <2> QED BY <1>7, <2>1, <2>2
<1>11. ASSUME NEW j \in 1..Len(parts), NEW k \in 1..Len(parts), j < k PROVE parts[j].at < parts[k].at
  <2>1. k /= 1
    BY <1>4, <1>5, <1>11
  <2>2. PICK h \in 1..m : k = h + 1 /\ parts[k] = t[h]
    BY <1>7, <2>1
  <2>3. CASE j = 1
    BY <1>5, <1>9, <2>2, <2>3
  <2>4. CASE j /= 1
    <3>1. PICK g \in 1..m : j = g + 1 /\ parts[j] = t[g]
      BY <1>7, <2>4
    <3>2. g < h
      BY <1>4, <1>11, <2>2, <3>1
    <3>3. t[g].at < t[h].at
      BY <3>2 DEF IsRuns, m
    <3> QED BY <2>2, <3>1, <3>3
  <2> QED BY <2>3, <2>4
<1>12. ASSUME NEW x \in i..(v.len - 1)
       PROVE  Black(v, x) <=> \E k \in 1..Len(parts) : InPart(v, x, parts[k])
  <2>1. InPart(v, x, c) <=> x \in i..(i + e - 1)
    <3>1. c.at - v.at = i /\ c.at - v.at + c.len - 1 = i + e - 1
      BY <1>1, <1>2, <1>3
    <3> QED BY <3>1 DEF InPart
  <2>2. ASSUME NEW h \in 1..m, InPart(v, x, t[h]) PROVE x >= n
    <3> DEFINE a == t[h].at
               l == t[h].len
    <3>1. a \in Nat /\ l \in Nat /\ v.at + n <= a
      BY <1>6 DEF IsRun
    <3>2. x \in (a - v.at)..(a - v.at + l - 1)
      BY <2>2 DEF InPart
    <3> HIDE DEF a, l
    <3> QED BY <1>1, <1>2, <3>1, <3>2
  <2>3. 1 \in 1..Len(parts)
    BY <1>4, <1>5
  <2>4. CASE x \in i..(i + e - 1)
    <3>1. Black(v, x)
      <4>1. x = i \/ x \in (i + 1)..(i + e - 1)
        BY <1>1, <1>2, <2>4
      <4> QED BY <4>1 DEF IsRunAt
    <3> QED BY <1>5, <2>1, <2>3, <2>4, <3>1
  <2>5. CASE x \in (i + e)..(n - 1)
    <3>1. ~Black(v, x)
      BY <2>5 DEF IsRunAt
    <3>2. ASSUME NEW k \in 1..Len(parts), InPart(v, x, parts[k]) PROVE FALSE
      <4>1. ~(x \in i..(i + e - 1)) /\ ~(x >= n)
        BY <1>1, <1>2, <2>5
      <4> QED BY <1>5, <1>7, <2>1, <2>2, <3>2, <4>1
    <3> QED BY <3>1, <3>2
  <2>6. CASE x >= n
    <3>1. x \in n..(v.len - 1) /\ ~(x \in i..(i + e - 1))
      BY <1>1, <1>2, <2>6
    <3>2. Black(v, x) <=> \E h \in 1..m : InPart(v, x, t[h])
      BY <3>1 DEF IsRuns, m
    <3>3. ASSUME NEW h \in 1..m, InPart(v, x, t[h]) PROVE \E k \in 1..Len(parts) : InPart(v, x, parts[k])
      <4>1. h + 1 \in 1..Len(parts) /\ parts[h + 1] = t[h]
        BY <1>4, <1>5
      <4> QED BY <3>3, <4>1
    <3>4. ASSUME NEW k \in 1..Len(parts), InPart(v, x, parts[k]) PROVE \E h \in 1..m : InPart(v, x, t[h])
      BY <1>5, <1>7, <2>1, <3>1, <3>4
    <3> QED BY <3>2, <3>3, <3>4
  <2>7. x \in i..(i + e - 1) \/ x \in (i + e)..(n - 1) \/ x >= n
    BY <1>1, <1>2
  <2> QED BY <2>4, <2>5, <2>6, <2>7
<1>13. IsRuns(parts, v, i)
  BY <1>5, <1>10, <1>11, <1>12 DEF IsRuns
<1> QED BY <1>13 DEF parts

-----------------------------------------------------------------------------
(* Functions that put one text before what they are somewhere else.        *)

IsUnfold(D, E, rank, stop, last, head, next) ==
  /\ rank \in [D -> Nat] /\ last \in [D -> Seq(E)] /\ head \in [D -> Seq(E)] /\ next \in [D -> D]
  /\ \A d \in D : d \notin stop => rank[next[d]] < rank[d]

IsUnfolded(D, E, stop, last, head, next) ==
  \E f \in [D -> Seq(E)] : \A d \in D : f[d] = IF d \in stop THEN last[d] ELSE head[d] \o f[next[d]]

LEMMA UnfoldExists ==
  ASSUME NEW D, NEW E, NEW rank, NEW stop, NEW last, NEW head, NEW next,
         IsUnfold(D, E, rank, stop, last, head, next)
  PROVE  IsUnfolded(D, E, stop, last, head, next)
<1> DEFINE S == Seq(E)
           body(d, f) == IF d \in stop THEN last[d] ELSE head[d] \o f[next[d]]
           step == [p \in D \X [D -> S] |-> body(p[1], p[2])]
<1>0. rank \in [D -> Nat] /\ last \in [D -> S] /\ head \in [D -> S] /\ next \in [D -> D]
      /\ \A d \in D : d \notin stop => rank[next[d]] < rank[d]
  BY DEF IsUnfold
<1>1. ASSUME NEW d \in D, NEW f \in [D -> S] PROVE body(d, f) \in S
  <2>1. last[d] \in S /\ head[d] \in S /\ f[next[d]] \in S
    BY <1>0
  <2>2. head[d] \o f[next[d]] \in S
    BY <2>1, ConcatProperties
  <2> QED BY <2>1, <2>2
<1>2. ASSUME NEW d \in D, NEW f \in [D -> S], NEW g \in [D -> S],
             \A e \in D : rank[e] < rank[d] => f[e] = g[e]
      PROVE  body(d, f) = body(d, g)
  <2>1. CASE d \in stop
    BY <2>1
  <2>2. CASE d \notin stop
    <3>1. f[next[d]] = g[next[d]]
      BY <1>0, <1>2, <2>2
    <3> QED BY <2>2, <3>1
  <2> QED BY <2>1, <2>2
<1> HIDE DEF body
<1>3. \A d \in D, f \in [D -> S] : step[<<d, f>>] = body(d, f)
  OBVIOUS
<1>4. step \in [D \X [D -> S] -> S]
  <2>1. \A p \in D \X [D -> S] : p[1] \in D /\ p[2] \in [D -> S]
    OBVIOUS
  <2> HIDE DEF S
  <2>2. \A p \in D \X [D -> S] : body(p[1], p[2]) \in S
    BY <1>1, <2>1
  <2> QED BY <2>2
<1>5. S /= {}
  BY EmptySeq
<1> HIDE DEF S, step
<1>6. IsRecursive(D, S, rank, step)
  <2>1. \A d \in D : \A f, g \in [D -> S] :
          (\A e \in D : rank[e] < rank[d] => f[e] = g[e]) => step[<<d, f>>] = step[<<d, g>>]
    <3> SUFFICES ASSUME NEW d \in D, NEW f \in [D -> S], NEW g \in [D -> S],
                        \A e \in D : rank[e] < rank[d] => f[e] = g[e]
                 PROVE  step[<<d, f>>] = step[<<d, g>>]
      BY Zenon
    <3>1. body(d, f) = body(d, g)
      BY <1>2, Zenon
    <3>2. step[<<d, f>>] = body(d, f) /\ step[<<d, g>>] = body(d, g)
      BY <1>3, Zenon
    <3> QED BY <3>1, <3>2, Zenon
  <2> QED BY <1>0, <1>4, <1>5, <2>1, Zenon DEF IsRecursive
<1>7. PICK f \in [D -> S] : \A d \in D : f[d] = step[<<d, f>>]
  BY <1>6, RecursiveExists DEF IsMade
<1>8. \A d \in D : f[d] = body(d, f)
  BY <1>3, <1>7
<1> QED BY <1>7, <1>8 DEF IsUnfolded, body, S

\* Split at white space gives the runs of other bytes.
LEMMA SplitSpacesIs ==
  ASSUME NEW v, OKSlice(v), v.len = 0 \/ Black(v, 0)
  PROVE  IsRuns(SplitSpaces(v), v, 0)
<1> DEFINE D == 0..v.len
           piece(i) == Cut(CutFrom(v, i), 0, EndOf(v, i))
           body(i, f) == IF CutFrom(v, i).len = 0 THEN <<>> ELSE <<piece(i)>> \o f[NextOf(v, i)]
           G(g) == g = [i \in D |-> body(i, g)]
           split == CHOOSE g : G(g)
<1>1. v.len \in Nat /\ 0 \in D /\ v.len \in D
  BY ByteIs
<1>2. SplitSpaces(v) = split[0]
  BY DEF SplitSpaces, EndOf, NextOf
<1>3. \A i \in D : CutFrom(v, i).len = v.len - i
  BY CutFromIs DEF IsPart
<1>4. \A i \in D : CutFrom(v, i).len = 0 <=> i = v.len
  BY <1>1, <1>3
<1>5. ASSUME NEW i \in D, i /= v.len
      PROVE  IsRunAt(v, i, EndOf(v, i), NextOf(v, i)) /\ NextOf(v, i) \in D /\ i < NextOf(v, i)
             /\ piece(i) \in SliceSet
  <2>1. i \in 0..(v.len - 1)
    BY <1>1, <1>5
  <2>2. IsRunAt(v, i, EndOf(v, i), NextOf(v, i))
    BY <2>1, RunPlace
  <2> DEFINE e == EndOf(v, i)
             n == NextOf(v, i)
  <2>3. e \in Nat /\ n \in Nat /\ e >= 1 /\ i + e <= n /\ n <= v.len
    BY <2>2 DEF IsRunAt
  <2> HIDE DEF e, n
  <2>4. n \in D /\ i < n
    BY <1>1, <2>3
  <2> QED BY <2>2, <2>4 DEF n, IsRunAt, IsPart, OKSlice
<1> DEFINE rank == [i \in D |-> v.len - i]
           last == [i \in D |-> <<>>]
           head == [i \in D |-> IF i = v.len THEN <<>> ELSE <<piece(i)>>]
           next == [i \in D |-> IF i = v.len THEN i ELSE NextOf(v, i)]
<1>6. \E g : G(g)
  <2>1. rank \in [D -> Nat] /\ \A i \in D : rank[i] = v.len - i
    BY <1>1
  <2>2. last \in [D -> Seq(SliceSet)] /\ \A i \in D : last[i] = <<>>
    BY EmptySeq
  <2>3. head \in [D -> Seq(SliceSet)] /\ \A i \in D : head[i] = IF i = v.len THEN <<>> ELSE <<piece(i)>>
    <3>1. \A i \in D : i /= v.len => <<piece(i)>> \in Seq(SliceSet)
      <4> HIDE DEF piece
      <4> QED BY <1>5
    <3>2. \A i \in D : (IF i = v.len THEN <<>> ELSE <<piece(i)>>) \in Seq(SliceSet)
      BY <3>1, EmptySeq
    <3> HIDE DEF piece
    <3> QED BY <3>2
  <2>4. next \in [D -> D] /\ \A i \in D : next[i] = IF i = v.len THEN i ELSE NextOf(v, i)
    BY <1>5
  <2> HIDE DEF rank, last, head, next, D
  <2>5. \A i \in D : i \notin {v.len} => rank[next[i]] < rank[i]
    <3> SUFFICES ASSUME NEW i \in D, i /= v.len PROVE rank[next[i]] < rank[i]
      OBVIOUS
    <3> DEFINE n == NextOf(v, i)
    <3>1. next[i] = n /\ n \in D /\ i < n
      BY <1>5, <2>4
    <3> HIDE DEF n
    <3>2. rank[n] = v.len - n /\ rank[i] = v.len - i /\ n \in Int /\ i \in Int
      BY <2>1, <3>1 DEF D
    <3> QED BY <1>1, <3>1, <3>2
  <2>6. IsUnfolded(D, SliceSet, {v.len}, last, head, next)
    <3>1. IsUnfold(D, SliceSet, rank, {v.len}, last, head, next)
      BY <2>1, <2>2, <2>3, <2>4, <2>5 DEF IsUnfold
    <3> QED BY <3>1, UnfoldExists
  <2>7. PICK f \in [D -> Seq(SliceSet)] :
          \A i \in D : f[i] = IF i \in {v.len} THEN last[i] ELSE head[i] \o f[next[i]]
    BY <2>6 DEF IsUnfolded
  <2>8. ASSUME NEW i \in D PROVE f[i] = body(i, f)
    <3> HIDE DEF piece
    <3>1. CASE i = v.len
      BY <1>4, <2>2, <2>7, <3>1
    <3>2. CASE i /= v.len
      BY <1>4, <2>3, <2>4, <2>7, <3>2
    <3> QED BY <3>1, <3>2
  <2> HIDE DEF body
  <2>9. f = [i \in D |-> body(i, f)]
    BY <2>7, <2>8
  <2> QED BY <2>9
<1>7. G(split)
  <2> HIDE DEF G
  <2> QED BY <1>6
<1> HIDE DEF split
<1>8. \A i \in D : split[i] = body(i, split)
  <2> HIDE DEF D, body
  <2> QED BY <1>7
<1> HIDE DEF G, rank, last, head, next
<1> DEFINE N == {n \in Nat : \A i \in D : v.len - i < n /\ (i = v.len \/ Black(v, i)) => IsRuns(split[i], v, i)}
<1>9. 0 \in N
  <2>1. \A i \in D : ~(v.len - i < 0)
    BY <1>1
  <2> QED BY <2>1
<1>10. ASSUME NEW n \in Nat, n \in N PROVE n + 1 \in N
  <2> SUFFICES ASSUME NEW i \in D, v.len - i < n + 1, i = v.len \/ Black(v, i)
               PROVE  IsRuns(split[i], v, i)
    OBVIOUS
  <2>1. CASE i = v.len
    <3>1. split[i] = <<>>
      BY <1>4, <1>8, <2>1
    <3> QED BY <2>1, <3>1, NoRuns
  <2>2. CASE i /= v.len
    <3> DEFINE x == NextOf(v, i)
               c == piece(i)
    <3>1. split[i] = <<c>> \o split[x]
      BY <1>4, <1>8, <2>2
    <3>2. IsRunAt(v, i, EndOf(v, i), x) /\ x \in D /\ i < x
      BY <1>5, <2>2
    <3>3. c = Cut(CutFrom(v, i), 0, EndOf(v, i)) /\ Black(v, i) /\ i \in 0..(v.len - 1)
      BY <1>1, <2>2
    <3> HIDE DEF x, c
    <3>4. v.len - x < n
      BY <1>1, <3>2
    <3>5. x = v.len \/ Black(v, x)
      BY <1>1, <3>2 DEF IsRunAt
    <3>6. IsRuns(split[x], v, x)
      BY <1>10, <3>2, <3>4, <3>5
    <3> QED BY <3>1, <3>2, <3>3, <3>6, MoreRuns
  <2> QED BY <2>1, <2>2
<1> HIDE DEF N
<1>11. Nat \subseteq N
  BY <1>9, <1>10, InductionNat
<1>12. v.len + 1 \in N /\ v.len - 0 < v.len + 1
  BY <1>1, <1>11
<1> QED BY <1>1, <1>2, <1>12 DEF N

\* What is not white space in v is in what Trim leaves of it.
LEMMA BlackInside ==
  ASSUME NEW v, OKSlice(v), NEW w, NEW p, NEW q, IsTrim(w, v, Space, p, q), NEW y \in Int
  PROVE  Black(v, y) <=> Black(w, y - p)
<1>1. v.len \in Nat /\ p \in 0..v.len /\ q \in 0..(v.len - p) /\ w.len = q
      /\ \A x \in 0..q : ByteAt(w, x) = ByteAt(v, p + x)
  BY ByteIs DEF IsTrim, IsPart
<1>2. ASSUME Black(v, y) PROVE y - p \in 0..(q - 1)
  <2>1. y \in 0..(v.len - 1) /\ ByteAt(v, y) \notin Space
    BY <1>2 DEF Black
  <2>2. ~(y \in 0..(p - 1)) /\ ~(y \in (p + q)..(v.len - 1))
    BY <2>1 DEF IsTrim
  <2> QED BY <1>1, <2>1, <2>2
<1>3. ASSUME y - p \in 0..(q - 1) PROVE ByteAt(w, y - p) = ByteAt(v, y) /\ y \in 0..(v.len - 1)
  <2>1. y - p \in 0..q /\ p + (y - p) = y /\ y \in 0..(v.len - 1)
    BY <1>1, <1>3
  <2>2. ByteAt(w, y - p) = ByteAt(v, p + (y - p))
    BY <1>1, <2>1
  <2> QED BY <2>1, <2>2
<1> QED BY <1>1, <1>2, <1>3 DEF Black

LEMMA RunsOfTrimmed ==
  ASSUME NEW v, OKSlice(v), NEW w, NEW p, NEW q, IsTrim(w, v, Space, p, q),
         NEW parts, IsRuns(parts, w, 0)
  PROVE  AreRuns(parts, v) /\ \A k \in DOMAIN parts : ZeroEndTrue(parts[k])
<1>1. v.len \in Nat /\ v.at \in Nat /\ p \in 0..v.len /\ q \in 0..(v.len - p)
      /\ w.len = q /\ w.at = v.at + p /\ w.mem = v.mem
  BY ByteIs DEF IsTrim, IsPart
<1>2. DOMAIN parts = 1..Len(parts)
  BY DEF IsRuns
<1>3. ASSUME NEW k \in DOMAIN parts
      PROVE  /\ ZeroEndTrue(parts[k]) /\ parts[k].mem = v.mem /\ parts[k].len > 0
             /\ ~Black(v, parts[k].at - v.at - 1) /\ ~Black(v, parts[k].at - v.at + parts[k].len)
             /\ parts[k].at \in Nat /\ parts[k].len \in Nat
             /\ \A x \in Int : InPart(v, x, parts[k]) <=> InPart(w, x - p, parts[k])
  <2> DEFINE r == parts[k]
             a == r.at
             l == r.len
  <2>1. IsRun(r, w, 0)
    BY <1>2 DEF IsRuns
  <2>2. /\ OKSlice(r) /\ r.mem = w.mem /\ l \in Nat /\ l > 0 /\ a \in Nat
        /\ w.at + 0 <= a /\ a + l <= w.at + w.len /\ ~Black(w, a - w.at + l)
        /\ a - w.at = 0 \/ ~Black(w, a - w.at - 1)
    BY <2>1 DEF IsRun
  <2>3. ZeroEndTrue(r)
    BY <2>2 DEF OKSlice, ZeroEndTrue
  <2>4. \A x \in Int : InPart(v, x, r) <=> InPart(w, x - p, r)
    <3> SUFFICES ASSUME NEW x \in Int
                 PROVE  x \in (a - v.at)..(a - v.at + l - 1) <=> x - p \in (a - w.at)..(a - w.at + l - 1)
      BY DEF InPart
    <3> HIDE DEF a, l, r
    <3> QED BY <1>1, <2>2
  <2> HIDE DEF a, l
  <2>5. ~Black(v, a - v.at + l)
    <3> DEFINE y == a - v.at + l
    <3>1. y \in Int /\ y - p = a - w.at + l
      BY <1>1, <2>2
    <3> HIDE DEF y
    <3>2. ~Black(w, y - p)
      BY <2>2, <3>1, Zenon
    <3>3. ~Black(v, y)
      BY <3>1, <3>2, BlackInside
    <3> QED BY <3>3 DEF y
  <2>6. ~Black(v, a - v.at - 1)
    <3>1. a - v.at - 1 \in Int /\ a - v.at - 1 - p = a - w.at - 1
      BY <1>1, <2>2
    <3>2. ~Black(w, a - w.at - 1)
      <4>1. CASE a - w.at = 0
        <5>1. ~(a - w.at - 1 \in 0..(w.len - 1))
          BY <1>1, <2>2, <4>1
        <5> QED BY <5>1 DEF Black
      <4> QED BY <2>2, <4>1
    <3> QED BY <3>1, <3>2, BlackInside
  <2> QED BY <1>1, <2>2, <2>3, <2>4, <2>5, <2>6 DEF a, l
<1>4. ASSUME NEW x \in 0..(v.len - 1)
      PROVE  Black(v, x) <=> \E k \in DOMAIN parts : InPart(v, x, parts[k])
  <2>1. x \in Int /\ x - p \in Int
    BY <1>1
  <2>2. CASE x - p \in 0..(w.len - 1)
    <3>1. Black(w, x - p) <=> \E k \in 1..Len(parts) : InPart(w, x - p, parts[k])
      BY <2>2 DEF IsRuns
    <3> QED BY <1>2, <1>3, <2>1, <3>1, BlackInside
  <2>3. CASE ~(x - p \in 0..(w.len - 1))
    <3>1. ~Black(w, x - p)
      BY <2>3 DEF Black
    <3>2. ASSUME NEW k \in DOMAIN parts PROVE ~InPart(w, x - p, parts[k])
      <4> DEFINE r == parts[k]
                 a == r.at
                 l == r.len
                 y == x - p
      <4>1. IsRun(r, w, 0)
        BY <1>2 DEF IsRuns
      <4>2. l \in Nat /\ l > 0 /\ a \in Nat /\ w.at + 0 <= a /\ a + l <= w.at + w.len
        BY <4>1 DEF IsRun
      <4> HIDE DEF a, l
      <4>3. ~(y \in (a - w.at)..(a - w.at + l - 1))
        <5>1. y \in Int /\ ~(y \in 0..(w.len - 1))
          BY <2>1, <2>3
        <5> HIDE DEF y
        <5> QED BY <1>1, <4>2, <5>1
      <4> QED BY <4>3 DEF InPart, a, l
    <3> QED BY <1>3, <2>1, <3>1, <3>2, BlackInside
  <2> QED BY <2>2, <2>3
<1>5. \A j, k \in DOMAIN parts : j < k => parts[j].at < parts[k].at
  BY <1>2 DEF IsRuns
<1>6. AreRuns(parts, v)
  BY <1>3, <1>4, <1>5 DEF AreRuns, Black, InPart
<1> QED BY <1>3, <1>6

LEMMA SplitsAgreeHolds ==
  ASSUME NEW v, OKSlice(v), NEW sep \in Seq(Char)
  PROVE  SplitsAgree(v, sep)
<1>1. CASE sep /= <<>>
  BY <1>1, SplitAtAgrees
<1>2. CASE sep = <<>>
  <2> DEFINE w == Trim(v, Space)
             parts == SplitSpaces(w)
  <2>1. PICK p \in Nat, q \in Nat : IsTrim(w, v, Space, p, q)
    BY TrimIs
  <2>2. Split(v, sep) = parts
    BY <1>2 DEF Split
  <2> HIDE DEF w
  <2>3. OKSlice(w) /\ w.len = q /\ w.len \in Nat
    BY <2>1 DEF IsTrim, IsPart
  <2>4. w.len = 0 \/ Black(w, 0)
    <3> SUFFICES ASSUME q > 0 PROVE Black(w, 0)
      BY <2>3
    <3>1. ByteAt(v, p) \notin Space /\ p \in 0..(v.len - 1) /\ p - p = 0 /\ p \in Int
      <4>1. v.len \in Nat
        BY ByteIs
      <4> QED BY <2>1, <4>1 DEF IsTrim
    <3>2. Black(v, p)
      BY <3>1 DEF Black
    <3> QED BY <2>1, <3>1, <3>2, BlackInside
  <2>5. IsRuns(parts, w, 0)
    BY <2>3, <2>4, SplitSpacesIs
  <2> HIDE DEF parts
  <2>6. AreRuns(parts, v) /\ \A k \in DOMAIN parts : ZeroEndTrue(parts[k])
    BY <2>1, <2>5, RunsOfTrimmed
  <2> QED BY <1>2, <2>2, <2>6 DEF SplitsAgree
<1> QED BY <1>1, <1>2

-----------------------------------------------------------------------------
(* Replacements.                                                           *)

\* r holds what is made of v from a place on with so many replacements.
Replaces(r, v, a, b) ==
  /\ r \in [(0..v.len) \X Int -> Seq(Char)]
  /\ \A i \in 0..v.len, m \in Int :
       LET j == Index(CutFrom(v, i), a) IN
       r[<<i, m>>] = IF m <= 0 \/ j < 0 THEN TextOf(CutFrom(v, i))
                     ELSE TextOf(Cut(CutFrom(v, i), 0, j)) \o b \o r[<<i + j + Len(a), m - 1>>]

LEMMA ReplacesExist ==
  ASSUME NEW v, OKSlice(v), NEW a \in Seq(Char), a /= <<>>, NEW b \in Seq(Char), NEW count
  PROVE  \E r : Replaces(r, v, a, b) /\ ReplaceIn(v, a, b, count) = r[<<0, count>>]
<1> DEFINE I == 0..v.len
           D == I \X Int
           S == Seq(Char)
           j(i) == Index(CutFrom(v, i), a)
           one(i) == TextOf(CutFrom(v, i))
           piece(i) == TextOf(Cut(CutFrom(v, i), 0, j(i)))
           body(d, f) == IF d[2] <= 0 \/ j(d[1]) < 0 THEN one(d[1])
                         ELSE piece(d[1]) \o b \o f[<<d[1] + j(d[1]) + Len(a), d[2] - 1>>]
           G(g) == g = [d \in D |-> body(d, g)]
           replaced == CHOOSE g : G(g)
<1>1. v.len \in Nat /\ Len(a) \in Nat /\ Len(a) > 0
  BY ByteIs, EmptySeq
<1>2. ReplaceIn(v, a, b, count) = replaced[<<0, count>>]
  BY DEF ReplaceIn
<1>3. ASSUME NEW i \in I
      PROVE  /\ j(i) \in Int /\ one(i) \in S
             /\ ~(j(i) < 0) => /\ i + j(i) + Len(a) \in I /\ i < i + j(i) + Len(a)
                               /\ piece(i) \in S
  <2>1. /\ j(i) \in Int /\ (j(i) < 0 <=> j(i) = -1) /\ OKSlice(CutFrom(v, i))
        /\ j(i) /= -1 => /\ j(i) \in Nat /\ i + j(i) + Len(a) \in i..v.len
                         /\ OKSlice(Cut(CutFrom(v, i), 0, j(i)))
    BY SplitPlace
  <2>2. one(i) \in S /\ (j(i) /= -1 => piece(i) \in S)
    <3> HIDE DEF j
    <3> QED BY <2>1, TextIs
  <2> HIDE DEF j, one, piece
  <2>3. j(i) /= -1 => i + j(i) + Len(a) \in I /\ i < i + j(i) + Len(a)
    BY <1>1, <2>1
  <2> QED BY <2>1, <2>2, <2>3
<1> HIDE DEF j, one, piece
<1>4. \E g : g \in [D -> S] /\ G(g)
  <2> DEFINE stop == {d \in D : d[2] <= 0 \/ j(d[1]) < 0}
             rank == [d \in D |-> v.len - d[1]]
             last == [d \in D |-> one(d[1])]
             head == [d \in D |-> IF d \in stop THEN <<>> ELSE piece(d[1]) \o b]
             next == [d \in D |-> IF d \in stop THEN d ELSE <<d[1] + j(d[1]) + Len(a), d[2] - 1>>]
  <2>1. \A d \in D : d[1] \in I /\ d[2] \in Int /\ d = <<d[1], d[2]>>
    OBVIOUS
  <2>2. \A d \in D : d \in stop <=> d[2] <= 0 \/ j(d[1]) < 0
    OBVIOUS
  <2> HIDE DEF D, stop
  <2>3. rank \in [D -> Nat] /\ \A d \in D : rank[d] = v.len - d[1]
    BY <1>1, <2>1
  <2>4. last \in [D -> S] /\ \A d \in D : last[d] = one(d[1])
    BY <1>3, <2>1
  <2>5. head \in [D -> S] /\ \A d \in D : d \notin stop => head[d] = piece(d[1]) \o b /\ piece(d[1]) \in S
    <3>1. \A d \in D : d \notin stop => piece(d[1]) \in S
      BY <1>3, <2>1, <2>2
    <3>2. \A d \in D : d \notin stop => piece(d[1]) \o b \in S
      BY <3>1, ConcatProperties
    <3>3. <<>> \in S
      BY EmptySeq
    <3> HIDE DEF S
    <3> QED BY <3>1, <3>2, <3>3
  <2>6. /\ next \in [D -> D]
        /\ \A d \in D : d \notin stop => /\ next[d] = <<d[1] + j(d[1]) + Len(a), d[2] - 1>>
                                         /\ next[d] \in D /\ next[d][1] = d[1] + j(d[1]) + Len(a)
    <3>1. \A d \in D : d \notin stop => <<d[1] + j(d[1]) + Len(a), d[2] - 1>> \in D
      <4> SUFFICES ASSUME NEW d \in D, d \notin stop
                   PROVE  <<d[1] + j(d[1]) + Len(a), d[2] - 1>> \in D
        OBVIOUS
      <4>1. d[1] + j(d[1]) + Len(a) \in I /\ d[2] - 1 \in Int
        BY <1>3, <2>1, <2>2
      <4> HIDE DEF I
      <4> QED BY <4>1 DEF D
    <3> QED BY <3>1
  <2> HIDE DEF rank, last, head, next
  <2>7. \A d \in D : d \notin stop => rank[next[d]] < rank[d]
    <3> SUFFICES ASSUME NEW d \in D, d \notin stop PROVE rank[next[d]] < rank[d]
      OBVIOUS
    <3> DEFINE x == next[d]
               e == d[1] + j(d[1]) + Len(a)
    <3>1. x \in D /\ x[1] = e
      BY <2>6
    <3>2. d[1] \in I /\ e \in I /\ d[1] < e
      BY <1>3, <2>1, <2>2
    <3> HIDE DEF x, e
    <3>3. rank[x] = v.len - e /\ rank[d] = v.len - d[1]
      BY <2>3, <3>1
    <3>4. rank[x] < rank[d]
      BY <1>1, <3>2, <3>3
    <3> QED BY <3>4 DEF x
  <2>8. IsUnfolded(D, Char, stop, last, head, next)
    <3>1. IsUnfold(D, Char, rank, stop, last, head, next)
      BY <2>3, <2>4, <2>5, <2>6, <2>7 DEF IsUnfold
    <3> QED BY <3>1, UnfoldExists
  <2>9. PICK f \in [D -> S] : \A d \in D : f[d] = IF d \in stop THEN last[d] ELSE head[d] \o f[next[d]]
    BY <2>8 DEF IsUnfolded
  <2>10. ASSUME NEW d \in D PROVE f[d] = body(d, f)
    <3>1. CASE d \in stop
      BY <2>2, <2>4, <2>9, <3>1
    <3>2. CASE d \notin stop
      <4>1. f[d] = head[d] \o f[next[d]]
        BY <2>9, <3>2
      <4>2. head[d] = piece(d[1]) \o b /\ next[d] = <<d[1] + j(d[1]) + Len(a), d[2] - 1>>
        BY <2>5, <2>6, <3>2
      <4>3. ~(d[2] <= 0 \/ j(d[1]) < 0)
        BY <2>2, <3>2
      <4> QED BY <4>1, <4>2, <4>3, Zenon
    <3> QED BY <3>1, <3>2
  <2> HIDE DEF body
  <2>11. f = [d \in D |-> body(d, f)]
    BY <2>9, <2>10
  <2> QED BY <2>9, <2>11
<1>5. G(replaced)
  <2> HIDE DEF G
  <2> QED BY <1>4
<1> HIDE DEF replaced
<1>6. /\ replaced = [d \in D |-> replaced[d]]
      /\ \A i \in I, m \in Int :
           replaced[<<i, m>>] = IF m <= 0 \/ j(i) < 0 THEN one(i)
                                ELSE piece(i) \o b \o replaced[<<i + j(i) + Len(a), m - 1>>]
  <2>1. \A d \in D : replaced[d] = body(d, replaced)
    <3> HIDE DEF D, body
    <3> QED BY <1>5
  <2>2. \A i \in I, m \in Int : replaced[<<i, m>>] = body(<<i, m>>, replaced)
    <3> HIDE DEF body
    <3> QED BY <2>1
  <2>3. \A i \in I, m \in Int : body(<<i, m>>, replaced)
          = IF m <= 0 \/ j(i) < 0 THEN one(i) ELSE piece(i) \o b \o replaced[<<i + j(i) + Len(a), m - 1>>]
    OBVIOUS
  <2>4. replaced = [d \in D |-> replaced[d]]
    <3> HIDE DEF D, body
    <3> QED BY <1>5
  <2> HIDE DEF body
  <2> QED BY <2>2, <2>3, <2>4, Zenon
<1> HIDE DEF G
<1>7. replaced \in [D -> S]
  <2> DEFINE N == {n \in Nat : \A i \in I, m \in Int : v.len - i < n => replaced[<<i, m>>] \in S}
  <2>1. 0 \in N
    <3>1. \A i \in I : ~(v.len - i < 0)
      BY <1>1
    <3> QED BY <3>1
  <2>2. ASSUME NEW n \in Nat, n \in N PROVE n + 1 \in N
    <3> SUFFICES ASSUME NEW i \in I, NEW m \in Int, v.len - i < n + 1 PROVE replaced[<<i, m>>] \in S
      OBVIOUS
    <3>1. CASE m <= 0 \/ j(i) < 0
      BY <1>3, <1>6, <3>1
    <3>2. CASE ~(m <= 0 \/ j(i) < 0)
      <4> DEFINE e == i + j(i) + Len(a)
                 t == replaced[<<e, m - 1>>]
      <4>1. e \in I /\ i < e /\ piece(i) \in S
        BY <1>3, <3>2
      <4> HIDE DEF e
      <4>2. v.len - e < n /\ m - 1 \in Int
        BY <1>1, <4>1
      <4>3. t \in S
        BY <2>2, <4>1, <4>2
      <4>4. replaced[<<i, m>>] = piece(i) \o b \o t
        BY <1>6, <3>2 DEF e
      <4> HIDE DEF t
      <4> QED BY <4>1, <4>3, <4>4, ThreeTexts
    <3> QED BY <3>1, <3>2
  <2> HIDE DEF N
  <2>3. Nat \subseteq N
    BY <2>1, <2>2, InductionNat
  <2>4. ASSUME NEW i \in I, NEW m \in Int PROVE replaced[<<i, m>>] \in S
    <3>1. v.len - i + 1 \in Nat /\ v.len - i < v.len - i + 1
      BY <1>1
    <3>2. v.len - i + 1 \in N
      BY <2>3, <3>1
    <3> QED BY <3>1, <3>2 DEF N
  <2>5. \A d \in D : replaced[d] \in S
    <3>1. \A d \in D : d[1] \in I /\ d[2] \in Int /\ d = <<d[1], d[2]>>
      OBVIOUS
    <3> HIDE DEF D
    <3> QED BY <2>4, <3>1
  <2> HIDE DEF D
  <2> QED BY <1>6, <2>5
<1>8. Replaces(replaced, v, a, b)
  BY <1>6, <1>7, Zenon DEF Replaces, j, one, piece
<1> QED BY <1>2, <1>8

\* The places where v is split are those where it is replaced.
IsReplacedAt(r, v, a, b, parts, k, m) ==
  /\ parts[k].at - v.at \in 0..v.len
  /\ m = 0 \/ k = Len(parts) =>
       r[<<parts[k].at - v.at, m>>] = SubSeq(TextOf(v), parts[k].at - v.at + 1, v.len)
  /\ m > 0 /\ k < Len(parts) =>
       r[<<parts[k].at - v.at, m>>] = Texts(parts)[k] \o b \o r[<<parts[k + 1].at - v.at, m - 1>>]

LEMMA ReplacedAt ==
  ASSUME NEW v, OKSlice(v), NEW a \in Seq(Char), a /= <<>>, NEW b \in Seq(Char),
         NEW r, Replaces(r, v, a, b), NEW parts, IsSplit(parts, v, a, 0),
         NEW k \in 1..Len(parts), NEW m \in Nat
  PROVE  IsReplacedAt(r, v, a, b, parts, k, m)
<1> DEFINE p == parts[k]
           o == p.at - v.at
           l == p.len
           s == CutFrom(v, o)
           j == Index(s, a)
           n == Len(parts)
<1>1. v.len \in Nat /\ v.at \in Nat /\ Len(a) \in Nat /\ n \in Nat
  BY ByteIs DEF IsSplit
<1>2. PartFrom(p, o, v, a)
      /\ (k = n => o + l = v.len /\ p = s)
      /\ (k < n => PartUpTo(p, parts[k + 1], o, v, a))
  BY PartIs
<1>3. Texts(parts)[k] = TextOf(p)
  BY TextsAre
<1> HIDE DEF n
<1>4. o \in Nat /\ l \in Nat /\ o + l <= v.len /\ (a /= <<>> => Index(p, a) = -1)
  BY <1>2 DEF PartFrom
<1>5. k < n => j = l /\ p = Cut(s, 0, l) /\ parts[k + 1].at - v.at = o + l + Len(a)
  BY <1>2 DEF PartUpTo
<1> HIDE DEF p, l
<1>6. o \in 0..v.len
  BY <1>1, <1>4
<1> HIDE DEF o
<1>7. r[<<o, m>>] = IF m <= 0 \/ j < 0 THEN TextOf(s)
                    ELSE TextOf(Cut(s, 0, j)) \o b \o r[<<o + j + Len(a), m - 1>>]
  <2>1. m \in Int
    OBVIOUS
  <2> QED BY <1>6, <2>1, Zenon DEF Replaces
<1>8. TextOf(s) = SubSeq(TextOf(v), o + 1, v.len)
  <2>1. IsPart(s, v, o, v.len - o)
    BY <1>6, CutFromIs
  <2> DEFINE x == v.len - o
  <2>2. x \in Nat /\ o + x = v.len /\ o + x <= v.len
    BY <1>1, <1>6
  <2> HIDE DEF x, s
  <2>3. TextOf(s) = SubSeq(TextOf(v), o + 1, o + x)
    BY <1>4, <2>1, <2>2, PartText DEF x
  <2> QED BY <2>2, <2>3
<1> HIDE DEF s
<1>9. ASSUME m = 0 \/ k = n PROVE r[<<o, m>>] = SubSeq(TextOf(v), o + 1, v.len)
  <2>1. m <= 0 \/ j < 0
    <3>1. k = n => j = -1
      BY <1>2, <1>4 DEF j
    <3> HIDE DEF j
    <3> QED BY <1>9, <3>1
  <2> QED BY <1>7, <1>8, <2>1, Zenon
<1> HIDE DEF j
<1>10. ASSUME m > 0, k < n
       PROVE  r[<<o, m>>] = Texts(parts)[k] \o b \o r[<<parts[k + 1].at - v.at, m - 1>>]
  <2>1. ~(m <= 0 \/ j < 0)
    BY <1>4, <1>5, <1>10
  <2>2. r[<<o, m>>] = TextOf(Cut(s, 0, j)) \o b \o r[<<o + j + Len(a), m - 1>>]
    BY <1>7, <2>1, Zenon
  <2> QED BY <1>3, <1>5, <1>10, <2>2, Zenon
<1> QED BY <1>6, <1>9, <1>10, Zenon DEF IsReplacedAt, o, p, n

\* The parts from the k-th on are what v is split into from there.
LEMMA SplitFrom ==
  ASSUME NEW v, OKSlice(v), NEW sep \in Seq(Char), NEW i, NEW parts, IsSplit(parts, v, sep, i),
         NEW k \in 1..Len(parts)
  PROVE  /\ parts[k].at - v.at \in 0..v.len
         /\ IsSplit(SubSeq(parts, k, Len(parts)), v, sep, parts[k].at - v.at)
         /\ Texts(SubSeq(parts, k, Len(parts))) = SubSeq(Texts(parts), k, Len(parts))
<1> DEFINE n == Len(parts)
           rest == SubSeq(parts, k, n)
           o == parts[k].at - v.at
<1>1. n \in Nat /\ v.len \in Nat /\ v.at \in Nat /\ parts \in Seq(SliceSet)
  BY ByteIs DEF IsSplit
<1>2. o \in 0..v.len
  <2>1. PartFrom(parts[k], o, v, sep)
    BY PartIs
  <2> DEFINE l == parts[k].len
  <2>2. o \in Nat /\ l \in Nat /\ o + l <= v.len
    BY <2>1 DEF PartFrom
  <2> HIDE DEF o, l
  <2> QED BY <1>1, <2>2
<1>3. parts[k].at = v.at + o
  <2>1. parts[k] \in SliceSet
    BY <1>1, ElementOfSeq
  <2> DEFINE x == parts[k].at
  <2>2. x \in Nat
    BY <2>1 DEF SliceSet
  <2> HIDE DEF x
  <2>3. x = v.at + (x - v.at)
    BY <1>1, <2>2
  <2> QED BY <2>3 DEF x
<1> HIDE DEF o
<1>4. \A h \in 1..n : parts[h] \in SliceSet
  BY <1>1, ElementOfSeq
<1>5. /\ rest \in Seq(SliceSet) /\ Len(rest) = n - k + 1
      /\ \A h \in 1..(n - k + 1) : rest[h] = parts[k + h - 1]
  <2>1. \A h \in k..n : parts[h] \in SliceSet
    BY <1>1, <1>4
  <2>2. k <= n /\ k \in Int /\ n \in Int
    BY <1>1 DEF n
  <2> HIDE DEF n
  <2> QED BY <2>1, <2>2, SubSeqProperties
<1> HIDE DEF rest, n
<1> DEFINE c == n - k + 1
<1>6. c \in Nat /\ c >= 1 /\ k \in 1..n /\ k + c - 1 = n
  BY <1>1 DEF n
<1>7. rest[1] = parts[k] /\ rest[c] = parts[n]
  <2>1. 1 \in 1..c /\ c \in 1..c /\ k + 1 - 1 = k
    BY <1>6
  <2> QED BY <1>5, <1>6, <2>1
<1>8. IsSplit(rest, v, sep, o)
  <2>1. rest /= <<>>
    BY <1>5, <1>6
  <2>2. LastPart(rest[c], rest[c].at - v.at, v, sep)
    BY <1>7 DEF IsSplit, n
  <2>3. ASSUME NEW h \in 1..(c - 1) PROVE InnerPart(rest[h], rest[h + 1], rest[h].at - v.at, v, sep)
    <3> DEFINE g == k + h - 1
    <3>1. g \in 1..(n - 1) /\ h \in 1..c /\ h + 1 \in 1..c /\ k + (h + 1) - 1 = g + 1
      BY <1>1, <1>6
    <3>2. rest[h] = parts[g]
      BY <1>5, <3>1
    <3>3. rest[h + 1] = parts[k + (h + 1) - 1]
      BY <1>5, <3>1
    <3> HIDE DEF g
    <3>4. rest[h + 1] = parts[g + 1]
      BY <3>1, <3>3, Zenon
    <3>5. InnerPart(parts[g], parts[g + 1], parts[g].at - v.at, v, sep)
      BY <3>1 DEF IsSplit, n
    <3> QED BY <3>2, <3>4, <3>5, Zenon
  <2>4. Len(rest) = c
    BY <1>5
  <2>5. rest[1].at = v.at + o
    BY <1>3, <1>7
  <2> HIDE DEF c
  <2> QED BY <1>5, <2>1, <2>2, <2>3, <2>4, <2>5, Zenon DEF IsSplit
<1>9. Texts(rest) = SubSeq(Texts(parts), k, n)
  <2> DEFINE t == Texts(parts)
             u == SubSeq(t, k, n)
             w == Texts(rest)
  <2>1. t \in Seq(Seq(Char)) /\ Len(t) = n /\ \A h \in 1..n : t[h] = TextOf(parts[h])
    BY TextsAre DEF n
  <2>2. w \in Seq(Seq(Char)) /\ Len(w) = c /\ \A h \in 1..c : w[h] = TextOf(rest[h])
    BY <1>5, <1>8, TextsAre
  <2> HIDE DEF t, w
  <2>3. u \in Seq(Seq(Char)) /\ Len(u) = c /\ \A h \in 1..c : u[h] = t[k + h - 1]
    <3>1. \A h \in k..n : t[h] \in Seq(Char)
      <4>1. \A h \in k..n : h \in 1..n
        BY <1>1
      <4> QED BY <2>1, <4>1, ElementOfSeq
    <3>2. k <= n /\ k \in Int /\ n \in Int
      BY <1>1, <1>6
    <3> QED BY <3>1, <3>2, SubSeqProperties
  <2> HIDE DEF u
  <2>4. ASSUME NEW h \in 1..c PROVE w[h] = u[h]
    <3>1. k + h - 1 \in 1..n
      BY <1>1, <1>6
    <3>2. rest[h] = parts[k + h - 1]
      BY <1>5
    <3>3. u[h] = t[k + h - 1] /\ w[h] = TextOf(rest[h])
      BY <2>2, <2>3
    <3> DEFINE g == k + h - 1
    <3>4. t[g] = TextOf(parts[g])
      BY <2>1, <3>1
    <3> QED BY <3>2, <3>3, <3>4, Zenon
  <2>5. w = u
    <3> HIDE DEF c
    <3> QED BY <2>2, <2>3, <2>4, SeqEqual
  <2> QED BY <2>5 DEF w, u, t
<1> QED BY <1>2, <1>8, <1>9 DEF o, rest, n

\* The first n of some texts, and one more.
LEMMA FirstAndLast ==
  ASSUME NEW texts \in Seq(Seq(Char)), NEW n \in Nat, n <= Len(texts), NEW z \in Seq(Char)
  PROVE  LET l == SubSeq(texts, 1, n) \o <<z>> IN
         /\ l \in Seq(Seq(Char)) /\ Len(l) = n + 1
         /\ (\A k \in 1..n : l[k] = texts[k]) /\ l[n + 1] = z
<1> DEFINE s == SubSeq(texts, 1, n)
           c == <<z>>
           l == s \o c
           S == Seq(Char)
<1>1. c \in Seq(S) /\ Len(c) = 1 /\ c[1] = z
  OBVIOUS
<1>2. s \in Seq(S) /\ Len(s) = n /\ \A k \in 1..n : s[k] = texts[k]
  <2>1. \A k \in 1..n : texts[k] \in S
    <3> HIDE DEF S
    <3>1. Len(texts) \in Nat /\ \A k \in 1..n : k \in 1..Len(texts)
      OBVIOUS
    <3> QED BY <3>1, ElementOfSeq DEF S
  <2> HIDE DEF S
  <2>2. /\ s \in Seq(S) /\ Len(s) = IF 1 <= n THEN n - 1 + 1 ELSE 0
        /\ \A k \in 1..(n - 1 + 1) : s[k] = texts[1 + k - 1]
    BY <2>1, SubSeqProperties
  <2>3. \A k \in 1..n : k \in 1..(n - 1 + 1) /\ 1 + k - 1 = k
    OBVIOUS
  <2> HIDE DEF s
  <2> QED BY <2>2, <2>3
<1> HIDE DEF s, c, S
<1>3. /\ l \in Seq(S) /\ Len(l) = Len(s) + Len(c)
      /\ \A k \in 1..(Len(s) + Len(c)) : l[k] = IF k <= Len(s) THEN s[k] ELSE c[k - Len(s)]
  BY <1>1, <1>2, ConcatProperties
<1> HIDE DEF l
<1>4. ASSUME NEW k \in 1..n PROVE l[k] = texts[k]
  <2>1. k \in 1..(Len(s) + Len(c)) /\ k <= Len(s)
    BY <1>1, <1>2
  <2>2. l[k] = s[k]
    BY <1>3, <2>1
  <2> QED BY <1>2, <2>2
<1>5. l[n + 1] = z
  <2> DEFINE m == n + 1
  <2>1. m \in 1..(Len(s) + Len(c)) /\ ~(m <= Len(s)) /\ m - Len(s) = 1
    BY <1>1, <1>2
  <2> HIDE DEF m
  <2>2. l[m] = z
    BY <1>1, <1>3, <2>1
  <2> QED BY <2>2 DEF m
<1>6. l \in Seq(S) /\ Len(l) = n + 1
  BY <1>1, <1>2, <1>3
<1> QED BY <1>4, <1>5, <1>6 DEF l, s, c, S

LEMMA TextsAssociate ==
  ASSUME NEW a \in Seq(Char), NEW b \in Seq(Char), NEW c \in Seq(Char)
  PROVE  (a \o b) \o c = a \o (b \o c)
OBVIOUS

AreFive(a, b, c, d, e, x, y) ==
  /\ a \in Seq(Char) /\ b \in Seq(Char) /\ c \in Seq(Char) /\ d \in Seq(Char) /\ e \in Seq(Char)
  /\ x = a \o b \o c /\ y = c \o d \o e

SameText(a, b, y, x, d, e) == a \o b \o y = x \o d \o e

LEMMA FiveTexts ==
  ASSUME NEW a, NEW b, NEW c, NEW d, NEW e, NEW x, NEW y, AreFive(a, b, c, d, e, x, y)
  PROVE  SameText(a, b, y, x, d, e)
<1>0. /\ a \in Seq(Char) /\ b \in Seq(Char) /\ c \in Seq(Char) /\ d \in Seq(Char) /\ e \in Seq(Char)
      /\ x = a \o b \o c /\ y = c \o d \o e
  BY DEF AreFive
<1>1. PICK p \in Seq(Char) : p = a \o b
  BY <1>0, ConcatProperties
<1>2. PICK q \in Seq(Char) : q = c \o d
  BY <1>0, ConcatProperties
<1>3. p \o (q \o e) = (p \o q) \o e
  BY <1>0, TextsAssociate, ZenonT(40)
<1>4. p \o (c \o d) = (p \o c) \o d
  BY <1>0, TextsAssociate, ZenonT(40)
<1>5. a \o b \o y = p \o (q \o e)
  BY <1>0, <1>1, <1>2
<1>6. x \o d \o e = (p \o c) \o d \o e
  BY <1>0, <1>1
<1> QED BY <1>2, <1>3, <1>4, <1>5, <1>6, Zenon DEF SameText

\* The first count places are replaced, and the rest is as it was.
LEMMA ReplacesAgreeHolds ==
  ASSUME NEW v, OKSlice(v), NEW a \in Seq(Char), a /= <<>>, NEW b \in Seq(Char), NEW count \in Nat
  PROVE  ReplacesAgree(v, a, b, count)
<1> DEFINE P == SplitAt(v, a)
           T == Texts(P)
           m == Len(P)
           n == Min({count, Len(T) - 1})
           rest == SubSeq(P, n + 1, m)
           z == Join(a, SubSeq(T, n + 1, Len(T)))
           L == SubSeq(T, 1, n) \o <<z>>
           o(k) == P[k].at - v.at
           t == TextOf(v)
           mid(k) == IF k > 0 THEN b ELSE <<>>
<1>1. v.len \in Nat /\ 0 \in 0..v.len /\ t \in Seq(Char) /\ Len(t) = v.len /\ v.at \in Nat
  BY ByteIs, TextIs
<1>2. IsSplit(P, v, a, 0)
  BY SplitAtIs
<1>3. m \in Nat \ {0} /\ P[1].at = v.at + 0
  BY <1>2, EmptySeq DEF IsSplit
<1> HIDE DEF P
<1>4. T \in Seq(Seq(Char)) /\ Len(T) = m
  BY <1>2, TextsAre
<1>5. n \in Nat /\ n <= count /\ n < m /\ (n = count \/ n + 1 = m)
  <2> DEFINE c == m - 1
  <2>1. {count, c} \in SUBSET Nat /\ {count, c} /= {} /\ n = Min({count, c}) /\ c \in Nat /\ c + 1 = m
    BY <1>3, <1>4
  <2> HIDE DEF c, m, n
  <2>2. n \in {count, c} /\ \A x \in {count, c} : n <= x
    BY <2>1, MinIs
  <2> QED BY <2>1, <2>2
<1> HIDE DEF n
<1>6. PICK r : Replaces(r, v, a, b) /\ ReplaceIn(v, a, b, count) = r[<<0, count>>]
  BY ReplacesExist
<1>7. /\ n + 1 \in 1..m /\ o(n + 1) \in 0..v.len
      /\ IsSplit(SubSeq(P, n + 1, m), v, a, o(n + 1))
      /\ Texts(SubSeq(P, n + 1, m)) = SubSeq(T, n + 1, m)
  <2> DEFINE k == n + 1
  <2>1. k \in 1..m
    BY <1>3, <1>5
  <2> HIDE DEF k
  <2>2. o(k) \in 0..v.len /\ IsSplit(SubSeq(P, k, m), v, a, o(k)) /\ Texts(SubSeq(P, k, m)) = SubSeq(T, k, m)
    BY <1>2, <2>1, SplitFrom
  <2> QED BY <2>1, <2>2 DEF k
<1>8. z = SubSeq(t, o(n + 1) + 1, v.len)
  <2> DEFINE i == o(n + 1)
             S == SubSeq(P, n + 1, m)
  <2> HIDE DEF i, S, o, m, T
  <2>1. i \in 0..v.len /\ IsSplit(S, v, a, i) /\ Texts(S) = SubSeq(T, n + 1, m)
    BY <1>7 DEF i, S
  <2>2. Join(a, Texts(S)) = SubSeq(t, i + 1, v.len)
    BY <2>1, JoinOfSplit
  <2> QED BY <1>4, <2>1, <2>2 DEF i
<1>9. z \in Seq(Char)
  <2> DEFINE i == o(n + 1)
  <2>1. i \in 0..v.len /\ z = SubSeq(t, i + 1, v.len)
    BY <1>7, <1>8
  <2> HIDE DEF i, z, t
  <2>2. \A x \in (i + 1)..v.len : t[x] \in Char
    <3>1. \A x \in (i + 1)..v.len : x \in 1..v.len
      BY <1>1, <2>1
    <3> QED BY <1>1, <3>1, ElementOfSeq
  <2> QED BY <1>1, <2>1, <2>2, SubSeqProperties
<1> HIDE DEF z, T
<1>10. L \in Seq(Seq(Char)) /\ Len(L) = n + 1 /\ (\A k \in 1..n : L[k] = T[k]) /\ L[n + 1] = z
  BY <1>4, <1>5, <1>9, FirstAndLast
<1> HIDE DEF L
<1>11. PICK f : Joins(f, b, L)
  BY <1>10, JoinsExist
<1>12. Join(b, L) = f[n + 1]
  BY <1>10, <1>11, JoinIs
<1>13. /\ f \in [0..(n + 1) -> Seq(Char)] /\ f[0] = <<>>
       /\ \A k \in 1..(n + 1) : f[k] = f[k - 1] \o (IF k > 1 THEN b ELSE <<>>) \o L[k]
  BY <1>10, <1>11, Zenon DEF Joins
<1>14. \A k \in 0..n : f[k + 1] = f[k] \o mid(k) \o L[k + 1] /\ f[k] \in Seq(Char) /\ mid(k) \in Seq(Char)
  <2> SUFFICES ASSUME NEW k \in 0..n
               PROVE  f[k + 1] = f[k] \o mid(k) \o L[k + 1] /\ f[k] \in Seq(Char) /\ mid(k) \in Seq(Char)
    OBVIOUS
  <2> DEFINE h == k + 1
  <2>1. h \in 1..(n + 1) /\ h - 1 = k /\ (h > 1 <=> k > 0) /\ k \in 0..(n + 1)
    BY <1>5
  <2> HIDE DEF h
  <2>2. f[h] = f[h - 1] \o (IF h > 1 THEN b ELSE <<>>) \o L[h]
    BY <1>13, <2>1
  <2>3. (IF h > 1 THEN b ELSE <<>>) = mid(k)
    BY <2>1
  <2>4. f[h] = f[k] \o mid(k) \o L[h]
    BY <2>1, <2>2, <2>3, Zenon
  <2>5. f[k] \in Seq(Char) /\ mid(k) \in Seq(Char)
    BY <1>13, <2>1, EmptySeq
  <2> HIDE DEF mid
  <2> QED BY <2>4, <2>5 DEF h
<1> HIDE DEF mid
<1> DEFINE N == {k \in Nat : k <= n => r[<<0, count>>] = f[k] \o mid(k) \o r[<<o(k + 1), count - k>>]}
<1>15. ASSUME NEW k \in 1..m, NEW x \in Nat
       PROVE  /\ o(k) \in 0..v.len /\ r[<<o(k), x>>] \in Seq(Char)
              /\ x = 0 \/ k = m => r[<<o(k), x>>] = SubSeq(t, o(k) + 1, v.len)
              /\ x > 0 /\ k < m => r[<<o(k), x>>] = T[k] \o b \o r[<<o(k + 1), x - 1>>]
  <2>1. /\ o(k) \in 0..v.len
        /\ x = 0 \/ k = m => r[<<o(k), x>>] = SubSeq(t, o(k) + 1, v.len)
        /\ x > 0 /\ k < m => r[<<o(k), x>>] = T[k] \o b \o r[<<o(k + 1), x - 1>>]
    <3> HIDE DEF o, t, m
    <3>1. IsSplit(P, v, a, 0) /\ Replaces(r, v, a, b) /\ k \in 1..Len(P)
      BY <1>2, <1>6 DEF m
    <3>2. IsReplacedAt(r, v, a, b, P, k, x)
      BY <3>1, ReplacedAt
    <3> QED BY <3>2, Zenon DEF IsReplacedAt, o, t, m, T
  <2>2. r[<<o(k), x>>] \in Seq(Char)
    <3>1. r \in [(0..v.len) \X Int -> Seq(Char)]
      BY <1>6, Zenon DEF Replaces
    <3>2. <<o(k), x>> \in (0..v.len) \X Int
      <4> HIDE DEF o
      <4> QED BY <2>1
    <3> HIDE DEF o
    <3> QED BY <3>1, <3>2
  <2> QED BY <2>1, <2>2
<1>16. 0 \in N
  <2>1. o(1) = 0 /\ 0 + 1 = 1 /\ count - 0 = count
    BY <1>1, <1>3
  <2>2. r[<<o(1), count>>] \in Seq(Char)
    <3>1. 1 \in 1..m
      BY <1>3
    <3> QED BY <1>15, <3>1
  <2>3. mid(0) = <<>>
    BY DEF mid
  <2> HIDE DEF o
  <2>4. <<>> \o <<>> \o r[<<o(1), count>>] = r[<<o(1), count>>]
    <3> DEFINE y == r[<<o(1), count>>]
    <3>1. y \in Seq(Char)
      BY <2>2
    <3> HIDE DEF y
    <3>2. <<>> \o <<>> \o y = y
      BY <3>1
    <3> QED BY <3>2 DEF y
  <2>5. r[<<0, count>>] = f[0] \o mid(0) \o r[<<o(0 + 1), count - 0>>]
    BY <1>13, <2>1, <2>3, <2>4, Zenon
  <2> QED BY <2>5
<1>17. ASSUME NEW k \in Nat, k \in N PROVE k + 1 \in N
  <2> DEFINE h == k + 1
             x == count - k
  <2>0. h \in Nat
    OBVIOUS
  <2> SUFFICES ASSUME h <= n PROVE r[<<0, count>>] = f[h] \o mid(h) \o r[<<o(h + 1), count - h>>]
    BY <2>0, Zenon
  <2>1. k \in 0..n /\ h \in 1..n /\ h \in 1..m /\ h < m /\ x \in Nat /\ x > 0 /\ x - 1 = count - h /\ k <= n
        /\ h + 1 \in 1..m /\ x - 1 \in Nat /\ h \in 0..n
    BY <1>3, <1>5
  <2>2. r[<<0, count>>] = f[k] \o mid(k) \o r[<<o(h), x>>]
    BY <1>17, <2>1
  <2>3. f[h] = f[k] \o mid(k) \o L[h] /\ f[k] \in Seq(Char) /\ mid(k) \in Seq(Char)
    BY <1>14, <2>1
  <2> HIDE DEF h, x, N
  <2>4. L[h] = T[h]
    BY <1>10, <2>1
  <2>5. r[<<o(h), x>>] = T[h] \o b \o r[<<o(h + 1), x - 1>>]
    BY <1>15, <2>1
  <2> DEFINE h2 == h + 1
             x2 == x - 1
  <2>6. h2 \in 1..m /\ x2 \in Nat
    BY <2>1
  <2> HIDE DEF h2, x2
  <2>7. r[<<o(h2), x2>>] \in Seq(Char)
    BY <1>15, <2>6
  <2>8. T[h] \in Seq(Char)
    BY <1>4, <2>1, ElementOfSeq
  <2>9. mid(h) = b
    <3>1. h > 0
      BY <2>1
    <3> QED BY <3>1 DEF mid
  <2> DEFINE y == r[<<o(h2), x2>>]
  <2> HIDE DEF y, o
  <2>10. r[<<o(h), x>>] = T[h] \o b \o y
    BY <2>5 DEF y, h2, x2
  <2>11. f[h] = f[k] \o mid(k) \o T[h]
    BY <2>3, <2>4
  <2>12. r[<<0, count>>] = f[h] \o mid(h) \o y
    <3> DEFINE F == f[k]
               M == mid(k)
               W == T[h]
               X == f[h]
               Y == r[<<o(h), x>>]
    <3>1. F \in Seq(Char) /\ M \in Seq(Char) /\ W \in Seq(Char) /\ y \in Seq(Char)
      BY <2>3, <2>7, <2>8, Zenon DEF y
    <3>2. X = F \o M \o W /\ Y = W \o b \o y /\ r[<<0, count>>] = F \o M \o Y
      BY <2>2, <2>10, <2>11
    <3> HIDE DEF F, M, W, X, Y
    <3>3. AreFive(F, M, W, b, y, X, Y)
      BY <3>1, <3>2 DEF AreFive
    <3>4. SameText(F, M, Y, X, b, y)
      BY <3>3, FiveTexts
    <3> QED BY <2>9, <3>2, <3>4, Zenon DEF X, SameText
  <2>13. x2 = count - h
    BY <2>1 DEF x2
  <2> QED BY <2>12, <2>13, Zenon DEF y, h2
<1> HIDE DEF N
<1>18. Nat \subseteq N
  BY <1>16, <1>17, InductionNat
<1>19. r[<<0, count>>] = f[n] \o mid(n) \o r[<<o(n + 1), count - n>>]
  <2>1. n \in N /\ n <= n
    BY <1>5, <1>18
  <2> QED BY <2>1 DEF N
<1>20. r[<<o(n + 1), count - n>>] = z
  <2> DEFINE k == n + 1
             x == count - n
  <2>1. k \in 1..m /\ x \in Nat /\ (x = 0 \/ k = m)
    BY <1>5, <1>7
  <2> HIDE DEF k, x
  <2>2. r[<<o(k), x>>] = SubSeq(t, o(k) + 1, v.len)
    BY <1>15, <2>1
  <2> QED BY <1>8, <2>2 DEF k, x
<1>21. f[n + 1] = f[n] \o mid(n) \o L[n + 1]
  <2>1. n \in 0..n
    BY <1>5
  <2> QED BY <1>14, <2>1
<1>22. ReplaceIn(v, a, b, count) = Join(b, L)
  BY <1>6, <1>10, <1>12, <1>19, <1>20, <1>21, Zenon
<1> QED BY <1>22, Zenon DEF ReplacesAgree, L, z, n, T, P

-----------------------------------------------------------------------------
(* Representations.                                                        *)

Shown == 32..126

\* The byte that has this letter after the backslash.
EscapedBy(letter) == (CHOOSE e \in Escapes : e[2] = letter)[1]

\* u shows c: by itself, by its digits or by its letter.
Shows(u, c) ==
  /\ u \in Seq(Shown)
  /\ \/ Len(u) = 1 /\ u[1] = c /\ c /= 92
     \/ Len(u) = 4 /\ u[1] = 92 /\ u[2] = 120 /\ CToI(u[3]) * 16 + CToI(u[4]) = c
     \/ Len(u) = 2 /\ u[1] = 92 /\ u[2] /= 120 /\ EscapedBy(u[2]) = c

LEMMA EscapesAre ==
  /\ \A e \in Escapes : e[2] \in Shown /\ e[2] /= 120
  /\ \A e, g \in Escapes : e[2] = g[2] => e[1] = g[1]
  /\ \E e \in Escapes : e[1] = 92
<1>1. \A e \in Escapes : e[2] \in Shown /\ e[2] /= 120
  BY DEF Escapes, Shown
<1>2. \A e, g \in Escapes : e[2] = g[2] => e[1] = g[1]
  BY DEF Escapes
<1>3. \E e \in Escapes : e[1] = 92
  <2>1. <<92, 92>> \in Escapes /\ <<92, 92>>[1] = 92
    BY DEF Escapes
  <2> QED BY <2>1
<1> QED BY <1>1, <1>2, <1>3

LEMMA ReprOfIs ==
  ASSUME NEW c \in Char
  PROVE  Shows(ReprOf(c), c)
<1> DEFINE u == ReprOf(c)
<1>0. 92 \in Shown /\ 120 \in Shown
  BY DEF Shown
<1>1. CASE \E e \in Escapes : e[1] = c
  <2> DEFINE e == CHOOSE e \in Escapes : e[1] = c
             l == e[2]
             g == CHOOSE g \in Escapes : g[2] = l
  <2>1. e \in Escapes /\ e[1] = c
    BY <1>1
  <2>2. u = <<92, l>>
    BY <1>1 DEF ReprOf
  <2> HIDE DEF e, u
  <2>3. l \in Shown /\ l /= 120
    BY <2>1, EscapesAre
  <2>4. g \in Escapes /\ g[2] = l
    BY <2>1
  <2> HIDE DEF g
  <2>5. g[1] = c
    BY <2>1, <2>4, EscapesAre
  <2>6. EscapedBy(l) = c
    BY <2>5 DEF EscapedBy, g
  <2> HIDE DEF l
  <2>7. u \in Seq(Shown) /\ Len(u) = 2 /\ u[1] = 92 /\ u[2] = l
    BY <1>0, <2>2, <2>3
  <2> QED BY <2>3, <2>6, <2>7 DEF Shows, u
<1>2. CASE ~(\E e \in Escapes : e[1] = c) /\ c \in Shown
  <2>1. u = <<c>>
    BY <1>2 DEF ReprOf, Shown
  <2>2. c /= 92
    BY <1>2, EscapesAre
  <2>3. u \in Seq(Shown) /\ Len(u) = 1 /\ u[1] = c
    BY <1>2, <2>1
  <2> QED BY <2>2, <2>3 DEF Shows
<1>3. CASE ~(\E e \in Escapes : e[1] = c) /\ c \notin Shown
  <2> DEFINE x == HexDigit(c \div 16, TRUE)
             y == HexDigit(c % 16, TRUE)
  <2>1. u = <<92, 120, x, y>>
    BY <1>3 DEF ReprOf, Shown
  <2>2. c \div 16 \in 0..15 /\ c % 16 \in 0..15 /\ (c \div 16) * 16 + (c % 16) = c
    BY Nibbles
  <2>3. CToI(x) = c \div 16 /\ CToI(y) = c % 16
    BY <2>2, HexDigitIs
  <2>4. \A n \in 0..15 : HexDigit(n, TRUE) \in Shown
    BY DEF HexDigit, Shown
  <2>5. x \in Shown /\ y \in Shown
    BY <2>2, <2>4
  <2> HIDE DEF x, y, u
  <2>6. u \in Seq(Shown) /\ Len(u) = 4 /\ u[1] = 92 /\ u[2] = 120 /\ u[3] = x /\ u[4] = y
    BY <1>0, <2>1, <2>5
  <2>7. CToI(x) * 16 + CToI(y) = c
    BY <2>2, <2>3
  <2> QED BY <2>6, <2>7 DEF Shows, u
<1> QED BY <1>1, <1>2, <1>3

\* g holds what is shown of the first bytes.
ShowsAll(g, v) ==
  /\ g \in [0..v.len -> Seq(Shown)] /\ g[0] = <<>>
  /\ \A i \in 1..v.len : g[i] = g[i - 1] \o ReprOf(ByteAt(v, i - 1))

LEMMA ShowsAllExist ==
  ASSUME NEW v, OKSlice(v)
  PROVE  \E g : ShowsAll(g, v)
<1> DEFINE n == v.len
           S == Seq(Shown)
           of(i) == ReprOf(ByteAt(v, i - 1))
           step == [p \in (1..n) \X S |-> p[2] \o of(p[1])]
           e == <<>>
<1>1. n \in Nat /\ \A i \in 1..n : ByteAt(v, i - 1) \in Char
  <2>1. n \in Nat /\ \A i \in 0..n : ByteAt(v, i) \in Char
    BY ByteIs
  <2>2. \A i \in 1..n : i - 1 \in 0..n
    BY <2>1
  <2> QED BY <2>1, <2>2
<1>2. \A i \in 1..n : of(i) \in S
  BY <1>1, ReprOfIs DEF Shows
<1> HIDE DEF of, n
<1>3. \A i \in 1..n, r \in S : r \o of(i) \in S /\ step[<<i, r>>] = r \o of(i)
  BY <1>2, ConcatProperties
<1>4. step \in [(1..n) \X S -> S]
  <2>1. \A p \in (1..n) \X S : p[1] \in 1..n /\ p[2] \in S
    OBVIOUS
  <2> HIDE DEF S
  <2>2. \A p \in (1..n) \X S : p[2] \o of(p[1]) \in S
    BY <1>3, <2>1
  <2> QED BY <2>2
<1>5. e \in S
  BY EmptySeq
<1> HIDE DEF S, step, e
<1>6. IsLooped(n, S, e, step)
  <2>1. IsLoop(n, S, e, step)
    BY <1>1, <1>4, <1>5 DEF IsLoop
  <2> QED BY <2>1, LoopExists
<1>7. PICK g \in [0..n -> S] : g[0] = e /\ \A i \in 1..n : g[i] = step[<<i, g[i - 1]>>]
  BY <1>6 DEF IsLooped
<1>8. \A i \in 1..n : g[i] = g[i - 1] \o of(i)
  <2>1. \A i \in 1..n : i - 1 \in 0..n
    BY <1>1
  <2>2. \A i \in 1..n : g[i - 1] \in S
    BY <2>1
  <2> QED BY <1>3, <1>7, <2>2
<1>9. ShowsAll(g, v)
  BY <1>7, <1>8 DEF ShowsAll, n, S, e, of
<1> QED BY <1>9

\* Between the quotes.
LEMMA ReprIs ==
  ASSUME NEW v, OKSlice(v), NEW g, ShowsAll(g, v)
  PROVE  SubSeq(Repr(v), 2, Len(Repr(v)) - 1) = g[v.len]
<1> DEFINE n == v.len
           of(i) == ReprOf(ByteAt(v, i - 1))
           S == Seq(Shown)
           q == <<39>>
           G(f) == f = [i \in 0..n |-> IF i = 0 THEN q ELSE f[i - 1] \o of(i)]
           repr == CHOOSE f : G(f)
           f == [i \in 0..n |-> q \o g[i]]
           w == g[n]
           r == Repr(v)
<1>1. n \in Nat /\ n \in 0..n /\ 0 \in 0..n
  BY ByteIs
<1>2. Repr(v) = Append(repr[n], 39)
  BY DEF Repr
<1>3. g \in [0..n -> S] /\ g[0] = <<>> /\ \A i \in 1..n : g[i] = g[i - 1] \o of(i)
  BY DEF ShowsAll
<1>4. \A i \in 1..n : of(i) \in S
  <2>1. \A i \in 1..n : i - 1 \in 0..n
    BY <1>1
  <2> QED BY <2>1, ByteIs, ReprOfIs DEF Shows
<1>5. q \in S /\ Len(q) = 1 /\ q[1] = 39 /\ 39 \in Shown
  BY DEF Shown
<1> HIDE DEF of, n
<1>6. f[0] = q
  <2>1. q \o <<>> = q
    BY <1>5, ConcatEmptySeq
  <2> HIDE DEF q
  <2> QED BY <1>1, <1>3, <2>1
<1>7. \A i \in 1..n : f[i] = f[i - 1] \o of(i)
  <2> SUFFICES ASSUME NEW i \in 1..n PROVE f[i] = f[i - 1] \o of(i)
    OBVIOUS
  <2>1. i \in 0..n /\ i - 1 \in 0..n
    BY <1>1
  <2>2. PICK x \in S : x = g[i - 1]
    BY <1>3, <2>1
  <2>3. PICK y \in S : y = of(i)
    BY <1>4
  <2> HIDE DEF q
  <2>4. (q \o x) \o y = q \o (x \o y)
    BY <1>5, ConcatAssociative, SMTT(40)
  <2>5. f[i] = q \o g[i] /\ f[i - 1] = q \o g[i - 1] /\ g[i] = g[i - 1] \o of(i)
    BY <1>3, <2>1
  <2> HIDE DEF f
  <2> QED BY <2>2, <2>3, <2>4, <2>5
<1>8. G(repr)
  <2>1. \A i \in 0..n : i = 0 \/ i \in 1..n
    BY <1>1
  <2>2. \A i \in 0..n : f[i] = IF i = 0 THEN q ELSE f[i - 1] \o of(i)
    <3> HIDE DEF f
    <3> QED BY <1>6, <1>7, <2>1
  <2> DEFINE h == [i \in 0..n |-> f[i]]
  <2>3. h = f
    OBVIOUS
  <2> HIDE DEF f
  <2>4. G(f)
    <3>1. f = [i \in 0..n |-> IF i = 0 THEN q ELSE f[i - 1] \o of(i)]
      BY <2>2, <2>3
    <3> QED BY <3>1
  <2> QED BY <2>4
<1> HIDE DEF repr
<1>9. \A i \in 0..n : repr[i] = IF i = 0 THEN q ELSE repr[i - 1] \o of(i)
  BY <1>8
<1> HIDE DEF G
<1>10. repr[n] = f[n]
  <2>1. repr[0] = f[0]
    BY <1>1, <1>6, <1>9
  <2>2. ASSUME NEW i \in 1..n, repr[i - 1] = f[i - 1] PROVE repr[i] = f[i]
    <3>1. i \in 0..n /\ i /= 0
      BY <1>1
    <3> HIDE DEF f
    <3> QED BY <1>7, <1>9, <2>2, <3>1
  <2> HIDE DEF f
  <2>3. \A i \in 0..n : repr[i] = f[i]
    <3>1. GivenAlike(repr, f, n)
      BY <2>1, <2>2 DEF GivenAlike
    <3> QED BY <1>1, <3>1, LoopUnique, Zenon
  <2> QED BY <1>1, <2>3
<1>11. f[n] = q \o w /\ w \in S
  BY <1>1, <1>3
<1> HIDE DEF f, w
<1>12. /\ q \o w \in S /\ Len(q \o w) = Len(w) + 1
       /\ \A i \in 1..Len(w) : (q \o w)[i + 1] = w[i]
  <2>1. 39 \in Shown
    BY <1>5
  <2> QED BY <1>11, <2>1, ConsIs
<1> DEFINE s == q \o w
           m == Len(w)
<1> HIDE DEF s, m
<1>13. r = Append(s, 39)
  BY <1>2, <1>10, <1>11 DEF s
<1>14. s \in S /\ Len(s) = m + 1 /\ m \in Nat /\ \A i \in 1..m : s[i + 1] = w[i]
  BY <1>11, <1>12 DEF s, m
<1> HIDE DEF r, q
<1>15. r \in S /\ Len(r) = m + 2 /\ \A i \in 1..(m + 1) : r[i] = s[i]
  BY <1>5, <1>13, <1>14, AppendProperties
<1> DEFINE u == SubSeq(r, 2, m + 1)
<1>16. u \in S /\ Len(u) = m /\ \A i \in 1..m : u[i] = w[i]
  <2>1. \A i \in 2..(m + 1) : r[i] \in Shown
    <3>1. \A i \in 2..(m + 1) : i \in 1..Len(r)
      BY <1>14, <1>15
    <3> QED BY <1>15, <3>1, ElementOfSeq
  <2>2. /\ u \in S /\ Len(u) = IF 2 <= m + 1 THEN m + 1 - 2 + 1 ELSE 0
        /\ \A i \in 1..(m + 1 - 2 + 1) : u[i] = r[2 + i - 1]
    BY <1>14, <2>1, SubSeqProperties
  <2> HIDE DEF u
  <2>3. ASSUME NEW i \in 1..m PROVE u[i] = w[i]
    <3> DEFINE j == i + 1
    <3>1. i \in 1..(m + 1 - 2 + 1) /\ 2 + i - 1 = j /\ j \in 1..(m + 1)
      BY <1>14
    <3>2. s[j] = w[i]
      BY <1>14
    <3> HIDE DEF j
    <3>3. u[i] = r[j]
      BY <2>2, <3>1
    <3> QED BY <1>15, <3>1, <3>2, <3>3
  <2> QED BY <1>14, <2>2, <2>3
<1>17. u = w
  <2> HIDE DEF u
  <2> QED BY <1>11, <1>16, SeqEqual DEF m
<1>18. Len(r) - 1 = m + 1
  BY <1>14, <1>15
<1> QED BY <1>17, <1>18 DEF r, w, n

\* What is shown of the first bytes stays as it is.
LEMMA ShownFirst ==
  ASSUME NEW v, OKSlice(v), NEW g, ShowsAll(g, v), NEW k \in 0..v.len
  PROVE  /\ g[k] \in Seq(Shown) /\ g[v.len] \in Seq(Shown) /\ Len(g[k]) <= Len(g[v.len])
         /\ \A x \in 1..Len(g[k]) : g[v.len][x] = g[k][x]
<1> DEFINE n == v.len
           u == g[k]
           N == {j \in Nat : k + j <= n => /\ Len(u) <= Len(g[k + j])
                                           /\ \A x \in 1..Len(u) : g[k + j][x] = u[x]}
<1>1. n \in Nat /\ \A i \in 0..n : ByteAt(v, i) \in Char
  BY ByteIs
<1>2. g \in [0..n -> Seq(Shown)] /\ \A i \in 1..n : g[i] = g[i - 1] \o ReprOf(ByteAt(v, i - 1))
  BY DEF ShowsAll
<1>3. ASSUME NEW i \in 1..n PROVE ReprOf(ByteAt(v, i - 1)) \in Seq(Shown)
  <2>1. i - 1 \in 0..n
    BY <1>1
  <2> QED BY <1>1, <2>1, ReprOfIs DEF Shows
<1> HIDE DEF n
<1>4. u \in Seq(Shown) /\ Len(u) \in Nat
  <2>1. u \in Seq(Shown)
    BY <1>2 DEF n
  <2> HIDE DEF u
  <2> QED BY <2>1
<1>5. 0 \in N
  <2>1. k + 0 = k /\ Len(u) <= Len(u)
    BY <1>1, <1>4
  <2> QED BY <2>1
<1>6. ASSUME NEW j \in Nat, j \in N PROVE j + 1 \in N
  <2> DEFINE i == k + j
             h == i + 1
             a == g[i]
             b == ReprOf(ByteAt(v, i))
             c == g[h]
  <2> SUFFICES ASSUME k + (j + 1) <= n
               PROVE  Len(u) <= Len(g[k + (j + 1)]) /\ \A x \in 1..Len(u) : g[k + (j + 1)][x] = u[x]
    OBVIOUS
  <2>1. i \in 0..n /\ h \in 1..n /\ h - 1 = i /\ k + (j + 1) = h
    BY <1>1 DEF n
  <2>2. Len(u) <= Len(a) /\ \A x \in 1..Len(u) : a[x] = u[x]
    BY <1>6, <2>1
  <2> HIDE DEF i, u, h
  <2>3. a \in Seq(Shown) /\ b \in Seq(Shown) /\ c = a \o b
    <3>1. g[h] = g[h - 1] \o ReprOf(ByteAt(v, h - 1)) /\ ReprOf(ByteAt(v, h - 1)) \in Seq(Shown)
      BY <1>2, <1>3, <2>1
    <3> QED BY <1>2, <2>1, <3>1
  <2> HIDE DEF a, b, c
  <2>4. /\ Len(c) = Len(a) + Len(b) /\ Len(a) \in Nat /\ Len(b) \in Nat
        /\ \A x \in 1..(Len(a) + Len(b)) : c[x] = IF x <= Len(a) THEN a[x] ELSE b[x - Len(a)]
    BY <2>3, ConcatProperties, LenProperties
  <2>5. Len(u) <= Len(c)
    BY <1>4, <2>2, <2>4
  <2>6. \A x \in 1..Len(u) : c[x] = u[x]
    <3> SUFFICES ASSUME NEW x \in 1..Len(u) PROVE c[x] = u[x]
      OBVIOUS
    <3>1. x \in 1..(Len(a) + Len(b)) /\ x <= Len(a)
      BY <1>4, <2>2, <2>4
    <3> QED BY <2>2, <2>4, <3>1
  <2> QED BY <2>1, <2>5, <2>6 DEF c
<1> HIDE DEF N
<1>7. Nat \subseteq N
  BY <1>5, <1>6, InductionNat
<1>8. n - k \in N /\ k + (n - k) = n /\ k + (n - k) <= n
  BY <1>1, <1>7 DEF n
<1>9. Len(u) <= Len(g[n]) /\ \A x \in 1..Len(u) : g[n][x] = u[x]
  BY <1>8 DEF N
<1>10. g[n] \in Seq(Shown)
  <2>1. n \in 0..n
    BY <1>1
  <2> QED BY <1>2, <2>1
<1> QED BY <1>4, <1>9, <1>10 DEF u, n

\* What a byte is shown as is in its place.
LEMMA ShownAt ==
  ASSUME NEW v, OKSlice(v), NEW g, ShowsAll(g, v), NEW k \in 1..v.len
  PROVE  LET u == ReprOf(ByteAt(v, k - 1)) IN
         /\ Len(g[k - 1]) \in Nat /\ Len(g[k]) = Len(g[k - 1]) + Len(u) /\ Len(g[k]) <= Len(g[v.len])
         /\ \A x \in 1..Len(u) : g[v.len][Len(g[k - 1]) + x] = u[x]
<1> DEFINE u == ReprOf(ByteAt(v, k - 1))
           a == g[k - 1]
           c == g[k]
           s == g[v.len]
<1>1. v.len \in Nat /\ (\A i \in 0..v.len : ByteAt(v, i) \in Char) /\ k \in 0..v.len /\ k - 1 \in 0..v.len
  <2>1. v.len \in Nat /\ \A i \in 0..v.len : ByteAt(v, i) \in Char
    BY ByteIs
  <2> QED BY <2>1
<1>2. u \in Seq(Shown)
  BY <1>1, ReprOfIs DEF Shows
<1>3. a \in Seq(Shown)
  BY <1>1, ShownFirst
<1>4. Len(c) <= Len(s) /\ s \in Seq(Shown) /\ \A x \in 1..Len(c) : s[x] = c[x]
  BY <1>1, ShownFirst
<1>5. c = a \o u
  BY DEF ShowsAll
<1> HIDE DEF a, c, s, u
<1>6. /\ Len(c) = Len(a) + Len(u) /\ Len(a) \in Nat /\ Len(u) \in Nat
      /\ \A x \in 1..(Len(a) + Len(u)) : c[x] = IF x <= Len(a) THEN a[x] ELSE u[x - Len(a)]
  BY <1>2, <1>3, <1>5, ConcatProperties, LenProperties
<1>7. ASSUME NEW x \in 1..Len(u) PROVE s[Len(a) + x] = u[x]
  <2> DEFINE y == Len(a) + x
  <2>1. y \in 1..(Len(a) + Len(u)) /\ ~(y <= Len(a)) /\ y - Len(a) = x /\ y \in 1..Len(c)
    BY <1>6
  <2> HIDE DEF y
  <2>2. s[y] = u[x]
    BY <1>4, <1>6, <2>1
  <2> QED BY <2>2 DEF y
<1> QED BY <1>4, <1>6, <1>7 DEF a, c, s, u

\* text holds what a reader makes of s from a place on.
Reads(text, s) ==
  \A i \in Nat :
    text[i] = IF i > Len(s) THEN <<>>
              ELSE IF s[i] /= 92 THEN <<s[i]>> \o text[i + 1]
              ELSE IF s[i + 1] = 120 THEN <<CToI(s[i + 2]) * 16 + CToI(s[i + 3])>> \o text[i + 4]
              ELSE <<EscapedBy(s[i + 1])>> \o text[i + 2]

LEMMA ReadsExist ==
  ASSUME NEW s \in Seq(Shown)
  PROVE  \E text : Reads(text, s) /\ Unescaped(s) = text[1]
<1> DEFINE digits(i) == CToI(s[i + 2]) * 16 + CToI(s[i + 3])
           body(i, f) == IF i > Len(s) THEN <<>>
                         ELSE IF s[i] /= 92 THEN <<s[i]>> \o f[i + 1]
                         ELSE IF s[i + 1] = 120 THEN <<digits(i)>> \o f[i + 4]
                         ELSE <<EscapedBy(s[i + 1])>> \o f[i + 2]
           G(f) == f = [i \in Nat |-> body(i, f)]
           text == CHOOSE f : G(f)
           E == {s[i] : i \in Nat} \cup {digits(i) : i \in Nat} \cup {EscapedBy(s[i + 1]) : i \in Nat}
           l == Len(s)
           more(i) == IF s[i] /= 92 THEN i + 1 ELSE IF s[i + 1] = 120 THEN i + 4 ELSE i + 2
           here(i) == IF s[i] /= 92 THEN s[i] ELSE IF s[i + 1] = 120 THEN digits(i) ELSE EscapedBy(s[i + 1])
           stop == {i \in Nat : i > l}
           rank == [i \in Nat |-> IF i > l THEN 0 ELSE l + 1 - i]
           last == [i \in Nat |-> <<>>]
           head == [i \in Nat |-> <<here(i)>>]
           next == [i \in Nat |-> more(i)]
<1>1. Unescaped(s) = text[1]
  BY DEF Unescaped, EscapedBy
<1>2. l \in Nat
  OBVIOUS
<1>3. \A i \in Nat : more(i) \in Nat /\ more(i) > i
  OBVIOUS
<1>4. \A i \in Nat : here(i) \in E
  <2> SUFFICES ASSUME NEW i \in Nat PROVE here(i) \in E
    OBVIOUS
  <2> HIDE DEF digits
  <2>1. s[i] \in E /\ digits(i) \in E /\ EscapedBy(s[i + 1]) \in E
    OBVIOUS
  <2>2. here(i) \in {s[i], digits(i), EscapedBy(s[i + 1])}
    OBVIOUS
  <2> HIDE DEF E, here
  <2> QED BY <2>1, <2>2
<1> HIDE DEF l
<1>5. rank \in [Nat -> Nat] /\ \A i \in Nat : rank[i] = IF i > l THEN 0 ELSE l + 1 - i
  BY <1>2
<1>6. last \in [Nat -> Seq(E)] /\ \A i \in Nat : last[i] = <<>>
  <2> HIDE DEF E
  <2> QED BY EmptySeq
<1>7. head \in [Nat -> Seq(E)] /\ \A i \in Nat : head[i] = <<here(i)>>
  <2> HIDE DEF E, here
  <2>1. \A i \in Nat : <<here(i)>> \in Seq(E)
    BY <1>4
  <2> QED BY <2>1
<1>8. next \in [Nat -> Nat] /\ \A i \in Nat : next[i] = more(i)
  <2> HIDE DEF more
  <2> QED BY <1>3
<1>9. \A i \in Nat : i \in stop <=> i > l
  OBVIOUS
<1> HIDE DEF E, rank, last, head, next, stop
<1>10. \A i \in Nat : i \notin stop => rank[next[i]] < rank[i]
  <2> SUFFICES ASSUME NEW i \in Nat, i \notin stop PROVE rank[next[i]] < rank[i]
    OBVIOUS
  <2> DEFINE j == more(i)
  <2>1. j \in Nat /\ j > i /\ next[i] = j
    BY <1>3, <1>8, SMTT(40)
  <2> HIDE DEF j
  <2>2. rank[j] = IF j > l THEN 0 ELSE l + 1 - j
    BY <1>5, <2>1
  <2>3. rank[i] = l + 1 - i /\ i <= l
    BY <1>2, <1>5, <1>9
  <2>4. rank[j] < rank[i]
    BY <1>2, <2>1, <2>2, <2>3
  <2> QED BY <2>1, <2>4
<1>11. IsUnfolded(Nat, E, stop, last, head, next)
  <2>1. IsUnfold(Nat, E, rank, stop, last, head, next)
    BY <1>5, <1>6, <1>7, <1>8, <1>10, Zenon DEF IsUnfold
  <2> QED BY <2>1, UnfoldExists
<1>12. PICK f \in [Nat -> Seq(E)] : \A i \in Nat : f[i] = IF i \in stop THEN last[i] ELSE head[i] \o f[next[i]]
  BY <1>11 DEF IsUnfolded
<1>13. ASSUME NEW i \in Nat PROVE f[i] = body(i, f)
  <2> HIDE DEF digits
  <2>1. CASE i > l
    <3>1. f[i] = <<>>
      BY <1>6, <1>9, <1>12, <2>1
    <3> QED BY <2>1, <3>1, Zenon DEF l
  <2>2. CASE ~(i > l)
    <3>1. f[i] = <<here(i)>> \o f[more(i)]
      <4> HIDE DEF here, more
      <4> QED BY <1>7, <1>8, <1>9, <1>12, <2>2
    <3>2. body(i, f) = <<here(i)>> \o f[more(i)]
      <4>0. ~(i > Len(s))
        BY <2>2 DEF l
      <4>1. CASE s[i] /= 92
        <5>1. here(i) = s[i] /\ more(i) = i + 1
          BY <4>1
        <5> HIDE DEF here, more
        <5> QED BY <4>0, <4>1, <5>1, Zenon
      <4>2. CASE s[i] = 92 /\ s[i + 1] = 120
        <5>1. here(i) = digits(i) /\ more(i) = i + 4
          BY <4>2
        <5> HIDE DEF here, more
        <5> QED BY <4>0, <4>2, <5>1, Zenon
      <4>3. CASE s[i] = 92 /\ s[i + 1] /= 120
        <5>1. here(i) = EscapedBy(s[i + 1]) /\ more(i) = i + 2
          BY <4>3
        <5> HIDE DEF here, more
        <5> QED BY <4>0, <4>3, <5>1, Zenon
      <4> QED BY <4>1, <4>2, <4>3
    <3> QED BY <3>1, <3>2, Zenon
  <2> QED BY <2>1, <2>2
<1>14. G(f)
  <2> HIDE DEF body
  <2>1. f = [i \in Nat |-> body(i, f)]
    BY <1>12, <1>13
  <2> QED BY <2>1
<1>15. G(text)
  <2> HIDE DEF G
  <2> QED BY <1>14
<1> HIDE DEF text
<1>16. \A i \in Nat : text[i] = body(i, text)
  <2> HIDE DEF body
  <2> QED BY <1>15
<1>17. Reads(text, s)
  BY <1>16, Zenon DEF Reads
<1> QED BY <1>1, <1>17

\* u is in s behind the place o; text says of it that it is c, and then what follows.
IsAt(s, u, o) == o + Len(u) <= Len(s) /\ \A x \in 1..Len(u) : s[o + x] = u[x]
ReadsAs(text, u, o, c) == text[o + 1] = <<c>> \o text[o + Len(u) + 1]

\* A byte is read as it is shown.
LEMMA ReadOne ==
  ASSUME NEW s \in Seq(Shown), NEW text, Reads(text, s), NEW o \in Nat, NEW c, NEW u, Shows(u, c),
         IsAt(s, u, o)
  PROVE  ReadsAs(text, u, o, c)
<1> DEFINE i == o + 1
<1>0. o + Len(u) <= Len(s) /\ \A x \in 1..Len(u) : s[o + x] = u[x]
  BY DEF IsAt
<1> SUFFICES text[o + 1] = <<c>> \o text[o + Len(u) + 1]
  BY DEF ReadsAs
<1>1. i \in Nat /\ i + 1 = o + 2 /\ i + 2 = o + 3 /\ i + 3 = o + 4 /\ Len(s) \in Nat
  OBVIOUS
<1>2. text[i] = IF i > Len(s) THEN <<>>
                ELSE IF s[i] /= 92 THEN <<s[i]>> \o text[i + 1]
                ELSE IF s[i + 1] = 120 THEN <<CToI(s[i + 2]) * 16 + CToI(s[i + 3])>> \o text[i + 4]
                ELSE <<EscapedBy(s[i + 1])>> \o text[i + 2]
  <2> HIDE DEF i
  <2> QED BY <1>1, Zenon DEF Reads
<1>3. Len(u) \in Nat
  BY DEF Shows
<1>4. CASE Len(u) = 1 /\ u[1] = c /\ c /= 92
  <2>1. s[i] = c /\ s[i] /= 92 /\ ~(i > Len(s)) /\ i + 1 = o + Len(u) + 1
    BY <1>0, <1>1, <1>4
  <2> HIDE DEF i
  <2> QED BY <1>2, <2>1, Zenon DEF i
<1>5. CASE Len(u) = 4 /\ u[1] = 92 /\ u[2] = 120 /\ CToI(u[3]) * 16 + CToI(u[4]) = c
  <2>1. s[o + 1] = u[1] /\ s[o + 2] = u[2] /\ s[o + 3] = u[3] /\ s[o + 4] = u[4]
    BY <1>0, <1>5
  <2>2. ~(i > Len(s)) /\ i + 4 = o + Len(u) + 1
    BY <1>0, <1>1, <1>5
  <2> HIDE DEF i
  <2>3. s[i] = 92 /\ s[i + 1] = 120 /\ s[i + 2] = u[3] /\ s[i + 3] = u[4]
    BY <1>1, <1>5, <2>1 DEF i
  <2>4. CToI(s[i + 2]) * 16 + CToI(s[i + 3]) = c
    BY <1>5, <2>3
  <2>5. text[i] = <<CToI(s[i + 2]) * 16 + CToI(s[i + 3])>> \o text[i + 4]
    BY <1>2, <2>2, <2>3, Zenon
  <2> QED BY <2>2, <2>4, <2>5, Zenon DEF i
<1>6. CASE Len(u) = 2 /\ u[1] = 92 /\ u[2] /= 120 /\ EscapedBy(u[2]) = c
  <2>1. s[o + 1] = u[1] /\ s[o + 2] = u[2]
    BY <1>0, <1>6
  <2>2. ~(i > Len(s)) /\ i + 2 = o + Len(u) + 1
    BY <1>0, <1>1, <1>6
  <2> HIDE DEF i
  <2>3. s[i] = 92 /\ s[i + 1] = u[2] /\ s[i + 1] /= 120
    BY <1>1, <1>6, <2>1 DEF i
  <2>4. text[i] = <<EscapedBy(s[i + 1])>> \o text[i + 2]
    BY <1>2, <2>2, <2>3, Zenon
  <2> QED BY <1>6, <2>2, <2>3, <2>4, Zenon DEF i
<1> QED BY <1>4, <1>5, <1>6 DEF Shows

\* A representation is read as the text it is of, and is of printable characters.
LEMMA ReprAgreesHolds ==
  ASSUME NEW v, OKSlice(v)
  PROVE  ReprAgrees(v)
<1> DEFINE n == v.len
           t == TextOf(v)
           r == Repr(v)
           inner == SubSeq(r, 2, Len(r) - 1)
<1>1. n \in Nat /\ (\A i \in 0..n : ByteAt(v, i) \in Char)
      /\ t \in Seq(Char) /\ Len(t) = n /\ \A i \in 1..n : t[i] = ByteAt(v, i - 1)
  BY ByteIs, TextIs
<1>2. PICK g : ShowsAll(g, v)
  BY ShowsAllExist
<1> DEFINE s == g[n]
<1>3. inner = s
  BY <1>2, ReprIs
<1>4. s \in Seq(Shown) /\ n \in 0..n
  <2>1. n \in 0..n
    BY <1>1
  <2> QED BY <1>2, <2>1, ShownFirst
<1> HIDE DEF inner, s, t, n
<1>5. PICK text : Reads(text, s) /\ Unescaped(s) = text[1]
  BY <1>4, ReadsExist
<1> DEFINE N == {j \in Nat : j <= n => text[Len(g[n - j]) + 1] = SubSeq(t, n - j + 1, n)}
<1>6. 0 \in N
  <2> SUFFICES text[Len(g[n - 0]) + 1] = SubSeq(t, n - 0 + 1, n)
    OBVIOUS
  <2> DEFINE i == Len(s) + 1
  <2>1. i \in Nat /\ i > Len(s)
    BY <1>4
  <2> HIDE DEF i
  <2>2. text[i] = <<>>
    BY <1>5, <2>1, Zenon DEF Reads
  <2>3. n - 0 = n
    BY <1>1
  <2>4. SubSeq(t, n + 1, n) = <<>>
    <3>1. n + 1 \in Int /\ n \in Int /\ n < n + 1
      BY <1>1
    <3> QED BY <3>1, SubSeqEmpty
  <2> QED BY <2>2, <2>3, <2>4, Zenon DEF i, s
<1>7. ASSUME NEW j \in Nat, j \in N PROVE j + 1 \in N
  <2> SUFFICES ASSUME j + 1 <= n PROVE text[Len(g[n - (j + 1)]) + 1] = SubSeq(t, n - (j + 1) + 1, n)
    OBVIOUS
  <2> DEFINE k == n - j
             c == ByteAt(v, k - 1)
             u == ReprOf(c)
             o == Len(g[k - 1])
  <2>1. k \in 1..n /\ k - 1 \in 0..n /\ n - (j + 1) = k - 1 /\ k - 1 + 1 = k /\ k \in 0..n
    BY <1>1
  <2>2. text[Len(g[k]) + 1] = SubSeq(t, k + 1, n)
    <3>1. j <= n
      BY <1>1
    <3> QED BY <1>7, <3>1
  <2> HIDE DEF k, N
  <2>3. c \in Char /\ t[k] = c
    BY <1>1, <2>1
  <2>4. Shows(u, c)
    BY <2>3, ReprOfIs
  <2>5. /\ o \in Nat /\ Len(g[k]) = o + Len(u) /\ Len(g[k]) <= Len(s)
        /\ \A x \in 1..Len(u) : s[o + x] = u[x]
    <3>1. k \in 1..v.len
      BY <2>1 DEF n
    <3> QED BY <1>2, <3>1, ShownAt DEF s, n
  <2> HIDE DEF c, u, o
  <2>6. text[o + 1] = <<c>> \o text[o + Len(u) + 1]
    <3>1. o + Len(u) <= Len(s)
      BY <2>5
    <3>2. s \in Seq(Shown) /\ Reads(text, s) /\ o \in Nat /\ IsAt(s, u, o)
      BY <1>4, <1>5, <2>5, <3>1 DEF IsAt
    <3>3. ReadsAs(text, u, o, c)
      BY <2>4, <3>2, ReadOne, ZenonT(40)
    <3> QED BY <3>3 DEF ReadsAs
  <2>7. SubSeq(t, k, n) = <<c>> \o SubSeq(t, k + 1, n)
    <3>1. k \in 1..Len(t) /\ n \in k..Len(t)
      BY <1>1, <2>1
    <3>2. SubSeq(t, k, n) = <<t[k]>> \o SubSeq(t, k + 1, n)
      BY <1>1, <3>1, SubSeqRecursiveFirst
    <3> QED BY <2>3, <3>2
  <2>8. text[o + 1] = SubSeq(t, k, n)
    BY <2>2, <2>5, <2>6, <2>7, Zenon
  <2> QED BY <2>1, <2>8, Zenon DEF o
<1> HIDE DEF N
<1>8. Nat \subseteq N
  BY <1>6, <1>7, InductionNat
<1>9. text[1] = t
  <2>1. n \in N /\ n <= n /\ n - n = 0
    BY <1>1, <1>8
  <2>2. text[Len(g[0]) + 1] = SubSeq(t, 0 + 1, n)
    BY <2>1 DEF N
  <2>3. g[0] = <<>>
    BY <1>2 DEF ShowsAll
  <2>4. Len(g[0]) + 1 = 1
    BY <2>3
  <2>5. SubSeq(t, 1, n) = t
    BY <1>1, SubSeqFull
  <2>6. 0 + 1 = 1
    OBVIOUS
  <2> QED BY <2>2, <2>4, <2>5, <2>6, Zenon
<1>10. \A i \in DOMAIN inner : inner[i] \in 32..126
  <2>1. \A i \in 1..Len(s) : s[i] \in Shown
    BY <1>4, ElementOfSeq
  <2>2. DOMAIN s = 1..Len(s)
    BY <1>4
  <2> QED BY <1>3, <2>1, <2>2, Zenon DEF Shown
<1>11. Unescaped(inner) = t
  BY <1>3, <1>5, <1>9
<1> QED BY <1>10, <1>11, Zenon DEF ReprAgrees, inner, t, r

-----------------------------------------------------------------------------
(* Numbers.                                                                *)

\* p is what is in mem from a place on up to the next 0.
LEMMA CStringIs ==
  ASSUME NEW mem \in Seq(Char), NEW at \in Nat, NEW z \in (at + 1)..Len(mem), mem[z] = 0,
         NEW p, p = CString(mem, at)
  PROVE  /\ p \in Seq(Char) /\ Len(p) \in 1..(z - at)
         /\ p[Len(p)] = 0 /\ \A i \in 1..Len(p) : p[i] = mem[at + i]
         /\ \A i \in 1..(Len(p) - 1) : p[i] /= 0
<1> DEFINE Z == {i \in (at + 1)..Len(mem) : mem[i] = 0}
           e == Min(Z)
           l == e - at
<1>1. Len(mem) \in Nat /\ z \in Nat
  OBVIOUS
<1>2. Z \in SUBSET Nat /\ z \in Z
  OBVIOUS
<1>3. e \in Z /\ \A x \in Z : e <= x
  <2> HIDE DEF Z
  <2> QED BY <1>2, MinIs
<1>4. p = SubSeq(mem, at + 1, e)
  BY DEF CString
<1> HIDE DEF e
<1>5. e \in (at + 1)..Len(mem) /\ mem[e] = 0 /\ e <= z
  BY <1>2, <1>3
<1>6. l \in 1..(z - at) /\ l \in Nat
  BY <1>1, <1>5
<1>7. p \in Seq(Char) /\ Len(p) = l /\ \A i \in 1..l : p[i] = mem[at + i]
  <2>1. \A i \in (at + 1)..e : mem[i] \in Char
    <3>1. \A i \in (at + 1)..e : i \in 1..Len(mem)
      BY <1>1, <1>5
    <3> QED BY <3>1, ElementOfSeq
  <2>2. /\ p \in Seq(Char) /\ Len(p) = IF at + 1 <= e THEN e - (at + 1) + 1 ELSE 0
        /\ \A i \in 1..(e - (at + 1) + 1) : p[i] = mem[at + 1 + i - 1]
    BY <1>4, <1>5, <2>1, SubSeqProperties
  <2>3. e - (at + 1) + 1 = l /\ at + 1 <= e
    BY <1>5
  <2>4. \A i \in 1..l : at + 1 + i - 1 = at + i
    BY <1>6
  <2> HIDE DEF l
  <2> QED BY <2>2, <2>3, <2>4
<1>8. ASSUME NEW i \in 1..(l - 1) PROVE p[i] /= 0
  <2>1. i \in 1..l /\ at + i \in (at + 1)..Len(mem) /\ ~(e <= at + i)
    BY <1>1, <1>5, <1>6
  <2> DEFINE y == at + i
  <2>2. y \in (at + 1)..Len(mem) /\ y \notin Z /\ p[i] = mem[y]
    <3> HIDE DEF Z
    <3> QED BY <1>3, <1>7, <2>1
  <2> HIDE DEF y
  <2> QED BY <2>2
<1>9. p[l] = 0
  <2>1. l \in 1..l /\ at + l = e
    BY <1>5, <1>6
  <2>2. p[l] = mem[at + l]
    BY <1>7, <2>1
  <2> QED BY <1>5, <2>1, <2>2
<1> QED BY <1>6, <1>7, <1>8, <1>9

\* What is parsed: the bytes themselves, or a copy.
Parsed(v) == IF v.z THEN CString(v.mem, v.at) ELSE CString(Append(TextOf(v), 0), 0)

\* p is the text of v up to its first 0, or to its end, and 0.
IsCText(p, v) ==
  /\ p \in Seq(Char) /\ Len(p) \in 1..(v.len + 1)
  /\ p[Len(p)] = 0 /\ \A i \in 1..(Len(p) - 1) : p[i] /= 0
  /\ \A i \in 1..Len(p) : i <= v.len => p[i] = TextOf(v)[i]

LEMMA ParsedIs ==
  ASSUME NEW v, OKSlice(v)
  PROVE  IsCText(Parsed(v), v)
<1> DEFINE p == Parsed(v)
           t == TextOf(v)
<1>1. v.len \in Nat /\ v.at \in Nat /\ v.mem \in Seq(Char) /\ v.at + v.len < Len(v.mem)
  BY ByteIs DEF OKSlice
<1>2. t \in Seq(Char) /\ Len(t) = v.len /\ \A i \in 1..v.len : t[i] = ByteAt(v, i - 1)
  BY TextIs
<1> HIDE DEF t
<1>3. CASE v.z
  <2>1. p = CString(v.mem, v.at)
    BY <1>3 DEF Parsed
  <2> DEFINE z == v.at + v.len + 1
  <2>2. z \in (v.at + 1)..Len(v.mem) /\ z - v.at = v.len + 1
    BY <1>1
  <2>3. v.mem[z] = 0
    BY <1>3 DEF OKSlice, ByteAt
  <2> HIDE DEF z, p
  <2>4. /\ p \in Seq(Char) /\ Len(p) \in 1..(z - v.at)
        /\ p[Len(p)] = 0 /\ \A i \in 1..Len(p) : p[i] = v.mem[v.at + i]
        /\ \A i \in 1..(Len(p) - 1) : p[i] /= 0
    BY <1>1, <2>1, <2>2, <2>3, CStringIs, SMTT(40)
  <2>5. ASSUME NEW i \in 1..Len(p), i <= v.len PROVE p[i] = t[i]
    <3>1. i \in 1..v.len /\ v.at + (i - 1) + 1 = v.at + i
      BY <1>1, <2>5
    <3>2. t[i] = ByteAt(v, i - 1) /\ ByteAt(v, i - 1) = v.mem[v.at + (i - 1) + 1]
      BY <1>2, <3>1 DEF ByteAt
    <3> QED BY <2>4, <3>1, <3>2
  <2> QED BY <2>2, <2>4, <2>5 DEF IsCText, p, t
<1>4. CASE ~v.z
  <2> DEFINE m == Append(t, 0)
             z == v.len + 1
  <2>1. p = CString(m, 0)
    BY <1>4 DEF Parsed, t
  <2>2. m \in Seq(Char) /\ Len(m) = z /\ m[z] = 0 /\ \A i \in 1..v.len : m[i] = t[i]
    <3>1. 0 \in Char
      BY DEF Char
    <3> QED BY <1>2, <3>1, AppendProperties
  <2>3. z \in (0 + 1)..Len(m) /\ z - 0 = v.len + 1 /\ 0 \in Nat
    BY <1>1, <2>2
  <2> HIDE DEF m, z, p
  <2>4. /\ p \in Seq(Char) /\ Len(p) \in 1..(z - 0)
        /\ p[Len(p)] = 0 /\ \A i \in 1..Len(p) : p[i] = m[0 + i]
        /\ \A i \in 1..(Len(p) - 1) : p[i] /= 0
    BY <2>1, <2>2, <2>3, CStringIs
  <2>5. ASSUME NEW i \in 1..Len(p), i <= v.len PROVE p[i] = t[i]
    <3>1. i \in 1..v.len /\ 0 + i = i
      BY <1>1, <2>5
    <3> QED BY <2>2, <2>4, <3>1
  <2> QED BY <2>3, <2>4, <2>5 DEF IsCText, p, t
<1> QED BY <1>3, <1>4

-----------------------------------------------------------------------------
\* abs holds the number that the digits from one place to another make up to each.
Reading(abs, s, b, from, to) ==
  /\ abs \in [from..to -> Nat] /\ abs[from] = 0
  /\ \A i \in (from + 1)..to : ValueOf(s[i], b) \in Nat /\ abs[i] = abs[i - 1] * b + ValueOf(s[i], b)

LEMMA ValueIs ==
  ASSUME NEW c, NEW b \in {8, 10}
  PROVE  /\ ValueOf(c, b) \in -1..(b - 1)
         /\ ValueOf(c, 10) >= 0 <=> c \in Digit
         /\ c \in Digit => ValueOf(c, 10) = c - 48
         /\ ValueOf(0, b) = -1 /\ ValueOf(48, b) = 0
<1>1. CToI(c) \in -1..15
  BY CToIIs
<1>2. ValueOf(c, b) \in -1..(b - 1)
  BY <1>1 DEF ValueOf
<1>3. c \in Digit => CToI(c) = c - 48 /\ CToI(c) \in 0..9
  BY DEF CToI, Digit
<1>4. CToI(c) \in 0..9 => c \in Digit
  <2>1. CASE c \in 65..70
    BY <2>1 DEF CToI, Digit
  <2>2. CASE c \notin 65..70 /\ c \in 97..102
    BY <2>2 DEF CToI, Digit
  <2>3. CASE c \notin 65..70 /\ c \notin 97..102
    BY <2>3 DEF CToI, Digit
  <2> QED BY <2>1, <2>2, <2>3
<1>5. CToI(0) = -1 /\ CToI(48) = 0
  BY DEF CToI, Digit
<1>6. ValueOf(0, b) = -1 /\ ValueOf(48, b) = 0
  BY <1>5 DEF ValueOf
<1>7. ValueOf(c, 10) = IF CToI(c) \in 0..9 THEN CToI(c) ELSE -1
  BY DEF ValueOf
<1> QED BY <1>2, <1>3, <1>4, <1>6, <1>7

\* Digits make up a number.
LEMMA ReadingExists ==
  ASSUME NEW s, NEW b \in {8, 10}, NEW from \in Nat, NEW to \in Nat, from <= to,
         \A i \in (from + 1)..to : ValueOf(s[i], b) >= 0
  PROVE  \E abs : Reading(abs, s, b, from, to)
<1> DEFINE n == to - from
           val(i) == ValueOf(s[from + i], b)
           step == [p \in (1..n) \X Nat |-> p[2] * b + val(p[1])]
           zero == 0
<1>1. n \in Nat /\ b \in Nat /\ to = from + n
  OBVIOUS
<1>2. \A i \in (from + 1)..to : ValueOf(s[i], b) \in Nat
  BY ValueIs
<1> HIDE DEF n
<1>3. \A i \in 1..n : val(i) \in Nat
  <2>1. \A i \in 1..n : from + i \in (from + 1)..to
    BY <1>1
  <2> QED BY <1>2, <2>1
<1> HIDE DEF val
<1>4. \A i \in 1..n, r \in Nat : r * b + val(i) \in Nat /\ step[<<i, r>>] = r * b + val(i)
  BY <1>1, <1>3
<1>5. step \in [(1..n) \X Nat -> Nat]
  <2>1. \A p \in (1..n) \X Nat : p[1] \in 1..n /\ p[2] \in Nat
    OBVIOUS
  <2>2. \A p \in (1..n) \X Nat : p[2] * b + val(p[1]) \in Nat
    BY <1>4, <2>1
  <2> QED BY <2>2
<1> HIDE DEF step
<1>6. IsLooped(n, Nat, zero, step)
  <2>1. zero \in Nat
    OBVIOUS
  <2> HIDE DEF zero
  <2>2. IsLoop(n, Nat, zero, step)
    BY <1>1, <1>5, <2>1 DEF IsLoop
  <2> QED BY <2>2, LoopExists
<1>7. PICK f \in [0..n -> Nat] : f[0] = 0 /\ \A i \in 1..n : f[i] = step[<<i, f[i - 1]>>]
  BY <1>6 DEF IsLooped
<1> DEFINE abs == [i \in from..to |-> f[i - from]]
<1>8. abs \in [from..to -> Nat]
  <2>1. \A i \in from..to : i - from \in 0..n
    BY <1>1
  <2> QED BY <1>7, <2>1
<1>9. abs[from] = 0
  BY <1>1, <1>7
<1>10. ASSUME NEW i \in (from + 1)..to PROVE abs[i] = abs[i - 1] * b + ValueOf(s[i], b)
  <2> DEFINE j == i - from
  <2>1. j \in 1..n /\ j - 1 \in 0..n /\ i \in from..to /\ i - 1 \in from..to /\ i - 1 - from = j - 1 /\ from + j = i
    BY <1>1
  <2>2. abs[i] = f[j] /\ abs[i - 1] = f[j - 1]
    BY <2>1
  <2> HIDE DEF abs, j
  <2>3. f[j] = f[j - 1] * b + val(j)
    BY <1>4, <1>7, <2>1
  <2> QED BY <2>1, <2>2, <2>3 DEF val
<1> QED BY <1>2, <1>8, <1>9, <1>10 DEF Reading

GoOnAlike(f, g, from, to) ==
  /\ from \in Nat /\ to \in Nat /\ from <= to /\ f[from] = g[from]
  /\ \A i \in (from + 1)..to : f[i - 1] = g[i - 1] => f[i] = g[i]

\* Two functions that begin and go on alike are alike.
LEMMA RangeUnique ==
  ASSUME NEW from, NEW to, NEW f, NEW g, GoOnAlike(f, g, from, to)
  PROVE  \A i \in from..to : f[i] = g[i]
<1>0. /\ from \in Nat /\ to \in Nat /\ from <= to /\ f[from] = g[from]
      /\ \A i \in (from + 1)..to : f[i - 1] = g[i - 1] => f[i] = g[i]
  BY DEF GoOnAlike
<1> DEFINE n == to - from
           F == [j \in 0..n |-> f[from + j]]
           H == [j \in 0..n |-> g[from + j]]
<1>1. n \in Nat /\ to = from + n /\ from + 0 = from /\ 0 \in 0..n
  BY <1>0
<1> HIDE DEF n
<1>2. F[0] = H[0]
  BY <1>0, <1>1
<1>3. ASSUME NEW j \in 1..n, F[j - 1] = H[j - 1] PROVE F[j] = H[j]
  <2> DEFINE i == from + j
  <2>1. i \in (from + 1)..to /\ j \in 0..n /\ j - 1 \in 0..n /\ from + (j - 1) = i - 1
    BY <1>0, <1>1
  <2>2. F[j] = f[i] /\ H[j] = g[i] /\ F[j - 1] = f[from + (j - 1)] /\ H[j - 1] = g[from + (j - 1)]
    BY <2>1
  <2> HIDE DEF i, F, H
  <2>3. f[i - 1] = g[i - 1]
    BY <1>3, <2>1, <2>2, Zenon
  <2>4. f[i] = g[i]
    BY <1>0, <2>1, <2>3
  <2> QED BY <2>2, <2>4, Zenon
<1>4. \A j \in 0..n : F[j] = H[j]
  <2> HIDE DEF F, H
  <2>1. GivenAlike(F, H, n)
    BY <1>2, <1>3 DEF GivenAlike
  <2> QED BY <1>1, <2>1, LoopUnique, Zenon
<1>5. ASSUME NEW i \in from..to PROVE f[i] = g[i]
  <2> DEFINE j == i - from
  <2>1. j \in 0..n /\ from + j = i
    BY <1>0, <1>1
  <2> HIDE DEF j
  <2>2. F[j] = f[from + j] /\ H[j] = g[from + j]
    BY <2>1
  <2> HIDE DEF F, H
  <2> QED BY <1>4, <2>1, <2>2, Zenon
<1> QED BY <1>5

SignOf(s) == IF s[1] \in {43, 45} THEN 1 ELSE 0
BaseOf(s, base) == IF base /= 0 THEN base ELSE IF s[SignOf(s) + 1] = 48 THEN 8 ELSE 10
NoHex(s, base) == ~(base = 0 /\ Len(s) >= SignOf(s) + 4 /\ s[SignOf(s) + 1] = 48)

\* r is what was read of s up to a place.
WasRead(r, s, b, to, abs) ==
  /\ to \in SignOf(s)..(Len(s) - 1) /\ ValueOf(s[to + 1], b) < 0
  /\ Reading(abs, s, b, SignOf(s), to)
  /\ r = [end |-> IF to = SignOf(s) THEN 0 ELSE to, n |-> IF s[1] = 45 THEN -abs[to] ELSE abs[to]]

\* Where strtoll stops, and what it has read by then, when there is no hexadecimal prefix.
LEMMA ReadIntIs ==
  ASSUME NEW s \in Seq(Char), Len(s) >= 1, s[Len(s)] = 0, NEW base \in {0, 10}, NoHex(s, base)
  PROVE  BaseOf(s, base) \in {8, 10} /\ \E to, abs : WasRead(ReadInt(s, base), s, BaseOf(s, base), to, abs)
<1> DEFINE sign == IF s[1] \in {43, 45} THEN 1 ELSE 0
           hex == base = 0 /\ Len(s) >= sign + 4 /\ s[sign + 1] = 48 /\ s[sign + 2] \in {88, 120}
                    /\ ValueOf(s[sign + 3], 16) >= 0
           b == IF base /= 0 THEN base ELSE IF hex THEN 16 ELSE IF s[sign + 1] = 48 THEN 8 ELSE 10
           from == sign + (IF hex THEN 2 ELSE 0)
           T == {i \in from..(Len(s) - 1) : ValueOf(s[i + 1], b) < 0}
           to == Min(T)
           G(f) == f = [i \in from..to |-> IF i = from THEN 0 ELSE f[i - 1] * b + ValueOf(s[i], b)]
           abs == CHOOSE f : G(f)
           r == [end |-> IF to = from THEN 0 ELSE to, n |-> IF s[1] = 45 THEN -abs[to] ELSE abs[to]]
<1>1. ReadInt(s, base) = r
  BY DEF ReadInt
<1>2. sign = SignOf(s) /\ sign \in {0, 1}
  BY DEF SignOf
<1>3. ~hex
  BY <1>2 DEF NoHex
<1> HIDE DEF hex, sign
<1>4. b = BaseOf(s, base) /\ b \in {8, 10}
  BY <1>2, <1>3 DEF BaseOf
<1>5. from = SignOf(s) /\ from \in {0, 1}
  BY <1>2, <1>3
<1> HIDE DEF b, from, to, abs
<1>6. Len(s) \in Nat /\ from <= Len(s) - 1
  <2>1. CASE from = 0
    BY <2>1
  <2>2. CASE from = 1
    <3>1. s[1] \in {43, 45}
      BY <1>5, <2>2 DEF SignOf
    <3>2. Len(s) /= 1
      BY <3>1
    <3>3. Len(s) \in Nat /\ Len(s) >= 1
      OBVIOUS
    <3>4. \A l \in Nat : l >= 1 /\ l /= 1 => 1 <= l - 1
      OBVIOUS
    <3>5. 1 <= Len(s) - 1
      BY <3>2, <3>3, <3>4, Zenon
    <3> QED BY <2>2, <3>3, <3>5, Zenon
  <2> QED BY <1>5, <2>1, <2>2
<1>7. T \in SUBSET Nat /\ Len(s) - 1 \in T
  <2>1. \A i \in from..(Len(s) - 1) : i \in Nat
    BY <1>5
  <2>2. ValueOf(0, b) = -1
    BY <1>4, ValueIs
  <2> DEFINE l == Len(s) - 1
  <2>3. l \in from..(Len(s) - 1) /\ l + 1 = Len(s)
    BY <1>5, <1>6
  <2> HIDE DEF l
  <2>4. ValueOf(s[l + 1], b) < 0
    BY <2>2, <2>3
  <2>5. l \in T
    BY <2>3, <2>4
  <2> QED BY <2>1, <2>5 DEF l
<1>8. to \in T /\ \A x \in T : to <= x
  <2> HIDE DEF T
  <2> QED BY <1>7, MinIs DEF to
<1>9. to \in from..(Len(s) - 1) /\ ValueOf(s[to + 1], b) < 0 /\ to \in Nat /\ from <= to
  BY <1>5, <1>8
<1>10. ASSUME NEW i \in (from + 1)..to PROVE ValueOf(s[i], b) >= 0
  <2> DEFINE j == i - 1
  <2>1. j \in from..(Len(s) - 1) /\ ~(to <= j) /\ j + 1 = i
    BY <1>5, <1>6, <1>9
  <2> HIDE DEF j
  <2>2. j \notin T
    <3> HIDE DEF T
    <3> QED BY <1>8, <2>1
  <2>3. ~(ValueOf(s[i], b) < 0)
    BY <2>1, <2>2
  <2>4. ValueOf(s[i], b) \in Int
    BY <1>4, ValueIs
  <2> QED BY <2>3, <2>4
<1> HIDE DEF T
<1>11. from \in Nat
  BY <1>5
<1>12. PICK f : Reading(f, s, b, from, to)
  BY <1>4, <1>9, <1>10, <1>11, ReadingExists
<1>13. /\ f \in [from..to -> Nat] /\ f[from] = 0
       /\ \A i \in (from + 1)..to : ValueOf(s[i], b) \in Nat /\ f[i] = f[i - 1] * b + ValueOf(s[i], b)
  BY <1>12 DEF Reading
<1>14. G(f)
  <2>1. ASSUME NEW i \in from..to PROVE f[i] = IF i = from THEN 0 ELSE f[i - 1] * b + ValueOf(s[i], b)
    <3>1. i = from \/ i \in (from + 1)..to
      BY <1>9, <1>11
    <3> QED BY <1>13, <3>1
  <2> DEFINE h == [i \in from..to |-> f[i]]
  <2>2. h = f
    BY <1>13
  <2>3. h = [i \in from..to |-> IF i = from THEN 0 ELSE f[i - 1] * b + ValueOf(s[i], b)]
    BY <2>1
  <2> HIDE DEF h
  <2> QED BY <2>2, <2>3
<1>15. G(abs)
  BY <1>14 DEF abs
<1>16. abs[from] = 0 /\ \A i \in (from + 1)..to : abs[i] = abs[i - 1] * b + ValueOf(s[i], b)
  <2>1. \A i \in from..to : abs[i] = IF i = from THEN 0 ELSE abs[i - 1] * b + ValueOf(s[i], b)
    BY <1>15
  <2>2. from \in from..to /\ \A i \in (from + 1)..to : i \in from..to /\ i /= from
    BY <1>9, <1>11
  <2> HIDE DEF G
  <2> QED BY <2>1, <2>2
<1>17. \A i \in from..to : abs[i] = f[i]
  <2>1. ASSUME NEW i \in (from + 1)..to, abs[i - 1] = f[i - 1] PROVE abs[i] = f[i]
    BY <1>13, <1>16, <2>1
  <2> HIDE DEF G
  <2>2. abs[from] = f[from]
    BY <1>13, <1>16
  <2>3. \A i \in (from + 1)..to : abs[i - 1] = f[i - 1] => abs[i] = f[i]
    BY <2>1
  <2>4. GoOnAlike(abs, f, from, to)
    BY <1>9, <1>11, <2>2, <2>3, Zenon DEF GoOnAlike
  <2> QED BY <2>4, RangeUnique
<1>18. abs = f
  <2>1. abs = [i \in from..to |-> abs[i]]
    BY <1>15
  <2>2. f = [i \in from..to |-> f[i]]
    BY <1>13
  <2> HIDE DEF G
  <2>3. [i \in from..to |-> abs[i]] = [i \in from..to |-> f[i]]
    BY <1>17
  <2> QED BY <2>1, <2>2, <2>3, Zenon
<1>19. WasRead(r, s, b, to, abs)
  BY <1>5, <1>9, <1>12, <1>18, Zenon DEF WasRead
<1> HIDE DEF r
<1> QED BY <1>1, <1>4, <1>19

-----------------------------------------------------------------------------
\* What ParseNum makes of a value that it has read.
InRange(val, range) == IF val \in range THEN [ok |-> TRUE, n |-> val] ELSE [ok |-> FALSE]

\* What is accepted when all has been read.
LEMMA ParseOfRead ==
  ASSUME NEW v, NEW base, NEW range, v.len /= 0, Parsed(v)[1] \notin Space,
         Parsed(v)[v.len + 1] = 0, NEW val, ReadInt(Parsed(v), base) = [end |-> v.len, n |-> val]
  PROVE  ParseNum(v, base, range) = InRange(val, range)
<1> DEFINE p == Parsed(v)
           r == ReadInt(p, base)
<1>1. ParseNum(v, base, range) =
        IF \/ v.len = 0 \/ p[1] \in Space \/ p[r.end + 1] /= 0 \/ r.end /= v.len \/ r.n \notin range
        THEN [ok |-> FALSE] ELSE [ok |-> TRUE, n |-> r.n]
  BY DEF ParseNum, Parsed
<1>2. r.end = v.len /\ r.n = val
  OBVIOUS
<1> HIDE DEF r
<1> QED BY <1>1, <1>2 DEF InRange

\* What ParseNum must have read to accept.
LEMMA ParseNeeds ==
  ASSUME NEW v, NEW base, NEW range, ParseNum(v, base, range).ok
  PROVE  v.len /= 0 /\ ReadInt(Parsed(v), base).end = v.len
<1> DEFINE p == Parsed(v)
           r == ReadInt(p, base)
<1>1. ParseNum(v, base, range) =
        IF \/ v.len = 0 \/ p[1] \in Space \/ p[r.end + 1] /= 0 \/ r.end /= v.len \/ r.n \notin range
        THEN [ok |-> FALSE] ELSE [ok |-> TRUE, n |-> r.n]
  BY DEF ParseNum, Parsed
<1> HIDE DEF p, r
<1>2. [ok |-> FALSE].ok = FALSE
  OBVIOUS
<1>3. ~(\/ v.len = 0 \/ p[1] \in Space \/ p[r.end + 1] /= 0 \/ r.end /= v.len \/ r.n \notin range)
  BY <1>1, <1>2
<1> QED BY <1>3 DEF p, r

\* What is parsed is a number.
LEMMA OnlyNumbersParse ==
  ASSUME NEW v, OKSlice(v), ParseInt64(v, 10).ok
  PROVE  IsNumber(TextOf(v))
<1> DEFINE p == Parsed(v)
           t == TextOf(v)
<1>1. v.len \in Nat /\ t \in Seq(Char) /\ Len(t) = v.len
  BY ByteIs, TextIs
<1>2. v.len /= 0 /\ ReadInt(p, 10).end = v.len
  BY ParseNeeds DEF ParseInt64
<1>3. /\ p \in Seq(Char) /\ Len(p) \in 1..(v.len + 1) /\ p[Len(p)] = 0
      /\ \A i \in 1..Len(p) : i <= v.len => p[i] = t[i]
  BY ParsedIs DEF IsCText
<1> HIDE DEF p, t
<1>4. PICK to, abs : WasRead(ReadInt(p, 10), p, 10, to, abs)
  <2>1. NoHex(p, 10) /\ BaseOf(p, 10) = 10
    BY DEF NoHex, BaseOf
  <2>2. 10 \in {0, 10} /\ Len(p) >= 1
    BY <1>1, <1>3
  <2>3. \E to, abs : WasRead(ReadInt(p, 10), p, BaseOf(p, 10), to, abs)
    BY <1>3, <2>1, <2>2, ReadIntIs
  <2> QED BY <2>1, <2>3, Zenon
<1> DEFINE sign == SignOf(p)
           r == ReadInt(p, 10)
<1>5. /\ to \in sign..(Len(p) - 1)
      /\ \A i \in (sign + 1)..to : ValueOf(p[i], 10) \in Nat
      /\ r.end = IF to = sign THEN 0 ELSE to
  BY <1>4 DEF WasRead, Reading
<1>6. sign \in {0, 1} /\ sign = IF p[1] \in {43, 45} THEN 1 ELSE 0
  BY DEF SignOf
<1> HIDE DEF sign, r
<1>7. to = v.len /\ to /= sign /\ to > sign
  <2>1. r.end = v.len
    BY <1>2 DEF r
  <2>2. to /= sign
    BY <1>2, <1>5, <2>1
  <2>3. Len(p) \in Nat
    BY <1>1, <1>3
  <2> QED BY <1>5, <1>6, <2>1, <2>2, <2>3
<1>8. p[1] = t[1] /\ t /= <<>>
  <2>1. 1 \in 1..Len(p) /\ 1 <= v.len
    BY <1>1, <1>2, <1>3
  <2>2. Len(t) /= 0
    BY <1>1, <1>2
  <2> QED BY <1>3, <2>1, <2>2
<1>9. \A i \in (sign + 1)..Len(t) : t[i] \in Digit
  <2> SUFFICES ASSUME NEW i \in (sign + 1)..Len(t) PROVE t[i] \in Digit
    OBVIOUS
  <2>1. i \in (sign + 1)..to /\ i \in 1..Len(p) /\ i <= v.len
    BY <1>1, <1>3, <1>5, <1>6, <1>7
  <2>2. ValueOf(p[i], 10) >= 0
    BY <1>5, <2>1
  <2>3. p[i] \in Digit
    BY <2>2, ValueIs
  <2> QED BY <1>3, <2>1, <2>3
<1>10. Len(t) > sign
  BY <1>1, <1>7
<1> QED BY <1>6, <1>8, <1>9, <1>10 DEF IsNumber, t

-----------------------------------------------------------------------------
\* A number that base 0 reads as base 10 does.
Numeral(t, base) ==
  /\ IsNumber(t)
  /\ base = 10 \/ Len(t) = SignOf(t) + 1 \/ t[SignOf(t) + 1] /= 48

\* A number has a sign or none and digits, and no other byte.
LEMMA NumeralIs ==
  ASSUME NEW t \in Seq(Char), IsNumber(t)
  PROVE  /\ Len(t) \in Nat /\ Len(t) > SignOf(t) /\ SignOf(t) \in {0, 1}
         /\ \A i \in (SignOf(t) + 1)..Len(t) : t[i] \in Digit
         /\ \A i \in 1..Len(t) : t[i] /= 0 /\ t[i] \notin Space
<1>1. t /= <<>>
  BY DEF IsNumber
<1>2. Len(t) > SignOf(t) /\ \A i \in (SignOf(t) + 1)..Len(t) : t[i] \in Digit
  BY <1>1 DEF IsNumber, SignOf
<1>3. SignOf(t) \in {0, 1} /\ (SignOf(t) = 1 => t[1] \in {43, 45})
  BY DEF SignOf
<1>4. Len(t) \in Nat
  OBVIOUS
<1>5. ASSUME NEW i \in 1..Len(t) PROVE t[i] /= 0 /\ t[i] \notin Space
  <2>1. (i = 1 /\ SignOf(t) = 1) \/ i \in (SignOf(t) + 1)..Len(t)
    BY <1>3, <1>4
  <2>2. t[i] \in {43, 45} \/ t[i] \in Digit
    BY <1>2, <1>3, <2>1
  <2> QED BY <2>2, SMTT(40) DEF Digit, Space
<1> QED BY <1>2, <1>3, <1>4, <1>5

SignedOf(t, abs) == IF t[1] = 45 THEN -abs[Len(t)] ELSE abs[Len(t)]

\* All of it is read when it is a number.
LEMMA NumeralText ==
  ASSUME NEW v, OKSlice(v), IsNumber(TextOf(v))
  PROVE  /\ Len(Parsed(v)) = v.len + 1 /\ Parsed(v) \in Seq(Char) /\ Parsed(v)[v.len + 1] = 0
         /\ SignOf(Parsed(v)) = SignOf(TextOf(v))
         /\ \A i \in 1..v.len : Parsed(v)[i] = TextOf(v)[i]
<1> DEFINE p == Parsed(v)
           t == TextOf(v)
<1>1. v.len \in Nat /\ t \in Seq(Char) /\ Len(t) = v.len
  BY ByteIs, TextIs
<1>2. /\ p \in Seq(Char) /\ Len(p) \in 1..(v.len + 1) /\ p[Len(p)] = 0
      /\ \A i \in 1..Len(p) : i <= v.len => p[i] = t[i]
  BY ParsedIs DEF IsCText
<1>3. /\ Len(t) > SignOf(t) /\ SignOf(t) \in {0, 1}
      /\ \A i \in 1..Len(t) : t[i] /= 0
  BY <1>1, NumeralIs
<1> HIDE DEF p, t
<1> DEFINE l == Len(p)
<1>4. l \in 1..(v.len + 1) /\ p[l] = 0 /\ \A i \in 1..l : i <= v.len => p[i] = t[i]
  BY <1>2
<1> HIDE DEF l
<1>5. l = v.len + 1
  <2>1. SUFFICES ASSUME l <= v.len PROVE FALSE
    BY <1>1, <1>4
  <2>2. l \in 1..Len(t) /\ l \in 1..l
    BY <1>1, <1>4, <2>1
  <2> QED BY <1>3, <1>4, <2>1, <2>2
<1>6. \A i \in 1..v.len : p[i] = t[i]
  BY <1>1, <1>4, <1>5
<1>7. p[1] = t[1]
  BY <1>1, <1>3, <1>6
<1>8. SignOf(p) = SignOf(t)
  BY <1>7 DEF SignOf
<1> QED BY <1>2, <1>4, <1>5, <1>6, <1>8 DEF l, p, t

\* A number is read to its end, and parsed if it is in the range.
LEMMA NumeralParsed ==
  ASSUME NEW v, OKSlice(v), NEW base \in {0, 10}, Numeral(TextOf(v), base), NEW range
  PROVE  \E abs : /\ Reading(abs, TextOf(v), 10, SignOf(TextOf(v)), Len(TextOf(v)))
                  /\ ParseNum(v, base, range) = InRange(SignedOf(TextOf(v), abs), range)
<1> DEFINE p == Parsed(v)
           t == TextOf(v)
           sign == SignOf(t)
           n == v.len
<1>1. n \in Nat /\ t \in Seq(Char) /\ Len(t) = n
  BY ByteIs, TextIs
<1>2. IsNumber(t)
  BY DEF Numeral
<1>3. /\ Len(t) > sign /\ sign \in {0, 1}
      /\ \A i \in (sign + 1)..Len(t) : t[i] \in Digit
      /\ \A i \in 1..Len(t) : t[i] /= 0 /\ t[i] \notin Space
  BY <1>1, <1>2, NumeralIs
<1>4. /\ Len(p) = n + 1 /\ p \in Seq(Char) /\ p[n + 1] = 0 /\ SignOf(p) = sign
      /\ \A i \in 1..n : p[i] = t[i]
  BY <1>2, NumeralText
<1>5. base = 10 \/ n = sign + 1 \/ t[sign + 1] /= 48
  BY <1>1 DEF Numeral
<1> HIDE DEF p, t, sign, n
<1>6. sign + 1 \in 1..n /\ 1 \in 1..n /\ p[sign + 1] = t[sign + 1] /\ p[1] = t[1]
  BY <1>1, <1>3, <1>4
<1>7. NoHex(p, base)
  <2>1. ASSUME base = 0, Len(p) >= SignOf(p) + 4, p[SignOf(p) + 1] = 48 PROVE FALSE
    <3>1. n + 1 >= sign + 4 /\ t[sign + 1] = 48
      BY <1>4, <1>6, <2>1
    <3>2. n /= sign + 1
      BY <1>1, <1>3, <3>1
    <3> QED BY <1>5, <2>1, <3>1, <3>2
  <2> QED BY <2>1 DEF NoHex
<1> DEFINE b == BaseOf(p, base)
<1>8. b \in {8, 10} /\ \E to, abs : WasRead(ReadInt(p, base), p, b, to, abs)
  <2>1. Len(p) >= 1 /\ p[Len(p)] = 0
    BY <1>1, <1>4
  <2> QED BY <1>4, <1>7, <2>1, ReadIntIs
<1>9. b = 10 \/ (b = 8 /\ n = sign + 1 /\ t[sign + 1] = 48)
  BY <1>4, <1>5, <1>6 DEF BaseOf
<1> HIDE DEF b
<1>10. PICK to, abs : WasRead(ReadInt(p, base), p, b, to, abs)
  BY <1>8
<1>11. /\ to \in sign..(Len(p) - 1) /\ ValueOf(p[to + 1], b) < 0
       /\ Reading(abs, p, b, sign, to)
       /\ ReadInt(p, base) = [end |-> IF to = sign THEN 0 ELSE to, n |-> IF p[1] = 45 THEN -abs[to] ELSE abs[to]]
  BY <1>4, <1>10 DEF WasRead
<1>12. \A i \in (sign + 1)..n : p[i] = t[i] /\ ValueOf(t[i], 10) \in Nat /\ ValueOf(t[i], b) = ValueOf(t[i], 10)
  <2> SUFFICES ASSUME NEW i \in (sign + 1)..n
               PROVE  p[i] = t[i] /\ ValueOf(t[i], 10) \in Nat /\ ValueOf(t[i], b) = ValueOf(t[i], 10)
    OBVIOUS
  <2>1. i \in 1..n /\ i \in (sign + 1)..Len(t)
    BY <1>1, <1>3
  <2>2. ValueOf(t[i], 10) \in Nat
    <3>1. t[i] \in Digit
      BY <1>3, <2>1
    <3>2. ValueOf(t[i], 10) >= 0 /\ ValueOf(t[i], 10) \in -1..(10 - 1)
      BY <3>1, ValueIs
    <3> QED BY <3>2
  <2>3. CASE b = 10
    BY <1>4, <2>1, <2>2, <2>3
  <2>4. CASE b = 8 /\ n = sign + 1 /\ t[sign + 1] = 48
    <3>1. i = sign + 1
      BY <1>3, <2>4
    <3>2. ValueOf(48, 8) = 0 /\ ValueOf(48, 10) = 0
      BY ValueIs
    <3> QED BY <1>4, <2>1, <2>2, <2>4, <3>1, <3>2
  <2> QED BY <1>9, <2>3, <2>4
<1>13. to = n
  <2>1. SUFFICES ASSUME to < n PROVE FALSE
    BY <1>1, <1>3, <1>4, <1>11
  <2>2. to + 1 \in (sign + 1)..n
    BY <1>1, <1>3, <1>11, <2>1
  <2> DEFINE c == ValueOf(p[to + 1], b)
  <2>3. c \in Nat
    BY <1>12, <2>2
  <2>4. c < 0
    BY <1>11
  <2> HIDE DEF c
  <2> QED BY <2>3, <2>4
<1>14. Reading(abs, t, 10, sign, n)
  <2>1. /\ abs \in [sign..n -> Nat] /\ abs[sign] = 0
        /\ \A i \in (sign + 1)..n : ValueOf(p[i], b) \in Nat /\ abs[i] = abs[i - 1] * b + ValueOf(p[i], b)
    BY <1>11, <1>13 DEF Reading
  <2>2. ASSUME NEW i \in (sign + 1)..n PROVE abs[i] = abs[i - 1] * 10 + ValueOf(t[i], 10)
    <3>1. p[i] = t[i] /\ ValueOf(t[i], 10) \in Nat /\ ValueOf(t[i], b) = ValueOf(t[i], 10)
      BY <1>12
    <3>2. abs[i] = abs[i - 1] * b + ValueOf(t[i], 10)
      BY <2>1, <3>1
    <3>3. CASE b = 10
      BY <3>2, <3>3
    <3>4. CASE b = 8 /\ n = sign + 1
      <4>1. i - 1 = sign
        BY <1>3, <3>4
      <4>2. abs[i - 1] = 0
        BY <2>1, <4>1
      <4>3. 0 * b = 0 * 10
        BY <3>4
      <4> QED BY <3>2, <4>2, <4>3
    <3> QED BY <1>9, <3>3, <3>4
  <2> QED BY <1>12, <2>1, <2>2 DEF Reading
<1>15. ReadInt(p, base) = [end |-> n, n |-> SignedOf(t, abs)]
  <2>1. n /= sign
    BY <1>1, <1>3
  <2> QED BY <1>1, <1>6, <1>11, <1>13, <2>1 DEF SignedOf
<1>16. ParseNum(v, base, range) = InRange(SignedOf(t, abs), range)
  <2>1. n /= 0 /\ p[1] \notin Space
    BY <1>1, <1>3, <1>6
  <2> QED BY <1>4, <1>15, <2>1, ParseOfRead DEF n, p
<1> QED BY <1>1, <1>14, <1>16 DEF t, sign, n

\* A number of at most two characters is in every range.
LEMMA ShortNumbersParse ==
  ASSUME NEW v, OKSlice(v), IsNumber(TextOf(v)), Len(TextOf(v)) <= 2
  PROVE  ParseInt64(v, 10).ok
<1> DEFINE t == TextOf(v)
           sign == SignOf(t)
           n == Len(t)
<1>1. t \in Seq(Char)
  BY TextIs
<1>2. n \in Nat /\ n > sign /\ sign \in {0, 1} /\ \A i \in (sign + 1)..n : t[i] \in Digit
  BY <1>1, NumeralIs
<1>3. Numeral(t, 10) /\ 10 \in {0, 10}
  BY DEF Numeral
<1>4. n <= 2
  OBVIOUS
<1> HIDE DEF t, sign, n
<1>5. PICK abs : /\ Reading(abs, t, 10, sign, n)
                 /\ ParseNum(v, 10, IntMin..IntMax) = InRange(SignedOf(t, abs), IntMin..IntMax)
  BY <1>3, NumeralParsed DEF t, sign, n
<1>6. /\ abs \in [sign..n -> Nat] /\ abs[sign] = 0
      /\ \A i \in (sign + 1)..n : ValueOf(t[i], 10) \in Nat /\ abs[i] = abs[i - 1] * 10 + ValueOf(t[i], 10)
  BY <1>5 DEF Reading
<1>7. \A i \in (sign + 1)..n : ValueOf(t[i], 10) \in 0..9
  <2>1. \A i \in (sign + 1)..n : ValueOf(t[i], 10) \in -1..(10 - 1)
    BY ValueIs
  <2> QED BY <1>6, <2>1
<1>8. \A a \in Nat, c \in 0..9 : a * 10 + c \in Nat /\ (a = 0 => a * 10 + c <= 9) /\ (a <= 9 => a * 10 + c <= 99)
  OBVIOUS
<1>9. \A i \in (sign + 1)..n : i - 1 \in sign..n /\ i \in sign..n /\ abs[i - 1] \in Nat /\ abs[i] \in Nat
  <2>1. \A i \in (sign + 1)..n : i - 1 \in sign..n /\ i \in sign..n
    BY <1>2
  <2> QED BY <1>6, <2>1
<1>10. \A i \in (sign + 1)..n : (abs[i - 1] = 0 => abs[i] <= 9) /\ (abs[i - 1] <= 9 => abs[i] <= 99)
  <2> SUFFICES ASSUME NEW i \in (sign + 1)..n
               PROVE  (abs[i - 1] = 0 => abs[i] <= 9) /\ (abs[i - 1] <= 9 => abs[i] <= 99)
    OBVIOUS
  <2>1. abs[i] = abs[i - 1] * 10 + ValueOf(t[i], 10) /\ abs[i - 1] \in Nat /\ ValueOf(t[i], 10) \in 0..9
    BY <1>6, <1>7, <1>9
  <2> QED BY <1>8, <2>1, Zenon
<1>11. abs[n] \in 0..99
  <2> DEFINE i == sign + 1
  <2>1. i \in (sign + 1)..n /\ i - 1 = sign
    BY <1>2
  <2>2. i = n \/ (n \in (sign + 1)..n /\ n - 1 = i)
    BY <1>2, <1>4
  <2> HIDE DEF i
  <2>3. abs[i] <= 9 /\ abs[i] \in Nat
    BY <1>6, <1>9, <1>10, <2>1
  <2>4. abs[n] \in Nat /\ abs[n] <= 99
    <3>1. CASE i = n
      BY <2>3, <3>1
    <3>2. CASE n \in (sign + 1)..n /\ n - 1 = i
      BY <1>9, <1>10, <2>3, <3>2
    <3> QED BY <2>2, <3>1, <3>2
  <2>5. \A a \in Nat : a <= 99 => a \in 0..99
    OBVIOUS
  <2> QED BY <2>4, <2>5, Zenon
<1> DEFINE a == abs[n]
           s == SignedOf(t, abs)
<1>12. s \in {a, -a} /\ a \in 0..99
  BY <1>11 DEF SignedOf, n
<1> HIDE DEF a, s
<1>13. s \in IntMin..IntMax
  BY <1>12, StrFnsAssumption DEF IntMin
<1> HIDE DEF n
<1> QED BY <1>5, <1>13 DEF InRange, ParseInt64, s

-----------------------------------------------------------------------------
(* Decimal.                                                                *)

\* h adds up the digits of D.
AddsUp(h, D) == h[0] = 0 /\ \A i \in 1..Len(D) : h[i] = h[i - 1] * 10 + (D[i] - 48)

\* D is the number m, in digits the first of which is not 0.
IsDecimal(D, m) ==
  /\ D \in Seq(Char) /\ Len(D) \in Nat /\ Len(D) >= 1 /\ D[1] /= 48
  /\ \A i \in 1..Len(D) : D[i] \in Digit
  /\ \A h : AddsUp(h, D) => h[Len(D)] = m

LEMMA DecimalStep ==
  ASSUME NEW m \in Nat, m > 0
  PROVE  Decimal(0) = <<>> /\ Decimal(m) = Append(Decimal(m \div 10), 48 + (m % 10))
<1> DEFINE body(k, f) == IF k > 0 THEN Append(f[k \div 10], 48 + (k % 10)) ELSE <<>>
           G(f) == f = [k \in Nat |-> body(k, f)]
           digits == CHOOSE f : G(f)
           S == Seq(Int)
           step == [q \in Nat \X [Nat -> S] |-> body(q[1], q[2])]
           rank == [k \in Nat |-> k]
<1>1. \A k \in Nat : k \div 10 \in Nat /\ 48 + (k % 10) \in Int /\ (k > 0 => k \div 10 < k)
  OBVIOUS
<1>2. ASSUME NEW k \in Nat, NEW f \in [Nat -> S] PROVE body(k, f) \in S
  <2>1. f[k \div 10] \in S
    BY <1>1
  <2>2. Append(f[k \div 10], 48 + (k % 10)) \in S
    BY <1>1, <2>1, AppendProperties
  <2>3. <<>> \in S
    BY EmptySeq
  <2> QED BY <2>2, <2>3
<1>3. ASSUME NEW k \in Nat, NEW f \in [Nat -> S], NEW g \in [Nat -> S],
             \A e \in Nat : rank[e] < rank[k] => f[e] = g[e]
      PROVE  body(k, f) = body(k, g)
  <2>1. CASE k > 0
    <3>1. f[k \div 10] = g[k \div 10]
      BY <1>1, <1>3, <2>1
    <3> QED BY <2>1, <3>1
  <2>2. CASE ~(k > 0)
    BY <2>2
  <2> QED BY <2>1, <2>2
<1> HIDE DEF body
<1>4. \A k \in Nat, f \in [Nat -> S] : step[<<k, f>>] = body(k, f)
  OBVIOUS
<1>5. step \in [Nat \X [Nat -> S] -> S]
  <2>1. \A q \in Nat \X [Nat -> S] : q[1] \in Nat /\ q[2] \in [Nat -> S]
    OBVIOUS
  <2> HIDE DEF S
  <2>2. \A q \in Nat \X [Nat -> S] : body(q[1], q[2]) \in S
    BY <1>2, <2>1
  <2> QED BY <2>2
<1>6. S /= {} /\ rank \in [Nat -> Nat]
  BY EmptySeq
<1> HIDE DEF S, step, rank
<1>7. IsRecursive(Nat, S, rank, step)
  <2>1. \A d \in Nat : \A f, g \in [Nat -> S] :
          (\A e \in Nat : rank[e] < rank[d] => f[e] = g[e]) => step[<<d, f>>] = step[<<d, g>>]
    <3> SUFFICES ASSUME NEW d \in Nat, NEW f \in [Nat -> S], NEW g \in [Nat -> S],
                        \A e \in Nat : rank[e] < rank[d] => f[e] = g[e]
                 PROVE  step[<<d, f>>] = step[<<d, g>>]
      BY Zenon
    <3>1. body(d, f) = body(d, g)
      BY <1>3, Zenon
    <3>2. step[<<d, f>>] = body(d, f) /\ step[<<d, g>>] = body(d, g)
      BY <1>4, Zenon
    <3> QED BY <3>1, <3>2, Zenon
  <2> QED BY <1>5, <1>6, <2>1, Zenon DEF IsRecursive
<1>8. PICK f \in [Nat -> S] : \A d \in Nat : f[d] = step[<<d, f>>]
  BY <1>7, RecursiveExists DEF IsMade
<1>9. G(f)
  <2>1. \A d \in Nat : f[d] = body(d, f)
    BY <1>4, <1>8
  <2>2. f = [k \in Nat |-> f[k]]
    BY <1>8
  <2>3. [k \in Nat |-> f[k]] = [k \in Nat |-> body(k, f)]
    BY <2>1
  <2> QED BY <2>2, <2>3
<1>10. G(digits)
  BY <1>9
<1> HIDE DEF digits
<1>11. \A k \in Nat : digits[k] = body(k, digits)
  BY <1>10
<1>12. \A k \in Nat : Decimal(k) = digits[k]
  BY DEF Decimal, digits, body
<1>13. 0 \in Nat /\ m \div 10 \in Nat /\ ~(0 > 0)
  BY <1>1
<1>14. digits[0] = <<>>
  BY <1>11, <1>13 DEF body
<1>15. digits[m] = Append(digits[m \div 10], 48 + (m % 10))
  BY <1>11 DEF body
<1> QED BY <1>12, <1>13, <1>14, <1>15

LEMMA OneDigit ==
  ASSUME NEW d \in 1..9
  PROVE  IsDecimal(Append(<<>>, 48 + d), d)
<1> DEFINE c == 48 + d
           D == Append(<<>>, c)
<1>1. c \in Digit /\ c \in Char /\ c /= 48 /\ c - 48 = d
  BY DEF Digit, Char
<1> HIDE DEF c
<1>2. D \in Seq(Char) /\ Len(D) = 1 /\ D[1] = c
  <2>1. <<>> \in Seq(Char) /\ Len(<<>>) = 0
    OBVIOUS
  <2> QED BY <1>1, <2>1, AppendProperties
<1> HIDE DEF D
<1>3. \A i \in 1..Len(D) : D[i] \in Digit
  BY <1>1, <1>2
<1>4. ASSUME NEW h, AddsUp(h, D) PROVE h[Len(D)] = d
  <2>1. h[0] = 0 /\ 1 \in 1..Len(D) /\ 1 - 1 = 0
    BY <1>2, <1>4 DEF AddsUp
  <2>2. h[1] = h[1 - 1] * 10 + (D[1] - 48)
    BY <1>4, <2>1 DEF AddsUp
  <2>3. h[1] = 0 * 10 + d
    BY <1>1, <1>2, <2>1, <2>2
  <2> QED BY <1>2, <2>3
<1>5. 1 \in Nat /\ 1 >= 1
  OBVIOUS
<1> QED BY <1>1, <1>2, <1>3, <1>4, <1>5 DEF IsDecimal, c, D

LEMMA OneMoreDigit ==
  ASSUME NEW D, NEW k \in Nat, IsDecimal(D, k), NEW d \in 0..9
  PROVE  IsDecimal(Append(D, 48 + d), k * 10 + d)
<1> DEFINE c == 48 + d
           E == Append(D, c)
<1>1. c \in Digit /\ c \in Char /\ c - 48 = d
  BY DEF Digit, Char
<1>2. /\ D \in Seq(Char) /\ Len(D) \in Nat /\ Len(D) >= 1 /\ D[1] /= 48
      /\ \A i \in 1..Len(D) : D[i] \in Digit
      /\ \A h : AddsUp(h, D) => h[Len(D)] = k
  BY DEF IsDecimal
<1> HIDE DEF c
<1>3. E \in Seq(Char) /\ Len(E) = Len(D) + 1 /\ E[Len(D) + 1] = c /\ \A i \in 1..Len(D) : E[i] = D[i]
  BY <1>1, <1>2, AppendProperties
<1> HIDE DEF E
<1> DEFINE l == Len(D)
<1>4. l \in Nat /\ l >= 1 /\ Len(E) = l + 1 /\ l + 1 \in Nat /\ l + 1 >= 1 /\ 1 \in 1..l
  BY <1>2, <1>3
<1> HIDE DEF l
<1>5. \A i \in 1..(l + 1) : i \in 1..l \/ i = l + 1
  BY <1>4
<1>6. \A i \in 1..Len(E) : E[i] \in Digit
  BY <1>1, <1>2, <1>3, <1>4, <1>5 DEF l
<1>7. E[1] /= 48
  BY <1>2, <1>3, <1>4 DEF l
<1>8. ASSUME NEW h, AddsUp(h, E) PROVE h[Len(E)] = k * 10 + d
  <2>1. h[0] = 0 /\ \A i \in 1..(l + 1) : h[i] = h[i - 1] * 10 + (E[i] - 48)
    BY <1>4, <1>8 DEF AddsUp
  <2>2. \A i \in 1..l : i \in 1..(l + 1)
    BY <1>4
  <2>3. \A i \in 1..l : h[i] = h[i - 1] * 10 + (D[i] - 48)
    <3> SUFFICES ASSUME NEW i \in 1..l PROVE h[i] = h[i - 1] * 10 + (D[i] - 48)
      OBVIOUS
    <3>1. h[i] = h[i - 1] * 10 + (E[i] - 48) /\ E[i] = D[i]
      BY <1>3, <2>1, <2>2 DEF l
    <3> QED BY <3>1
  <2>4. AddsUp(h, D)
    BY <2>1, <2>3 DEF AddsUp, l
  <2>5. h[l] = k
    BY <1>2, <2>4 DEF l
  <2> DEFINE j == l + 1
  <2>6. j \in 1..(l + 1) /\ j - 1 = l
    BY <1>4
  <2>7. E[j] = c
    BY <1>3 DEF l
  <2> HIDE DEF j
  <2>8. h[j] = h[j - 1] * 10 + (E[j] - 48)
    BY <2>1, <2>6
  <2>9. h[j] = k * 10 + d
    BY <1>1, <2>5, <2>6, <2>7, <2>8
  <2> QED BY <1>4, <2>9 DEF j
<1> QED BY <1>3, <1>4, <1>6, <1>7, <1>8 DEF IsDecimal, c, E

\* Decimal ends, and its digits add up to the number.
LEMMA DecimalIs ==
  ASSUME NEW m \in Nat, m > 0
  PROVE  IsDecimal(Decimal(m), m)
<1> DEFINE G == {k \in Nat : \A j \in 1..k : IsDecimal(Decimal(j), j)}
<1>1. 0 \in G
  OBVIOUS
<1>2. ASSUME NEW k \in Nat, k \in G PROVE k + 1 \in G
  <2>1. \A j \in 1..k : IsDecimal(Decimal(j), j)
    BY <1>2
  <2> DEFINE n == k + 1
             q == n \div 10
             d == n % 10
  <2>2. n \in Nat /\ n > 0 /\ \A j \in 1..n : j \in 1..k \/ j = n
    OBVIOUS
  <2>3. q \in Nat /\ d \in 0..9 /\ q * 10 + d = n /\ q \in 0..k
    OBVIOUS
  <2>4. Decimal(0) = <<>> /\ Decimal(n) = Append(Decimal(q), 48 + d)
    <3> HIDE DEF n
    <3>1. Decimal(0) = <<>> /\ Decimal(n) = Append(Decimal(n \div 10), 48 + (n % 10))
      BY <2>2, DecimalStep
    <3> QED BY <3>1
  <2> HIDE DEF n, q, d
  <2>5. IsDecimal(Decimal(n), n)
    <3>1. CASE q = 0
      <4>1. d \in 1..9 /\ d = n
        BY <2>2, <2>3, <3>1
      <4>2. IsDecimal(Append(<<>>, 48 + d), d)
        BY <4>1, OneDigit
      <4> QED BY <2>4, <3>1, <4>1, <4>2
    <3>2. CASE q /= 0
      <4>1. q \in 1..k
        BY <2>3, <3>2
      <4>2. IsDecimal(Decimal(q), q)
        BY <2>1, <4>1
      <4>3. IsDecimal(Append(Decimal(q), 48 + d), q * 10 + d)
        BY <2>3, <4>2, OneMoreDigit
      <4> QED BY <2>3, <2>4, <4>3
    <3> QED BY <3>1, <3>2
  <2>6. \A j \in 1..n : IsDecimal(Decimal(j), j)
    BY <2>1, <2>2, <2>5
  <2>7. n \in G
    BY <2>2, <2>6
  <2> QED BY <2>7 DEF n
<1> HIDE DEF G
<1>3. m \in G
  BY <1>1, <1>2, InductionNat
<1>4. m \in 1..m
  OBVIOUS
<1> QED BY <1>3, <1>4 DEF G

-----------------------------------------------------------------------------
\* t is read as n in base 10, and in base 0.
IsNumeralOf(t, n) ==
  /\ t \in Seq(Char) /\ Numeral(t, 0) /\ Numeral(t, 10)
  /\ \A abs : Reading(abs, t, 10, SignOf(t), Len(t)) => SignedOf(t, abs) = n

LEMMA ZeroNumeral == IsNumeralOf(<<48>>, 0)
<1> DEFINE t == <<48>>
<1>1. t \in Seq(Char) /\ Len(t) = 1 /\ t[1] = 48 /\ t /= <<>>
  BY DEF Char
<1> HIDE DEF t
<1>2. SignOf(t) = 0
  BY <1>1 DEF SignOf
<1>3. \A i \in (0 + 1)..Len(t) : t[i] \in Digit
  BY <1>1 DEF Digit
<1>4. IsNumber(t)
  BY <1>1, <1>3 DEF IsNumber
<1>5. Numeral(t, 0) /\ Numeral(t, 10)
  BY <1>1, <1>2, <1>4 DEF Numeral
<1>6. ASSUME NEW abs, Reading(abs, t, 10, SignOf(t), Len(t)) PROVE SignedOf(t, abs) = 0
  <2>1. Reading(abs, t, 10, 0, 1)
    BY <1>1, <1>2, <1>6
  <2>2. abs[0] = 0 /\ \A i \in (0 + 1)..1 : abs[i] = abs[i - 1] * 10 + ValueOf(t[i], 10)
    BY <2>1 DEF Reading
  <2>3. 1 \in (0 + 1)..1 /\ 1 - 1 = 0 /\ 0 * 10 + 0 = 0
    OBVIOUS
  <2>4. ValueOf(t[1], 10) = 0
    BY <1>1, ValueIs
  <2>5. abs[1] = abs[1 - 1] * 10 + ValueOf(t[1], 10)
    BY <2>2, <2>3, Zenon
  <2>6. abs[1] = 0
    BY <2>2, <2>3, <2>4, <2>5
  <2> QED BY <1>1, <2>6 DEF SignedOf
<1> QED BY <1>1, <1>5, <1>6 DEF IsNumeralOf, t

LEMMA DigitsNumeral ==
  ASSUME NEW D, NEW m \in Nat, IsDecimal(D, m)
  PROVE  IsNumeralOf(D, m)
<1> DEFINE l == Len(D)
<1>1. /\ D \in Seq(Char) /\ l \in Nat /\ l >= 1 /\ D[1] /= 48 /\ \A i \in 1..l : D[i] \in Digit
      /\ \A h : AddsUp(h, D) => h[l] = m
  BY DEF IsDecimal
<1> HIDE DEF l
<1>2. D[1] \in Digit /\ D[1] \notin {43, 45} /\ D /= <<>>
  <2>1. 1 \in 1..l
    BY <1>1
  <2>2. D[1] \in Digit
    BY <1>1, <2>1
  <2>3. D /= <<>>
    BY <1>1 DEF l
  <2> QED BY <2>2, <2>3 DEF Digit
<1>3. SignOf(D) = 0 /\ D[SignOf(D) + 1] = D[1]
  <2>1. 0 + 1 = 1
    OBVIOUS
  <2> QED BY <1>2, <2>1 DEF SignOf
<1>4. IsNumber(D)
  <2>1. \A i \in (0 + 1)..Len(D) : D[i] \in Digit
    BY <1>1 DEF l
  <2>2. Len(D) > 0
    BY <1>1 DEF l
  <2> QED BY <1>2, <2>1, <2>2 DEF IsNumber
<1>5. Numeral(D, 0) /\ Numeral(D, 10)
  BY <1>1, <1>3, <1>4 DEF Numeral
<1>6. ASSUME NEW abs, Reading(abs, D, 10, SignOf(D), Len(D)) PROVE SignedOf(D, abs) = m
  <2>1. Reading(abs, D, 10, 0, l)
    BY <1>3, <1>6 DEF l
  <2>2. abs[0] = 0 /\ \A i \in (0 + 1)..l : abs[i] = abs[i - 1] * 10 + ValueOf(D[i], 10)
    BY <2>1 DEF Reading
  <2>3. ASSUME NEW i \in 1..l PROVE abs[i] = abs[i - 1] * 10 + (D[i] - 48)
    <3>1. i \in (0 + 1)..l
      OBVIOUS
    <3>2. ValueOf(D[i], 10) = D[i] - 48
      BY <1>1, ValueIs
    <3> QED BY <2>2, <3>1, <3>2
  <2>4. AddsUp(abs, D)
    BY <2>2, <2>3 DEF AddsUp, l
  <2>5. abs[l] = m
    BY <1>1, <2>4
  <2> QED BY <1>2, <2>5 DEF SignedOf, l
<1> QED BY <1>1, <1>5, <1>6 DEF IsNumeralOf

LEMMA NegativeNumeral ==
  ASSUME NEW D, NEW m \in Nat, IsDecimal(D, m)
  PROVE  IsNumeralOf(<<45>> \o D, -m)
<1> DEFINE l == Len(D)
           t == <<45>> \o D
<1>1. /\ D \in Seq(Char) /\ l \in Nat /\ l >= 1 /\ D[1] /= 48 /\ \A i \in 1..l : D[i] \in Digit
      /\ \A h : AddsUp(h, D) => h[l] = m
  BY DEF IsDecimal
<1>2. t \in Seq(Char) /\ Len(t) = l + 1 /\ t[1] = 45 /\ \A i \in 1..l : t[i + 1] = D[i]
  <2>1. <<45>> \in Seq(Char) /\ Len(<<45>>) = 1 /\ <<45>>[1] = 45
    BY DEF Char
  <2> DEFINE s == <<45>>
  <2> HIDE DEF s
  <2>2. /\ s \o D \in Seq(Char) /\ Len(s \o D) = Len(s) + Len(D)
        /\ \A i \in 1..(Len(s) + Len(D)) : (s \o D)[i] = IF i <= Len(s) THEN s[i] ELSE D[i - Len(s)]
    BY <1>1, <2>1, ConcatProperties DEF s
  <2>3. Len(s) = 1 /\ s[1] = 45 /\ t = s \o D
    BY <2>1 DEF s
  <2> HIDE DEF t, l
  <2>4. /\ t \in Seq(Char) /\ Len(t) = 1 + l
        /\ \A i \in 1..(1 + l) : t[i] = IF i <= 1 THEN s[i] ELSE D[i - 1]
    BY <2>2, <2>3 DEF l
  <2>5. t[1] = 45
    BY <1>1, <2>3, <2>4
  <2>6. ASSUME NEW i \in 1..l PROVE t[i + 1] = D[i]
    <3> DEFINE j == i + 1
    <3>1. j \in 1..(1 + l) /\ ~(j <= 1) /\ j - 1 = i
      BY <1>1
    <3> HIDE DEF j
    <3>2. t[j] = D[i]
      BY <2>4, <3>1
    <3> QED BY <3>2 DEF j
  <2> QED BY <1>1, <2>4, <2>5, <2>6
<1> HIDE DEF l, t
<1>3. SignOf(t) = 1 /\ t /= <<>>
  <2>1. t /= <<>>
    BY <1>1, <1>2
  <2> QED BY <1>2, <2>1 DEF SignOf
<1>4. \A i \in (1 + 1)..Len(t) : i - 1 \in 1..l /\ i - 1 + 1 = i
  BY <1>1, <1>2
<1>5. IsNumber(t)
  <2>1. ASSUME NEW i \in (1 + 1)..Len(t) PROVE t[i] \in Digit
    <3> DEFINE j == i - 1
    <3>1. j \in 1..l /\ j + 1 = i
      BY <1>4
    <3> HIDE DEF j
    <3>2. t[j + 1] = D[j] /\ D[j] \in Digit
      BY <1>1, <1>2, <3>1
    <3> QED BY <3>1, <3>2
  <2>2. Len(t) > 1
    BY <1>1, <1>2
  <2> QED BY <1>2, <1>3, <2>1, <2>2 DEF IsNumber
<1>6. t[SignOf(t) + 1] /= 48
  <2>1. 1 \in 1..l
    BY <1>1
  <2>2. t[1 + 1] = D[1]
    BY <1>2, <2>1
  <2> QED BY <1>1, <1>3, <2>2
<1>7. Numeral(t, 0) /\ Numeral(t, 10)
  BY <1>5, <1>6 DEF Numeral
<1>8. ASSUME NEW abs, Reading(abs, t, 10, SignOf(t), Len(t)) PROVE SignedOf(t, abs) = -m
  <2>1. Reading(abs, t, 10, 1, l + 1)
    BY <1>2, <1>3, <1>8
  <2>2. abs[1] = 0 /\ \A i \in (1 + 1)..(l + 1) : abs[i] = abs[i - 1] * 10 + ValueOf(t[i], 10)
    BY <2>1 DEF Reading
  <2> DEFINE h == [i \in 0..l |-> abs[i + 1]]
  <2>3. h[0] = 0
    <3>1. 0 \in 0..l /\ 0 + 1 = 1
      BY <1>1
    <3> QED BY <2>2, <3>1
  <2>4. ASSUME NEW i \in 1..l PROVE h[i] = h[i - 1] * 10 + (D[i] - 48)
    <3> DEFINE j == i + 1
    <3>1. j \in (1 + 1)..(l + 1) /\ j - 1 = i /\ i \in 0..l /\ i - 1 \in 0..l /\ i - 1 + 1 = i
      BY <1>1
    <3>2. h[i] = abs[j] /\ h[i - 1] = abs[i - 1 + 1]
      BY <3>1
    <3>3. t[j] = D[i]
      BY <1>2
    <3> HIDE DEF j, h
    <3>4. abs[j] = abs[j - 1] * 10 + ValueOf(t[j], 10)
      BY <2>2, <3>1
    <3>5. ValueOf(D[i], 10) = D[i] - 48
      BY <1>1, ValueIs
    <3>6. h[i - 1] = abs[j - 1]
      BY <3>1, <3>2
    <3> QED BY <3>2, <3>3, <3>4, <3>5, <3>6
  <2>5. AddsUp(h, D)
    <3> HIDE DEF h
    <3> QED BY <2>3, <2>4 DEF AddsUp, l
  <2>6. h[l] = m
    BY <1>1, <2>5
  <2>7. h[l] = abs[l + 1]
    BY <1>1
  <2> QED BY <1>2, <2>6, <2>7 DEF SignedOf
<1> QED BY <1>2, <1>7, <1>8 DEF IsNumeralOf, t

\* FromInt64 writes what is read as the same number, the least one included.
LEMMA FromInt64Is ==
  ASSUME NEW n \in IntMin..IntMax
  PROVE  IsNumeralOf(FromInt64(n), n)
<1>1. IntMax \in Nat /\ IntMin = -IntMax - 1
  BY StrFnsAssumption DEF IntMin
<1> HIDE DEF IntMin
<1>2. CASE n = 0
  BY <1>2, ZeroNumeral DEF FromInt64
<1>3. CASE n = IntMin
  <2> DEFINE m == IntMax + 1
  <2>1. m \in Nat /\ m > 0 /\ -m = n /\ n /= 0
    BY <1>1, <1>3
  <2>2. FromInt64(n) = <<45>> \o Decimal(m)
    BY <1>3, <2>1 DEF FromInt64
  <2> HIDE DEF m
  <2>3. IsNumeralOf(<<45>> \o Decimal(m), -m)
    BY <2>1, DecimalIs, NegativeNumeral
  <2> QED BY <2>1, <2>2, <2>3
<1>4. CASE n /= 0 /\ n /= IntMin /\ n < 0
  <2> DEFINE m == -n
  <2>1. m \in Nat /\ m > 0 /\ -m = n
    BY <1>1, <1>4
  <2>2. FromInt64(n) = <<45>> \o Decimal(m)
    BY <1>4 DEF FromInt64, Negated
  <2> HIDE DEF m
  <2>3. IsNumeralOf(<<45>> \o Decimal(m), -m)
    BY <2>1, DecimalIs, NegativeNumeral
  <2> QED BY <2>1, <2>2, <2>3
<1>5. CASE n /= 0 /\ n /= IntMin /\ ~(n < 0)
  <2>1. n \in Nat /\ n > 0
    BY <1>1, <1>5
  <2>2. FromInt64(n) = Decimal(n)
    BY <1>5 DEF FromInt64
  <2> QED BY <2>1, <2>2, DecimalIs, DigitsNumeral
<1> QED BY <1>2, <1>3, <1>4, <1>5

LEMMA FromUInt64Is ==
  ASSUME NEW n \in Nat
  PROVE  IsNumeralOf(FromUInt64(n), n)
<1>1. CASE n = 0
  BY <1>1, ZeroNumeral DEF FromUInt64
<1>2. CASE n /= 0
  <2>1. n > 0
    BY <1>2
  <2> QED BY <1>2, <2>1, DecimalIs, DigitsNumeral DEF FromUInt64
<1> QED BY <1>1, <1>2

-----------------------------------------------------------------------------
\* The first bytes of v, when they are t.
LEMMA FirstText ==
  ASSUME NEW v, NEW t \in Seq(Char), NEW w, IsPart(w, v, 0, Len(t)),
         \A i \in 0..(Len(t) - 1) : ByteAt(v, i) = t[i + 1]
  PROVE  OKSlice(w) /\ TextOf(w) = t
<1>1. OKSlice(w) /\ w.len = Len(t) /\ \A i \in 0..Len(t) : ByteAt(w, i) = ByteAt(v, 0 + i)
  BY DEF IsPart
<1>2. TextOf(w) \in Seq(Char) /\ Len(TextOf(w)) = Len(t) /\ \A i \in 1..Len(t) : TextOf(w)[i] = ByteAt(w, i - 1)
  BY <1>1, TextIs
<1>3. Len(t) \in Nat
  OBVIOUS
<1>4. ASSUME NEW i \in 1..Len(t) PROVE TextOf(w)[i] = t[i]
  <2> DEFINE j == i - 1
  <2>1. j \in 0..Len(t) /\ j \in 0..(Len(t) - 1) /\ 0 + j = j /\ j + 1 = i
    BY <1>3
  <2>2. TextOf(w)[i] = ByteAt(w, j)
    BY <1>2
  <2> HIDE DEF j
  <2>3. ByteAt(w, j) = ByteAt(v, j)
    BY <1>1, <2>1
  <2>4. ByteAt(v, j) = t[j + 1]
    BY <2>1
  <2> QED BY <2>1, <2>2, <2>3, <2>4
<1>5. TextOf(w) = t
  BY <1>2, <1>4, SeqEqual
<1> QED BY <1>1, <1>5

\* What was written is parsed, in base 10 and in base 0.
LEMMA ParsedBack ==
  ASSUME NEW v, OKSlice(v), NEW n, IsNumeralOf(TextOf(v), n), NEW base \in {0, 10}, NEW range, n \in range
  PROVE  ParseNum(v, base, range) = [ok |-> TRUE, n |-> n]
<1> DEFINE t == TextOf(v)
<1>1. Numeral(t, base) /\ \A abs : Reading(abs, t, 10, SignOf(t), Len(t)) => SignedOf(t, abs) = n
  BY DEF IsNumeralOf
<1>2. PICK abs : /\ Reading(abs, t, 10, SignOf(t), Len(t))
                 /\ ParseNum(v, base, range) = InRange(SignedOf(t, abs), range)
  BY <1>1, NumeralParsed
<1>3. SignedOf(t, abs) = n
  BY <1>1, <1>2
<1> QED BY <1>2, <1>3 DEF InRange

LEMMA Residue ==
  ASSUME NEW m \in Nat, m > 0, NEW n \in Int
  PROVE  n % m \in 0..(m - 1) /\ (n % m) % m = n % m
<1>1. n % m \in 0..(m - 1)
  OBVIOUS
<1>2. \A x \in 0..(m - 1) : x % m = x
  OBVIOUS
<1> QED BY <1>1, <1>2

\* Every integer survives, in a text of its own or inside of another one.
LEMMA NumbersAgreeHolds ==
  ASSUME NEW n \in IntMin..IntMax
  PROVE  NumbersAgree(n)
<1> DEFINE text == FromInt64(n)
           more == Append(text, 49)
           inside == Cut(SliceOf(more), 0, Len(text))
           m == UIntMax + 1
           un == n % m
           utext == FromUInt64(un)
<1>1. IntMax \in Nat /\ IntMin = -IntMax - 1 /\ UIntMax = 2 * IntMax + 1
  BY StrFnsAssumption DEF IntMin, UIntMax
<1>2. IsNumeralOf(text, n)
  BY FromInt64Is
<1>3. text \in Seq(Char) /\ Len(text) \in Nat
  BY <1>2 DEF IsNumeralOf
<1> HIDE DEF text
<1>4. OKSlice(SliceOf(text)) /\ TextOf(SliceOf(text)) = text
  BY <1>3, SliceOfIs
<1>5. OKSlice(Unknown(SliceOf(text))) /\ TextOf(Unknown(SliceOf(text))) = text
  <2>1. SliceOf(text).len = Len(text) /\ \A i \in 0..(Len(text) - 1) : ByteAt(SliceOf(text), i) = text[i + 1]
    BY <1>3, SliceOfIs
  <2>2. IsPart(Unknown(SliceOf(text)), SliceOf(text), 0, Len(text))
    BY <1>4, <2>1, UnknownIs
  <2> QED BY <1>3, <2>1, <2>2, FirstText
<1>6. OKSlice(inside) /\ TextOf(inside) = text
  <2>1. more \in Seq(Char) /\ Len(more) = Len(text) + 1 /\ \A i \in 1..Len(text) : more[i] = text[i]
    <3>1. 49 \in Char
      BY DEF Char
    <3> QED BY <1>3, <3>1, AppendProperties
  <2> HIDE DEF more
  <2>2. /\ OKSlice(SliceOf(more)) /\ SliceOf(more).len = Len(more)
        /\ \A i \in 0..(Len(more) - 1) : ByteAt(SliceOf(more), i) = more[i + 1]
    BY <2>1, SliceOfIs
  <2>3. 0 \in Nat /\ 0 + Len(text) <= SliceOf(more).len
    BY <1>3, <2>1, <2>2
  <2>4. IsPart(inside, SliceOf(more), 0, Len(text))
    BY <1>3, <2>2, <2>3, CutIs
  <2>5. ASSUME NEW i \in 0..(Len(text) - 1) PROVE ByteAt(SliceOf(more), i) = text[i + 1]
    <3> DEFINE j == i + 1
    <3>1. i \in 0..(Len(more) - 1) /\ j \in 1..Len(text)
      BY <1>3, <2>1
    <3> HIDE DEF j
    <3>2. more[j] = text[j]
      BY <2>1, <3>1
    <3>3. ByteAt(SliceOf(more), i) = more[j]
      BY <2>2, <3>1 DEF j
    <3> QED BY <3>2, <3>3 DEF j
  <2> HIDE DEF inside
  <2> QED BY <1>3, <2>4, <2>5, FirstText
<1> HIDE DEF inside
<1>7. ASSUME NEW v \in {SliceOf(text), Unknown(SliceOf(text)), inside}, NEW base \in {0, 10}
      PROVE  ParseInt64(v, base) = [ok |-> TRUE, n |-> n]
  <2>1. OKSlice(v) /\ TextOf(v) = text
    BY <1>4, <1>5, <1>6
  <2>2. IsNumeralOf(TextOf(v), n)
    BY <1>2, <2>1
  <2> DEFINE range == IntMin..IntMax
  <2>3. n \in range
    OBVIOUS
  <2> HIDE DEF range
  <2>4. ParseNum(v, base, range) = [ok |-> TRUE, n |-> n]
    BY <2>1, <2>2, <2>3, ParsedBack
  <2> QED BY <2>4 DEF ParseInt64, range
<1>8. m \in Nat /\ m > 0 /\ m - 1 = UIntMax
  BY <1>1
<1>9. un \in 0..(m - 1) /\ un % m = un
  <2>1. n \in Int
    BY <1>1
  <2> HIDE DEF m
  <2> QED BY <1>8, <2>1, Residue
<1>10. un \in Nat /\ un \in -UIntMax..UIntMax
  <2> HIDE DEF un
  <2> QED BY <1>1, <1>8, <1>9
<1> HIDE DEF un
<1>11. IsNumeralOf(utext, un)
  BY <1>10, FromUInt64Is
<1>12. utext \in Seq(Char)
  BY <1>11 DEF IsNumeralOf
<1> HIDE DEF utext
<1>13. OKSlice(SliceOf(utext)) /\ TextOf(SliceOf(utext)) = utext
  BY <1>12, SliceOfIs
<1>14. ASSUME NEW base \in {0, 10} PROVE ParseUInt64(SliceOf(utext), base) = [ok |-> TRUE, n |-> un]
  <2> DEFINE range == -UIntMax..UIntMax
             r == ParseNum(SliceOf(utext), base, range)
             one == [ok |-> TRUE, n |-> un]
  <2>1. ParseUInt64(SliceOf(utext), base) = IF r.ok THEN [r EXCEPT !.n = r.n % m] ELSE r
    BY DEF ParseUInt64
  <2>2. un \in range
    BY <1>10
  <2> HIDE DEF range
  <2>3. IsNumeralOf(TextOf(SliceOf(utext)), un)
    BY <1>11, <1>13
  <2>4. r = one
    BY <1>13, <2>2, <2>3, ParsedBack
  <2> HIDE DEF r, m
  <2>5. one.ok /\ one.n = un /\ one \in [ok : BOOLEAN, n : Nat]
    BY <1>10
  <2> HIDE DEF one
  <2>6. [one EXCEPT !.n = un] = one
    BY <2>5
  <2>7. ParseUInt64(SliceOf(utext), base) = [one EXCEPT !.n = one.n % m]
    BY <2>1, <2>4, <2>5
  <2>8. ParseUInt64(SliceOf(utext), base) = one
    BY <1>9, <2>5, <2>6, <2>7
  <2> QED BY <2>8 DEF one
<1> QED BY <1>7, <1>14 DEF NumbersAgree, text, inside, more, utext, un, m

-----------------------------------------------------------------------------
(* The calls.                                                              *)

\* What is asked is of a slice that a caller may have, or of a number.
Calls ==
  {NoCall} \cup {[kind |-> "text", v |-> v, arg |-> arg] : v \in {w \in SliceSet : OKSlice(w)}, arg \in Seq(Char)}
           \cup {[kind |-> "number", n |-> n] : n \in IntMin..IntMax}

CallInv == asked \in Calls

(* Every slice that a call is given lies in the text that it refers to, with a byte  *)
(* behind it, which is 0 when the slice says so (Slice and is_zero_end_ of str.h).   *)
THEOREM SlicesLieInTheirText == StrFnsSpec => []CallInv
<1>1. StrFnsInit => CallInv
  BY DEF StrFnsInit, CallInv, Calls
<1>2. CallInv /\ [StrFnsNext]_asked => CallInv'
  <2> SUFFICES ASSUME asked \in Calls, [StrFnsNext]_asked PROVE asked' \in Calls
    BY DEF CallInv
  <2>1. CASE CallText
    <3>1. PICK text \in Subject, arg \in Argument :
            \E start \in 0..Len(text), known \in BOOLEAN : \E len \in 0..(Len(text) - start) :
              LET v == SliceOf(text) IN
              asked' = [kind |-> "text", v |-> Cut(IF known THEN v ELSE Unknown(v), start, len), arg |-> arg]
      BY <2>1 DEF CallText
    <3>2. PICK start \in 0..Len(text), known \in BOOLEAN : \E len \in 0..(Len(text) - start) :
              LET v == SliceOf(text) IN
              asked' = [kind |-> "text", v |-> Cut(IF known THEN v ELSE Unknown(v), start, len), arg |-> arg]
      BY <3>1
    <3> DEFINE u == IF known THEN SliceOf(text) ELSE Unknown(SliceOf(text))
    <3>3. PICK len \in 0..(Len(text) - start) : asked' = [kind |-> "text", v |-> Cut(u, start, len), arg |-> arg]
      BY <3>2
    <3>4. text \in Seq(Char) /\ arg \in Seq(Char) /\ Len(text) \in Nat
      BY StrFnsAssumption
    <3>5. OKSlice(u) /\ u.len = Len(text)
      <4>1. OKSlice(SliceOf(text)) /\ SliceOf(text).len = Len(text)
        BY <3>4, SliceOfIs
      <4>2. OKSlice(Unknown(SliceOf(text))) /\ Unknown(SliceOf(text)).len = Len(text)
        BY <4>1, UnknownIs DEF IsPart
      <4> QED BY <4>1, <4>2
    <3> HIDE DEF u
    <3> DEFINE v == Cut(u, start, len)
    <3>6. start \in Nat /\ len \in Nat /\ start + len <= u.len
      BY <3>4, <3>5
    <3>7. OKSlice(v)
      BY <3>5, <3>6, CutIs DEF IsPart
    <3> HIDE DEF v
    <3>8. v \in {w \in SliceSet : OKSlice(w)}
      BY <3>7 DEF OKSlice
    <3>9. asked' = [kind |-> "text", v |-> v, arg |-> arg]
      BY <3>3 DEF v
    <3> QED BY <3>4, <3>8, <3>9 DEF Calls
  <2>2. CASE CallNumber
    BY <2>2 DEF CallNumber, Calls
  <2>3. CASE Return
    BY <2>3 DEF Return, Calls
  <2>4. CASE UNCHANGED asked
    BY <2>4
  <2> QED BY <2>1, <2>2, <2>3, <2>4, Zenon DEF StrFnsNext
<1> QED BY <1>1, <1>2, PTL DEF StrFnsSpec

\* What StringsAgree says of a call with a text.
LEMMA TextAgrees ==
  ASSUME NEW v, OKSlice(v), NEW arg \in Seq(Char)
  PROVE  /\ SplitsAgree(v, arg)
         /\ TrimsAgree(v)
         /\ arg /= <<>> =>
              \A max_count \in 0..2, b \in {<<>>, Append(arg, 97)} : ReplacesAgree(v, arg, b, max_count)
         /\ HexAgrees(v) /\ ReprAgrees(v)
         /\ SearchesAgree(v, arg)
         /\ CaseAgrees(v, SliceOf(arg))
         /\ ParseInt64(v, 10).ok => IsNumber(TextOf(v))
         /\ IsNumber(TextOf(v)) /\ Len(TextOf(v)) <= 2 => ParseInt64(v, 10).ok
<1>1. \A b \in {<<>>, Append(arg, 97)} : b \in Seq(Char)
  <2>1. 97 \in Char
    BY DEF Char
  <2>2. Append(arg, 97) \in Seq(Char)
    BY <2>1, AppendProperties
  <2>3. <<>> \in Seq(Char)
    BY EmptySeq
  <2> QED BY <2>2, <2>3
<1>2. ASSUME arg /= <<>>, NEW max_count \in 0..2, NEW b \in {<<>>, Append(arg, 97)}
      PROVE  ReplacesAgree(v, arg, b, max_count)
  <2>1. b \in Seq(Char)
    BY <1>1, Zenon
  <2>2. max_count \in Nat
    OBVIOUS
  <2> QED BY <1>2, <2>1, <2>2, ReplacesAgreeHolds
<1>3. CaseAgrees(v, SliceOf(arg))
  BY SliceOfIs, CaseAgreesHolds
<1>4. SplitsAgree(v, arg) /\ TrimsAgree(v)
  BY SplitsAgreeHolds, TrimsAgreeHolds
<1>5. HexAgrees(v) /\ ReprAgrees(v) /\ SearchesAgree(v, arg)
  BY HexAgreesHolds, ReprAgreesHolds, SearchesAgreeHolds
<1>6. ParseInt64(v, 10).ok => IsNumber(TextOf(v))
  BY OnlyNumbersParse
<1>7. IsNumber(TextOf(v)) /\ Len(TextOf(v)) <= 2 => ParseInt64(v, 10).ok
  BY ShortNumbersParse
<1> QED BY <1>2, <1>3, <1>4, <1>5, <1>6, <1>7

(* Split and Join, Hex and Unhex, and the conversions of numbers undo each other,    *)
(* a representation is read as its text, Replace, Trim and the searches agree, and   *)
(* the parsers take whole numbers and nothing else (src/str.cpp), whatever the text. *)
THEOREM StringsAlwaysAgree == StrFnsSpec => []StringsAgree
<1>1. CallInv => StringsAgree
  <2> SUFFICES ASSUME asked \in Calls PROVE StringsAgree
    BY DEF CallInv
  <2>1. CASE asked = NoCall
    BY <2>1 DEF StringsAgree, NoCall
  <2>2. ASSUME NEW v \in {w \in SliceSet : OKSlice(w)}, NEW arg \in Seq(Char),
               asked = [kind |-> "text", v |-> v, arg |-> arg]
        PROVE  StringsAgree
    <3>1. asked.kind = "text" /\ asked.v = v /\ asked.arg = arg
      BY <2>2
    <3>2. OKSlice(v)
      OBVIOUS
    <3> QED BY <3>1, <3>2, TextAgrees DEF StringsAgree
  <2>3. ASSUME NEW n \in IntMin..IntMax, asked = [kind |-> "number", n |-> n]
        PROVE  StringsAgree
    <3>1. asked.kind = "number" /\ asked.n = n
      BY <2>3
    <3> QED BY <3>1, NumbersAgreeHolds DEF StringsAgree
  <2> QED BY <2>1, <2>2, <2>3 DEF Calls
<1> QED BY <1>1, SlicesLieInTheirText, PTL

=============================================================================
