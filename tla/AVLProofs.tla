------------------------------ MODULE AVLProofs ------------------------------
(***************************************************************************)
(* The trees of AVL.tla stay balanced, share nodes without writing to them *)
(* and hold what a map or a list must hold, for every set of keys and      *)
(* values and lists of any length.                                         *)
(*                                                                         *)
(* A tree is described by the sequence of its elements.  A recursive       *)
(* function on the subtrees exists by induction over their height; a lemma *)
(* about it is proved by the same induction.                               *)
(***************************************************************************)
EXTENDS AVL, DataLemmas

-----------------------------------------------------------------------------
(* Sequences with an element in the middle.                                *)

Mid(a, e, b) == a \o <<e>> \o b

\* s is such a sequence, place by place.
IsMid(s, a, e, b, E) ==
  /\ s \in Seq(E)
  /\ Len(s) = Len(a) + 1 + Len(b)
  /\ \A i \in 1..Len(a) : s[i] = a[i]
  /\ s[Len(a) + 1] = e
  /\ \A i \in 1..Len(b) : s[Len(a) + 1 + i] = b[i]

LEMMA MidIs ==
  ASSUME NEW E, NEW a \in Seq(E), NEW b \in Seq(E), NEW e \in E
  PROVE  IsMid(Mid(a, e, b), a, e, b, E)
<1>1. <<e>> \in Seq(E) /\ Len(<<e>>) = 1 /\ <<e>>[1] = e
  OBVIOUS
<1> DEFINE c == a \o <<e>>
<1>2. Len(a) \in Nat /\ Len(b) \in Nat
  OBVIOUS
<1>3. /\ c \in Seq(E) /\ Len(c) = Len(a) + 1
      /\ \A i \in 1..(Len(a) + 1) : c[i] = IF i <= Len(a) THEN a[i] ELSE <<e>>[i - Len(a)]
  <2> HIDE DEF c
  <2>1. /\ c \in Seq(E) /\ Len(c) = Len(a) + Len(<<e>>)
        /\ \A i \in 1..(Len(a) + Len(<<e>>)) : c[i] = IF i <= Len(a) THEN a[i] ELSE <<e>>[i - Len(a)]
    BY <1>1, ConcatProperties DEF c
  <2> QED BY <1>1, <2>1
<1>4. \A i \in 1..Len(a) : c[i] = a[i]
  <2> HIDE DEF c
  <2> QED BY <1>2, <1>3
<1>5. c[Len(a) + 1] = e
  <2> HIDE DEF c
  <2>1. Len(a) + 1 \in 1..(Len(a) + 1) /\ ~(Len(a) + 1 <= Len(a)) /\ (Len(a) + 1) - Len(a) = 1
    BY <1>2
  <2> QED BY <1>1, <1>3, <2>1
<1> HIDE DEF c
<1>6. /\ c \o b \in Seq(E) /\ Len(c \o b) = Len(c) + Len(b)
      /\ \A i \in 1..(Len(c) + Len(b)) : (c \o b)[i] = IF i <= Len(c) THEN c[i] ELSE b[i - Len(c)]
  BY <1>3, ConcatProperties, ZenonT(40)
<1>7. Mid(a, e, b) = c \o b
  BY DEF c, Mid
<1>8. \A i \in 1..(Len(a) + 1) : (c \o b)[i] = c[i]
  BY <1>2, <1>3, <1>6
<1>9. ASSUME NEW i \in 1..Len(b) PROVE (c \o b)[Len(a) + 1 + i] = b[i]
  <2> DEFINE j == Len(a) + 1 + i
  <2>1. j \in 1..(Len(c) + Len(b)) /\ ~(j <= Len(c)) /\ j - Len(c) = i
    BY <1>2, <1>3
  <2> HIDE DEF j
  <2>2. (c \o b)[j] = b[i]
    BY <1>6, <2>1
  <2> QED BY <2>2 DEF j
<1>10. \A i \in 1..Len(a) : i \in 1..(Len(a) + 1)
  BY <1>2
<1>11. Len(a) + 1 \in 1..(Len(a) + 1)
  BY <1>2
<1> QED BY <1>2, <1>3, <1>4, <1>5, <1>6, <1>7, <1>8, <1>9, <1>10, <1>11 DEF IsMid

\* A place of such a sequence.
LEMMA MidPlace ==
  ASSUME NEW n \in Nat, NEW m \in Nat, NEW i \in 1..(n + 1 + m)
  PROVE  i \in 1..n \/ i = n + 1 \/ \E j \in 1..m : i = n + 1 + j
<1>1. CASE i > n + 1
  <2>1. i - n - 1 \in 1..m /\ i = n + 1 + (i - n - 1)
    BY <1>1
  <2> QED BY <2>1
<1> QED BY <1>1

LEMMA MidUnique ==
  ASSUME NEW E, NEW a \in Seq(E), NEW b \in Seq(E), NEW e \in E, NEW s, IsMid(s, a, e, b, E)
  PROVE  s = Mid(a, e, b)
<1> DEFINE t == Mid(a, e, b)
<1>1. IsMid(t, a, e, b, E)
  BY MidIs
<1> HIDE DEF t
<1>2. ASSUME NEW i \in 1..Len(s) PROVE s[i] = t[i]
  <2>1. Len(a) \in Nat /\ Len(b) \in Nat /\ i \in 1..(Len(a) + 1 + Len(b))
    BY DEF IsMid
  <2>2. i \in 1..Len(a) \/ i = Len(a) + 1 \/ \E j \in 1..Len(b) : i = Len(a) + 1 + j
    BY <2>1, MidPlace
  <2> QED BY <1>1, <2>2 DEF IsMid
<1>3. s \in Seq(E) /\ t \in Seq(E) /\ Len(s) = Len(t)
  BY <1>1 DEF IsMid
<1>4. s = t
  BY <1>2, <1>3, SeqEqual
<1> QED BY <1>4 DEF t

LEMMA MidAssociative ==
  ASSUME NEW E, NEW a \in Seq(E), NEW b \in Seq(E), NEW c \in Seq(E), NEW e \in E, NEW f \in E
  PROVE  Mid(Mid(a, e, b), f, c) = Mid(a, e, Mid(b, f, c))
<1> DEFINE m == Mid(a, e, b)
           o == Mid(b, f, c)
           s == Mid(m, f, c)
<1>1. Len(a) \in Nat /\ Len(b) \in Nat /\ Len(c) \in Nat
  OBVIOUS
<1>2. IsMid(m, a, e, b, E) /\ IsMid(o, b, f, c, E)
  BY MidIs
<1> HIDE DEF m, o
<1>3. m \in Seq(E) /\ o \in Seq(E) /\ Len(m) = Len(a) + 1 + Len(b) /\ Len(o) = Len(b) + 1 + Len(c)
  BY <1>2 DEF IsMid
<1>4. IsMid(s, m, f, c, E)
  BY <1>3, MidIs
<1> HIDE DEF s
<1>5. s \in Seq(E) /\ Len(s) = Len(m) + 1 + Len(c)
  BY <1>4 DEF IsMid
<1>6. Len(s) = Len(a) + 1 + Len(o)
  BY <1>1, <1>3, <1>5
<1>7. ASSUME NEW i \in 1..Len(a) PROVE s[i] = a[i]
  <2>1. i \in 1..Len(m)
    BY <1>1, <1>3
  <2> QED BY <1>2, <1>4, <2>1 DEF IsMid
<1>8. s[Len(a) + 1] = e
  <2>1. Len(a) + 1 \in 1..Len(m)
    BY <1>1, <1>3
  <2> QED BY <1>2, <1>4, <2>1 DEF IsMid
<1>9. ASSUME NEW i \in 1..Len(o) PROVE s[Len(a) + 1 + i] = o[i]
  <2>1. CASE i \in 1..Len(b)
    <3>1. Len(a) + 1 + i \in 1..Len(m)
      BY <1>1, <1>3, <2>1
    <3>2. s[Len(a) + 1 + i] = m[Len(a) + 1 + i]
      BY <1>4, <3>1 DEF IsMid
    <3> QED BY <1>2, <2>1, <3>2 DEF IsMid
  <2>2. CASE i = Len(b) + 1
    <3>1. Len(a) + 1 + i = Len(m) + 1
      BY <1>1, <1>3, <2>2
    <3> QED BY <1>2, <1>4, <2>2, <3>1 DEF IsMid
  <2>3. ASSUME NEW j \in 1..Len(c), i = Len(b) + 1 + j PROVE s[Len(a) + 1 + i] = o[i]
    <3>1. Len(a) + 1 + i = Len(m) + 1 + j
      BY <1>1, <1>3, <2>3
    <3> QED BY <1>2, <1>4, <2>3, <3>1 DEF IsMid
  <2>4. i \in 1..(Len(b) + 1 + Len(c))
    BY <1>3
  <2>5. i \in 1..Len(b) \/ i = Len(b) + 1 \/ \E j \in 1..Len(c) : i = Len(b) + 1 + j
    BY <1>1, <2>4, MidPlace
  <2> QED BY <2>1, <2>2, <2>3, <2>5
<1>10. IsMid(s, a, e, o, E)
  BY <1>5, <1>6, <1>7, <1>8, <1>9 DEF IsMid
<1>11. s = Mid(a, e, o)
  BY <1>3, <1>10, MidUnique
<1> QED BY <1>11 DEF m, o, s

-----------------------------------------------------------------------------
(* One element more, one less, another one: at the index i, counted from 0. *)

IsInsert(t, s, i, x, E) ==
  /\ t \in Seq(E)
  /\ i \in 0..Len(s)
  /\ Len(t) = Len(s) + 1
  /\ \A j \in 1..i : t[j] = s[j]
  /\ t[i + 1] = x
  /\ \A j \in (i + 1)..Len(s) : t[j + 1] = s[j]

IsRemove(t, s, i, E) ==
  /\ t \in Seq(E)
  /\ i \in 0..(Len(s) - 1)
  /\ Len(t) = Len(s) - 1
  /\ \A j \in 1..i : t[j] = s[j]
  /\ \A j \in (i + 1)..Len(t) : t[j] = s[j + 1]

IsReplace(t, s, i, x, E) ==
  /\ t \in Seq(E)
  /\ i \in 0..(Len(s) - 1)
  /\ Len(t) = Len(s)
  /\ t[i + 1] = x
  /\ \A j \in 1..Len(s) : j /= i + 1 => t[j] = s[j]

\* A place of b in Mid(a, e, b).
LEMMA PlaceRight ==
  ASSUME NEW n \in Nat, NEW m \in Nat, NEW i \in Int, n + 1 < i, i <= n + 1 + m
  PROVE  \E j \in 1..m : i = n + 1 + j
<1>1. i - n - 1 \in 1..m /\ i = n + 1 + (i - n - 1)
  OBVIOUS
<1> QED BY <1>1

LEMMA InsertLeft ==
  ASSUME NEW E, NEW a \in Seq(E), NEW b \in Seq(E), NEW e \in E,
         NEW i, NEW x, NEW u, IsInsert(u, a, i, x, E)
  PROVE  IsInsert(Mid(u, e, b), Mid(a, e, b), i, x, E)
<1> DEFINE s == Mid(a, e, b)
           t == Mid(u, e, b)
<1>1. u \in Seq(E) /\ i \in 0..Len(a) /\ Len(u) = Len(a) + 1 /\ Len(a) \in Nat /\ Len(b) \in Nat
  BY DEF IsInsert
<1>2. IsMid(s, a, e, b, E) /\ IsMid(t, u, e, b, E)
  BY <1>1, MidIs
<1> HIDE DEF s, t
<1>3. t \in Seq(E) /\ Len(s) = Len(a) + 1 + Len(b) /\ Len(t) = Len(u) + 1 + Len(b)
  BY <1>2 DEF IsMid
<1>4. i \in 0..Len(s) /\ Len(t) = Len(s) + 1
  BY <1>1, <1>3
<1>5. ASSUME NEW j \in 1..i PROVE t[j] = s[j]
  <2>1. j \in 1..Len(a) /\ j \in 1..Len(u)
    BY <1>1
  <2> QED BY <1>2, <2>1 DEF IsMid, IsInsert
<1>6. t[i + 1] = x
  <2>1. i + 1 \in 1..Len(u)
    BY <1>1
  <2> QED BY <1>2, <2>1 DEF IsMid, IsInsert
<1>7. ASSUME NEW j \in (i + 1)..Len(s) PROVE t[j + 1] = s[j]
  <2>1. CASE j <= Len(a)
    <3>1. j \in 1..Len(a) /\ j \in (i + 1)..Len(a) /\ j + 1 \in 1..Len(u)
      BY <1>1, <2>1
    <3>2. t[j + 1] = u[j + 1] /\ s[j] = a[j]
      BY <1>2, <3>1 DEF IsMid
    <3> QED BY <3>1, <3>2 DEF IsInsert
  <2>2. CASE j = Len(a) + 1
    <3>1. j + 1 = Len(u) + 1
      BY <1>1, <2>2
    <3> QED BY <1>2, <2>2, <3>1 DEF IsMid
  <2>3. CASE j > Len(a) + 1
    <3>0. j \in Int /\ Len(a) + 1 < j /\ j <= Len(a) + 1 + Len(b)
      BY <1>1, <1>3, <2>3
    <3>1. PICK k \in 1..Len(b) : j = Len(a) + 1 + k
      BY <1>1, <3>0, PlaceRight
    <3>2. j + 1 = Len(u) + 1 + k
      BY <1>1, <3>1
    <3> QED BY <1>2, <3>1, <3>2 DEF IsMid
  <2> QED BY <1>1, <2>1, <2>2, <2>3
<1>8. IsInsert(t, s, i, x, E)
  BY <1>3, <1>4, <1>5, <1>6, <1>7 DEF IsInsert
<1> QED BY <1>8 DEF s, t

LEMMA InsertRight ==
  ASSUME NEW E, NEW a \in Seq(E), NEW b \in Seq(E), NEW e \in E,
         NEW i, NEW x, NEW u, IsInsert(u, b, i, x, E)
  PROVE  IsInsert(Mid(a, e, u), Mid(a, e, b), Len(a) + 1 + i, x, E)
<1> DEFINE s == Mid(a, e, b)
           t == Mid(a, e, u)
           p == Len(a) + 1 + i
<1>1. u \in Seq(E) /\ i \in 0..Len(b) /\ Len(u) = Len(b) + 1 /\ Len(a) \in Nat /\ Len(b) \in Nat
  BY DEF IsInsert
<1>2. IsMid(s, a, e, b, E) /\ IsMid(t, a, e, u, E)
  BY <1>1, MidIs
<1> HIDE DEF s, t
<1>3. t \in Seq(E) /\ Len(s) = Len(a) + 1 + Len(b) /\ Len(t) = Len(a) + 1 + Len(u)
  BY <1>2 DEF IsMid
<1>4. p \in 0..Len(s) /\ Len(t) = Len(s) + 1
  BY <1>1, <1>3
<1>5. ASSUME NEW j \in 1..p PROVE t[j] = s[j]
  <2>1. CASE j <= Len(a)
    <3>1. j \in 1..Len(a)
      BY <1>1, <2>1
    <3> QED BY <1>2, <3>1 DEF IsMid
  <2>2. CASE j = Len(a) + 1
    BY <1>2, <2>2 DEF IsMid
  <2>3. CASE j > Len(a) + 1
    <3>0. j \in Int /\ i \in Nat /\ Len(a) + 1 < j /\ j <= Len(a) + 1 + i
      BY <1>1, <2>3
    <3>1. PICK k \in 1..i : j = Len(a) + 1 + k
      BY <1>1, <3>0, PlaceRight
    <3>2. k \in 1..Len(b) /\ k \in 1..Len(u)
      BY <1>1
    <3>3. t[j] = u[k] /\ s[j] = b[k]
      BY <1>2, <3>1, <3>2 DEF IsMid
    <3> QED BY <3>3 DEF IsInsert
  <2> QED BY <1>1, <2>1, <2>2, <2>3
<1>6. t[p + 1] = x
  <2>1. p + 1 = Len(a) + 1 + (i + 1) /\ i + 1 \in 1..Len(u)
    BY <1>1
  <2> QED BY <1>2, <2>1 DEF IsMid, IsInsert
<1>7. ASSUME NEW j \in (p + 1)..Len(s) PROVE t[j + 1] = s[j]
  <2>0. j \in Int /\ Len(a) + 1 < j /\ j <= Len(a) + 1 + Len(b)
    BY <1>1, <1>3
  <2>1. PICK k \in 1..Len(b) : j = Len(a) + 1 + k
    BY <1>1, <2>0, PlaceRight
  <2>2. k \in (i + 1)..Len(b) /\ k + 1 \in 1..Len(u) /\ j + 1 = Len(a) + 1 + (k + 1)
    BY <1>1, <2>1
  <2>3. t[j + 1] = u[k + 1] /\ s[j] = b[k]
    BY <1>2, <2>1, <2>2 DEF IsMid
  <2> QED BY <2>2, <2>3 DEF IsInsert
<1>8. IsInsert(t, s, p, x, E)
  BY <1>3, <1>4, <1>5, <1>6, <1>7 DEF IsInsert
<1> QED BY <1>8 DEF s, t

LEMMA InsertFirst ==
  ASSUME NEW E, NEW x \in E
  PROVE  IsInsert(Mid(<<>>, x, <<>>), <<>>, 0, x, E)
<1>1. <<>> \in Seq(E) /\ Len(<<>>) = 0
  BY EmptySeq
<1>2. IsMid(Mid(<<>>, x, <<>>), <<>>, x, <<>>, E)
  BY <1>1, MidIs
<1> QED BY <1>1, <1>2 DEF IsMid, IsInsert

\* As SequencesExt has it.
LEMMA InsertAtIs ==
  ASSUME NEW E, NEW s \in Seq(E), NEW i \in 0..Len(s), NEW x \in E
  PROVE  IsInsert(InsertAt(s, i + 1, x), s, i, x, E)
<1> DEFINE a == SubSeq(s, 1, i)
           b == SubSeq(s, i + 1, Len(s))
           t == Mid(a, x, b)
<1>1. Len(s) \in Nat /\ i \in Nat /\ i <= Len(s) /\ \A j \in 1..Len(s) : s[j] \in E
  OBVIOUS
<1>2. a \in Seq(E) /\ Len(a) = i /\ \A j \in 1..i : a[j] = s[j]
  BY <1>1
<1>3. b \in Seq(E) /\ Len(b) = Len(s) - i /\ \A j \in 1..(Len(s) - i) : b[j] = s[i + j]
  BY <1>1
<1>4. InsertAt(s, i + 1, x) = t
  <2>1. (i + 1) - 1 = i
    BY <1>1
  <2> QED BY <2>1, Zenon DEF InsertAt, Mid
<1> HIDE DEF a, b
<1>5. IsMid(t, a, x, b, E)
  BY <1>2, <1>3, MidIs
<1> HIDE DEF t
<1>6. t \in Seq(E) /\ Len(t) = Len(s) + 1 /\ t[i + 1] = x
  BY <1>1, <1>2, <1>3, <1>5 DEF IsMid
<1>7. \A j \in 1..i : t[j] = s[j]
  BY <1>2, <1>5 DEF IsMid
<1>8. ASSUME NEW j \in (i + 1)..Len(s) PROVE t[j + 1] = s[j]
  <2>1. j - i \in 1..Len(b) /\ j + 1 = Len(a) + 1 + (j - i) /\ i + (j - i) = j
    BY <1>1, <1>2, <1>3
  <2>2. t[j + 1] = b[j - i]
    BY <1>5, <2>1 DEF IsMid
  <2>3. b[j - i] = s[i + (j - i)]
    BY <1>3, <2>1
  <2> QED BY <2>1, <2>2, <2>3
<1> QED BY <1>1, <1>4, <1>6, <1>7, <1>8 DEF IsInsert

LEMMA InsertUnique ==
  ASSUME NEW E, NEW s, Len(s) \in Nat, NEW i, NEW x, NEW t, NEW u,
         IsInsert(t, s, i, x, E), IsInsert(u, s, i, x, E)
  PROVE  t = u
<1>1. t \in Seq(E) /\ u \in Seq(E) /\ Len(t) = Len(s) + 1 /\ Len(u) = Len(s) + 1 /\ i \in 0..Len(s)
  BY DEF IsInsert
<1>2. ASSUME NEW j \in 1..Len(t) PROVE t[j] = u[j]
  <2>1. CASE j <= i
    BY <1>1, <2>1 DEF IsInsert
  <2>2. CASE j = i + 1
    BY <2>2 DEF IsInsert
  <2>3. CASE j > i + 1
    <3>1. j - 1 \in (i + 1)..Len(s) /\ (j - 1) + 1 = j
      BY <1>1, <2>3
    <3> QED BY <3>1 DEF IsInsert
  <2> QED BY <1>1, <2>1, <2>2, <2>3
<1> QED BY <1>1, <1>2, SeqEqual

LEMMA RemoveLeft ==
  ASSUME NEW E, NEW a \in Seq(E), NEW b \in Seq(E), NEW e \in E,
         NEW i, NEW u, IsRemove(u, a, i, E)
  PROVE  IsRemove(Mid(u, e, b), Mid(a, e, b), i, E)
<1> DEFINE s == Mid(a, e, b)
           t == Mid(u, e, b)
<1>1. u \in Seq(E) /\ i \in 0..(Len(a) - 1) /\ Len(u) = Len(a) - 1 /\ Len(a) \in Nat /\ Len(b) \in Nat
  BY DEF IsRemove
<1>2. IsMid(s, a, e, b, E) /\ IsMid(t, u, e, b, E)
  BY <1>1, MidIs
<1> HIDE DEF s, t
<1>3. t \in Seq(E) /\ Len(s) = Len(a) + 1 + Len(b) /\ Len(t) = Len(u) + 1 + Len(b)
  BY <1>2 DEF IsMid
<1>4. i \in 0..(Len(s) - 1) /\ Len(t) = Len(s) - 1
  BY <1>1, <1>3
<1>5. ASSUME NEW j \in 1..i PROVE t[j] = s[j]
  <2>1. j \in 1..Len(a) /\ j \in 1..Len(u)
    BY <1>1
  <2> QED BY <1>2, <2>1 DEF IsMid, IsRemove
<1>6. ASSUME NEW j \in (i + 1)..Len(t) PROVE t[j] = s[j + 1]
  <2>1. CASE j <= Len(u)
    <3>1. j \in 1..Len(u) /\ j \in (i + 1)..Len(u) /\ j + 1 \in 1..Len(a)
      BY <1>1, <2>1
    <3>2. t[j] = u[j] /\ s[j + 1] = a[j + 1]
      BY <1>2, <3>1 DEF IsMid
    <3> QED BY <3>1, <3>2 DEF IsRemove
  <2>2. CASE j = Len(u) + 1
    <3>1. j + 1 = Len(a) + 1
      BY <1>1, <2>2
    <3> QED BY <1>2, <2>2, <3>1 DEF IsMid
  <2>3. CASE j > Len(u) + 1
    <3>1. j \in Int /\ Len(u) \in Nat /\ Len(u) + 1 < j /\ j <= Len(u) + 1 + Len(b)
      BY <1>1, <1>3, <2>3
    <3>2. PICK k \in 1..Len(b) : j = Len(u) + 1 + k
      BY <1>1, <3>1, PlaceRight
    <3>3. j + 1 = Len(a) + 1 + k
      BY <1>1, <3>2
    <3> QED BY <1>2, <3>2, <3>3 DEF IsMid
  <2> QED BY <1>1, <2>1, <2>2, <2>3
<1>7. IsRemove(t, s, i, E)
  BY <1>3, <1>4, <1>5, <1>6 DEF IsRemove
<1> QED BY <1>7 DEF s, t

LEMMA RemoveRight ==
  ASSUME NEW E, NEW a \in Seq(E), NEW b \in Seq(E), NEW e \in E,
         NEW i, NEW u, IsRemove(u, b, i, E)
  PROVE  IsRemove(Mid(a, e, u), Mid(a, e, b), Len(a) + 1 + i, E)
<1> DEFINE s == Mid(a, e, b)
           t == Mid(a, e, u)
           p == Len(a) + 1 + i
<1>1. u \in Seq(E) /\ i \in 0..(Len(b) - 1) /\ Len(u) = Len(b) - 1 /\ Len(a) \in Nat /\ Len(b) \in Nat
  BY DEF IsRemove
<1>2. IsMid(s, a, e, b, E) /\ IsMid(t, a, e, u, E)
  BY <1>1, MidIs
<1> HIDE DEF s, t
<1>3. t \in Seq(E) /\ Len(s) = Len(a) + 1 + Len(b) /\ Len(t) = Len(a) + 1 + Len(u)
  BY <1>2 DEF IsMid
<1>4. p \in 0..(Len(s) - 1) /\ Len(t) = Len(s) - 1
  BY <1>1, <1>3
<1>5. ASSUME NEW j \in 1..p PROVE t[j] = s[j]
  <2>1. CASE j <= Len(a)
    <3>1. j \in 1..Len(a)
      BY <1>1, <2>1
    <3> QED BY <1>2, <3>1 DEF IsMid
  <2>2. CASE j = Len(a) + 1
    BY <1>2, <2>2 DEF IsMid
  <2>3. CASE j > Len(a) + 1
    <3>1. j \in Int /\ i \in Nat /\ Len(a) + 1 < j /\ j <= Len(a) + 1 + i
      BY <1>1, <2>3
    <3>2. PICK k \in 1..i : j = Len(a) + 1 + k
      BY <1>1, <3>1, PlaceRight
    <3>3. k \in 1..Len(b) /\ k \in 1..Len(u)
      BY <1>1
    <3>4. t[j] = u[k] /\ s[j] = b[k]
      BY <1>2, <3>2, <3>3 DEF IsMid
    <3> QED BY <3>4 DEF IsRemove
  <2> QED BY <1>1, <2>1, <2>2, <2>3
<1>6. ASSUME NEW j \in (p + 1)..Len(t) PROVE t[j] = s[j + 1]
  <2>1. j \in Int /\ Len(u) \in Nat /\ Len(a) + 1 < j /\ j <= Len(a) + 1 + Len(u)
    BY <1>1, <1>3
  <2>2. PICK k \in 1..Len(u) : j = Len(a) + 1 + k
    BY <1>1, <2>1, PlaceRight
  <2>3. k \in (i + 1)..Len(u) /\ k + 1 \in 1..Len(b) /\ j + 1 = Len(a) + 1 + (k + 1)
    BY <1>1, <2>2
  <2>4. t[j] = u[k] /\ s[j + 1] = b[k + 1]
    BY <1>2, <2>2, <2>3 DEF IsMid
  <2> QED BY <2>3, <2>4 DEF IsRemove
<1>7. IsRemove(t, s, p, E)
  BY <1>3, <1>4, <1>5, <1>6 DEF IsRemove
<1> QED BY <1>7 DEF s, t

\* The one in the middle, in whose place the last one before it is put.
LEMMA RemoveMid ==
  ASSUME NEW E, NEW a \in Seq(E), NEW b \in Seq(E), NEW e \in E, NEW u \in Seq(E), NEW f \in E,
         a = Mid(u, f, <<>>)
  PROVE  IsRemove(Mid(u, f, b), Mid(a, e, b), Len(a), E)
<1> DEFINE s == Mid(a, e, b)
           t == Mid(u, f, b)
<1>1. <<>> \in Seq(E) /\ Len(<<>>) = 0 /\ Len(u) \in Nat /\ Len(b) \in Nat /\ Len(a) \in Nat
  BY EmptySeq
<1>2. IsMid(a, u, f, <<>>, E)
  BY <1>1, MidIs
<1>3. IsMid(s, a, e, b, E) /\ IsMid(t, u, f, b, E)
  BY MidIs
<1> HIDE DEF s, t
<1>4. Len(a) = Len(u) + 1
  BY <1>1, <1>2 DEF IsMid
<1>5. t \in Seq(E) /\ Len(s) = Len(a) + 1 + Len(b) /\ Len(t) = Len(u) + 1 + Len(b)
  BY <1>3 DEF IsMid
<1>6. Len(a) \in 0..(Len(s) - 1) /\ Len(t) = Len(s) - 1
  BY <1>1, <1>4, <1>5
<1>7. ASSUME NEW j \in 1..Len(a) PROVE t[j] = s[j]
  <2>1. s[j] = a[j]
    BY <1>3 DEF IsMid
  <2>2. CASE j = Len(u) + 1
    BY <1>2, <1>3, <2>1, <2>2 DEF IsMid
  <2>3. CASE j \in 1..Len(u)
    BY <1>2, <1>3, <2>1, <2>3 DEF IsMid
  <2> QED BY <1>1, <1>4, <2>2, <2>3
<1>8. ASSUME NEW j \in (Len(a) + 1)..Len(t) PROVE t[j] = s[j + 1]
  <2>1. j \in Int /\ Len(u) + 1 < j /\ j <= Len(u) + 1 + Len(b)
    BY <1>1, <1>4, <1>5
  <2>2. PICK k \in 1..Len(b) : j = Len(u) + 1 + k
    BY <1>1, <2>1, PlaceRight
  <2>3. j + 1 = Len(a) + 1 + k
    BY <1>1, <1>4, <2>2
  <2> QED BY <1>3, <2>2, <2>3 DEF IsMid
<1>9. IsRemove(t, s, Len(a), E)
  BY <1>5, <1>6, <1>7, <1>8 DEF IsRemove
<1> QED BY <1>9 DEF s, t

LEMMA RemoveEnds ==
  ASSUME NEW E, NEW a \in Seq(E), NEW e \in E
  PROVE  IsRemove(a, Mid(<<>>, e, a), 0, E) /\ IsRemove(a, Mid(a, e, <<>>), Len(a), E)
<1>1. <<>> \in Seq(E) /\ Len(<<>>) = 0 /\ Len(a) \in Nat
  BY EmptySeq
<1>2. IsMid(Mid(<<>>, e, a), <<>>, e, a, E) /\ IsMid(Mid(a, e, <<>>), a, e, <<>>, E)
  BY <1>1, MidIs
<1> DEFINE s == Mid(<<>>, e, a)
           t == Mid(a, e, <<>>)
<1> HIDE DEF s, t
<1>3. IsMid(s, <<>>, e, a, E) /\ IsMid(t, a, e, <<>>, E)
  BY <1>2 DEF s, t
<1>4. Len(s) = Len(a) + 1 /\ Len(t) = Len(a) + 1
  BY <1>1, <1>3 DEF IsMid
<1>5. ASSUME NEW j \in 1..Len(a) PROVE a[j] = s[j + 1]
  <2>1. j + 1 = Len(<<>>) + 1 + j
    BY <1>1
  <2> QED BY <1>3, <2>1 DEF IsMid
<1>6. IsRemove(a, s, 0, E)
  BY <1>1, <1>4, <1>5 DEF IsRemove
<1>7. \A j \in 1..Len(a) : a[j] = t[j]
  BY <1>3 DEF IsMid
<1>8. IsRemove(a, t, Len(a), E)
  BY <1>1, <1>4, <1>7 DEF IsRemove
<1> QED BY <1>6, <1>8 DEF s, t

LEMMA RemoveUnique ==
  ASSUME NEW E, NEW s \in Seq(E), NEW i, NEW t, IsRemove(t, s, i, E)
  PROVE  t = RemoveAt(s, i + 1)
<1> DEFINE u == RemoveAt(s, i + 1)
<1>1. t \in Seq(E) /\ Len(t) = Len(s) - 1 /\ i \in 0..(Len(s) - 1) /\ Len(s) \in Nat
  BY DEF IsRemove
<1>2. i + 1 \in DOMAIN s /\ i + 1 \in Nat
  BY <1>1
<1>3. /\ u \in Seq(E) /\ Len(u) = Len(s) - 1
      /\ \A j \in 1..(Len(s) - 1) : u[j] = IF j < i + 1 THEN s[j] ELSE s[j + 1]
  <2> HIDE DEF u
  <2> QED BY <1>2, RemoveAtIs DEF u
<1> HIDE DEF u
<1>4. ASSUME NEW j \in 1..Len(t) PROVE t[j] = u[j]
  <2>1. CASE j <= i
    <3>1. j \in 1..i /\ j < i + 1 /\ j \in 1..(Len(s) - 1)
      BY <1>1, <2>1
    <3> QED BY <1>3, <3>1 DEF IsRemove
  <2>2. CASE j > i
    <3>1. j \in (i + 1)..Len(t) /\ ~(j < i + 1) /\ j \in 1..(Len(s) - 1)
      BY <1>1, <2>2
    <3> QED BY <1>3, <3>1 DEF IsRemove
  <2> QED BY <1>1, <2>1, <2>2
<1>5. t = u
  BY <1>1, <1>3, <1>4, SeqEqual
<1> QED BY <1>5 DEF u

LEMMA ReplaceLeft ==
  ASSUME NEW E, NEW a \in Seq(E), NEW b \in Seq(E), NEW e \in E,
         NEW i, NEW x, NEW u, IsReplace(u, a, i, x, E)
  PROVE  IsReplace(Mid(u, e, b), Mid(a, e, b), i, x, E)
<1> DEFINE s == Mid(a, e, b)
           t == Mid(u, e, b)
<1>1. u \in Seq(E) /\ i \in 0..(Len(a) - 1) /\ Len(u) = Len(a) /\ Len(a) \in Nat /\ Len(b) \in Nat
  BY DEF IsReplace
<1>2. IsMid(s, a, e, b, E) /\ IsMid(t, u, e, b, E)
  BY <1>1, MidIs
<1> HIDE DEF s, t
<1>3. t \in Seq(E) /\ Len(s) = Len(a) + 1 + Len(b) /\ Len(t) = Len(s)
  BY <1>1, <1>2 DEF IsMid
<1>4. i \in 0..(Len(s) - 1)
  BY <1>1, <1>3
<1>5. t[i + 1] = x
  <2>1. i + 1 \in 1..Len(u)
    BY <1>1
  <2> QED BY <1>2, <2>1 DEF IsMid, IsReplace
<1>6. ASSUME NEW j \in 1..Len(s), j /= i + 1 PROVE t[j] = s[j]
  <2>1. CASE j \in 1..Len(a)
    <3>1. t[j] = u[j] /\ s[j] = a[j]
      BY <1>1, <1>2, <2>1 DEF IsMid
    <3> QED BY <1>6, <2>1, <3>1 DEF IsReplace
  <2>2. CASE j = Len(a) + 1
    BY <1>1, <1>2, <2>2 DEF IsMid
  <2>3. ASSUME NEW k \in 1..Len(b), j = Len(a) + 1 + k PROVE t[j] = s[j]
    BY <1>1, <1>2, <2>3 DEF IsMid
  <2>4. j \in 1..(Len(a) + 1 + Len(b))
    BY <1>3
  <2> QED BY <1>1, <2>1, <2>2, <2>3, <2>4, MidPlace
<1>7. IsReplace(t, s, i, x, E)
  BY <1>3, <1>4, <1>5, <1>6 DEF IsReplace
<1> QED BY <1>7 DEF s, t

LEMMA ReplaceRight ==
  ASSUME NEW E, NEW a \in Seq(E), NEW b \in Seq(E), NEW e \in E,
         NEW i, NEW x, NEW u, IsReplace(u, b, i, x, E)
  PROVE  IsReplace(Mid(a, e, u), Mid(a, e, b), Len(a) + 1 + i, x, E)
<1> DEFINE s == Mid(a, e, b)
           t == Mid(a, e, u)
           p == Len(a) + 1 + i
<1>1. u \in Seq(E) /\ i \in 0..(Len(b) - 1) /\ Len(u) = Len(b) /\ Len(a) \in Nat /\ Len(b) \in Nat
  BY DEF IsReplace
<1>2. IsMid(s, a, e, b, E) /\ IsMid(t, a, e, u, E)
  BY <1>1, MidIs
<1> HIDE DEF s, t
<1>3. t \in Seq(E) /\ Len(s) = Len(a) + 1 + Len(b) /\ Len(t) = Len(s)
  BY <1>1, <1>2 DEF IsMid
<1>4. p \in 0..(Len(s) - 1)
  BY <1>1, <1>3
<1>5. t[p + 1] = x
  <2>1. p + 1 = Len(a) + 1 + (i + 1) /\ i + 1 \in 1..Len(u)
    BY <1>1
  <2> QED BY <1>2, <2>1 DEF IsMid, IsReplace
<1>6. ASSUME NEW j \in 1..Len(s), j /= p + 1 PROVE t[j] = s[j]
  <2>1. CASE j \in 1..Len(a)
    BY <1>2, <2>1 DEF IsMid
  <2>2. CASE j = Len(a) + 1
    BY <1>2, <2>2 DEF IsMid
  <2>3. ASSUME NEW k \in 1..Len(b), j = Len(a) + 1 + k PROVE t[j] = s[j]
    <3>1. t[j] = u[k] /\ s[j] = b[k]
      BY <1>1, <1>2, <2>3 DEF IsMid
    <3>2. k /= i + 1
      BY <1>1, <1>6, <2>3
    <3> QED BY <3>1, <3>2 DEF IsReplace
  <2>4. j \in 1..(Len(a) + 1 + Len(b))
    BY <1>3
  <2> QED BY <1>1, <2>1, <2>2, <2>3, <2>4, MidPlace
<1>7. IsReplace(t, s, p, x, E)
  BY <1>3, <1>4, <1>5, <1>6 DEF IsReplace
<1> QED BY <1>7 DEF s, t

LEMMA ReplaceMid ==
  ASSUME NEW E, NEW a \in Seq(E), NEW b \in Seq(E), NEW e \in E, NEW x \in E
  PROVE  IsReplace(Mid(a, x, b), Mid(a, e, b), Len(a), x, E)
<1> DEFINE s == Mid(a, e, b)
           t == Mid(a, x, b)
<1>1. Len(a) \in Nat /\ Len(b) \in Nat
  OBVIOUS
<1>2. IsMid(s, a, e, b, E) /\ IsMid(t, a, x, b, E)
  BY MidIs
<1> HIDE DEF s, t
<1>3. t \in Seq(E) /\ Len(s) = Len(a) + 1 + Len(b) /\ Len(t) = Len(s) /\ t[Len(a) + 1] = x
  BY <1>2 DEF IsMid
<1>4. Len(a) \in 0..(Len(s) - 1)
  BY <1>1, <1>3
<1>5. ASSUME NEW j \in 1..Len(s), j /= Len(a) + 1 PROVE t[j] = s[j]
  <2>1. CASE j \in 1..Len(a)
    BY <1>2, <2>1 DEF IsMid
  <2>2. ASSUME NEW k \in 1..Len(b), j = Len(a) + 1 + k PROVE t[j] = s[j]
    BY <1>2, <2>2 DEF IsMid
  <2>3. j \in 1..(Len(a) + 1 + Len(b))
    BY <1>3
  <2> QED BY <1>1, <1>5, <2>1, <2>2, <2>3, MidPlace
<1>6. IsReplace(t, s, Len(a), x, E)
  BY <1>3, <1>4, <1>5 DEF IsReplace
<1> QED BY <1>6 DEF s, t

-----------------------------------------------------------------------------
(* Trees and their elements.                                               *)

NodeField == {"k", "v", "h", "sz", "l", "r", "own", "ok"}

IsNode(n) == n = [f \in NodeField |-> n[f]]

\* What the properties say of every node.
Sound(n) ==
  /\ IsNode(n)
  /\ n.l.h - n.r.h \in -1..1
  /\ n.h = Higher(n.l, n.r) + 1
  /\ n.sz = n.l.sz + n.r.sz + 1
  /\ n.ok = TRUE

Data(n) == <<n.k, n.v>>

(* n has the elements s when its subtrees have those that W says.          *)
Entry(n, s, W, E) ==
  /\ s \in Seq(E) /\ n.h \in Nat /\ n.sz = Len(s)
  /\ \/ n = Nil /\ s = <<>>
     \/ /\ Sound(n) /\ Data(n) \in E
        /\ \E a, b \in Seq(E) : <<n.l, a>> \in W /\ <<n.r, b>> \in W /\ s = Mid(a, Data(n), b)

(* Pairs of a tree and its elements, with those of its subtrees.           *)
Witness(W, E) == \A n, s : <<n, s>> \in W => Entry(n, s, W, E)

(* n is a tree, of sound nodes down to Nil, with the elements s.           *)
Tree(n, s, E) == \E W : Witness(W, E) /\ <<n, s>> \in W

\* Its root has these subtrees.
Parts(n, s, a, b, E) ==
  /\ n /= Nil /\ Sound(n) /\ n.h \in Nat \ {0}
  /\ Tree(n.l, a, E) /\ Tree(n.r, b, E)
  /\ Data(n) \in E
  /\ s = Mid(a, Data(n), b)

LEMMA TreeNil ==
  ASSUME NEW E
  PROVE  Tree(Nil, <<>>, E)
<1>1. <<>> \in Seq(E) /\ Len(<<>>) = 0
  BY EmptySeq
<1>2. Nil.h = 0 /\ Nil.sz = 0
  BY DEF Nil
<1> DEFINE W == {<<Nil, <<>>>>}
<1>3. Witness(W, E)
  BY <1>1, <1>2 DEF Witness, Entry
<1> QED BY <1>3 DEF Tree

LEMMA TreeType ==
  ASSUME NEW E, NEW n, NEW s, Tree(n, s, E)
  PROVE  s \in Seq(E) /\ n.h \in Nat /\ n.sz = Len(s) /\ n.sz \in Nat
<1>1. PICK W : Witness(W, E) /\ <<n, s>> \in W
  BY DEF Tree
<1>2. s \in Seq(E) /\ n.h \in Nat /\ n.sz = Len(s)
  BY <1>1 DEF Witness, Entry
<1> QED BY <1>2

LEMMA HigherIs ==
  ASSUME NEW a, NEW b, a.h \in Nat, b.h \in Nat
  PROVE  Higher(a, b) \in Nat /\ a.h <= Higher(a, b) /\ b.h <= Higher(a, b)
         /\ Higher(a, b) \in {a.h, b.h}
BY DEF Higher

LEMMA TreeNode ==
  ASSUME NEW E, NEW n, NEW a, NEW b, Tree(n.l, a, E), Tree(n.r, b, E), Sound(n), Data(n) \in E
  PROVE  Tree(n, Mid(a, Data(n), b), E)
<1>1. PICK V : Witness(V, E) /\ <<n.l, a>> \in V
  BY DEF Tree
<1>2. PICK W : Witness(W, E) /\ <<n.r, b>> \in W
  BY DEF Tree
<1> DEFINE s == Mid(a, Data(n), b)
           U == V \cup W \cup {<<n, s>>}
<1>3. a \in Seq(E) /\ b \in Seq(E) /\ n.l.h \in Nat /\ n.r.h \in Nat /\ n.l.sz = Len(a) /\ n.r.sz = Len(b)
  BY TreeType
<1>4. IsMid(s, a, Data(n), b, E)
  BY <1>3, MidIs
<1>5. s \in Seq(E) /\ Len(s) = Len(a) + 1 + Len(b)
  BY <1>4 DEF IsMid
<1>6. n.h \in Nat
  BY <1>3, HigherIs DEF Sound
<1>7. n.sz = Len(s)
  BY <1>3, <1>5 DEF Sound
<1>8. <<n.l, a>> \in U /\ <<n.r, b>> \in U
  BY <1>1, <1>2
<1> HIDE DEF s
<1>9. ASSUME NEW m, NEW t, <<m, t>> \in U
      PROVE  Entry(m, t, U, E)
  <2>1. ASSUME NEW X, X \subseteq U, Entry(m, t, X, E) PROVE Entry(m, t, U, E)
    BY <2>1 DEF Entry
  <2>2. CASE <<m, t>> \in V
    BY <1>1, <2>1, <2>2 DEF Witness
  <2>3. CASE <<m, t>> \in W
    BY <1>2, <2>1, <2>3 DEF Witness
  <2>4. CASE m = n /\ t = s
    BY <1>3, <1>5, <1>6, <1>7, <1>8, <2>4 DEF s, Entry
  <2> QED BY <1>9, <2>2, <2>3, <2>4
<1> HIDE DEF U
<1>10. Witness(U, E)
  BY <1>9 DEF Witness
<1>11. <<n, s>> \in U
  BY DEF U
<1> QED BY <1>10, <1>11 DEF Tree, s

LEMMA TreeParts ==
  ASSUME NEW E, NEW n, NEW s, Tree(n, s, E)
  PROVE  (n = Nil /\ s = <<>>) \/ \E a, b : Parts(n, s, a, b, E)
<1>1. PICK W : Witness(W, E) /\ <<n, s>> \in W
  BY DEF Tree
<1>2. CASE n = Nil /\ s = <<>>
  BY <1>2
<1>3. ASSUME ~(n = Nil /\ s = <<>>)
      PROVE  \E a, b : Parts(n, s, a, b, E)
  <2>1. /\ Sound(n) /\ Data(n) \in E
        /\ \E a, b \in Seq(E) : <<n.l, a>> \in W /\ <<n.r, b>> \in W /\ s = Mid(a, Data(n), b)
    BY <1>1, <1>3, Zenon DEF Witness, Entry
  <2>2. PICK a, b \in Seq(E) : <<n.l, a>> \in W /\ <<n.r, b>> \in W /\ s = Mid(a, Data(n), b)
    BY <2>1
  <2>3. Tree(n.l, a, E) /\ Tree(n.r, b, E)
    BY <1>1, <2>2 DEF Tree
  <2>4. n.l.h \in Nat /\ n.r.h \in Nat
    BY <2>3, TreeType
  <2>5. n.h \in Nat \ {0}
    BY <2>1, <2>4, HigherIs DEF Sound
  <2>6. n /= Nil
    BY <2>5 DEF Nil
  <2> QED BY <2>1, <2>2, <2>3, <2>5, <2>6 DEF Parts
<1> QED BY <1>2, <1>3

\* What there is to know of the parts.
LEMMA PartsAre ==
  ASSUME NEW E, NEW n, NEW s, NEW a, NEW b, Parts(n, s, a, b, E)
  PROVE  /\ a \in Seq(E) /\ b \in Seq(E) /\ s \in Seq(E)
         /\ n.l.h \in Nat /\ n.r.h \in Nat /\ n.h \in Nat
         /\ n.l.h < n.h /\ n.r.h < n.h
         /\ n.l.sz = Len(a) /\ n.r.sz = Len(b) /\ n.sz = Len(a) + 1 + Len(b)
         /\ Len(s) = Len(a) + 1 + Len(b)
         /\ Len(a) \in Nat /\ Len(b) \in Nat
<1>1. /\ a \in Seq(E) /\ n.l.h \in Nat /\ n.l.sz = Len(a)
      /\ b \in Seq(E) /\ n.r.h \in Nat /\ n.r.sz = Len(b)
  BY TreeType DEF Parts
<1>2. IsMid(s, a, Data(n), b, E)
  BY <1>1, MidIs DEF Parts
<1>3. n.l.h < n.h /\ n.r.h < n.h /\ n.h \in Nat
  BY <1>1, HigherIs DEF Parts, Sound
<1>4. n.sz = Len(a) + 1 + Len(b)
  BY <1>1 DEF Parts, Sound
<1> QED BY <1>1, <1>2, <1>3, <1>4 DEF IsMid

\* A tree without elements is Nil, and so is one without height.
LEMMA NilIs ==
  ASSUME NEW E, NEW n, NEW s, Tree(n, s, E)
  PROVE  (n = Nil <=> s = <<>>) /\ (n = Nil <=> n.h = 0)
<1>1. CASE n = Nil /\ s = <<>>
  BY <1>1 DEF Nil
<1>2. ASSUME NEW a, NEW b, Parts(n, s, a, b, E) PROVE n /= Nil /\ s /= <<>> /\ n.h /= 0
  <2>1. n /= Nil /\ n.h \in Nat \ {0}
    BY <1>2 DEF Parts
  <2>2. Len(s) = Len(a) + 1 + Len(b) /\ Len(a) \in Nat /\ Len(b) \in Nat
    BY <1>2, PartsAre
  <2> QED BY <2>1, <2>2
<1> QED BY <1>1, <1>2, TreeParts

-----------------------------------------------------------------------------
(* Subtrees.                                                               *)

\* The function in Subtrees exists.
LEMMA LevelExists ==
  ASSUME NEW n, n.h \in Nat
  PROVE  \E f : f = [d \in 0..n.h |->
                       IF d = 0 THEN {n} ELSE UNION {{m.l, m.r} : m \in f[d - 1] \ {Nil}}]
<1> DEFINE N == n.h
           D == 0..n.h
           Rank(d) == d
           Body(f, d) == IF d = 0 THEN {n} ELSE UNION {{m.l, m.r} : m \in f[d - 1] \ {Nil}}
<1>1. ASSUME NEW f, NEW g, NEW x \in D, \A y \in D : Rank(y) < Rank(x) => f[y] = g[y]
      PROVE  Body(f, x) = Body(g, x)
  <2>1. CASE x = 0
    BY <2>1
  <2>2. CASE x > 0
    <3>1. x - 1 \in D /\ x - 1 < x
      BY <2>2
    <3>2. f[x - 1] = g[x - 1]
      BY <1>1, <3>1
    <3> QED BY <3>2
  <2> QED BY <2>1, <2>2
<1>2. N \in Nat /\ \A x \in D : Rank(x) \in 0..N
  OBVIOUS
<1> DEFINE Upto(f, j) == f = [x \in D |-> f[x]] /\ \A x \in D : Rank(x) < j => f[x] = Body(f, x)
           Good == {j \in Nat : \E f : Upto(f, j)}
<1> HIDE DEF Body, Rank, D
<1>3. 0 \in Good
  <2>1. Upto([x \in D |-> {}], 0)
    BY <1>2
  <2> QED BY <2>1
<1>4. ASSUME NEW j \in Nat, j \in Good PROVE j + 1 \in Good
  <2>1. PICK f : Upto(f, j)
    BY <1>4
  <2> DEFINE g == [x \in D |-> Body(f, x)]
  <2>2. g = [x \in D |-> g[x]] /\ \A x \in D : g[x] = Body(f, x)
    OBVIOUS
  <2> HIDE DEF g
  <2>3. ASSUME NEW x \in D, Rank(x) < j + 1 PROVE Body(f, x) = Body(g, x)
    <3>1. \A y \in D : Rank(y) < Rank(x) => Rank(y) < j
      BY <1>2, <2>3
    <3>2. \A y \in D : Rank(y) < Rank(x) => f[y] = g[y]
      BY <2>1, <2>2, <3>1
    <3> QED BY <1>1, <3>2
  <2>4. Upto(g, j + 1)
    BY <2>2, <2>3
  <2> HIDE DEF Upto
  <2> QED BY <2>4
<1>5. N + 1 \in Good
  <2> HIDE DEF Good
  <2> QED BY <1>2, <1>4, <1>3, InductionNat
<1>6. PICK f : Upto(f, N + 1)
  BY <1>5
<1>7. \A x \in D : f[x] = Body(f, x)
  BY <1>2, <1>6
<1>8. f = [x \in D |-> Body(f, x)]
  BY <1>6, <1>7
<1> QED BY <1>8, Zenon DEF Body, D

LEMMA SubtreesAre ==
  ASSUME NEW E, NEW n, NEW s, Tree(n, s, E)
  PROVE  /\ n \in Subtrees(n)
         /\ \A m \in Subtrees(n) : m.h \in 0..n.h /\ \E t : Tree(m, t, E)
         /\ \A m \in Subtrees(n) : m /= Nil => m.l \in Subtrees(n) /\ m.r \in Subtrees(n)
<1> DEFINE N == n.h
           level == CHOOSE f : f = [d \in 0..n.h |->
                       IF d = 0 THEN {n} ELSE UNION {{m.l, m.r} : m \in f[d - 1] \ {Nil}}]
<1>1. N \in Nat
  BY TreeType
<1>2. level = [d \in 0..n.h |->
                 IF d = 0 THEN {n} ELSE UNION {{m.l, m.r} : m \in level[d - 1] \ {Nil}}]
  BY <1>1, LevelExists, Zenon
<1>3. Subtrees(n) = UNION {level[d] : d \in 0..N}
  BY Zenon DEF Subtrees
<1> HIDE DEF level
<1>4. level[0] = {n}
  BY <1>1, <1>2
<1>5. ASSUME NEW d \in 0..N, d > 0 PROVE level[d] = UNION {{m.l, m.r} : m \in level[d - 1] \ {Nil}}
  <2>1. level[d] = IF d = 0 THEN {n} ELSE UNION {{m.l, m.r} : m \in level[d - 1] \ {Nil}}
    BY <1>2, Zenon
  <2> QED BY <1>5, <2>1
<1> DEFINE Good == {d \in Nat : d <= N => \A m \in level[d] : (\E t : Tree(m, t, E)) /\ m.h <= N - d}
<1>6. 0 \in Good
  <2>1. N \in Nat /\ \A m \in level[0] : m = n
    BY <1>1, <1>4
  <2> QED BY <2>1
<1>7. \A d \in Nat : d \in Good => d + 1 \in Good
  <2> SUFFICES ASSUME NEW d \in Nat, d \in Good, d + 1 <= N, NEW m \in level[d + 1]
               PROVE  (\E t : Tree(m, t, E)) /\ m.h <= N - (d + 1)
    OBVIOUS
  <2>1. d + 1 \in 0..N /\ d + 1 > 0 /\ (d + 1) - 1 = d /\ d <= N
    BY <1>1
  <2>2. PICK p \in level[d] : p /= Nil /\ m \in {p.l, p.r}
    BY <1>5, <2>1
  <2>3. PICK t : Tree(p, t, E)
    BY <2>1, <2>2
  <2>4. PICK a, b : Parts(p, t, a, b, E)
    BY <2>2, <2>3, TreeParts
  <2>5. p.h \in Nat /\ p.l.h \in Nat /\ p.r.h \in Nat /\ p.l.h < p.h /\ p.r.h < p.h
    BY <2>4, PartsAre
  <2>6. p.h <= N - d
    BY <2>1
  <2>7. Tree(p.l, a, E) /\ Tree(p.r, b, E)
    BY <2>4 DEF Parts
  <2> QED BY <1>1, <2>2, <2>5, <2>6, <2>7
<1>8. \A d \in 0..N : \A m \in level[d] : (\E t : Tree(m, t, E)) /\ m.h <= N - d
  <2>1. Nat \subseteq Good
    <3> HIDE DEF Good
    <3> QED BY <1>6, <1>7, InductionNat
  <2>2. \A d \in 0..N : d \in Good /\ d <= N
    BY <1>1, <2>1
  <2> QED BY <2>2
<1>9. n \in Subtrees(n)
  <2>1. 0 \in 0..N
    BY <1>1
  <2> QED BY <1>3, <1>4, <2>1
<1>10. ASSUME NEW m \in Subtrees(n) PROVE m.h \in 0..n.h /\ \E t : Tree(m, t, E)
  <2>1. PICK d \in 0..N : m \in level[d]
    BY <1>3
  <2>2. PICK t : Tree(m, t, E)
    BY <1>8, <2>1
  <2>3. m.h \in Nat /\ m.h <= N - d
    BY <1>8, <2>1, <2>2, TreeType
  <2> QED BY <1>1, <2>2, <2>3
<1>11. ASSUME NEW m \in Subtrees(n), m /= Nil PROVE m.l \in Subtrees(n) /\ m.r \in Subtrees(n)
  <2>1. PICK d \in 0..N : m \in level[d]
    BY <1>3
  <2>2. PICK t : Tree(m, t, E)
    BY <1>8, <2>1
  <2>3. m.h \in Nat /\ m.h <= N - d /\ m.h /= 0
    BY <1>8, <1>11, <2>1, <2>2, TreeType, NilIs
  <2>4. d + 1 \in 0..N /\ d + 1 > 0 /\ (d + 1) - 1 = d
    BY <1>1, <2>3
  <2>5. m.l \in level[d + 1] /\ m.r \in level[d + 1]
    <3>1. level[d + 1] = UNION {{p.l, p.r} : p \in level[d] \ {Nil}}
      BY <1>5, <2>4
    <3> QED BY <1>11, <2>1, <3>1
  <2> QED BY <1>3, <2>4, <2>5
<1> QED BY <1>9, <1>10, <1>11

-----------------------------------------------------------------------------
(* Nodes that an operation has made.                                       *)

Opposite(d, o) == (d = "l" /\ o = "r") \/ (d = "r" /\ o = "l")

\* c is such a node, with x on side d, y on the other side and the data e.
Fresh(c, d, x, y, e) ==
  /\ IsNode(c) /\ c.own = TRUE /\ c.ok = TRUE
  /\ Data(c) = e
  /\ \E o : Opposite(d, o) /\ c[d] = x /\ c[o] = y

\* The elements of a tree with a on side d and b on the other side.
Around(d, a, e, b) == IF d = "l" THEN Mid(a, e, b) ELSE Mid(b, e, a)

LEMMA FreshSides ==
  ASSUME NEW c, NEW d, NEW o, NEW x, NEW y, NEW e, Opposite(d, o), Fresh(c, d, x, y, e)
  PROVE  c[d] = x /\ c[o] = y
BY DEF Fresh, Opposite

LEMMA FreshTurned ==
  ASSUME NEW c, NEW d, NEW o, NEW x, NEW y, NEW e, Opposite(d, o), Fresh(c, d, x, y, e)
  PROVE  Fresh(c, o, y, x, e)
BY DEF Fresh, Opposite

LEMMA CopyFresh ==
  ASSUME NEW n, Sound(n), NEW d, NEW o, Opposite(d, o), NEW x, NEW y, n[d] = x, n[o] = y
  PROVE  Fresh(CopyNode(n), d, x, y, Data(n)) /\ CopyNode(n).h = n.h
<1>1. IsNode(CopyNode(n)) /\ CopyNode(n).own = TRUE /\ \A f \in NodeField \ {"own"} : CopyNode(n)[f] = n[f]
  BY DEF Sound, IsNode, CopyNode, NodeField
<1>2. \A f \in {"k", "v", "h", "l", "r", "ok"} : CopyNode(n)[f] = n[f]
  BY <1>1 DEF NodeField
<1>3. CopyNode(n).k = n.k /\ CopyNode(n).v = n.v /\ CopyNode(n).h = n.h /\ CopyNode(n).ok = n.ok
  BY <1>2
<1> QED BY <1>1, <1>2, <1>3 DEF Fresh, Sound, Opposite, Data

\* n is c with x in the field f.
Written(n, c, f, x) ==
  /\ IsNode(n) /\ n[f] = x /\ n.own = TRUE /\ n.ok = TRUE
  /\ \A g \in NodeField : g /= f => n[g] = c[g]

LEMMA AssignIs ==
  ASSUME NEW c, IsNode(c), c.own = TRUE, c.ok = TRUE, NEW f \in NodeField \ {"own", "ok"}, NEW x
  PROVE  Written(Assign(c, f, x), c, f, x)
<1> DEFINE D == NodeField
           n == Assign(c, f, x)
<1>1. c = [g \in D |-> c[g]] /\ "own" \in D /\ "ok" \in D /\ f \in D /\ f /= "own" /\ f /= "ok"
  BY DEF IsNode, NodeField
<1>2. c.own = TRUE /\ c.ok = TRUE
  OBVIOUS
<1> HIDE DEF D
<1>3. n = [[c EXCEPT ![f] = x] EXCEPT !.ok = (c.ok /\ c.own)]
  BY <1>1 DEF Assign
<1>4. n = [g \in D |-> n[g]] /\ n[f] = x /\ n.own = TRUE /\ n.ok = TRUE
  BY <1>1, <1>2, <1>3
<1>5. \A g \in D : g /= f => n[g] = c[g]
  BY <1>1, <1>2, <1>3
<1> QED BY <1>4, <1>5 DEF IsNode, D, Written

LEMMA AssignSide ==
  ASSUME NEW c, NEW d, NEW o, NEW x, NEW y, NEW e, NEW z, Opposite(d, o), Fresh(c, d, x, y, e)
  PROVE  Fresh(Assign(c, d, z), d, z, y, e)
<1>1. IsNode(c) /\ c.own = TRUE /\ c.ok = TRUE /\ d \in NodeField \ {"own", "ok"}
  BY DEF Fresh, Opposite, NodeField
<1> DEFINE n == Assign(c, d, z)
<1>2. Written(n, c, d, z)
  BY <1>1, AssignIs
<1> HIDE DEF n
<1>3. n.k = c.k /\ n.v = c.v /\ n[o] = c[o]
  BY <1>2 DEF Opposite, NodeField, Written
<1>4. c[o] = y
  BY FreshSides
<1>5. Fresh(n, d, z, y, e)
  BY <1>2, <1>3, <1>4 DEF Fresh, Data, Written
<1> QED BY <1>5 DEF n

LEMMA AssignOther ==
  ASSUME NEW c, NEW d, NEW o, NEW x, NEW y, NEW e, NEW z, Opposite(d, o), Fresh(c, d, x, y, e)
  PROVE  Fresh(Assign(c, o, z), d, x, z, e)
<1>1. Opposite(o, d) /\ Fresh(c, o, y, x, e)
  BY FreshTurned DEF Opposite
<1>2. Fresh(Assign(c, o, z), o, z, x, e)
  BY <1>1, AssignSide
<1> QED BY <1>1, <1>2, FreshTurned, Zenon

LEMMA FixIs ==
  ASSUME NEW c, NEW d, NEW x, NEW y, NEW e, Fresh(c, d, x, y, e)
  PROVE  /\ Fresh(FixHSZ(c), d, x, y, e)
         /\ FixHSZ(c).l = c.l /\ FixHSZ(c).r = c.r
         /\ FixHSZ(c).h = Higher(c.l, c.r) + 1
         /\ FixHSZ(c).sz = c.l.sz + c.r.sz + 1
<1> DEFINE m == Assign(c, "h", Higher(c.l, c.r) + 1)
           n == Assign(m, "sz", c.l.sz + c.r.sz + 1)
<1>1. IsNode(c) /\ c.own = TRUE /\ c.ok = TRUE /\ "h" \in NodeField \ {"own", "ok"}
      /\ "sz" \in NodeField \ {"own", "ok"}
  BY DEF Fresh, NodeField
<1>2. Written(m, c, "h", Higher(c.l, c.r) + 1)
  BY <1>1, AssignIs
<1>3. FixHSZ(c) = n
  BY DEF FixHSZ
<1> HIDE DEF m
<1>4. Written(n, m, "sz", c.l.sz + c.r.sz + 1)
  <2>1. IsNode(m) /\ m.own = TRUE /\ m.ok = TRUE
    BY <1>2 DEF Written
  <2> QED BY <1>1, <2>1, AssignIs
<1> HIDE DEF n
<1>5. \A g \in NodeField \ {"h", "sz"} : n[g] = c[g]
  BY <1>2, <1>4 DEF Written
<1>6. n.k = c.k /\ n.v = c.v /\ n.l = c.l /\ n.r = c.r
  BY <1>5 DEF NodeField
<1>7. n.h = Higher(c.l, c.r) + 1
  BY <1>2, <1>4 DEF NodeField, Written
<1>8. Fresh(n, d, x, y, e)
  BY <1>4, <1>6 DEF Fresh, Data, Opposite, Written
<1> QED BY <1>3, <1>4, <1>6, <1>7, <1>8 DEF Written

LEMMA AssertedIs ==
  ASSUME NEW c, NEW d, NEW x, NEW y, NEW e, Fresh(c, d, x, y, e), NEW q, q = TRUE
  PROVE  Asserted(c, q) = c
<1>1. c = [f \in NodeField |-> c[f]] /\ "ok" \in NodeField /\ c.ok = TRUE
  BY DEF Fresh, IsNode, NodeField
<1>2. Asserted(c, q) = [c EXCEPT !.ok = TRUE]
  BY <1>1 DEF Asserted
<1> QED BY <1>1, <1>2

\* n is a new root of a tree with the elements s, and of the height h.
Root(n, s, h, E) == Tree(n, s, E) /\ (\E d, x, y, e : Fresh(n, d, x, y, e)) /\ n.h = h

Near(x, y) == x.h - y.h \in -1..1

\* A node over balanced trees.
LEMMA FixTree ==
  ASSUME NEW E, NEW c, NEW d, NEW o, NEW x, NEW y, NEW e \in E, NEW a, NEW b, Opposite(d, o),
         Fresh(c, d, x, y, e), Tree(x, a, E), Tree(y, b, E), Near(x, y)
  PROVE  Root(FixHSZ(c), Around(d, a, e, b), Higher(x, y) + 1, E) /\ Fresh(FixHSZ(c), d, x, y, e)
<1> DEFINE n == FixHSZ(c)
<1>1. Fresh(n, d, x, y, e) /\ n.l = c.l /\ n.r = c.r /\ n.h = Higher(c.l, c.r) + 1 /\ n.sz = c.l.sz + c.r.sz + 1
  BY FixIs
<1> HIDE DEF n
<1>2. x.h \in Nat /\ y.h \in Nat
  BY TreeType
<1>3. Higher(c.l, c.r) = Higher(x, y) /\ c.l.h - c.r.h \in -1..1
  BY <1>2 DEF Fresh, Opposite, Higher, Near
<1>4. Sound(n) /\ Data(n) = e
  BY <1>1, <1>3 DEF Fresh, Sound
<1>5. CASE d = "l"
  <2>1. n.l = x /\ n.r = y
    BY <1>1, <1>5 DEF Fresh, Opposite
  <2> QED BY <1>1, <1>3, <1>4, <1>5, <2>1, TreeNode DEF n, Around, Root
<1>6. CASE d = "r"
  <2>1. n.l = y /\ n.r = x
    BY <1>1, <1>6 DEF Fresh, Opposite
  <2> QED BY <1>1, <1>3, <1>4, <1>6, <2>1, TreeNode DEF n, Around, Root
<1> QED BY <1>5, <1>6 DEF Opposite

-----------------------------------------------------------------------------
(* Rotations.                                                              *)

LEMMA AroundAssociative ==
  ASSUME NEW E, NEW d, NEW a \in Seq(E), NEW b \in Seq(E), NEW c \in Seq(E), NEW e \in E, NEW f \in E
  PROVE  Around(d, Around(d, a, e, b), f, c) = Around(d, a, e, Around(d, b, f, c))
<1>1. CASE d = "l"
  BY <1>1, MidAssociative DEF Around
<1>2. CASE d /= "l"
  <2>1. Mid(Mid(c, f, b), e, a) = Mid(c, f, Mid(b, e, a))
    BY MidAssociative
  <2> QED BY <1>2, <2>1 DEF Around
<1> QED BY <1>1, <1>2

\* A root, seen from the side d.
LEMMA PartsAround ==
  ASSUME NEW E, NEW n, NEW s, Tree(n, s, E), n.h /= 0, NEW d, NEW o, Opposite(d, o)
  PROVE  \E a, b \in Seq(E) :
           /\ Tree(n[d], a, E) /\ Tree(n[o], b, E) /\ Data(n) \in E /\ Sound(n)
           /\ s = Around(d, a, Data(n), b)
           /\ n[d].h - n[o].h \in -1..1 /\ n.h = Higher(n[d], n[o]) + 1
           /\ n[d].h \in Nat /\ n[o].h \in Nat
<1>1. PICK a, b : Parts(n, s, a, b, E)
  BY TreeParts, NilIs
<1>2. /\ Tree(n.l, a, E) /\ Tree(n.r, b, E) /\ Data(n) \in E /\ Sound(n)
      /\ s = Mid(a, Data(n), b)
  BY <1>1 DEF Parts
<1>3. a \in Seq(E) /\ b \in Seq(E) /\ n.l.h \in Nat /\ n.r.h \in Nat
  BY <1>1, PartsAre
<1>4. n.l.h - n.r.h \in -1..1 /\ n.h = Higher(n.l, n.r) + 1
  BY <1>2 DEF Sound
<1>5. CASE d = "l" /\ o = "r"
  BY <1>2, <1>3, <1>4, <1>5 DEF Around
<1>6. CASE d = "r" /\ o = "l"
  <2>1. n.r.h - n.l.h \in -1..1 /\ n.h = Higher(n.r, n.l) + 1
    BY <1>3, <1>4 DEF Higher
  <2> QED BY <1>2, <1>3, <1>6, <2>1 DEF Around
<1> QED BY <1>5, <1>6 DEF Opposite

LEMMA AroundType ==
  ASSUME NEW E, NEW d, NEW a \in Seq(E), NEW b \in Seq(E), NEW e \in E
  PROVE  Around(d, a, e, b) \in Seq(E)
<1>1. IsMid(Mid(a, e, b), a, e, b, E) /\ IsMid(Mid(b, e, a), b, e, a, E)
  BY MidIs
<1> QED BY <1>1 DEF IsMid, Around

\* The heights p and q below a root whose height is y + 2.
LEMMA BelowRoot ==
  ASSUME NEW p, NEW q, p.h \in Nat, q.h \in Nat, NEW y \in Nat,
         p.h - q.h \in -1..1, Higher(p, q) + 1 = y + 2
  PROVE  p.h \in {y, y + 1} /\ q.h \in {y, y + 1} /\ (p.h = y => q.h = y + 1)
BY DEF Higher

LEMMA RotateTwice ==
  ASSUME NEW E, NEW d, NEW o, Opposite(d, o),
         NEW c, NEW x, NEW y, NEW p, NEW q, NEW u, NEW v, NEW e \in E,
         NEW a, NEW a1, NEW a2, NEW b,
         Fresh(c, d, x, y, e), Sound(x), x[d] = p, x[o] = q, Data(x) \in E,
         Sound(q), q[d] = u, q[o] = v, Data(q) \in E,
         Tree(p, a, E), Tree(u, a1, E), Tree(v, a2, E), Tree(y, b, E),
         p.h = y.h, q.h = y.h + 1, u.h - v.h \in -1..1, q.h = Higher(u, v) + 1
  PROVE  Root(Rotate(c, d, o), Around(d, Around(d, a, Data(x), a1), Data(q), Around(d, a2, e, b)), y.h + 2, E)
<1>1. p.h \in Nat /\ u.h \in Nat /\ v.h \in Nat /\ y.h \in Nat
  BY TreeType
<1>2. c[d] = x /\ c[o] = y
  BY FreshSides
<1> DEFINE heavy == CopyNode(x)
           mid == CopyNode(q)
<1>3. Fresh(heavy, d, p, q, Data(x))
  BY CopyFresh, Zenon
<1> HIDE DEF heavy
<1>4. heavy[d] = p /\ heavy[o] = q
  BY <1>3, FreshSides, Zenon
<1>5. Fresh(mid, d, u, v, Data(q)) /\ mid.h = q.h
  BY CopyFresh, Zenon
<1> HIDE DEF mid
<1>6. mid[d] = u /\ mid[o] = v
  BY <1>5, FreshSides, Zenon
<1> DEFINE c1 == Assign(c, d, mid[o])
           h1 == Assign(heavy, o, mid[d])
           low == FixHSZ(c1)
           high == FixHSZ(h1)
<1>7. Fresh(c1, d, v, y, e)
  BY <1>6, AssignSide
<1>8. Fresh(h1, d, p, u, Data(x))
  BY <1>3, <1>6, AssignOther
<1> HIDE DEF c1, h1
<1>9. u.h \in {y.h - 1, y.h} /\ v.h \in {y.h - 1, y.h}
  BY <1>1 DEF Higher
<1>10. Near(v, y) /\ Near(p, u)
  BY <1>1, <1>9 DEF Near
<1>11. Root(low, Around(d, a2, e, b), Higher(v, y) + 1, E)
  BY <1>7, <1>10, FixTree, Zenon
<1>12. Root(high, Around(d, a, Data(x), a1), Higher(p, u) + 1, E)
  BY <1>8, <1>10, FixTree, Zenon
<1> HIDE DEF low, high
<1>13. Tree(low, Around(d, a2, e, b), E) /\ Tree(high, Around(d, a, Data(x), a1), E)
  BY <1>11, <1>12 DEF Root
<1> DEFINE t1 == Assign(mid, o, low)
           t2 == Assign(t1, d, high)
           top == FixHSZ(t2)
<1>14. Fresh(t1, d, u, low, Data(q))
  BY <1>5, AssignOther
<1> HIDE DEF t1
<1>15. Fresh(t2, d, high, low, Data(q))
  BY <1>14, AssignSide
<1> HIDE DEF t2
<1>16. low.h = y.h + 1 /\ high.h = y.h + 1
  <2>1. Higher(v, y) = y.h /\ Higher(p, u) = y.h
    BY <1>1, <1>9 DEF Higher
  <2> QED BY <1>11, <1>12, <2>1 DEF Root
<1>17. Near(high, low) /\ Higher(high, low) + 1 = y.h + 2
  BY <1>1, <1>16 DEF Higher, Near
<1>18. /\ Root(top, Around(d, Around(d, a, Data(x), a1), Data(q), Around(d, a2, e, b)), Higher(high, low) + 1, E)
       /\ Fresh(top, d, high, low, Data(q))
  BY <1>13, <1>15, <1>17, FixTree, Zenon
<1> HIDE DEF top
<1> DEFINE assertion == mid.h = c[o].h + 1
<1>19. assertion = TRUE /\ heavy[d].h = c[o].h
  BY <1>2, <1>4, <1>5
<1>20. Rotate(c, d, o) = Asserted(top, assertion)
  BY <1>2, <1>4, <1>19, Zenon DEF Rotate, heavy, mid, top, low, high, t1, t2, c1, h1
<1> HIDE DEF assertion
<1>21. Rotate(c, d, o) = top
  BY <1>18, <1>19, <1>20, AssertedIs
<1> QED BY <1>17, <1>18, <1>21

LEMMA RotateOnce ==
  ASSUME NEW E, NEW d, NEW o, Opposite(d, o),
         NEW c, NEW x, NEW y, NEW p, NEW q, NEW e \in E, NEW a, NEW a1, NEW b,
         Fresh(c, d, x, y, e), Sound(x), x[d] = p, x[o] = q, Data(x) \in E,
         Tree(p, a, E), Tree(q, a1, E), Tree(y, b, E),
         p.h = y.h + 1, q.h \in {y.h, y.h + 1}
  PROVE  \/ Root(Rotate(c, d, o), Around(d, a, Data(x), Around(d, a1, e, b)), y.h + 2, E)
         \/ Root(Rotate(c, d, o), Around(d, a, Data(x), Around(d, a1, e, b)), y.h + 3, E)
<1>1. p.h \in Nat /\ q.h \in Nat /\ y.h \in Nat
  BY TreeType
<1>2. c[d] = x /\ c[o] = y
  BY FreshSides
<1> DEFINE heavy == CopyNode(x)
<1>3. Fresh(heavy, d, p, q, Data(x))
  BY CopyFresh, Zenon
<1> HIDE DEF heavy
<1>4. heavy[d] = p /\ heavy[o] = q
  BY <1>3, FreshSides, Zenon
<1> DEFINE c1 == Assign(c, d, heavy[o])
           low == FixHSZ(c1)
<1>5. Fresh(c1, d, q, y, e)
  BY <1>4, AssignSide
<1> HIDE DEF c1
<1>6. Near(q, y)
  BY <1>1 DEF Near
<1>7. Root(low, Around(d, a1, e, b), Higher(q, y) + 1, E)
  BY <1>5, <1>6, FixTree, Zenon
<1> HIDE DEF low
<1>8. Tree(low, Around(d, a1, e, b), E) /\ low.h \in {y.h + 1, y.h + 2}
  <2>1. Higher(q, y) \in {y.h, y.h + 1}
    BY <1>1 DEF Higher
  <2> QED BY <1>1, <1>7, <2>1 DEF Root
<1> DEFINE h1 == Assign(heavy, o, low)
           top == FixHSZ(h1)
<1>9. Fresh(h1, d, p, low, Data(x))
  BY <1>3, AssignOther
<1> HIDE DEF h1
<1>10. Near(p, low) /\ Higher(p, low) + 1 \in {y.h + 2, y.h + 3}
  BY <1>1, <1>8 DEF Higher, Near
<1>11. /\ Root(top, Around(d, a, Data(x), Around(d, a1, e, b)), Higher(p, low) + 1, E)
       /\ Fresh(top, d, p, low, Data(x))
  BY <1>8, <1>9, <1>10, FixTree, Zenon
<1> HIDE DEF top
<1> DEFINE assertion == /\ heavy[d].h = c[o].h + 1
                        /\ heavy[o].h \in {c[o].h, c[o].h + 1}
<1>12. assertion = TRUE /\ ~(heavy[d].h = c[o].h)
  BY <1>1, <1>2, <1>4
<1>13. Rotate(c, d, o) = Asserted(top, assertion)
  BY <1>2, <1>4, <1>12, Zenon DEF Rotate, heavy, top, low, h1, c1
<1> HIDE DEF assertion
<1>14. Rotate(c, d, o) = top
  BY <1>11, <1>12, <1>13, AssertedIs
<1> QED BY <1>10, <1>11, <1>14

LEMMA RotateIs ==
  ASSUME NEW E, NEW d, NEW o, Opposite(d, o),
         NEW c, NEW x, NEW y, NEW e \in E, NEW a, NEW b,
         Fresh(c, d, x, y, e), Tree(x, a, E), Tree(y, b, E), x.h = y.h + 2
  PROVE  \/ Root(Rotate(c, d, o), Around(d, a, e, b), x.h, E)
         \/ Root(Rotate(c, d, o), Around(d, a, e, b), x.h + 1, E)
<1>1. a \in Seq(E) /\ b \in Seq(E) /\ x.h \in Nat /\ y.h \in Nat
  BY TreeType
<1> DEFINE g == Data(x)
           p == x[d]
           q == x[o]
<1>2. PICK a1, a2 \in Seq(E) :
        /\ Tree(p, a1, E) /\ Tree(q, a2, E) /\ g \in E /\ Sound(x)
        /\ a = Around(d, a1, g, a2)
        /\ p.h - q.h \in -1..1 /\ x.h = Higher(p, q) + 1
        /\ p.h \in Nat /\ q.h \in Nat
  BY <1>1, PartsAround
<1>3. x[d] = p /\ x[o] = q /\ g = Data(x)
  OBVIOUS
<1> HIDE DEF g, p, q
<1>4. p.h \in {y.h, y.h + 1} /\ q.h \in {y.h, y.h + 1} /\ (p.h = y.h => q.h = y.h + 1)
  <2>1. p.h \in Nat /\ q.h \in Nat /\ p.h - q.h \in -1..1 /\ Higher(p, q) + 1 = y.h + 2
    BY <1>2
  <2> QED BY <1>1, <2>1, BelowRoot, SMTT(40)
<1>5. CASE p.h = y.h
  <2> DEFINE f == Data(q)
             u == q[d]
             v == q[o]
  <2>1. PICK m1, m2 \in Seq(E) :
          /\ Tree(u, m1, E) /\ Tree(v, m2, E) /\ f \in E /\ Sound(q)
          /\ a2 = Around(d, m1, f, m2)
          /\ u.h - v.h \in -1..1 /\ q.h = Higher(u, v) + 1
          /\ u.h \in Nat /\ v.h \in Nat
    <3>1. Tree(q, a2, E) /\ q.h /= 0
      BY <1>1, <1>2, <1>4, <1>5
    <3> QED BY <3>1, PartsAround
  <2>2. q[d] = u /\ q[o] = v /\ f = Data(q)
    OBVIOUS
  <2> HIDE DEF f, u, v
  <2>3. Root(Rotate(c, d, o), Around(d, Around(d, a1, g, m1), f, Around(d, m2, e, b)), y.h + 2, E)
    <3>1. /\ Sound(x) /\ x[d] = p /\ x[o] = q /\ Data(x) \in E
          /\ Tree(p, a1, E) /\ p.h = y.h /\ q.h = y.h + 1
      BY <1>2, <1>3, <1>4, <1>5
    <3>2. /\ Sound(q) /\ q[d] = u /\ q[o] = v /\ Data(q) \in E
          /\ Tree(u, m1, E) /\ Tree(v, m2, E) /\ u.h - v.h \in -1..1 /\ q.h = Higher(u, v) + 1
      BY <2>1, <2>2
    <3>3. Root(Rotate(c, d, o), Around(d, Around(d, a1, Data(x), m1), Data(q), Around(d, m2, e, b)), y.h + 2, E)
      BY <3>1, <3>2, RotateTwice, Zenon
    <3> QED BY <1>3, <2>2, <3>3
  <2>4. Around(d, Around(d, a1, g, m1), f, Around(d, m2, e, b)) = Around(d, a, e, b)
    <3> DEFINE w == Around(d, a1, g, m1)
    <3>1. w \in Seq(E) /\ w = Around(d, a1, g, m1)
      BY <1>2, AroundType
    <3> HIDE DEF w
    <3>2. Around(d, Around(d, w, f, m2), e, b) = Around(d, w, f, Around(d, m2, e, b))
      BY <1>1, <2>1, <3>1, AroundAssociative
    <3>3. Around(d, w, f, m2) = Around(d, a1, g, Around(d, m1, f, m2))
      BY <1>2, <2>1, <3>1, AroundAssociative
    <3> QED BY <1>2, <2>1, <3>1, <3>2, <3>3
  <2> QED BY <1>1, <2>3, <2>4
<1>6. CASE p.h = y.h + 1
  <2>1. \/ Root(Rotate(c, d, o), Around(d, a1, g, Around(d, a2, e, b)), y.h + 2, E)
        \/ Root(Rotate(c, d, o), Around(d, a1, g, Around(d, a2, e, b)), y.h + 3, E)
    <3>1. /\ Sound(x) /\ x[d] = p /\ x[o] = q /\ Data(x) \in E
          /\ Tree(p, a1, E) /\ Tree(q, a2, E) /\ p.h = y.h + 1 /\ q.h \in {y.h, y.h + 1}
      BY <1>2, <1>3, <1>4, <1>6
    <3>2. \/ Root(Rotate(c, d, o), Around(d, a1, Data(x), Around(d, a2, e, b)), y.h + 2, E)
          \/ Root(Rotate(c, d, o), Around(d, a1, Data(x), Around(d, a2, e, b)), y.h + 3, E)
      BY <3>1, RotateOnce, Zenon
    <3> QED BY <1>3, <3>2
  <2>2. Around(d, Around(d, a1, g, a2), e, b) = Around(d, a1, g, Around(d, a2, e, b))
    BY <1>1, <1>2, AroundAssociative
  <2>3. y.h + 2 = x.h /\ y.h + 3 = x.h + 1
    BY <1>1
  <2> QED BY <1>2, <2>1, <2>2, <2>3
<1> QED BY <1>4, <1>5, <1>6

\* n is the root that Rebalance makes of x and y.
Rebalanced(n, s, x, y, E) ==
  \/ Root(n, s, Higher(x, y) + 1, E)
  \/ ~Near(x, y) /\ Root(n, s, Higher(x, y), E)

LEMMA RebalanceIs ==
  ASSUME NEW E, NEW c, NEW x, NEW y, NEW e \in E, NEW a, NEW b,
         Fresh(c, "l", x, y, e), Tree(x, a, E), Tree(y, b, E), x.h - y.h \in -2..2
  PROVE  Rebalanced(Rebalance(c), Mid(a, e, b), x, y, E)
<1>1. x.h \in Nat /\ y.h \in Nat /\ Opposite("l", "r") /\ Opposite("r", "l")
  BY TreeType DEF Opposite
<1>2. c.l = x /\ c.r = y
  BY <1>1, FreshSides, Zenon
<1>3. Fresh(c, "r", y, x, e)
  BY <1>1, FreshTurned, Zenon
<1>4. Around("l", a, e, b) = Mid(a, e, b) /\ Around("r", b, e, a) = Mid(a, e, b)
  BY DEF Around
<1>5. CASE x.h - y.h \in -1..1
  <2>1. Near(x, y)
    BY <1>5 DEF Near
  <2>2. Root(FixHSZ(c), Mid(a, e, b), Higher(x, y) + 1, E)
    BY <1>1, <1>4, <2>1, FixTree, Zenon
  <2>3. Rebalance(c) = FixHSZ(c)
    BY <1>2, <1>5, Zenon DEF Rebalance
  <2> QED BY <2>2, <2>3 DEF Rebalanced
<1>6. ASSUME NEW n, NEW h, Root(n, Mid(a, e, b), h, E), h \in {Higher(x, y), Higher(x, y) + 1}, ~Near(x, y),
             Rebalance(c) = Asserted(n, (c.l.h - c.r.h) \in {-2, 2}), c.l.h - c.r.h \in {-2, 2}
      PROVE  Rebalanced(Rebalance(c), Mid(a, e, b), x, y, E)
  <2> DEFINE assertion == (c.l.h - c.r.h) \in {-2, 2}
  <2>1. assertion = TRUE /\ Rebalance(c) = Asserted(n, assertion)
    BY <1>6
  <2> HIDE DEF assertion
  <2>2. Rebalance(c) = n
    BY <1>6, <2>1, AssertedIs DEF Root
  <2> QED BY <1>6, <2>2 DEF Rebalanced
<1>7. CASE x.h = y.h + 2
  <2>1. Higher(x, y) = x.h /\ ~Near(x, y) /\ c.l.h - c.r.h = 2
    BY <1>1, <1>2, <1>7 DEF Higher, Near
  <2>2. Rebalance(c) = Asserted(Rotate(c, "l", "r"), (c.l.h - c.r.h) \in {-2, 2})
    <3>1. ~(c.l.h - c.r.h \in -1..1) /\ ~(c.l.h - c.r.h < 0)
      BY <2>1
    <3> QED BY <3>1, Zenon DEF Rebalance
  <2>3. \/ Root(Rotate(c, "l", "r"), Mid(a, e, b), x.h, E)
        \/ Root(Rotate(c, "l", "r"), Mid(a, e, b), x.h + 1, E)
    BY <1>1, <1>4, <1>7, RotateIs, Zenon
  <2> QED BY <1>6, <2>1, <2>2, <2>3
<1>8. CASE y.h = x.h + 2
  <2>1. Higher(x, y) = y.h /\ ~Near(x, y) /\ c.l.h - c.r.h = -2
    BY <1>1, <1>2, <1>8 DEF Higher, Near
  <2>2. Rebalance(c) = Asserted(Rotate(c, "r", "l"), (c.l.h - c.r.h) \in {-2, 2})
    <3>1. ~(c.l.h - c.r.h \in -1..1) /\ c.l.h - c.r.h < 0
      BY <2>1
    <3> QED BY <3>1, Zenon DEF Rebalance
  <2>3. \/ Root(Rotate(c, "r", "l"), Mid(a, e, b), y.h, E)
        \/ Root(Rotate(c, "r", "l"), Mid(a, e, b), y.h + 1, E)
    BY <1>1, <1>3, <1>4, <1>8, RotateIs, Zenon
  <2> QED BY <1>6, <2>1, <2>2, <2>3
<1> QED BY <1>1, <1>5, <1>7, <1>8

-----------------------------------------------------------------------------
(* Recursion on the subtrees of a tree.                                    *)

LEMMA Below ==
  ASSUME NEW E, NEW n, NEW s, Tree(n, s, E), NEW m \in Subtrees(n), m /= Nil
  PROVE  /\ m.l \in Subtrees(n) /\ m.r \in Subtrees(n)
         /\ m.l.h < m.h /\ m.r.h < m.h /\ m.l.h \in Nat /\ m.r.h \in Nat
         /\ m.l.sz \in Nat /\ m.r.sz \in Nat /\ m.sz = m.l.sz + m.r.sz + 1
         /\ CopyNode(m).l = m.l /\ CopyNode(m).r = m.r
<1>1. m.l \in Subtrees(n) /\ m.r \in Subtrees(n) /\ m \in Subtrees(n) /\ \E t : Tree(m, t, E)
  BY SubtreesAre
<1>2. PICK t, a, b : Parts(m, t, a, b, E)
  BY <1>1, TreeParts
<1>3. /\ m.l.h < m.h /\ m.r.h < m.h /\ m.l.h \in Nat /\ m.r.h \in Nat
      /\ m.l.sz = Len(a) /\ m.r.sz = Len(b) /\ Len(a) \in Nat /\ Len(b) \in Nat
  BY <1>2, PartsAre
<1>4. Sound(m) /\ m.sz = m.l.sz + m.r.sz + 1
  BY <1>2 DEF Parts, Sound
<1>5. Opposite("l", "r")
  BY DEF Opposite
<1>6. Fresh(CopyNode(m), "l", m.l, m.r, Data(m))
  BY <1>4, <1>5, CopyFresh, Zenon
<1>7. CopyNode(m).l = m.l /\ CopyNode(m).r = m.r
  BY <1>5, <1>6, FreshSides, Zenon
<1> QED BY <1>1, <1>3, <1>4, <1>7

\* The places below a place.
LEMMA PlacesBelow ==
  ASSUME NEW E, NEW n, NEW s, Tree(n, s, E), NEW m \in Subtrees(n), m /= Nil, NEW i \in Int
  PROVE  /\ <<m.l, i>> \in Subtrees(n) \X Int
         /\ <<m.r, i - m.l.sz - 1>> \in Subtrees(n) \X Int
         /\ <<m.r, i + m.l.sz + 1>> \in Subtrees(n) \X Int
         /\ i \in 0..(m.sz - 1) /\ i < m.l.sz => <<m.l, i>> \in Places(n)
         /\ i \in 0..(m.sz - 1) /\ i > m.l.sz => <<m.r, i - m.l.sz - 1>> \in Places(n)
<1>1. m.l \in Subtrees(n) /\ m.r \in Subtrees(n) /\ m.l.sz \in Nat /\ m.r.sz \in Nat /\ m.sz = m.l.sz + m.r.sz + 1
  BY Below
<1>2. i - m.l.sz - 1 \in Int /\ i + m.l.sz + 1 \in Int
  BY <1>1
<1>3. ASSUME i \in 0..(m.sz - 1), i < m.l.sz PROVE i \in 0..(m.l.sz - 1)
  BY <1>1, <1>3
<1>4. ASSUME i \in 0..(m.sz - 1), i > m.l.sz PROVE i - m.l.sz - 1 \in 0..(m.r.sz - 1)
  BY <1>1, <1>4
<1> QED BY <1>1, <1>2, <1>3, <1>4 DEF Places

\* The function in AddByIdx: f is one.
AddsBy(f, n, k, v) ==
  f = [at \in Subtrees(n) \X Int |->
         LET c == CopyNode(at[1])
             i == at[2]
         IN  IF at[1] = Nil THEN Asserted(NewNode(k, v), i = 0)
             ELSE Rebalance(IF i <= c.l.sz
                              THEN Assign(c, "l", f[<<c.l, i>>])
                              ELSE Assign(c, "r", f[<<c.r, i - c.l.sz - 1>>]))]

LEMMA AddExists ==
  ASSUME NEW E, NEW n, NEW s, Tree(n, s, E), NEW k, NEW v
  PROVE  \E f : AddsBy(f, n, k, v)
<1> DEFINE N == n.h
           D == Subtrees(n) \X Int
           Rank(x) == x[1].h
           Body(f, x) ==
             LET c == CopyNode(x[1])
                 i == x[2]
             IN  IF x[1] = Nil THEN Asserted(NewNode(k, v), i = 0)
                 ELSE Rebalance(IF i <= c.l.sz
                                  THEN Assign(c, "l", f[<<c.l, i>>])
                                  ELSE Assign(c, "r", f[<<c.r, i - c.l.sz - 1>>]))
<1>1. ASSUME NEW f, NEW g, NEW x \in D, \A y \in D : Rank(y) < Rank(x) => f[y] = g[y]
      PROVE  Body(f, x) = Body(g, x)
  <2> DEFINE m == x[1]
             i == x[2]
  <2>1. m \in Subtrees(n) /\ i \in Int
    OBVIOUS
  <2>2. CASE m = Nil
    BY <2>2
  <2>3. CASE m /= Nil
    <3> DEFINE y == <<m.l, i>>
               z == <<m.r, i - m.l.sz - 1>>
    <3>1. y \in D /\ z \in D
      BY <2>1, <2>3, PlacesBelow
    <3>2. Rank(y) < Rank(x) /\ Rank(z) < Rank(x) /\ CopyNode(m).l = m.l /\ CopyNode(m).r = m.r
      BY <2>1, <2>3, Below
    <3>3. f[y] = g[y] /\ f[z] = g[z]
      BY <1>1, <3>1, <3>2
    <3> QED BY <3>2, <3>3, Zenon
  <2> QED BY <2>2, <2>3
<1>2. N \in Nat /\ \A x \in D : Rank(x) \in 0..N
  <2>1. N \in Nat
    BY TreeType
  <2>2. \A x \in D : x[1] \in Subtrees(n)
    BY DEF Places
  <2> QED BY <2>1, <2>2, SubtreesAre
<1> DEFINE Upto(f, j) == f = [x \in D |-> f[x]] /\ \A x \in D : Rank(x) < j => f[x] = Body(f, x)
           Good == {j \in Nat : \E f : Upto(f, j)}
<1> HIDE DEF Body, Rank, D
<1>3. 0 \in Good
  <2>1. Upto([x \in D |-> {}], 0)
    BY <1>2
  <2> QED BY <2>1
<1>4. ASSUME NEW j \in Nat, j \in Good PROVE j + 1 \in Good
  <2>1. PICK f : Upto(f, j)
    BY <1>4
  <2> DEFINE g == [x \in D |-> Body(f, x)]
  <2>2. g = [x \in D |-> g[x]] /\ \A x \in D : g[x] = Body(f, x)
    OBVIOUS
  <2> HIDE DEF g
  <2>3. ASSUME NEW x \in D, Rank(x) < j + 1 PROVE Body(f, x) = Body(g, x)
    <3>1. \A y \in D : Rank(y) < Rank(x) => Rank(y) < j
      BY <1>2, <2>3
    <3>2. \A y \in D : Rank(y) < Rank(x) => f[y] = g[y]
      BY <2>1, <2>2, <3>1
    <3> QED BY <1>1, <3>2
  <2>4. Upto(g, j + 1)
    BY <2>2, <2>3
  <2> HIDE DEF Upto
  <2> QED BY <2>4
<1>5. N + 1 \in Good
  <2> HIDE DEF Good
  <2> QED BY <1>2, <1>4, <1>3, InductionNat
<1>6. PICK f : Upto(f, N + 1)
  BY <1>5
<1>7. \A x \in D : f[x] = Body(f, x)
  BY <1>2, <1>6
<1>8. f = [x \in D |-> Body(f, x)]
  BY <1>6, <1>7
<1> QED BY <1>8, Zenon DEF Body, D, AddsBy

\* The function in SetByIdx: f is one.
SetsBy(f, n, field, v) ==
  f = [at \in Places(n) |->
         LET c == CopyNode(at[1])
             i == at[2]
         IN  IF i < c.l.sz THEN Assign(c, "l", f[<<c.l, i>>])
             ELSE IF i > c.l.sz THEN Assign(c, "r", f[<<c.r, i - c.l.sz - 1>>])
             ELSE Assign(c, field, v)]

LEMMA SetExists ==
  ASSUME NEW E, NEW n, NEW s, Tree(n, s, E), NEW field, NEW v
  PROVE  \E f : SetsBy(f, n, field, v)
<1> DEFINE N == n.h
           D == Places(n)
           Rank(x) == x[1].h
           Body(f, x) ==
             LET c == CopyNode(x[1])
                 i == x[2]
             IN  IF i < c.l.sz THEN Assign(c, "l", f[<<c.l, i>>])
                 ELSE IF i > c.l.sz THEN Assign(c, "r", f[<<c.r, i - c.l.sz - 1>>])
                 ELSE Assign(c, field, v)
<1>1. ASSUME NEW f, NEW g, NEW x \in D, \A y \in D : Rank(y) < Rank(x) => f[y] = g[y]
      PROVE  Body(f, x) = Body(g, x)
  <2> DEFINE m == x[1]
             i == x[2]
  <2>1. m \in Subtrees(n) /\ i \in Int /\ i \in 0..(m.sz - 1)
    BY DEF Places
  <2>2. m /= Nil
    BY <2>1 DEF Nil
  <2> DEFINE y == <<m.l, i>>
             z == <<m.r, i - m.l.sz - 1>>
  <2>3. (i < m.l.sz => y \in D) /\ (i > m.l.sz => z \in D)
    BY <2>1, <2>2, PlacesBelow
  <2>4. Rank(y) < Rank(x) /\ Rank(z) < Rank(x) /\ CopyNode(m).l = m.l /\ CopyNode(m).r = m.r
    BY <2>1, <2>2, Below
  <2>5. (i < m.l.sz => f[y] = g[y]) /\ (i > m.l.sz => f[z] = g[z])
    BY <1>1, <2>3, <2>4
  <2> QED BY <2>4, <2>5, Zenon
<1>2. N \in Nat /\ \A x \in D : Rank(x) \in 0..N
  <2>1. N \in Nat
    BY TreeType
  <2>2. \A x \in D : x[1] \in Subtrees(n)
    BY DEF Places
  <2> QED BY <2>1, <2>2, SubtreesAre
<1> DEFINE Upto(f, j) == f = [x \in D |-> f[x]] /\ \A x \in D : Rank(x) < j => f[x] = Body(f, x)
           Good == {j \in Nat : \E f : Upto(f, j)}
<1> HIDE DEF Body, Rank, D
<1>3. 0 \in Good
  <2>1. Upto([x \in D |-> {}], 0)
    BY <1>2
  <2> QED BY <2>1
<1>4. ASSUME NEW j \in Nat, j \in Good PROVE j + 1 \in Good
  <2>1. PICK f : Upto(f, j)
    BY <1>4
  <2> DEFINE g == [x \in D |-> Body(f, x)]
  <2>2. g = [x \in D |-> g[x]] /\ \A x \in D : g[x] = Body(f, x)
    OBVIOUS
  <2> HIDE DEF g
  <2>3. ASSUME NEW x \in D, Rank(x) < j + 1 PROVE Body(f, x) = Body(g, x)
    <3>1. \A y \in D : Rank(y) < Rank(x) => Rank(y) < j
      BY <1>2, <2>3
    <3>2. \A y \in D : Rank(y) < Rank(x) => f[y] = g[y]
      BY <2>1, <2>2, <3>1
    <3> QED BY <1>1, <3>2
  <2>4. Upto(g, j + 1)
    BY <2>2, <2>3
  <2> HIDE DEF Upto
  <2> QED BY <2>4
<1>5. N + 1 \in Good
  <2> HIDE DEF Good
  <2> QED BY <1>2, <1>4, <1>3, InductionNat
<1>6. PICK f : Upto(f, N + 1)
  BY <1>5
<1>7. \A x \in D : f[x] = Body(f, x)
  BY <1>2, <1>6
<1>8. f = [x \in D |-> Body(f, x)]
  BY <1>6, <1>7
<1> QED BY <1>8, Zenon DEF Body, D, SetsBy

\* The function in DelLast: f is one.
LastBy(f, n) ==
  f = [m \in Subtrees(n) \ {Nil} |->
         IF m.r = Nil THEN [tree |-> m.l, last |-> m]
         ELSE [tree |-> Rebalance(Assign(CopyNode(m), "r", f[m.r].tree)),
               last |-> f[m.r].last]]

LEMMA LastExists ==
  ASSUME NEW E, NEW n, NEW s, Tree(n, s, E)
  PROVE  \E f : LastBy(f, n)
<1> DEFINE N == n.h
           D == Subtrees(n) \ {Nil}
           Rank(x) == x.h
           Body(f, x) ==
             IF x.r = Nil THEN [tree |-> x.l, last |-> x]
             ELSE [tree |-> Rebalance(Assign(CopyNode(x), "r", f[x.r].tree)),
                   last |-> f[x.r].last]
<1>1. ASSUME NEW f, NEW g, NEW x \in D, \A y \in D : Rank(y) < Rank(x) => f[y] = g[y]
      PROVE  Body(f, x) = Body(g, x)
  <2>1. CASE x.r = Nil
    BY <2>1
  <2>2. CASE x.r /= Nil
    <3>1. x.r \in D /\ Rank(x.r) < Rank(x)
      BY <2>2, Below
    <3>2. f[x.r] = g[x.r]
      BY <1>1, <3>1
    <3> QED BY <3>2, Zenon
  <2> QED BY <2>1, <2>2
<1>2. N \in Nat /\ \A x \in D : Rank(x) \in 0..N
  <2>1. N \in Nat
    BY TreeType
  <2> QED BY <2>1, SubtreesAre
<1> DEFINE Upto(f, j) == f = [x \in D |-> f[x]] /\ \A x \in D : Rank(x) < j => f[x] = Body(f, x)
           Good == {j \in Nat : \E f : Upto(f, j)}
<1> HIDE DEF Body, Rank, D
<1>3. 0 \in Good
  <2>1. Upto([x \in D |-> {}], 0)
    BY <1>2
  <2> QED BY <2>1
<1>4. ASSUME NEW j \in Nat, j \in Good PROVE j + 1 \in Good
  <2>1. PICK f : Upto(f, j)
    BY <1>4
  <2> DEFINE g == [x \in D |-> Body(f, x)]
  <2>2. g = [x \in D |-> g[x]] /\ \A x \in D : g[x] = Body(f, x)
    OBVIOUS
  <2> HIDE DEF g
  <2>3. ASSUME NEW x \in D, Rank(x) < j + 1 PROVE Body(f, x) = Body(g, x)
    <3>1. \A y \in D : Rank(y) < Rank(x) => Rank(y) < j
      BY <1>2, <2>3
    <3>2. \A y \in D : Rank(y) < Rank(x) => f[y] = g[y]
      BY <2>1, <2>2, <3>1
    <3> QED BY <1>1, <3>2
  <2>4. Upto(g, j + 1)
    BY <2>2, <2>3
  <2> HIDE DEF Upto
  <2> QED BY <2>4
<1>5. N + 1 \in Good
  <2> HIDE DEF Good
  <2> QED BY <1>2, <1>4, <1>3, InductionNat
<1>6. PICK f : Upto(f, N + 1)
  BY <1>5
<1>7. \A x \in D : f[x] = Body(f, x)
  BY <1>2, <1>6
<1>8. f = [x \in D |-> Body(f, x)]
  BY <1>6, <1>7
<1> QED BY <1>8, Zenon DEF Body, D, LastBy

\* The function in DelByIdx: f is one.
DeletesBy(f, n) ==
  f = [at \in Places(n) |->
         LET m == at[1]
             i == at[2]
             c == CopyNode(m)
         IN  IF i = m.l.sz /\ m.l = Nil THEN m.r
             ELSE IF i = m.l.sz /\ m.r = Nil THEN m.l
             ELSE Rebalance(
                    IF i < m.l.sz THEN Assign(c, "l", f[<<m.l, i>>])
                    ELSE IF i > m.l.sz THEN Assign(c, "r", f[<<m.r, i - m.l.sz - 1>>])
                    ELSE LET d == DelLast(m.l) IN AssignData(Assign(c, "l", d.tree), d.last))]

LEMMA DelExists ==
  ASSUME NEW E, NEW n, NEW s, Tree(n, s, E)
  PROVE  \E f : DeletesBy(f, n)
<1> DEFINE N == n.h
           D == Places(n)
           Rank(x) == x[1].h
           Body(f, x) ==
             LET m == x[1]
                 i == x[2]
                 c == CopyNode(m)
             IN  IF i = m.l.sz /\ m.l = Nil THEN m.r
                 ELSE IF i = m.l.sz /\ m.r = Nil THEN m.l
                 ELSE Rebalance(
                        IF i < m.l.sz THEN Assign(c, "l", f[<<m.l, i>>])
                        ELSE IF i > m.l.sz THEN Assign(c, "r", f[<<m.r, i - m.l.sz - 1>>])
                        ELSE LET d == DelLast(m.l) IN AssignData(Assign(c, "l", d.tree), d.last))
<1>1. ASSUME NEW f, NEW g, NEW x \in D, \A y \in D : Rank(y) < Rank(x) => f[y] = g[y]
      PROVE  Body(f, x) = Body(g, x)
  <2> DEFINE m == x[1]
             i == x[2]
  <2>1. m \in Subtrees(n) /\ i \in Int /\ i \in 0..(m.sz - 1)
    BY DEF Places
  <2>2. m /= Nil
    BY <2>1 DEF Nil
  <2> DEFINE y == <<m.l, i>>
             z == <<m.r, i - m.l.sz - 1>>
  <2>3. (i < m.l.sz => y \in D) /\ (i > m.l.sz => z \in D)
    BY <2>1, <2>2, PlacesBelow
  <2>4. Rank(y) < Rank(x) /\ Rank(z) < Rank(x) /\ CopyNode(m).l = m.l /\ CopyNode(m).r = m.r
    BY <2>1, <2>2, Below
  <2>5. (i < m.l.sz => f[y] = g[y]) /\ (i > m.l.sz => f[z] = g[z])
    BY <1>1, <2>3, <2>4
  <2> QED BY <2>5, Zenon
<1>2. N \in Nat /\ \A x \in D : Rank(x) \in 0..N
  <2>1. N \in Nat
    BY TreeType
  <2>2. \A x \in D : x[1] \in Subtrees(n)
    BY DEF Places
  <2> QED BY <2>1, <2>2, SubtreesAre
<1> DEFINE Upto(f, j) == f = [x \in D |-> f[x]] /\ \A x \in D : Rank(x) < j => f[x] = Body(f, x)
           Good == {j \in Nat : \E f : Upto(f, j)}
<1> HIDE DEF Body, Rank, D
<1>3. 0 \in Good
  <2>1. Upto([x \in D |-> {}], 0)
    BY <1>2
  <2> QED BY <2>1
<1>4. ASSUME NEW j \in Nat, j \in Good PROVE j + 1 \in Good
  <2>1. PICK f : Upto(f, j)
    BY <1>4
  <2> DEFINE g == [x \in D |-> Body(f, x)]
  <2>2. g = [x \in D |-> g[x]] /\ \A x \in D : g[x] = Body(f, x)
    OBVIOUS
  <2> HIDE DEF g
  <2>3. ASSUME NEW x \in D, Rank(x) < j + 1 PROVE Body(f, x) = Body(g, x)
    <3>1. \A y \in D : Rank(y) < Rank(x) => Rank(y) < j
      BY <1>2, <2>3
    <3>2. \A y \in D : Rank(y) < Rank(x) => f[y] = g[y]
      BY <2>1, <2>2, <3>1
    <3> QED BY <1>1, <3>2
  <2>4. Upto(g, j + 1)
    BY <2>2, <2>3
  <2> HIDE DEF Upto
  <2> QED BY <2>4
<1>5. N + 1 \in Good
  <2> HIDE DEF Good
  <2> QED BY <1>2, <1>4, <1>3, InductionNat
<1>6. PICK f : Upto(f, N + 1)
  BY <1>5
<1>7. \A x \in D : f[x] = Body(f, x)
  BY <1>2, <1>6
<1>8. f = [x \in D |-> Body(f, x)]
  BY <1>6, <1>7
<1> QED BY <1>8, Zenon DEF Body, D, DeletesBy

\* The function in GetFrom: f is one.
FindsBy(f, n, k) ==
  f = [at \in Subtrees(n) \X Int |->
         LET m == at[1]
             i == at[2]
         IN  IF m = Nil THEN [found |-> FALSE, idx |-> i]
             ELSE IF k < m.k THEN f[<<m.l, i>>]
             ELSE IF m.k < k THEN f[<<m.r, i + m.l.sz + 1>>]
             ELSE [found |-> TRUE, idx |-> i + m.l.sz, v |-> m.v]]

LEMMA GetFromExists ==
  ASSUME NEW E, NEW n, NEW s, Tree(n, s, E), NEW k
  PROVE  \E f : FindsBy(f, n, k)
<1> DEFINE N == n.h
           D == Subtrees(n) \X Int
           Rank(x) == x[1].h
           Body(f, x) ==
             LET m == x[1]
                 i == x[2]
             IN  IF m = Nil THEN [found |-> FALSE, idx |-> i]
                 ELSE IF k < m.k THEN f[<<m.l, i>>]
                 ELSE IF m.k < k THEN f[<<m.r, i + m.l.sz + 1>>]
                 ELSE [found |-> TRUE, idx |-> i + m.l.sz, v |-> m.v]
<1>1. ASSUME NEW f, NEW g, NEW x \in D, \A y \in D : Rank(y) < Rank(x) => f[y] = g[y]
      PROVE  Body(f, x) = Body(g, x)
  <2> DEFINE m == x[1]
             i == x[2]
  <2>1. m \in Subtrees(n) /\ i \in Int
    OBVIOUS
  <2>2. CASE m = Nil
    BY <2>2
  <2>3. CASE m /= Nil
    <3> DEFINE y == <<m.l, i>>
               z == <<m.r, i + m.l.sz + 1>>
    <3>1. y \in D /\ z \in D
      BY <2>1, <2>3, PlacesBelow
    <3>2. Rank(y) < Rank(x) /\ Rank(z) < Rank(x)
      BY <2>1, <2>3, Below
    <3>3. f[y] = g[y] /\ f[z] = g[z]
      BY <1>1, <3>1, <3>2
    <3> QED BY <3>3, Zenon
  <2> QED BY <2>2, <2>3
<1>2. N \in Nat /\ \A x \in D : Rank(x) \in 0..N
  <2>1. N \in Nat
    BY TreeType
  <2>2. \A x \in D : x[1] \in Subtrees(n)
    BY DEF Places
  <2> QED BY <2>1, <2>2, SubtreesAre
<1> DEFINE Upto(f, j) == f = [x \in D |-> f[x]] /\ \A x \in D : Rank(x) < j => f[x] = Body(f, x)
           Good == {j \in Nat : \E f : Upto(f, j)}
<1> HIDE DEF Body, Rank, D
<1>3. 0 \in Good
  <2>1. Upto([x \in D |-> {}], 0)
    BY <1>2
  <2> QED BY <2>1
<1>4. ASSUME NEW j \in Nat, j \in Good PROVE j + 1 \in Good
  <2>1. PICK f : Upto(f, j)
    BY <1>4
  <2> DEFINE g == [x \in D |-> Body(f, x)]
  <2>2. g = [x \in D |-> g[x]] /\ \A x \in D : g[x] = Body(f, x)
    OBVIOUS
  <2> HIDE DEF g
  <2>3. ASSUME NEW x \in D, Rank(x) < j + 1 PROVE Body(f, x) = Body(g, x)
    <3>1. \A y \in D : Rank(y) < Rank(x) => Rank(y) < j
      BY <1>2, <2>3
    <3>2. \A y \in D : Rank(y) < Rank(x) => f[y] = g[y]
      BY <2>1, <2>2, <3>1
    <3> QED BY <1>1, <3>2
  <2>4. Upto(g, j + 1)
    BY <2>2, <2>3
  <2> HIDE DEF Upto
  <2> QED BY <2>4
<1>5. N + 1 \in Good
  <2> HIDE DEF Good
  <2> QED BY <1>2, <1>4, <1>3, InductionNat
<1>6. PICK f : Upto(f, N + 1)
  BY <1>5
<1>7. \A x \in D : f[x] = Body(f, x)
  BY <1>2, <1>6
<1>8. f = [x \in D |-> Body(f, x)]
  BY <1>6, <1>7
<1> QED BY <1>8, Zenon DEF Body, D, FindsBy

\* The function in GetByIdx: f is one.
GetsBy(f, n) ==
  f = [at \in Subtrees(n) \X Int |->
         LET m == at[1]
             i == at[2]
         IN  IF m = Nil THEN <<>>
             ELSE IF i < m.l.sz THEN f[<<m.l, i>>]
             ELSE IF i > m.l.sz THEN f[<<m.r, i - m.l.sz - 1>>]
             ELSE <<m.k, m.v>>]

LEMMA GetByIdxExists ==
  ASSUME NEW E, NEW n, NEW s, Tree(n, s, E)
  PROVE  \E f : GetsBy(f, n)
<1> DEFINE N == n.h
           D == Subtrees(n) \X Int
           Rank(x) == x[1].h
           Body(f, x) ==
             LET m == x[1]
                 i == x[2]
             IN  IF m = Nil THEN <<>>
                 ELSE IF i < m.l.sz THEN f[<<m.l, i>>]
                 ELSE IF i > m.l.sz THEN f[<<m.r, i - m.l.sz - 1>>]
                 ELSE <<m.k, m.v>>
<1>1. ASSUME NEW f, NEW g, NEW x \in D, \A y \in D : Rank(y) < Rank(x) => f[y] = g[y]
      PROVE  Body(f, x) = Body(g, x)
  <2> DEFINE m == x[1]
             i == x[2]
  <2>1. m \in Subtrees(n) /\ i \in Int
    OBVIOUS
  <2>2. CASE m = Nil
    BY <2>2
  <2>3. CASE m /= Nil
    <3> DEFINE y == <<m.l, i>>
               z == <<m.r, i - m.l.sz - 1>>
    <3>1. y \in D /\ z \in D
      BY <2>1, <2>3, PlacesBelow
    <3>2. Rank(y) < Rank(x) /\ Rank(z) < Rank(x)
      BY <2>1, <2>3, Below
    <3>3. f[y] = g[y] /\ f[z] = g[z]
      BY <1>1, <3>1, <3>2
    <3> QED BY <3>3, Zenon
  <2> QED BY <2>2, <2>3
<1>2. N \in Nat /\ \A x \in D : Rank(x) \in 0..N
  <2>1. N \in Nat
    BY TreeType
  <2>2. \A x \in D : x[1] \in Subtrees(n)
    BY DEF Places
  <2> QED BY <2>1, <2>2, SubtreesAre
<1> DEFINE Upto(f, j) == f = [x \in D |-> f[x]] /\ \A x \in D : Rank(x) < j => f[x] = Body(f, x)
           Good == {j \in Nat : \E f : Upto(f, j)}
<1> HIDE DEF Body, Rank, D
<1>3. 0 \in Good
  <2>1. Upto([x \in D |-> {}], 0)
    BY <1>2
  <2> QED BY <2>1
<1>4. ASSUME NEW j \in Nat, j \in Good PROVE j + 1 \in Good
  <2>1. PICK f : Upto(f, j)
    BY <1>4
  <2> DEFINE g == [x \in D |-> Body(f, x)]
  <2>2. g = [x \in D |-> g[x]] /\ \A x \in D : g[x] = Body(f, x)
    OBVIOUS
  <2> HIDE DEF g
  <2>3. ASSUME NEW x \in D, Rank(x) < j + 1 PROVE Body(f, x) = Body(g, x)
    <3>1. \A y \in D : Rank(y) < Rank(x) => Rank(y) < j
      BY <1>2, <2>3
    <3>2. \A y \in D : Rank(y) < Rank(x) => f[y] = g[y]
      BY <2>1, <2>2, <3>1
    <3> QED BY <1>1, <3>2
  <2>4. Upto(g, j + 1)
    BY <2>2, <2>3
  <2> HIDE DEF Upto
  <2> QED BY <2>4
<1>5. N + 1 \in Good
  <2> HIDE DEF Good
  <2> QED BY <1>2, <1>4, <1>3, InductionNat
<1>6. PICK f : Upto(f, N + 1)
  BY <1>5
<1>7. \A x \in D : f[x] = Body(f, x)
  BY <1>2, <1>6
<1>8. f = [x \in D |-> Body(f, x)]
  BY <1>6, <1>7
<1> QED BY <1>8, Zenon DEF Body, D, GetsBy

\* The function in Publish: f is one.
PublishesBy(f, n) ==
  f = [m \in Subtrees(n) |->
         IF m = Nil THEN Nil
         ELSE [m EXCEPT !.own = FALSE, !.l = f[m.l], !.r = f[m.r]]]

LEMMA PublishExists ==
  ASSUME NEW E, NEW n, NEW s, Tree(n, s, E)
  PROVE  \E f : PublishesBy(f, n)
<1> DEFINE N == n.h
           D == Subtrees(n)
           Rank(x) == x.h
           Body(f, x) ==
             IF x = Nil THEN Nil
             ELSE [x EXCEPT !.own = FALSE, !.l = f[x.l], !.r = f[x.r]]
<1>1. ASSUME NEW f, NEW g, NEW x \in D, \A y \in D : Rank(y) < Rank(x) => f[y] = g[y]
      PROVE  Body(f, x) = Body(g, x)
  <2>1. CASE x = Nil
    BY <2>1
  <2>2. CASE x /= Nil
    <3>1. x.l \in D /\ x.r \in D /\ Rank(x.l) < Rank(x) /\ Rank(x.r) < Rank(x)
      BY <2>2, Below
    <3>2. f[x.l] = g[x.l] /\ f[x.r] = g[x.r]
      BY <1>1, <3>1
    <3> QED BY <3>2, Zenon
  <2> QED BY <2>1, <2>2
<1>2. N \in Nat /\ \A x \in D : Rank(x) \in 0..N
  <2>1. N \in Nat
    BY TreeType
  <2> QED BY <2>1, SubtreesAre
<1> DEFINE Upto(f, j) == f = [x \in D |-> f[x]] /\ \A x \in D : Rank(x) < j => f[x] = Body(f, x)
           Good == {j \in Nat : \E f : Upto(f, j)}
<1> HIDE DEF Body, Rank, D
<1>3. 0 \in Good
  <2>1. Upto([x \in D |-> {}], 0)
    BY <1>2
  <2> QED BY <2>1
<1>4. ASSUME NEW j \in Nat, j \in Good PROVE j + 1 \in Good
  <2>1. PICK f : Upto(f, j)
    BY <1>4
  <2> DEFINE g == [x \in D |-> Body(f, x)]
  <2>2. g = [x \in D |-> g[x]] /\ \A x \in D : g[x] = Body(f, x)
    OBVIOUS
  <2> HIDE DEF g
  <2>3. ASSUME NEW x \in D, Rank(x) < j + 1 PROVE Body(f, x) = Body(g, x)
    <3>1. \A y \in D : Rank(y) < Rank(x) => Rank(y) < j
      BY <1>2, <2>3
    <3>2. \A y \in D : Rank(y) < Rank(x) => f[y] = g[y]
      BY <2>1, <2>2, <3>1
    <3> QED BY <1>1, <3>2
  <2>4. Upto(g, j + 1)
    BY <2>2, <2>3
  <2> HIDE DEF Upto
  <2> QED BY <2>4
<1>5. N + 1 \in Good
  <2> HIDE DEF Good
  <2> QED BY <1>2, <1>4, <1>3, InductionNat
<1>6. PICK f : Upto(f, N + 1)
  BY <1>5
<1>7. \A x \in D : f[x] = Body(f, x)
  BY <1>2, <1>6
<1>8. f = [x \in D |-> Body(f, x)]
  BY <1>6, <1>7
<1> QED BY <1>8, Zenon DEF Body, D, PublishesBy

\* The function in InOrder: f is one.
OrdersBy(f, n) ==
  f = [m \in Subtrees(n) |->
         IF m = Nil THEN <<>> ELSE f[m.l] \o <<<<m.k, m.v>>>> \o f[m.r]]

LEMMA InOrderExists ==
  ASSUME NEW E, NEW n, NEW s, Tree(n, s, E)
  PROVE  \E f : OrdersBy(f, n)
<1> DEFINE N == n.h
           D == Subtrees(n)
           Rank(x) == x.h
           Body(f, x) ==
             IF x = Nil THEN <<>> ELSE f[x.l] \o <<<<x.k, x.v>>>> \o f[x.r]
<1>1. ASSUME NEW f, NEW g, NEW x \in D, \A y \in D : Rank(y) < Rank(x) => f[y] = g[y]
      PROVE  Body(f, x) = Body(g, x)
  <2>1. CASE x = Nil
    BY <2>1
  <2>2. CASE x /= Nil
    <3>1. x.l \in D /\ x.r \in D /\ Rank(x.l) < Rank(x) /\ Rank(x.r) < Rank(x)
      BY <2>2, Below
    <3>2. f[x.l] = g[x.l] /\ f[x.r] = g[x.r]
      BY <1>1, <3>1
    <3> QED BY <3>2, Zenon
  <2> QED BY <2>1, <2>2
<1>2. N \in Nat /\ \A x \in D : Rank(x) \in 0..N
  <2>1. N \in Nat
    BY TreeType
  <2> QED BY <2>1, SubtreesAre
<1> DEFINE Upto(f, j) == f = [x \in D |-> f[x]] /\ \A x \in D : Rank(x) < j => f[x] = Body(f, x)
           Good == {j \in Nat : \E f : Upto(f, j)}
<1> HIDE DEF Body, Rank, D
<1>3. 0 \in Good
  <2>1. Upto([x \in D |-> {}], 0)
    BY <1>2
  <2> QED BY <2>1
<1>4. ASSUME NEW j \in Nat, j \in Good PROVE j + 1 \in Good
  <2>1. PICK f : Upto(f, j)
    BY <1>4
  <2> DEFINE g == [x \in D |-> Body(f, x)]
  <2>2. g = [x \in D |-> g[x]] /\ \A x \in D : g[x] = Body(f, x)
    OBVIOUS
  <2> HIDE DEF g
  <2>3. ASSUME NEW x \in D, Rank(x) < j + 1 PROVE Body(f, x) = Body(g, x)
    <3>1. \A y \in D : Rank(y) < Rank(x) => Rank(y) < j
      BY <1>2, <2>3
    <3>2. \A y \in D : Rank(y) < Rank(x) => f[y] = g[y]
      BY <2>1, <2>2, <3>1
    <3> QED BY <1>1, <3>2
  <2>4. Upto(g, j + 1)
    BY <2>2, <2>3
  <2> HIDE DEF Upto
  <2> QED BY <2>4
<1>5. N + 1 \in Good
  <2> HIDE DEF Good
  <2> QED BY <1>2, <1>4, <1>3, InductionNat
<1>6. PICK f : Upto(f, N + 1)
  BY <1>5
<1>7. \A x \in D : f[x] = Body(f, x)
  BY <1>2, <1>6
<1>8. f = [x \in D |-> Body(f, x)]
  BY <1>6, <1>7
<1> QED BY <1>8, Zenon DEF Body, D, OrdersBy

(* What holds of a node once it holds of what is below it holds of all.    *)
LEMMA HeightInduction ==
  ASSUME NEW E, NEW n, NEW s, Tree(n, s, E), NEW P,
         \A m \in Subtrees(n) : (m /= Nil => m.l \in P /\ m.r \in P) => m \in P
  PROVE  \A m \in Subtrees(n) : m \in P
<1> DEFINE Good == {j \in Nat : \A m \in Subtrees(n) : m.h <= j => m \in P}
<1>1. \A m \in Subtrees(n) : m.h \in Nat
  <2>1. n.h \in Nat
    BY TreeType
  <2> QED BY <2>1, SubtreesAre
<1>2. ASSUME NEW j \in Nat, \A m \in Subtrees(n) : m.h < j => m \in P
      PROVE  \A m \in Subtrees(n) : m.h <= j => m \in P
  <2> SUFFICES ASSUME NEW m \in Subtrees(n), m.h <= j PROVE m \in P
    OBVIOUS
  <2>1. CASE m = Nil
    BY <2>1
  <2>2. CASE m /= Nil
    <3>1. m.l \in Subtrees(n) /\ m.r \in Subtrees(n) /\ m.l.h < m.h /\ m.r.h < m.h /\ m.l.h \in Nat /\ m.r.h \in Nat
      BY <2>2, Below
    <3>2. m.l.h < j /\ m.r.h < j
      BY <1>1, <3>1
    <3> QED BY <1>2, <3>1, <3>2
  <2> QED BY <2>1, <2>2
<1>3. 0 \in Good
  <2>1. \A m \in Subtrees(n) : ~(m.h < 0)
    BY <1>1
  <2>2. \A m \in Subtrees(n) : m.h <= 0 => m \in P
    <3>1. 0 \in Nat
      OBVIOUS
    <3> QED BY <1>2, <2>1, <3>1
  <2> QED BY <2>2
<1>4. \A j \in Nat : j \in Good => j + 1 \in Good
  <2> SUFFICES ASSUME NEW j \in Nat, j \in Good PROVE j + 1 \in Good
    OBVIOUS
  <2>1. \A m \in Subtrees(n) : m.h < j + 1 => m \in P
    BY <1>1
  <2>2. j + 1 \in Nat
    OBVIOUS
  <2>3. \A m \in Subtrees(n) : m.h <= j + 1 => m \in P
    BY <1>2, <2>1, <2>2
  <2> QED BY <2>3
<1>5. \A j \in Nat : j \in Good
  <2> HIDE DEF Good
  <2> QED BY <1>3, <1>4, InductionNat
<1>6. ASSUME NEW m \in Subtrees(n) PROVE m \in P
  <2>1. m.h \in Nat /\ m.h <= m.h
    BY <1>1
  <2>2. m.h \in Good
    BY <1>5, <2>1
  <2> QED BY <2>1, <2>2
<1> QED BY <1>6

\* n is a tree with the elements s, and of a height in H.
TreeIn(n, s, H, E) == Tree(n, s, E) /\ n.h \in H

\* The children x and y of a node of the height h, of which one has grown.
LEMMA GrownIs ==
  ASSUME NEW E, NEW n, NEW s, NEW x, NEW y, Rebalanced(n, s, x, y, E),
         NEW p, NEW q, NEW h, p.h \in Nat, q.h \in Nat, p.h - q.h \in -1..1, h = Higher(p, q) + 1,
         \/ x.h \in {p.h, p.h + 1} /\ y.h = q.h
         \/ x.h = p.h /\ y.h \in {q.h, q.h + 1}
  PROVE  TreeIn(n, s, {h, h + 1}, E)
<1>1. CASE Root(n, s, Higher(x, y) + 1, E)
  <2>1. Higher(x, y) + 1 \in {h, h + 1}
    BY DEF Higher
  <2> QED BY <1>1, <2>1 DEF Root, TreeIn
<1>2. CASE ~Near(x, y) /\ Root(n, s, Higher(x, y), E)
  <2>1. Higher(x, y) \in {h, h + 1}
    BY <1>2 DEF Higher, Near
  <2> QED BY <1>2, <2>1 DEF Root, TreeIn
<1> QED BY <1>1, <1>2 DEF Rebalanced

LEMMA ShrunkIs ==
  ASSUME NEW E, NEW n, NEW s, NEW x, NEW y, Rebalanced(n, s, x, y, E),
         NEW p, NEW q, NEW h, p.h \in Nat, q.h \in Nat, p.h - q.h \in -1..1, h = Higher(p, q) + 1,
         \/ x.h \in {p.h - 1, p.h} /\ y.h = q.h
         \/ x.h = p.h /\ y.h \in {q.h - 1, q.h}
  PROVE  TreeIn(n, s, {h - 1, h}, E)
<1>1. CASE Root(n, s, Higher(x, y) + 1, E)
  <2>1. Higher(x, y) + 1 \in {h - 1, h}
    BY DEF Higher
  <2> QED BY <1>1, <2>1 DEF Root, TreeIn
<1>2. CASE ~Near(x, y) /\ Root(n, s, Higher(x, y), E)
  <2>1. Higher(x, y) \in {h - 1, h}
    BY <1>2 DEF Higher, Near
  <2> QED BY <1>2, <2>1 DEF Root, TreeIn
<1> QED BY <1>1, <1>2 DEF Rebalanced

\* What an operation starts from at a node that is not Nil.
LEMMA NodeIs ==
  ASSUME NEW E, NEW m, NEW t, NEW a, NEW b, Parts(m, t, a, b, E)
  PROVE  /\ Tree(m.l, a, E) /\ Tree(m.r, b, E) /\ Data(m) \in E /\ t = Mid(a, Data(m), b)
         /\ Fresh(CopyNode(m), "l", m.l, m.r, Data(m))
         /\ CopyNode(m).l = m.l /\ CopyNode(m).r = m.r
         /\ m.l.h - m.r.h \in -1..1 /\ m.h = Higher(m.l, m.r) + 1
         /\ Opposite("l", "r")
<1>1. /\ Tree(m.l, a, E) /\ Tree(m.r, b, E) /\ Data(m) \in E /\ t = Mid(a, Data(m), b)
      /\ Sound(m)
  BY DEF Parts
<1>2. m.l.h - m.r.h \in -1..1 /\ m.h = Higher(m.l, m.r) + 1
  BY <1>1 DEF Sound
<1>3. Opposite("l", "r")
  BY DEF Opposite
<1>4. Fresh(CopyNode(m), "l", m.l, m.r, Data(m))
  BY <1>1, <1>3, CopyFresh, Zenon
<1>5. CopyNode(m).l = m.l /\ CopyNode(m).r = m.r
  BY <1>3, <1>4, FreshSides, Zenon
<1> QED BY <1>1, <1>2, <1>3, <1>4, <1>5

-----------------------------------------------------------------------------
(* AddByIdx inserts.                                                       *)

LEMMA NewNodeIs ==
  ASSUME NEW E, NEW k, NEW v, <<k, v>> \in E
  PROVE  Root(NewNode(k, v), Mid(<<>>, <<k, v>>, <<>>), 1, E)
<1> DEFINE n == NewNode(k, v)
<1>1. /\ n = [f \in NodeField |-> n[f]]
      /\ n.k = k /\ n.v = v /\ n.h = 1 /\ n.sz = 1 /\ n.l = Nil /\ n.r = Nil /\ n.own = TRUE /\ n.ok = TRUE
  BY DEF NewNode, NodeField
<1> HIDE DEF n
<1>2. Nil.h = 0 /\ Nil.sz = 0
  BY DEF Nil
<1>3. Sound(n) /\ Data(n) = <<k, v>>
  BY <1>1, <1>2 DEF Sound, IsNode, Data, Higher
<1>4. Tree(n, Mid(<<>>, <<k, v>>, <<>>), E)
  BY <1>1, <1>3, TreeNil, TreeNode
<1>5. Fresh(n, "l", Nil, Nil, <<k, v>>)
  BY <1>1, <1>3 DEF Fresh, Opposite, IsNode
<1> QED BY <1>1, <1>4, <1>5 DEF Root, n

\* r is m, whose elements are t, with e inserted.
Added(r, m, t, i, e, E) == \E u : TreeIn(r, u, {m.h, m.h + 1}, E) /\ IsInsert(u, t, i, e, E)

LEMMA AddIs ==
  ASSUME NEW E, NEW n, NEW s, Tree(n, s, E), NEW idx \in 0..Len(s), NEW k, NEW v, <<k, v>> \in E
  PROVE  Added(AddByIdx(n, idx, k, v), n, s, idx, <<k, v>>, E)
<1> DEFINE e == <<k, v>>
           add == CHOOSE f : AddsBy(f, n, k, v)
<1>1. AddsBy(add, n, k, v)
  BY AddExists, Zenon
<1>2. AddByIdx(n, idx, k, v) = add[<<n, idx>>]
  BY Zenon DEF AddByIdx, AddsBy
<1> HIDE DEF add
<1>3. ASSUME NEW i \in Int, Nil \in Subtrees(n) PROVE add[<<Nil, i>>] = Asserted(NewNode(k, v), i = 0)
  <2>1. <<Nil, i>> \in Subtrees(n) \X Int /\ <<Nil, i>>[1] = Nil /\ <<Nil, i>>[2] = i
    BY <1>3
  <2> QED BY <1>1, <2>1, Zenon DEF AddsBy
<1>4. ASSUME NEW m \in Subtrees(n), m /= Nil, NEW i \in Int
      PROVE  LET c == CopyNode(m)
             IN  add[<<m, i>>] = Rebalance(IF i <= c.l.sz
                                             THEN Assign(c, "l", add[<<c.l, i>>])
                                             ELSE Assign(c, "r", add[<<c.r, i - c.l.sz - 1>>]))
  <2>1. <<m, i>> \in Subtrees(n) \X Int /\ <<m, i>>[1] = m /\ <<m, i>>[2] = i
    BY <1>4
  <2> QED BY <1>1, <1>4, <2>1, Zenon DEF AddsBy
<1> DEFINE P == {m \in Subtrees(n) : \A t : \A i \in 0..Len(t) : Tree(m, t, E) => Added(add[<<m, i>>], m, t, i, e, E)}
<1>5. ASSUME NEW m \in Subtrees(n), m /= Nil => m.l \in P /\ m.r \in P PROVE m \in P
  <2> SUFFICES ASSUME NEW t, NEW i \in 0..Len(t), Tree(m, t, E) PROVE Added(add[<<m, i>>], m, t, i, e, E)
    OBVIOUS
  <2> HIDE DEF e
  <2>1. CASE m = Nil
    <3>1. t = <<>> /\ i = 0 /\ i \in Int
      <4>1. t = <<>> /\ Len(<<>>) = 0
        BY <2>1, NilIs, EmptySeq
      <4> QED BY <4>1
    <3> DEFINE assertion == i = 0
    <3>2. assertion = TRUE
      BY <3>1
    <3>3. Root(NewNode(k, v), Mid(<<>>, e, <<>>), 1, E)
      BY NewNodeIs DEF e
    <3>4. add[<<m, i>>] = Asserted(NewNode(k, v), assertion)
      BY <1>3, <2>1, <3>1
    <3> HIDE DEF assertion
    <3>5. add[<<m, i>>] = NewNode(k, v)
      BY <3>2, <3>3, <3>4, AssertedIs DEF Root
    <3>6. IsInsert(Mid(<<>>, e, <<>>), t, i, e, E)
      BY <3>1, InsertFirst DEF e
    <3>7. TreeIn(add[<<m, i>>], Mid(<<>>, e, <<>>), {m.h, m.h + 1}, E)
      <4>1. m.h + 1 = 1
        BY <2>1 DEF Nil
      <4> QED BY <3>3, <3>5, <4>1 DEF Root, TreeIn
    <3> QED BY <3>6, <3>7 DEF Added
  <2>2. CASE m /= Nil
    <3>1. PICK a, b : Parts(m, t, a, b, E)
      BY <2>2, TreeParts
    <3> DEFINE d == Data(m)
               c == CopyNode(m)
               p == m.l
               q == m.r
    <3>2. /\ Tree(p, a, E) /\ Tree(q, b, E) /\ d \in E /\ t = Mid(a, d, b)
          /\ Fresh(c, "l", p, q, d) /\ c.l = p /\ c.r = q
          /\ p.h - q.h \in -1..1 /\ m.h = Higher(p, q) + 1 /\ Opposite("l", "r")
      BY <3>1, NodeIs
    <3>3. /\ a \in Seq(E) /\ b \in Seq(E) /\ p.h \in Nat /\ q.h \in Nat
          /\ p.sz = Len(a) /\ q.sz = Len(b) /\ Len(t) = Len(a) + 1 + Len(b) /\ Len(a) \in Nat /\ Len(b) \in Nat
      BY <3>1, PartsAre
    <3>4. p \in P /\ q \in P
      BY <1>5, <2>2
    <3>5. i \in Int /\ add[<<m, i>>] = Rebalance(IF i <= c.l.sz
                                             THEN Assign(c, "l", add[<<c.l, i>>])
                                             ELSE Assign(c, "r", add[<<c.r, i - c.l.sz - 1>>]))
      BY <1>4, <2>2, <3>3
    <3> HIDE DEF c, d, p, q
    <3>8. p.h \in Nat /\ q.h \in Nat /\ p.h - q.h \in -1..1
      BY <3>2, <3>3
    <3>6. CASE i <= Len(a)
      <4> DEFINE x == add[<<p, i>>]
      <4>1. add[<<m, i>>] = Rebalance(Assign(c, "l", x))
        BY <3>2, <3>3, <3>5, <3>6
      <4>2. i \in 0..Len(a)
        BY <3>3, <3>6
      <4>3. PICK u : TreeIn(x, u, {p.h, p.h + 1}, E) /\ IsInsert(u, a, i, e, E)
        BY <3>2, <3>4, <4>2 DEF Added
      <4> HIDE DEF x
      <4>4. Tree(x, u, E) /\ x.h \in {p.h, p.h + 1}
        BY <4>3 DEF TreeIn
      <4>5. Fresh(Assign(c, "l", x), "l", x, q, d)
        BY <3>2, AssignSide, Zenon
      <4>6. x.h - q.h \in -2..2
        BY <3>8, <4>4, SMTT(40)
      <4>7. Rebalanced(add[<<m, i>>], Mid(u, d, b), x, q, E)
        BY <3>2, <4>1, <4>4, <4>5, <4>6, RebalanceIs
      <4>8. TreeIn(add[<<m, i>>], Mid(u, d, b), {m.h, m.h + 1}, E)
        BY <3>2, <3>3, <4>4, <4>7, GrownIs
      <4>9. IsInsert(Mid(u, d, b), t, i, e, E)
        BY <3>2, <3>3, <4>3, InsertLeft
      <4> QED BY <4>8, <4>9 DEF Added
    <3>7. CASE i > Len(a)
      <4> DEFINE j == i - Len(a) - 1
                 x == add[<<q, j>>]
      <4>1. add[<<m, i>>] = Rebalance(Assign(c, "r", x))
        <5>1. ~(i <= c.l.sz) /\ i - c.l.sz - 1 = j /\ c.r = q
          BY <3>2, <3>3, <3>5, <3>7
        <5> QED BY <3>5, <5>1
      <4>2. j \in 0..Len(b) /\ i = Len(a) + 1 + j
        BY <3>3, <3>7
      <4> HIDE DEF j
      <4>3. PICK u : TreeIn(x, u, {q.h, q.h + 1}, E) /\ IsInsert(u, b, j, e, E)
        BY <3>2, <3>4, <4>2 DEF Added
      <4> HIDE DEF x
      <4>4. Tree(x, u, E) /\ x.h \in {q.h, q.h + 1}
        BY <4>3 DEF TreeIn
      <4>5. Fresh(Assign(c, "r", x), "l", p, x, d)
        BY <3>2, AssignOther, Zenon
      <4>6. p.h - x.h \in -2..2
        BY <3>8, <4>4
      <4>7. Rebalanced(add[<<m, i>>], Mid(a, d, u), p, x, E)
        BY <3>2, <4>1, <4>4, <4>5, <4>6, RebalanceIs
      <4>8. TreeIn(add[<<m, i>>], Mid(a, d, u), {m.h, m.h + 1}, E)
        BY <3>2, <3>3, <4>4, <4>7, GrownIs
      <4>9. IsInsert(Mid(a, d, u), t, i, e, E)
        BY <3>2, <3>3, <4>2, <4>3, InsertRight
      <4> QED BY <4>8, <4>9 DEF Added
    <3> QED BY <3>3, <3>5, <3>6, <3>7
  <2> QED BY <2>1, <2>2
<1>6. \A m \in Subtrees(n) : m \in P
  <2> HIDE DEF P
  <2> QED BY <1>5, HeightInduction
<1>7. n \in Subtrees(n)
  BY SubtreesAre
<1> QED BY <1>2, <1>6, <1>7

-----------------------------------------------------------------------------
(* SetByIdx replaces.                                                      *)

LEMMA CopyIs ==
  ASSUME NEW m, Sound(m)
  PROVE  LET c == CopyNode(m)
         IN  /\ IsNode(c) /\ c.own = TRUE /\ c.ok = TRUE
             /\ c.k = m.k /\ c.v = m.v /\ c.h = m.h /\ c.sz = m.sz /\ c.l = m.l /\ c.r = m.r
<1>1. IsNode(CopyNode(m)) /\ CopyNode(m).own = TRUE /\ \A f \in NodeField \ {"own"} : CopyNode(m)[f] = m[f]
  BY DEF Sound, IsNode, CopyNode, NodeField
<1>2. \A f \in {"k", "v", "h", "sz", "l", "r", "ok"} : CopyNode(m)[f] = m[f]
  BY <1>1 DEF NodeField
<1>3. m.ok = TRUE
  BY DEF Sound
<1> QED BY <1>1, <1>2, <1>3

\* n is a copy of m with another value in the field f.
Edited(n, m, f, x) ==
  /\ IsNode(n) /\ n.ok = TRUE /\ n[f] = x
  /\ n.h = m.h /\ n.sz = m.sz
  /\ f /= "k" => n.k = m.k
  /\ f /= "v" => n.v = m.v
  /\ f /= "l" => n.l = m.l
  /\ f /= "r" => n.r = m.r

LEMMA CopyWritten ==
  ASSUME NEW m, Sound(m), NEW f, f \in {"k", "v", "l", "r"}, NEW x
  PROVE  Edited(Assign(CopyNode(m), f, x), m, f, x)
<1> DEFINE c == CopyNode(m)
           n == Assign(c, f, x)
<1>1. /\ IsNode(c) /\ c.own = TRUE /\ c.ok = TRUE
      /\ c.k = m.k /\ c.v = m.v /\ c.h = m.h /\ c.sz = m.sz /\ c.l = m.l /\ c.r = m.r
  BY CopyIs
<1> HIDE DEF c
<1>2. f \in NodeField \ {"own", "ok"}
  BY DEF NodeField
<1>3. Written(n, c, f, x)
  BY <1>1, <1>2, AssignIs
<1> HIDE DEF n
<1>4. \A g \in {"k", "v", "l", "r", "h", "sz"} : g /= f => n[g] = c[g]
  BY <1>3 DEF Written, NodeField
<1>5. n.h = c.h /\ n.sz = c.sz
  BY <1>4
<1>6. (f /= "k" => n.k = c.k) /\ (f /= "v" => n.v = c.v) /\ (f /= "l" => n.l = c.l) /\ (f /= "r" => n.r = c.r)
  BY <1>4
<1> QED BY <1>1, <1>3, <1>5, <1>6 DEF Written, n, c, Edited

LEMMA SetSide ==
  ASSUME NEW E, NEW m, NEW t, NEW a, NEW b, Parts(m, t, a, b, E), NEW x, NEW u, Tree(x, u, E)
  PROVE  /\ x.h = m.l.h /\ Len(u) = Len(a) =>
              TreeIn(Assign(CopyNode(m), "l", x), Mid(u, Data(m), b), {m.h}, E)
         /\ x.h = m.r.h /\ Len(u) = Len(b) =>
              TreeIn(Assign(CopyNode(m), "r", x), Mid(a, Data(m), u), {m.h}, E)
<1>1. Sound(m) /\ Data(m) \in E /\ Tree(m.l, a, E) /\ Tree(m.r, b, E)
  BY DEF Parts
<1>2. m.l.sz = Len(a) /\ m.r.sz = Len(b) /\ x.sz = Len(u)
  BY <1>1, TreeType
<1>3. ASSUME x.h = m.l.h, Len(u) = Len(a)
      PROVE  TreeIn(Assign(CopyNode(m), "l", x), Mid(u, Data(m), b), {m.h}, E)
  <2> DEFINE n == Assign(CopyNode(m), "l", x)
  <2>1. Edited(n, m, "l", x)
    BY <1>1, CopyWritten
  <2> HIDE DEF n
  <2>2. Sound(n) /\ Data(n) = Data(m)
    BY <1>1, <1>2, <1>3, <2>1 DEF Edited, Sound, Data, Higher
  <2>3. Tree(n, Mid(u, Data(m), b), E)
    BY <1>1, <2>1, <2>2, TreeNode DEF Edited
  <2> QED BY <2>1, <2>3 DEF TreeIn, n, Edited
<1>4. ASSUME x.h = m.r.h, Len(u) = Len(b)
      PROVE  TreeIn(Assign(CopyNode(m), "r", x), Mid(a, Data(m), u), {m.h}, E)
  <2> DEFINE n == Assign(CopyNode(m), "r", x)
  <2>1. Edited(n, m, "r", x)
    BY <1>1, CopyWritten
  <2> HIDE DEF n
  <2>2. Sound(n) /\ Data(n) = Data(m)
    BY <1>1, <1>2, <1>4, <2>1 DEF Edited, Sound, Data, Higher
  <2>3. Tree(n, Mid(a, Data(m), u), E)
    BY <1>1, <2>1, <2>2, TreeNode DEF Edited
  <2> QED BY <2>1, <2>3 DEF TreeIn, n, Edited
<1> QED BY <1>3, <1>4

\* The data d with x as its key or its value.
With(d, field, x) == IF field = "k" THEN <<x, d[2]>> ELSE <<d[1], x>>

LEMMA SetData ==
  ASSUME NEW E, NEW m, NEW t, NEW a, NEW b, Parts(m, t, a, b, E), NEW field \in {"k", "v"}, NEW x,
         With(Data(m), field, x) \in E
  PROVE  TreeIn(Assign(CopyNode(m), field, x), Mid(a, With(Data(m), field, x), b), {m.h}, E)
<1> DEFINE n == Assign(CopyNode(m), field, x)
<1>1. Sound(m) /\ Tree(m.l, a, E) /\ Tree(m.r, b, E)
  BY DEF Parts
<1>2. Edited(n, m, field, x)
  BY <1>1, CopyWritten
<1> HIDE DEF n
<1>3. Sound(n)
  BY <1>1, <1>2 DEF Edited, Sound, Higher
<1>4. Data(n) = With(Data(m), field, x)
  BY <1>2 DEF Data, With, Edited
<1>5. Tree(n, Mid(a, With(Data(m), field, x), b), E)
  BY <1>1, <1>2, <1>3, <1>4, TreeNode DEF Edited
<1> QED BY <1>2, <1>5 DEF TreeIn, n, Edited

\* r is m, whose elements are t, with e in one place.
Changed(r, m, t, i, e, E) == \E u : TreeIn(r, u, {m.h}, E) /\ IsReplace(u, t, i, e, E)

LEMMA SetIs ==
  ASSUME NEW E, NEW n, NEW s, Tree(n, s, E), NEW idx \in 0..(Len(s) - 1), NEW field \in {"k", "v"}, NEW x,
         With(s[idx + 1], field, x) \in E
  PROVE  Changed(SetByIdx(n, idx, field, x), n, s, idx, With(s[idx + 1], field, x), E)
<1> DEFINE set == CHOOSE f : SetsBy(f, n, field, x)
<1>1. SetsBy(set, n, field, x)
  BY SetExists, Zenon
<1>2. SetByIdx(n, idx, field, x) = set[<<n, idx>>]
  BY Zenon DEF SetByIdx, SetsBy
<1> HIDE DEF set
<1>3. ASSUME NEW m \in Subtrees(n), NEW i \in 0..(m.sz - 1)
      PROVE  LET c == CopyNode(m)
             IN  set[<<m, i>>] = IF i < c.l.sz THEN Assign(c, "l", set[<<c.l, i>>])
                                 ELSE IF i > c.l.sz THEN Assign(c, "r", set[<<c.r, i - c.l.sz - 1>>])
                                 ELSE Assign(c, field, x)
  <2>1. <<m, i>> \in Places(n) /\ <<m, i>>[1] = m /\ <<m, i>>[2] = i
    BY DEF Places
  <2> QED BY <1>1, <2>1, Zenon DEF SetsBy
<1> DEFINE P == {m \in Subtrees(n) : \A t : \A i \in 0..(Len(t) - 1) :
                   Tree(m, t, E) /\ With(t[i + 1], field, x) \in E =>
                     Changed(set[<<m, i>>], m, t, i, With(t[i + 1], field, x), E)}
<1>4. ASSUME NEW m \in Subtrees(n), m /= Nil => m.l \in P /\ m.r \in P PROVE m \in P
  <2> SUFFICES ASSUME NEW t, NEW i \in 0..(Len(t) - 1), Tree(m, t, E), With(t[i + 1], field, x) \in E
               PROVE  Changed(set[<<m, i>>], m, t, i, With(t[i + 1], field, x), E)
    OBVIOUS
  <2>1. m /= Nil
    <3>1. m = Nil => Len(t) = 0
      BY NilIs, EmptySeq
    <3> QED BY <3>1
  <2>2. PICK a, b : Parts(m, t, a, b, E)
    BY <2>1, TreeParts
  <2> DEFINE d == Data(m)
             c == CopyNode(m)
             p == m.l
             q == m.r
             e == With(t[i + 1], field, x)
  <2>3. Tree(p, a, E) /\ Tree(q, b, E) /\ d \in E /\ t = Mid(a, d, b) /\ c.l = p /\ c.r = q
    BY <2>2, NodeIs
  <2>4. /\ a \in Seq(E) /\ b \in Seq(E) /\ p.sz = Len(a) /\ q.sz = Len(b) /\ m.sz = Len(t)
        /\ Len(t) = Len(a) + 1 + Len(b) /\ Len(a) \in Nat /\ Len(b) \in Nat
    BY <2>2, PartsAre
  <2>5. p \in P /\ q \in P
    BY <1>4, <2>1
  <2>6. set[<<m, i>>] = IF i < c.l.sz THEN Assign(c, "l", set[<<c.l, i>>])
                        ELSE IF i > c.l.sz THEN Assign(c, "r", set[<<c.r, i - c.l.sz - 1>>])
                        ELSE Assign(c, field, x)
    BY <1>3, <2>4
  <2>7. IsMid(t, a, d, b, E)
    BY <2>3, <2>4, MidIs
  <2>8. e \in E
    OBVIOUS
  <2>9. CASE i < Len(a)
    <3> DEFINE y == set[<<p, i>>]
    <3>1. set[<<m, i>>] = Assign(c, "l", y) /\ i \in 0..(Len(a) - 1)
      <4> HIDE DEF c, p, q
      <4> QED BY <2>3, <2>4, <2>6, <2>9
    <3>2. t[i + 1] = a[i + 1]
      <4>1. i + 1 \in 1..Len(a)
        BY <3>1, <2>4
      <4> QED BY <2>7, <4>1 DEF IsMid
    <3>3. PICK u : TreeIn(y, u, {p.h}, E) /\ IsReplace(u, a, i, e, E)
      BY <2>3, <2>5, <2>8, <3>1, <3>2 DEF Changed
    <3> HIDE DEF y, e
    <3>4. Tree(y, u, E) /\ y.h = p.h /\ Len(u) = Len(a)
      BY <3>3 DEF TreeIn, IsReplace
    <3>5. TreeIn(Assign(c, "l", y), Mid(u, d, b), {m.h}, E)
      BY <2>2, <3>4, SetSide
    <3>6. IsReplace(Mid(u, d, b), t, i, e, E)
      <4> HIDE DEF d
      <4> QED BY <2>3, <2>4, <3>3, ReplaceLeft
    <3> QED BY <3>1, <3>5, <3>6 DEF Changed, e
  <2>10. CASE i > Len(a)
    <3> DEFINE j == i - Len(a) - 1
               y == set[<<q, j>>]
    <3>1. set[<<m, i>>] = Assign(c, "r", y)
      <4>1. ~(i < c.l.sz) /\ i > c.l.sz /\ i - c.l.sz - 1 = j /\ c.r = q
        BY <2>3, <2>4, <2>10
      <4> QED BY <2>6, <4>1
    <3>2. j \in 0..(Len(b) - 1) /\ i = Len(a) + 1 + j
      BY <2>4, <2>10
    <3> HIDE DEF j
    <3>3. t[i + 1] = b[j + 1]
      <4>1. j + 1 \in 1..Len(b) /\ i + 1 = Len(a) + 1 + (j + 1)
        BY <2>4, <3>2
      <4> QED BY <2>7, <4>1 DEF IsMid
    <3>4. PICK u : TreeIn(y, u, {q.h}, E) /\ IsReplace(u, b, j, e, E)
      BY <2>3, <2>5, <2>8, <3>2, <3>3 DEF Changed
    <3> HIDE DEF y, e
    <3>5. Tree(y, u, E) /\ y.h = q.h /\ Len(u) = Len(b)
      BY <3>4 DEF TreeIn, IsReplace
    <3>6. TreeIn(Assign(c, "r", y), Mid(a, d, u), {m.h}, E)
      BY <2>2, <3>5, SetSide
    <3>7. IsReplace(Mid(a, d, u), t, i, e, E)
      <4> HIDE DEF d
      <4> QED BY <2>3, <2>4, <3>2, <3>4, ReplaceRight
    <3> QED BY <3>1, <3>6, <3>7 DEF Changed, e
  <2>11. CASE i = Len(a)
    <3>1. set[<<m, i>>] = Assign(c, field, x)
      <4>1. ~(i < c.l.sz) /\ ~(i > c.l.sz)
        BY <2>3, <2>4, <2>11
      <4> QED BY <2>6, <4>1
    <3>2. t[i + 1] = d
      BY <2>7, <2>11 DEF IsMid
    <3>3. TreeIn(set[<<m, i>>], Mid(a, With(d, field, x), b), {m.h}, E)
      BY <2>2, <2>8, <3>1, <3>2, SetData
    <3>4. IsReplace(Mid(a, e, b), t, i, e, E)
      <4> HIDE DEF d, e
      <4> QED BY <2>3, <2>4, <2>8, <2>11, ReplaceMid
    <3> QED BY <3>2, <3>3, <3>4 DEF Changed
  <2> QED BY <2>4, <2>9, <2>10, <2>11
<1>5. \A m \in Subtrees(n) : m \in P
  <2> HIDE DEF P
  <2> QED BY <1>4, HeightInduction
<1>6. n \in Subtrees(n)
  BY SubtreesAre
<1> QED BY <1>2, <1>5, <1>6

-----------------------------------------------------------------------------
(* DelLast and DelByIdx delete.                                            *)

\* r is m without its last element, and the node of that.
LastTaken(r, m, t, E) ==
  \E u \in Seq(E) : TreeIn(r.tree, u, {m.h - 1, m.h}, E) /\ Data(r.last) \in E /\ t = Mid(u, Data(r.last), <<>>)

LEMMA LastIs ==
  ASSUME NEW E, NEW n, NEW s, Tree(n, s, E), n /= Nil
  PROVE  LastTaken(DelLast(n), n, s, E)
<1> DEFINE del == CHOOSE f : LastBy(f, n)
<1>1. LastBy(del, n)
  BY LastExists, Zenon
<1>2. DelLast(n) = del[n]
  BY Zenon DEF DelLast, LastBy
<1> HIDE DEF del
<1>3. ASSUME NEW m \in Subtrees(n), m /= Nil
      PROVE  del[m] = IF m.r = Nil THEN [tree |-> m.l, last |-> m]
                      ELSE [tree |-> Rebalance(Assign(CopyNode(m), "r", del[m.r].tree)),
                            last |-> del[m.r].last]
  <2>1. m \in Subtrees(n) \ {Nil}
    BY <1>3
  <2> QED BY <1>1, <2>1, Zenon DEF LastBy
<1> DEFINE P == {m \in Subtrees(n) : \A t : m /= Nil /\ Tree(m, t, E) => LastTaken(del[m], m, t, E)}
<1>4. ASSUME NEW m \in Subtrees(n), m /= Nil => m.l \in P /\ m.r \in P PROVE m \in P
  <2> SUFFICES ASSUME NEW t, m /= Nil, Tree(m, t, E) PROVE LastTaken(del[m], m, t, E)
    OBVIOUS
  <2>1. PICK a, b : Parts(m, t, a, b, E)
    BY TreeParts
  <2> DEFINE d == Data(m)
             p == m.l
             q == m.r
  <2>2. /\ Tree(p, a, E) /\ Tree(q, b, E) /\ d \in E /\ t = Mid(a, d, b)
        /\ Fresh(CopyNode(m), "l", p, q, d)
        /\ p.h - q.h \in -1..1 /\ m.h = Higher(p, q) + 1 /\ Opposite("l", "r")
    BY <2>1, NodeIs
  <2>3. a \in Seq(E) /\ b \in Seq(E) /\ p.h \in Nat /\ q.h \in Nat
    BY <2>1, PartsAre
  <2>4. CASE q = Nil
    <3>1. del[m].tree = p /\ del[m].last = m
      <4>1. del[m] = [tree |-> p, last |-> m]
        BY <1>3, <2>4, Zenon
      <4> QED BY <4>1
    <3>2. b = <<>>
      BY <2>2, <2>4, NilIs
    <3>3. p.h = m.h - 1
      <4>1. q.h = 0
        BY <2>4 DEF Nil
      <4> HIDE DEF p, q
      <4> QED BY <2>2, <2>3, <4>1 DEF Higher
    <3> HIDE DEF d, p, q
    <3>4. TreeIn(del[m].tree, a, {m.h - 1, m.h}, E)
      BY <2>2, <3>1, <3>3 DEF TreeIn
    <3>5. Data(del[m].last) = d
      BY <3>1 DEF d
    <3> QED BY <2>2, <2>3, <3>2, <3>4, <3>5 DEF LastTaken
  <2>5. CASE q /= Nil
    <3> DEFINE x == del[q].tree
               f == Data(del[q].last)
    <3>1. del[m].tree = Rebalance(Assign(CopyNode(m), "r", x)) /\ Data(del[m].last) = f
      <4> DEFINE y == Rebalance(Assign(CopyNode(m), "r", x))
                 last == del[q].last
      <4>1. del[m] = [tree |-> y, last |-> last]
        BY <1>3, <2>5, Zenon
      <4>2. Data(last) = f
        OBVIOUS
      <4> HIDE DEF y, last
      <4>3. del[m].tree = y /\ del[m].last = last
        BY <4>1
      <4> QED BY <4>2, <4>3 DEF y
    <3>2. PICK u \in Seq(E) : TreeIn(x, u, {q.h - 1, q.h}, E) /\ f \in E /\ b = Mid(u, f, <<>>)
      BY <1>4, <2>2, <2>5 DEF LastTaken
    <3> HIDE DEF d, p, q, x, f
    <3>3. Tree(x, u, E) /\ x.h \in {q.h - 1, q.h} /\ x.h \in Nat
      BY <3>2, TreeType DEF TreeIn
    <3>4. Fresh(Assign(CopyNode(m), "r", x), "l", p, x, d)
      BY <2>2, AssignOther, Zenon
    <3>5. p.h - x.h \in -2..2
      <4>1. p.h \in Nat /\ q.h \in Nat /\ p.h - q.h \in -1..1
        BY <2>2, <2>3
      <4> QED BY <3>3, <4>1
    <3>6. Rebalanced(del[m].tree, Mid(a, d, u), p, x, E)
      BY <2>2, <3>1, <3>3, <3>4, <3>5, RebalanceIs
    <3>7. TreeIn(del[m].tree, Mid(a, d, u), {m.h - 1, m.h}, E)
      BY <2>2, <2>3, <3>3, <3>6, ShrunkIs
    <3>8. Mid(a, d, u) \in Seq(E)
      BY <3>7, TreeType DEF TreeIn
    <3>9. <<>> \in Seq(E)
      BY EmptySeq
    <3>10. t = Mid(Mid(a, d, u), f, <<>>)
      <4>1. a \in Seq(E) /\ d \in E /\ f \in E
        BY <2>2, <2>3, <3>2
      <4>2. ASSUME NEW z \in Seq(E) PROVE Mid(Mid(a, d, u), f, z) = Mid(a, d, Mid(u, f, z))
        BY <4>1, MidAssociative
      <4> QED BY <2>2, <3>2, <3>9, <4>2
    <3> QED BY <3>1, <3>2, <3>7, <3>8, <3>10 DEF LastTaken
  <2> QED BY <2>4, <2>5
<1>5. \A m \in Subtrees(n) : m \in P
  <2> HIDE DEF P
  <2> QED BY <1>4, HeightInduction
<1>6. n \in Subtrees(n)
  BY SubtreesAre
<1> QED BY <1>2, <1>5, <1>6

LEMMA AssignDataIs ==
  ASSUME NEW c, NEW x, NEW y, NEW e, Fresh(c, "l", x, y, e), NEW n
  PROVE  Fresh(AssignData(c, n), "l", x, y, Data(n))
<1> DEFINE m == Assign(c, "k", n.k)
           r == Assign(m, "v", n.v)
<1>1. IsNode(c) /\ c.own = TRUE /\ c.ok = TRUE /\ c.l = x /\ c.r = y
      /\ "k" \in NodeField \ {"own", "ok"} /\ "v" \in NodeField \ {"own", "ok"}
  BY DEF Fresh, NodeField, Opposite
<1>2. Written(m, c, "k", n.k)
  BY <1>1, AssignIs
<1>3. AssignData(c, n) = r
  BY DEF AssignData
<1> HIDE DEF m
<1>4. Written(r, m, "v", n.v)
  <2>1. IsNode(m) /\ m.own = TRUE /\ m.ok = TRUE
    BY <1>2 DEF Written
  <2> QED BY <1>1, <2>1, AssignIs
<1> HIDE DEF r
<1>5. r.l = x /\ r.r = y /\ r.k = n.k /\ r.v = n.v
  BY <1>1, <1>2, <1>4 DEF Written, NodeField
<1>6. Fresh(r, "l", x, y, Data(n))
  BY <1>4, <1>5 DEF Fresh, Written, Opposite, Data
<1> QED BY <1>3, <1>6

\* r is m, whose elements are t, without the element at i.
Deleted(r, m, t, i, E) == \E u : TreeIn(r, u, {m.h - 1, m.h}, E) /\ IsRemove(u, t, i, E)

LEMMA DelIs ==
  ASSUME NEW E, NEW n, NEW s, Tree(n, s, E), NEW idx \in 0..(Len(s) - 1)
  PROVE  Deleted(DelByIdx(n, idx), n, s, idx, E)
<1> DEFINE del == CHOOSE f : DeletesBy(f, n)
<1>1. DeletesBy(del, n)
  BY DelExists, Zenon
<1>2. DelByIdx(n, idx) = del[<<n, idx>>]
  BY Zenon DEF DelByIdx, DeletesBy
<1> HIDE DEF del
<1>3. ASSUME NEW m \in Subtrees(n), NEW i \in 0..(m.sz - 1)
      PROVE  LET c == CopyNode(m)
             IN  del[<<m, i>>] =
                   IF i = m.l.sz /\ m.l = Nil THEN m.r
                   ELSE IF i = m.l.sz /\ m.r = Nil THEN m.l
                   ELSE Rebalance(
                          IF i < m.l.sz THEN Assign(c, "l", del[<<m.l, i>>])
                          ELSE IF i > m.l.sz THEN Assign(c, "r", del[<<m.r, i - m.l.sz - 1>>])
                          ELSE LET d == DelLast(m.l) IN AssignData(Assign(c, "l", d.tree), d.last))
  <2>1. <<m, i>> \in Places(n) /\ <<m, i>>[1] = m /\ <<m, i>>[2] = i
    BY DEF Places
  <2> QED BY <1>1, <2>1, Zenon DEF DeletesBy
<1> DEFINE P == {m \in Subtrees(n) : \A t : \A i \in 0..(Len(t) - 1) :
                   Tree(m, t, E) => Deleted(del[<<m, i>>], m, t, i, E)}
<1>4. ASSUME NEW m \in Subtrees(n), m /= Nil => m.l \in P /\ m.r \in P PROVE m \in P
  <2> SUFFICES ASSUME NEW t, NEW i \in 0..(Len(t) - 1), Tree(m, t, E)
               PROVE  Deleted(del[<<m, i>>], m, t, i, E)
    OBVIOUS
  <2>1. m /= Nil
    <3>1. m = Nil => Len(t) = 0
      BY NilIs, EmptySeq
    <3> QED BY <3>1
  <2>2. PICK a, b : Parts(m, t, a, b, E)
    BY <2>1, TreeParts
  <2> DEFINE d == Data(m)
             c == CopyNode(m)
             p == m.l
             q == m.r
  <2>3. /\ Tree(p, a, E) /\ Tree(q, b, E) /\ d \in E /\ t = Mid(a, d, b)
        /\ Fresh(c, "l", p, q, d)
        /\ p.h - q.h \in -1..1 /\ m.h = Higher(p, q) + 1 /\ Opposite("l", "r")
    BY <2>2, NodeIs
  <2>4. /\ a \in Seq(E) /\ b \in Seq(E) /\ p.sz = Len(a) /\ q.sz = Len(b) /\ m.sz = Len(t)
        /\ Len(t) = Len(a) + 1 + Len(b) /\ Len(a) \in Nat /\ Len(b) \in Nat
        /\ p.h \in Nat /\ q.h \in Nat
    BY <2>2, PartsAre
  <2>5. p \in P /\ q \in P
    BY <1>4, <2>1
  <2>6. del[<<m, i>>] =
          IF i = p.sz /\ p = Nil THEN q
          ELSE IF i = p.sz /\ q = Nil THEN p
          ELSE Rebalance(
                 IF i < p.sz THEN Assign(c, "l", del[<<p, i>>])
                 ELSE IF i > p.sz THEN Assign(c, "r", del[<<q, i - p.sz - 1>>])
                 ELSE LET e == DelLast(p) IN AssignData(Assign(c, "l", e.tree), e.last))
    BY <1>3, <2>4
  <2>7. p.h \in Nat /\ q.h \in Nat /\ p.h - q.h \in -1..1
    BY <2>3, <2>4
  <2>8. Nil.h = 0
    BY DEF Nil
  <2> HIDE DEF d, c, p, q
  <2>9. CASE i = Len(a) /\ p = Nil
    <3>1. del[<<m, i>>] = q /\ a = <<>> /\ i = 0
      BY <2>3, <2>4, <2>6, <2>9, NilIs
    <3>2. q.h = m.h - 1
      BY <2>3, <2>7, <2>8, <2>9 DEF Higher
    <3>3. TreeIn(q, b, {m.h - 1, m.h}, E)
      BY <2>3, <3>2 DEF TreeIn
    <3>4. IsRemove(b, t, i, E)
      BY <2>3, <2>4, <3>1, RemoveEnds
    <3> QED BY <3>1, <3>3, <3>4 DEF Deleted
  <2>10. CASE i = Len(a) /\ p /= Nil /\ q = Nil
    <3>1. del[<<m, i>>] = p /\ b = <<>>
      BY <2>3, <2>4, <2>6, <2>10, NilIs
    <3>2. p.h = m.h - 1
      BY <2>3, <2>7, <2>8, <2>10 DEF Higher
    <3>3. TreeIn(p, a, {m.h - 1, m.h}, E)
      BY <2>3, <3>2 DEF TreeIn
    <3>4. IsRemove(a, t, i, E)
      BY <2>3, <2>4, <2>10, <3>1, RemoveEnds
    <3> QED BY <3>1, <3>3, <3>4 DEF Deleted
  <2>11. CASE i < Len(a)
    <3> DEFINE x == del[<<p, i>>]
    <3>1. del[<<m, i>>] = Rebalance(Assign(c, "l", x))
      BY <2>4, <2>6, <2>11
    <3>2. i \in 0..(Len(a) - 1)
      BY <2>4, <2>11
    <3>3. PICK u : TreeIn(x, u, {p.h - 1, p.h}, E) /\ IsRemove(u, a, i, E)
      BY <2>3, <2>5, <3>2 DEF Deleted
    <3> HIDE DEF x
    <3>4. Tree(x, u, E) /\ x.h \in {p.h - 1, p.h} /\ x.h \in Nat
      BY <3>3, TreeType DEF TreeIn
    <3>5. Fresh(Assign(c, "l", x), "l", x, q, d)
      BY <2>3, AssignSide, Zenon
    <3>6. x.h - q.h \in -2..2
      BY <2>7, <3>4, SMTT(40)
    <3>7. Rebalanced(del[<<m, i>>], Mid(u, d, b), x, q, E)
      BY <2>3, <3>1, <3>4, <3>5, <3>6, RebalanceIs
    <3>8. TreeIn(del[<<m, i>>], Mid(u, d, b), {m.h - 1, m.h}, E)
      BY <2>3, <2>7, <3>4, <3>7, ShrunkIs
    <3>9. IsRemove(Mid(u, d, b), t, i, E)
      BY <2>3, <2>4, <3>3, RemoveLeft
    <3> QED BY <3>8, <3>9 DEF Deleted
  <2>12. CASE i > Len(a)
    <3> DEFINE j == i - Len(a) - 1
               x == del[<<q, j>>]
    <3>1. del[<<m, i>>] = Rebalance(Assign(c, "r", x))
      <4>1. ~(i = p.sz) /\ ~(i < p.sz) /\ i > p.sz /\ i - p.sz - 1 = j
        BY <2>4, <2>12
      <4> QED BY <2>6, <4>1
    <3>2. j \in 0..(Len(b) - 1) /\ i = Len(a) + 1 + j
      BY <2>4, <2>12
    <3> HIDE DEF j
    <3>3. PICK u : TreeIn(x, u, {q.h - 1, q.h}, E) /\ IsRemove(u, b, j, E)
      BY <2>3, <2>5, <3>2 DEF Deleted
    <3> HIDE DEF x
    <3>4. Tree(x, u, E) /\ x.h \in {q.h - 1, q.h} /\ x.h \in Nat
      BY <3>3, TreeType DEF TreeIn
    <3>5. Fresh(Assign(c, "r", x), "l", p, x, d)
      BY <2>3, AssignOther, Zenon
    <3>6. p.h - x.h \in -2..2
      BY <2>7, <3>4, SMTT(40)
    <3>7. Rebalanced(del[<<m, i>>], Mid(a, d, u), p, x, E)
      BY <2>3, <3>1, <3>4, <3>5, <3>6, RebalanceIs
    <3>8. TreeIn(del[<<m, i>>], Mid(a, d, u), {m.h - 1, m.h}, E)
      BY <2>3, <2>7, <3>4, <3>7, ShrunkIs
    <3>9. IsRemove(Mid(a, d, u), t, i, E)
      BY <2>3, <2>4, <3>2, <3>3, RemoveRight
    <3> QED BY <3>8, <3>9 DEF Deleted
  <2>13. CASE i = Len(a) /\ p /= Nil /\ q /= Nil
    <3> DEFINE e == DelLast(p)
               x == e.tree
               f == Data(e.last)
    <3>1. del[<<m, i>>] = Rebalance(AssignData(Assign(c, "l", x), e.last))
      <4>1. ~(i < p.sz) /\ ~(i > p.sz)
        BY <2>4, <2>13
      <4> QED BY <2>6, <2>13, <4>1, Zenon
    <3>2. PICK u \in Seq(E) : TreeIn(x, u, {p.h - 1, p.h}, E) /\ f \in E /\ a = Mid(u, f, <<>>)
      BY <2>3, <2>13, LastIs DEF LastTaken
    <3>3. Fresh(Assign(c, "l", x), "l", x, q, d)
      <4> HIDE DEF x
      <4> QED BY <2>3, AssignSide, Zenon
    <3>4. Fresh(AssignData(Assign(c, "l", x), e.last), "l", x, q, f)
      <4> HIDE DEF x, e
      <4> QED BY <3>3, AssignDataIs DEF f
    <3> HIDE DEF x, f, e
    <3>5. Tree(x, u, E) /\ x.h \in {p.h - 1, p.h} /\ x.h \in Nat
      BY <3>2, TreeType DEF TreeIn
    <3>6. x.h - q.h \in -2..2
      BY <2>7, <3>5, SMTT(40)
    <3>7. Rebalanced(del[<<m, i>>], Mid(u, f, b), x, q, E)
      BY <2>3, <3>1, <3>2, <3>4, <3>5, <3>6, RebalanceIs
    <3>8. TreeIn(del[<<m, i>>], Mid(u, f, b), {m.h - 1, m.h}, E)
      BY <2>3, <2>7, <3>5, <3>7, ShrunkIs
    <3>9. IsRemove(Mid(u, f, b), t, i, E)
      BY <2>3, <2>4, <2>13, <3>2, RemoveMid
    <3> QED BY <3>8, <3>9 DEF Deleted
  <2> QED BY <2>4, <2>9, <2>10, <2>11, <2>12, <2>13
<1>5. \A m \in Subtrees(n) : m \in P
  <2> HIDE DEF P
  <2> QED BY <1>4, HeightInduction
<1>6. n \in Subtrees(n)
  BY SubtreesAre
<1> QED BY <1>2, <1>5, <1>6

-----------------------------------------------------------------------------
(* What is published, read in order and found.                             *)

LEMMA PublishIs ==
  ASSUME NEW E, NEW n, NEW s, Tree(n, s, E)
  PROVE  TreeIn(Publish(n), s, {n.h}, E)
<1> DEFINE shared == CHOOSE f : PublishesBy(f, n)
<1>1. PublishesBy(shared, n)
  BY PublishExists, Zenon
<1>2. Publish(n) = shared[n]
  BY Zenon DEF Publish, PublishesBy
<1> HIDE DEF shared
<1>3. ASSUME NEW m \in Subtrees(n)
      PROVE  shared[m] = IF m = Nil THEN Nil
                         ELSE [m EXCEPT !.own = FALSE, !.l = shared[m.l], !.r = shared[m.r]]
  BY <1>1, Zenon DEF PublishesBy
<1> DEFINE P == {m \in Subtrees(n) : \A t : Tree(m, t, E) => TreeIn(shared[m], t, {m.h}, E)}
<1>4. ASSUME NEW m \in Subtrees(n), m /= Nil => m.l \in P /\ m.r \in P PROVE m \in P
  <2> SUFFICES ASSUME NEW t, Tree(m, t, E) PROVE TreeIn(shared[m], t, {m.h}, E)
    OBVIOUS
  <2>1. CASE m = Nil
    BY <1>3, <2>1 DEF TreeIn
  <2>2. CASE m /= Nil
    <3>1. PICK a, b : Parts(m, t, a, b, E)
      BY <2>2, TreeParts
    <3> DEFINE x == shared[m.l]
               y == shared[m.r]
               r == shared[m]
    <3>2. Tree(m.l, a, E) /\ Tree(m.r, b, E) /\ Sound(m) /\ Data(m) \in E /\ t = Mid(a, Data(m), b)
      BY <3>1 DEF Parts
    <3>3. TreeIn(x, a, {m.l.h}, E) /\ TreeIn(y, b, {m.r.h}, E)
      BY <1>4, <2>2, <3>2
    <3>4. r = [m EXCEPT !.own = FALSE, !.l = x, !.r = y]
      BY <1>3, <2>2
    <3> HIDE DEF x, y, r
    <3>5. Tree(x, a, E) /\ Tree(y, b, E) /\ x.h = m.l.h /\ y.h = m.r.h /\ x.sz = m.l.sz /\ y.sz = m.r.sz
      BY <3>2, <3>3, TreeType DEF TreeIn
    <3>6. m = [f \in NodeField |-> m[f]]
      BY <3>2 DEF Sound, IsNode
    <3>7. r = [f \in NodeField |-> r[f]] /\ r.l = x /\ r.r = y /\ \A f \in {"k", "v", "h", "sz", "ok"} : r[f] = m[f]
      BY <3>4, <3>6 DEF NodeField
    <3>8. r.k = m.k /\ r.v = m.v /\ r.h = m.h /\ r.sz = m.sz /\ r.ok = m.ok
      BY <3>7
    <3>9. Sound(r) /\ Data(r) = Data(m)
      BY <3>2, <3>5, <3>7, <3>8 DEF Sound, IsNode, Data, Higher
    <3>10. Tree(r, t, E)
      BY <3>2, <3>5, <3>7, <3>9, TreeNode
    <3> QED BY <3>8, <3>10 DEF TreeIn, r
  <2> QED BY <2>1, <2>2
<1>5. \A m \in Subtrees(n) : m \in P
  <2> HIDE DEF P
  <2> QED BY <1>4, HeightInduction
<1>6. n \in Subtrees(n)
  BY SubtreesAre
<1> QED BY <1>2, <1>5, <1>6

LEMMA InOrderIs ==
  ASSUME NEW E, NEW n, NEW s, Tree(n, s, E)
  PROVE  InOrder(n) = s
<1> DEFINE elements == CHOOSE f : OrdersBy(f, n)
<1>1. OrdersBy(elements, n)
  BY InOrderExists, Zenon
<1>2. InOrder(n) = elements[n]
  BY Zenon DEF InOrder, OrdersBy
<1> HIDE DEF elements
<1>3. ASSUME NEW m \in Subtrees(n)
      PROVE  elements[m] = IF m = Nil THEN <<>> ELSE elements[m.l] \o <<<<m.k, m.v>>>> \o elements[m.r]
  BY <1>1, Zenon DEF OrdersBy
<1> DEFINE P == {m \in Subtrees(n) : \A t : Tree(m, t, E) => elements[m] = t}
<1>4. ASSUME NEW m \in Subtrees(n), m /= Nil => m.l \in P /\ m.r \in P PROVE m \in P
  <2> SUFFICES ASSUME NEW t, Tree(m, t, E) PROVE elements[m] = t
    OBVIOUS
  <2>1. CASE m = Nil
    <3>1. elements[m] = <<>>
      BY <1>3, <2>1, Zenon
    <3>2. t = <<>>
      BY <2>1, NilIs
    <3> QED BY <3>1, <3>2
  <2>2. CASE m /= Nil
    <3>1. PICK a, b : Parts(m, t, a, b, E)
      BY <2>2, TreeParts
    <3>2. Tree(m.l, a, E) /\ Tree(m.r, b, E) /\ t = Mid(a, Data(m), b)
      BY <3>1 DEF Parts
    <3>3. elements[m.l] = a /\ elements[m.r] = b
      BY <1>4, <2>2, <3>2
    <3> QED BY <1>3, <2>2, <3>2, <3>3, Zenon DEF Mid, Data
  <2> QED BY <2>1, <2>2
<1>5. \A m \in Subtrees(n) : m \in P
  <2> HIDE DEF P
  <2> QED BY <1>4, HeightInduction
<1>6. n \in Subtrees(n)
  BY SubtreesAre
<1> QED BY <1>2, <1>5, <1>6

LEMMA GetByIdxIs ==
  ASSUME NEW E, NEW n, NEW s, Tree(n, s, E), NEW idx \in 0..(Len(s) - 1)
  PROVE  GetByIdx(n, idx) = s[idx + 1]
<1> DEFINE get == CHOOSE f : GetsBy(f, n)
<1>1. GetsBy(get, n)
  BY GetByIdxExists, Zenon
<1>2. GetByIdx(n, idx) = get[<<n, idx>>]
  BY Zenon DEF GetByIdx, GetsBy
<1> HIDE DEF get
<1>3. ASSUME NEW m \in Subtrees(n), NEW i \in Int
      PROVE  get[<<m, i>>] = IF m = Nil THEN <<>>
                             ELSE IF i < m.l.sz THEN get[<<m.l, i>>]
                             ELSE IF i > m.l.sz THEN get[<<m.r, i - m.l.sz - 1>>]
                             ELSE <<m.k, m.v>>
  <2>1. <<m, i>> \in Subtrees(n) \X Int /\ <<m, i>>[1] = m /\ <<m, i>>[2] = i
    OBVIOUS
  <2> QED BY <1>1, <2>1, Zenon DEF GetsBy
<1> DEFINE P == {m \in Subtrees(n) : \A t : \A i \in 0..(Len(t) - 1) : Tree(m, t, E) => get[<<m, i>>] = t[i + 1]}
<1>4. ASSUME NEW m \in Subtrees(n), m /= Nil => m.l \in P /\ m.r \in P PROVE m \in P
  <2> SUFFICES ASSUME NEW t, NEW i \in 0..(Len(t) - 1), Tree(m, t, E) PROVE get[<<m, i>>] = t[i + 1]
    OBVIOUS
  <2>1. m /= Nil
    <3>1. m = Nil => Len(t) = 0
      BY NilIs, EmptySeq
    <3> QED BY <3>1
  <2>2. PICK a, b : Parts(m, t, a, b, E)
    BY <2>1, TreeParts
  <2> DEFINE p == m.l
             q == m.r
  <2>3. Tree(p, a, E) /\ Tree(q, b, E) /\ Data(m) \in E /\ t = Mid(a, Data(m), b)
    BY <2>2, NodeIs
  <2>4. /\ a \in Seq(E) /\ b \in Seq(E) /\ p.sz = Len(a)
        /\ Len(t) = Len(a) + 1 + Len(b) /\ Len(a) \in Nat /\ Len(b) \in Nat
    BY <2>2, PartsAre
  <2>5. p \in P /\ q \in P
    BY <1>4, <2>1
  <2>6. get[<<m, i>>] = IF i < p.sz THEN get[<<p, i>>]
                        ELSE IF i > p.sz THEN get[<<q, i - p.sz - 1>>]
                        ELSE Data(m)
    BY <1>3, <2>1 DEF Data
  <2>7. IsMid(t, a, Data(m), b, E)
    BY <2>3, <2>4, MidIs
  <2> HIDE DEF p, q
  <2>8. CASE i < Len(a)
    <3>1. i \in 0..(Len(a) - 1) /\ i + 1 \in 1..Len(a)
      BY <2>4, <2>8
    <3>2. t[i + 1] = a[i + 1]
      BY <2>7, <3>1 DEF IsMid
    <3>3. get[<<p, i>>] = a[i + 1]
      BY <2>3, <2>5, <3>1
    <3> QED BY <2>4, <2>6, <2>8, <3>2, <3>3
  <2>9. CASE i > Len(a)
    <3> DEFINE j == i - Len(a) - 1
    <3>1. j \in 0..(Len(b) - 1) /\ j + 1 \in 1..Len(b) /\ i + 1 = Len(a) + 1 + (j + 1)
      BY <2>4, <2>9
    <3>2. get[<<m, i>>] = get[<<q, j>>]
      BY <2>4, <2>6, <2>9
    <3> HIDE DEF j
    <3>3. t[i + 1] = b[j + 1]
      BY <2>7, <3>1 DEF IsMid
    <3>4. get[<<q, j>>] = b[j + 1]
      BY <2>3, <2>5, <3>1
    <3> QED BY <3>2, <3>3, <3>4
  <2>10. CASE i = Len(a)
    <3>1. get[<<m, i>>] = Data(m)
      BY <2>4, <2>6, <2>10
    <3>2. t[i + 1] = Data(m)
      BY <2>7, <2>10 DEF IsMid
    <3> QED BY <3>1, <3>2
  <2> QED BY <2>4, <2>8, <2>9, <2>10
<1>5. \A m \in Subtrees(n) : m \in P
  <2> HIDE DEF P
  <2> QED BY <1>4, HeightInduction
<1>6. n \in Subtrees(n)
  BY SubtreesAre
<1> QED BY <1>2, <1>5, <1>6

\* Pairs in the order of their keys.
Increasing(t) == \A i, j \in 1..Len(t) : i < j => t[i][1] < t[j][1]

Keyed(E) == \A e \in E : e[1] \in Int

\* d comes after a and before b.
Divides(d, a, b) == (\A i \in 1..Len(a) : a[i][1] < d[1]) /\ (\A i \in 1..Len(b) : d[1] < b[i][1])

LEMMA IncreasingMid ==
  ASSUME NEW E, NEW a \in Seq(E), NEW b \in Seq(E), NEW d \in E, NEW t, IsMid(t, a, d, b, E), Increasing(t)
  PROVE  Increasing(a) /\ Increasing(b) /\ Divides(d, a, b)
<1>1. Len(a) \in Nat /\ Len(b) \in Nat /\ Len(t) = Len(a) + 1 + Len(b)
  BY DEF IsMid
<1>2. ASSUME NEW i \in 1..Len(a), NEW j \in 1..Len(a), i < j PROVE a[i][1] < a[j][1]
  <2>1. i \in 1..Len(t) /\ j \in 1..Len(t)
    BY <1>1
  <2>2. t[i] = a[i] /\ t[j] = a[j]
    BY DEF IsMid
  <2> QED BY <1>2, <2>1, <2>2 DEF Increasing
<1>3. ASSUME NEW i \in 1..Len(b), NEW j \in 1..Len(b), i < j PROVE b[i][1] < b[j][1]
  <2> DEFINE u == Len(a) + 1 + i
             v == Len(a) + 1 + j
  <2>1. u \in 1..Len(t) /\ v \in 1..Len(t) /\ u < v
    BY <1>1, <1>3
  <2>2. t[u] = b[i] /\ t[v] = b[j]
    BY DEF IsMid
  <2> HIDE DEF u, v
  <2> QED BY <2>1, <2>2 DEF Increasing
<1>4. ASSUME NEW i \in 1..Len(a) PROVE a[i][1] < d[1]
  <2> DEFINE v == Len(a) + 1
  <2>1. i \in 1..Len(t) /\ v \in 1..Len(t) /\ i < v
    BY <1>1
  <2>2. t[i] = a[i] /\ t[v] = d
    BY DEF IsMid
  <2> HIDE DEF v
  <2> QED BY <2>1, <2>2 DEF Increasing
<1>5. ASSUME NEW i \in 1..Len(b) PROVE d[1] < b[i][1]
  <2> DEFINE u == Len(a) + 1
             v == Len(a) + 1 + i
  <2>1. u \in 1..Len(t) /\ v \in 1..Len(t) /\ u < v
    BY <1>1
  <2>2. t[u] = d /\ t[v] = b[i]
    BY DEF IsMid
  <2> HIDE DEF u, v
  <2> QED BY <2>1, <2>2 DEF Increasing
<1> QED BY <1>2, <1>3, <1>4, <1>5 DEF Increasing, Divides

\* The place of k among t, where p elements come before it.
Before(t, p, k) ==
  /\ p \in 0..Len(t)
  /\ \A j \in 1..p : t[j][1] < k
  /\ \A j \in (p + 1)..Len(t) : k <= t[j][1]

\* What GetFrom tells of k.
Located(r, t, i, k) ==
  \E p \in 0..Len(t) :
    /\ Before(t, p, k) /\ r.idx = i + p
    /\ \/ r.found = TRUE /\ p < Len(t) /\ t[p + 1] = <<k, r.v>>
       \/ r.found = FALSE /\ \A j \in 1..Len(t) : t[j][1] /= k

LEMMA LocatedLeft ==
  ASSUME NEW E, Keyed(E), NEW a \in Seq(E), NEW b \in Seq(E), NEW d \in E, NEW t, IsMid(t, a, d, b, E), Divides(d, a, b),
         NEW k \in Int, k < d[1], NEW r, NEW i \in Int, Located(r, a, i, k)
  PROVE  Located(r, t, i, k)
<1>1. PICK p \in 0..Len(a) :
        /\ Before(a, p, k) /\ r.idx = i + p
        /\ \/ r.found = TRUE /\ p < Len(a) /\ a[p + 1] = <<k, r.v>>
           \/ r.found = FALSE /\ \A j \in 1..Len(a) : a[j][1] /= k
  BY DEF Located
<1>2. Len(a) \in Nat /\ Len(b) \in Nat /\ Len(t) = Len(a) + 1 + Len(b)
  BY DEF IsMid
<1>3. \A j \in 1..Len(a) : t[j] = a[j]
  BY DEF IsMid
<1>4. ASSUME NEW j \in 1..Len(t), ~(j \in 1..Len(a)) PROVE k < t[j][1]
  <2>1. j \in 1..(Len(a) + 1 + Len(b))
    BY <1>2
  <2>2. j = Len(a) + 1 \/ \E o \in 1..Len(b) : j = Len(a) + 1 + o
    BY <1>2, <1>4, <2>1, MidPlace
  <2>3. t[j] = d \/ \E o \in 1..Len(b) : t[j] = b[o]
    BY <2>2 DEF IsMid
  <2>4. CASE t[j] = d
    BY <2>4
  <2>5. ASSUME NEW o \in 1..Len(b), t[j] = b[o] PROVE k < t[j][1]
    <3>1. b[o] \in E /\ d[1] < b[o][1]
      BY DEF Divides
    <3>2. b[o][1] \in Int /\ d[1] \in Int
      BY <3>1 DEF Keyed
    <3> QED BY <2>5, <3>1, <3>2
  <2> QED BY <2>3, <2>4, <2>5
<1>5. \A j \in 1..Len(t) : t[j][1] \in Int
  BY DEF Keyed, IsMid
<1>6. Before(t, p, k)
  <2>1. p \in 0..Len(t)
    BY <1>2
  <2>2. ASSUME NEW j \in 1..p PROVE t[j][1] < k
    <3>1. j \in 1..Len(a)
      BY <1>2
    <3> QED BY <1>1, <1>3, <3>1 DEF Before
  <2>3. ASSUME NEW j \in (p + 1)..Len(t) PROVE k <= t[j][1]
    <3>1. CASE j \in 1..Len(a)
      <4>1. j \in (p + 1)..Len(a)
        BY <3>1
      <4> QED BY <1>1, <1>3, <3>1, <4>1 DEF Before
    <3>2. CASE ~(j \in 1..Len(a))
      <4>1. j \in 1..Len(t)
        BY <1>2
      <4> QED BY <1>4, <1>5, <3>2, <4>1
    <3> QED BY <3>1, <3>2
  <2> QED BY <2>1, <2>2, <2>3 DEF Before
<1>7. CASE r.found = TRUE /\ p < Len(a) /\ a[p + 1] = <<k, r.v>>
  <2>1. p + 1 \in 1..Len(a) /\ p < Len(t) /\ p \in 0..Len(t)
    BY <1>2, <1>7
  <2>2. t[p + 1] = <<k, r.v>>
    BY <1>3, <1>7, <2>1
  <2> QED BY <1>1, <1>6, <1>7, <2>1, <2>2 DEF Located
<1>8. CASE r.found = FALSE /\ \A j \in 1..Len(a) : a[j][1] /= k
  <2>1. \A j \in 1..Len(t) : t[j][1] /= k
    BY <1>3, <1>4, <1>5, <1>8
  <2>2. p \in 0..Len(t)
    BY <1>2
  <2> QED BY <1>1, <1>6, <1>8, <2>1, <2>2 DEF Located
<1> QED BY <1>1, <1>7, <1>8

LEMMA LocatedRight ==
  ASSUME NEW E, Keyed(E), NEW a \in Seq(E), NEW b \in Seq(E), NEW d \in E, NEW t, IsMid(t, a, d, b, E), Divides(d, a, b),
         NEW k \in Int, d[1] < k, NEW r, NEW i \in Int, Located(r, b, i + Len(a) + 1, k)
  PROVE  Located(r, t, i, k)
<1>1. PICK q \in 0..Len(b) :
        /\ Before(b, q, k) /\ r.idx = (i + Len(a) + 1) + q
        /\ \/ r.found = TRUE /\ q < Len(b) /\ b[q + 1] = <<k, r.v>>
           \/ r.found = FALSE /\ \A j \in 1..Len(b) : b[j][1] /= k
  BY DEF Located
<1>2. Len(a) \in Nat /\ Len(b) \in Nat /\ Len(t) = Len(a) + 1 + Len(b)
  BY DEF IsMid
<1>3. \A j \in 1..Len(b) : t[Len(a) + 1 + j] = b[j]
  BY DEF IsMid
<1>4. ASSUME NEW j \in 1..(Len(a) + 1) PROVE t[j][1] < k
  <2>1. CASE j \in 1..Len(a)
    <3>1. t[j] = a[j] /\ a[j] \in E /\ a[j][1] < d[1]
      BY <2>1 DEF IsMid, Divides
    <3>2. a[j][1] \in Int /\ d[1] \in Int
      BY <3>1 DEF Keyed
    <3> QED BY <3>1, <3>2
  <2>2. CASE j = Len(a) + 1
    BY <2>2 DEF IsMid
  <2> QED BY <1>2, <2>1, <2>2
<1>5. \A j \in 1..Len(t) : t[j][1] \in Int
  BY DEF Keyed, IsMid
<1> DEFINE p == Len(a) + 1 + q
<1>6. p \in 0..Len(t) /\ r.idx = i + p
  BY <1>1, <1>2
<1>7. ASSUME NEW j \in 1..Len(t), j > Len(a) + 1
      PROVE  j - Len(a) - 1 \in 1..Len(b) /\ t[j] = b[j - Len(a) - 1]
  <2> DEFINE o == j - Len(a) - 1
  <2>1. o \in 1..Len(b) /\ j = Len(a) + 1 + o
    BY <1>2, <1>7
  <2> HIDE DEF o
  <2>2. t[j] = b[o]
    BY <1>3, <2>1
  <2> QED BY <2>1, <2>2 DEF o
<1>8. Before(t, p, k)
  <2>1. ASSUME NEW j \in 1..p PROVE t[j][1] < k
    <3>1. CASE j <= Len(a) + 1
      <4>1. j \in 1..(Len(a) + 1)
        BY <3>1
      <4> QED BY <1>4, <4>1
    <3>2. CASE j > Len(a) + 1
      <4>1. j \in 1..Len(t) /\ j - Len(a) - 1 \in 1..q
        BY <1>2, <3>2
      <4>2. t[j] = b[j - Len(a) - 1]
        BY <1>7, <3>2, <4>1
      <4> QED BY <1>1, <4>1, <4>2 DEF Before
    <3> QED BY <1>2, <3>1, <3>2
  <2>2. ASSUME NEW j \in (p + 1)..Len(t) PROVE k <= t[j][1]
    <3>1. j \in 1..Len(t) /\ j > Len(a) + 1 /\ j - Len(a) - 1 \in (q + 1)..Len(b)
      BY <1>2
    <3>2. t[j] = b[j - Len(a) - 1]
      BY <1>7, <3>1
    <3> QED BY <1>1, <3>1, <3>2 DEF Before
  <2> HIDE DEF p
  <2> QED BY <1>6, <2>1, <2>2 DEF Before
<1>9. CASE r.found = TRUE /\ q < Len(b) /\ b[q + 1] = <<k, r.v>>
  <2>1. q + 1 \in 1..Len(b) /\ p < Len(t) /\ p + 1 = Len(a) + 1 + (q + 1)
    BY <1>2, <1>9
  <2>2. t[p + 1] = <<k, r.v>>
    BY <1>3, <1>9, <2>1
  <2> HIDE DEF p
  <2> QED BY <1>6, <1>8, <1>9, <2>1, <2>2 DEF Located
<1>10. CASE r.found = FALSE /\ \A j \in 1..Len(b) : b[j][1] /= k
  <2>1. ASSUME NEW j \in 1..Len(t) PROVE t[j][1] /= k
    <3>1. CASE j <= Len(a) + 1
      <4>1. j \in 1..(Len(a) + 1)
        BY <3>1
      <4> QED BY <1>4, <1>5, <4>1
    <3>2. CASE j > Len(a) + 1
      BY <1>7, <1>10, <3>2
    <3> QED BY <1>2, <3>1, <3>2
  <2> HIDE DEF p
  <2> QED BY <1>6, <1>8, <1>10, <2>1 DEF Located
<1> QED BY <1>1, <1>9, <1>10

LEMMA LocatedMid ==
  ASSUME NEW E, Keyed(E), NEW a \in Seq(E), NEW b \in Seq(E), NEW d \in E, NEW t, IsMid(t, a, d, b, E), Divides(d, a, b),
         NEW r, NEW i \in Int, NEW k \in Int, NEW v, d = <<k, v>>, r = [found |-> TRUE, idx |-> i + Len(a), v |-> v]
  PROVE  Located(r, t, i, k)
<1> DEFINE p == Len(a)
<1>1. p \in Nat /\ Len(b) \in Nat /\ Len(t) = p + 1 + Len(b) /\ p \in 0..Len(t) /\ p < Len(t)
  BY DEF IsMid
<1>2. t[p + 1] = <<k, r.v>> /\ r.idx = i + p /\ r.found = TRUE /\ d[1] = k
  BY DEF IsMid
<1>3. ASSUME NEW j \in 1..p PROVE t[j][1] < k
  <2>1. t[j] = a[j]
    BY DEF IsMid
  <2> QED BY <1>2, <2>1 DEF Divides
<1>4. ASSUME NEW j \in (p + 1)..Len(t) PROVE k <= t[j][1]
  <2>1. CASE j = p + 1
    BY <1>2, <2>1
  <2>2. CASE j > p + 1
    <3> DEFINE o == j - p - 1
    <3>1. o \in 1..Len(b) /\ j = Len(a) + 1 + o
      BY <1>1, <2>2
    <3> HIDE DEF o
    <3>2. t[j] = b[o] /\ b[o] \in E /\ k < b[o][1]
      BY <1>2, <3>1 DEF IsMid, Divides
    <3>3. b[o][1] \in Int
      BY <3>2 DEF Keyed
    <3> QED BY <3>2, <3>3
  <2> QED BY <1>1, <2>1, <2>2
<1> HIDE DEF p
<1> QED BY <1>1, <1>2, <1>3, <1>4 DEF Located, Before

LEMMA GetFromIs ==
  ASSUME NEW E, Keyed(E), NEW n, NEW s, Tree(n, s, E), Increasing(s), NEW k \in Int
  PROVE  Located(GetFrom(n, k, 0), s, 0, k)
<1> DEFINE get == CHOOSE f : FindsBy(f, n, k)
<1>1. FindsBy(get, n, k)
  BY GetFromExists, Zenon
<1>2. GetFrom(n, k, 0) = get[<<n, 0>>]
  BY Zenon DEF GetFrom, FindsBy
<1> HIDE DEF get
<1>3. ASSUME NEW m \in Subtrees(n), NEW i \in Int
      PROVE  get[<<m, i>>] = IF m = Nil THEN [found |-> FALSE, idx |-> i]
                             ELSE IF k < m.k THEN get[<<m.l, i>>]
                             ELSE IF m.k < k THEN get[<<m.r, i + m.l.sz + 1>>]
                             ELSE [found |-> TRUE, idx |-> i + m.l.sz, v |-> m.v]
  <2>1. <<m, i>> \in Subtrees(n) \X Int /\ <<m, i>>[1] = m /\ <<m, i>>[2] = i
    OBVIOUS
  <2> QED BY <1>1, <2>1, Zenon DEF FindsBy
<1> DEFINE P == {m \in Subtrees(n) : \A t : \A i \in Int :
                   Tree(m, t, E) /\ Increasing(t) => Located(get[<<m, i>>], t, i, k)}
<1>4. ASSUME NEW m \in Subtrees(n), m /= Nil => m.l \in P /\ m.r \in P PROVE m \in P
  <2> SUFFICES ASSUME NEW t, NEW i \in Int, Tree(m, t, E), Increasing(t) PROVE Located(get[<<m, i>>], t, i, k)
    OBVIOUS
  <2>1. CASE m = Nil
    <3> DEFINE r == [found |-> FALSE, idx |-> i]
    <3>1. get[<<m, i>>] = r
      BY <1>3, <2>1
    <3>2. Len(t) = 0
      BY <2>1, NilIs, EmptySeq
    <3>3. r.found = FALSE /\ r.idx = i + 0
      OBVIOUS
    <3> HIDE DEF r
    <3>4. Before(t, 0, k) /\ 0 \in 0..Len(t) /\ \A j \in 1..Len(t) : t[j][1] /= k
      BY <3>2 DEF Before
    <3> QED BY <3>1, <3>3, <3>4 DEF Located
  <2>2. CASE m /= Nil
    <3>1. PICK a, b : Parts(m, t, a, b, E)
      BY <2>2, TreeParts
    <3> DEFINE p == m.l
               q == m.r
               d == Data(m)
    <3>2. Tree(p, a, E) /\ Tree(q, b, E) /\ d \in E /\ t = Mid(a, d, b)
      BY <3>1, NodeIs
    <3>3. a \in Seq(E) /\ b \in Seq(E) /\ p.sz = Len(a) /\ Len(a) \in Nat /\ Len(b) \in Nat
      BY <3>1, PartsAre
    <3>4. p \in P /\ q \in P
      BY <1>4, <2>2
    <3>5. get[<<m, i>>] = IF k < m.k THEN get[<<p, i>>]
                          ELSE IF m.k < k THEN get[<<q, i + p.sz + 1>>]
                          ELSE [found |-> TRUE, idx |-> i + p.sz, v |-> m.v]
      BY <1>3, <2>2
    <3>6. d = <<m.k, m.v>> /\ d[1] = m.k
      BY DEF Data
    <3> HIDE DEF p, q, d
    <3>7. IsMid(t, a, d, b, E)
      BY <3>2, <3>3, MidIs
    <3>8. Increasing(a) /\ Increasing(b) /\ Divides(d, a, b)
      BY <3>2, <3>3, <3>7, IncreasingMid
    <3>9. m.k \in Int
      BY <3>2, <3>6 DEF Keyed
    <3>10. CASE k < m.k
      <4>1. Located(get[<<p, i>>], a, i, k)
        BY <3>2, <3>4, <3>8
      <4> QED BY <3>2, <3>3, <3>5, <3>6, <3>7, <3>8, <3>10, <4>1, LocatedLeft
    <3>11. CASE m.k < k
      <4> DEFINE j == i + Len(a) + 1
      <4>1. get[<<m, i>>] = get[<<q, j>>] /\ j \in Int
        BY <3>3, <3>5, <3>9, <3>11
      <4>2. Located(get[<<q, j>>], b, j, k)
        <5> HIDE DEF j
        <5> QED BY <3>2, <3>4, <3>8, <4>1
      <4> QED BY <3>2, <3>3, <3>6, <3>7, <3>8, <3>11, <4>1, <4>2, LocatedRight
    <3>12. CASE m.k = k
      <4>1. get[<<m, i>>] = [found |-> TRUE, idx |-> i + Len(a), v |-> m.v]
        BY <3>3, <3>5, <3>9, <3>12
      <4> QED BY <3>2, <3>3, <3>6, <3>7, <3>8, <3>12, <4>1, LocatedMid
    <3> QED BY <3>9, <3>10, <3>11, <3>12
  <2> QED BY <2>1, <2>2
<1>5. \A m \in Subtrees(n) : m \in P
  <2> HIDE DEF P
  <2> QED BY <1>4, HeightInduction
<1>6. n \in Subtrees(n)
  BY SubtreesAre
<1> QED BY <1>2, <1>5, <1>6

-----------------------------------------------------------------------------
(* BuildTree builds.                                                       *)

LEMMA HalfIs ==
  ASSUME NEW w \in Nat
  PROVE  w \div 2 \in Nat /\ 2 * (w \div 2) \in {w - 1, w} /\ (w > 0 => w \div 2 < w)
OBVIOUS

LEMMA HalvesAre ==
  ASSUME NEW a \in Int, NEW b \in Int, NEW v \in Int, NEW w \in Int,
         2 * a \in {v - 1, v}, 2 * b \in {w - 1, w}, w - v \in {0, 1}
  PROVE  b - a \in {0, 1} /\ (w = v => b = a)
OBVIOUS

\* The middle m of a range, whose size is w + 1 at most.
LEMMA MiddleIs ==
  ASSUME NEW N \in Nat, NEW lo \in 0..N, NEW hi \in 0..N, lo < hi, NEW w \in Nat, hi - lo <= w + 1,
         NEW m, m = lo + (hi - lo) \div 2
  PROVE  /\ m \in 0..N /\ m + 1 \in 0..N /\ lo <= m /\ m + 1 <= hi /\ m < hi /\ m \in Int
         /\ m - lo <= w /\ hi - (m + 1) <= w /\ (m - lo) - (hi - (m + 1)) \in {0, 1}
         /\ 2 * (m - lo) \in {hi - lo - 1, hi - lo}
<1> DEFINE v == hi - lo
           h == v \div 2
<1>1. v \in Nat /\ v > 0 /\ hi = lo + v /\ m = lo + h
  OBVIOUS
<1>2. h \in Nat /\ 2 * h \in {v - 1, v}
  BY <1>1, HalfIs
<1> HIDE DEF h, v
<1> QED BY <1>1, <1>2

\* The function in BuildTree: f is one.
BuildsBy(f, kvs) ==
  f = [range \in (0..Len(kvs)) \X (0..Len(kvs)) |->
         LET mid == range[1] + (range[2] - range[1]) \div 2
             n == Assign(Assign(NewNode(kvs[mid + 1][1], kvs[mid + 1][2]),
                                "l", f[<<range[1], mid>>]),
                         "r", f[<<mid + 1, range[2]>>])
         IN  IF range[1] < range[2] THEN FixHSZ(Asserted(n, n.l.h - n.r.h \in {0, 1})) ELSE Nil]

LEMMA BuildExists ==
  ASSUME NEW E, NEW kvs \in Seq(E)
  PROVE  \E f : BuildsBy(f, kvs)
<1> DEFINE N == Len(kvs)
           D == (0..Len(kvs)) \X (0..Len(kvs))
           Rank(x) == IF x[1] <= x[2] THEN x[2] - x[1] ELSE 0
           Body(f, x) ==
             LET mid == x[1] + (x[2] - x[1]) \div 2
                 n == Assign(Assign(NewNode(kvs[mid + 1][1], kvs[mid + 1][2]),
                                    "l", f[<<x[1], mid>>]),
                             "r", f[<<mid + 1, x[2]>>])
             IN  IF x[1] < x[2] THEN FixHSZ(Asserted(n, n.l.h - n.r.h \in {0, 1})) ELSE Nil
<1>1. ASSUME NEW f, NEW g, NEW x \in D, \A y \in D : Rank(y) < Rank(x) => f[y] = g[y]
      PROVE  Body(f, x) = Body(g, x)
  <2>1. CASE x[1] < x[2]
    <3> DEFINE w == x[2] - x[1]
               mid == x[1] + w \div 2
               y == <<x[1], mid>>
               z == <<mid + 1, x[2]>>
    <3>1. w \in Nat /\ w > 0
      BY <2>1
    <3>2. w \div 2 \in Nat /\ w \div 2 < w
      BY <3>1, HalfIs
    <3>3. mid \in Int /\ x[1] <= mid /\ mid < x[2]
      BY <3>2
    <3>4. y \in D /\ z \in D
      BY <3>3
    <3>5. Rank(y) < Rank(x) /\ Rank(z) < Rank(x)
      BY <2>1, <3>3, SMTT(40)
    <3>6. f[y] = g[y] /\ f[z] = g[z]
      BY <1>1, <3>4, <3>5
    <3> QED BY <3>6, Zenon
  <2>2. CASE ~(x[1] < x[2])
    BY <2>2
  <2> QED BY <2>1, <2>2
<1>2. N \in Nat /\ \A x \in D : Rank(x) \in 0..N
  OBVIOUS
<1> DEFINE Upto(f, j) == f = [x \in D |-> f[x]] /\ \A x \in D : Rank(x) < j => f[x] = Body(f, x)
           Good == {j \in Nat : \E f : Upto(f, j)}
<1> HIDE DEF Body, Rank, D
<1>3. 0 \in Good
  <2>1. Upto([x \in D |-> {}], 0)
    BY <1>2
  <2> QED BY <2>1
<1>4. ASSUME NEW j \in Nat, j \in Good PROVE j + 1 \in Good
  <2>1. PICK f : Upto(f, j)
    BY <1>4
  <2> DEFINE g == [x \in D |-> Body(f, x)]
  <2>2. g = [x \in D |-> g[x]] /\ \A x \in D : g[x] = Body(f, x)
    OBVIOUS
  <2> HIDE DEF g
  <2>3. ASSUME NEW x \in D, Rank(x) < j + 1 PROVE Body(f, x) = Body(g, x)
    <3>1. \A y \in D : Rank(y) < Rank(x) => Rank(y) < j
      BY <1>2, <2>3
    <3>2. \A y \in D : Rank(y) < Rank(x) => f[y] = g[y]
      BY <2>1, <2>2, <3>1
    <3> QED BY <1>1, <3>2
  <2>4. Upto(g, j + 1)
    BY <2>2, <2>3
  <2> HIDE DEF Upto
  <2> QED BY <2>4
<1>5. N + 1 \in Good
  <2> HIDE DEF Good
  <2> QED BY <1>2, <1>4, <1>3, InductionNat
<1>6. PICK f : Upto(f, N + 1)
  BY <1>5
<1>7. \A x \in D : f[x] = Body(f, x)
  BY <1>2, <1>6
<1>8. f = [x \in D |-> Body(f, x)]
  BY <1>6, <1>7
<1> QED BY <1>8, Zenon DEF Body, D, BuildsBy

LEMMA SliceIs ==
  ASSUME NEW E, NEW s \in Seq(E), NEW i \in 0..Len(s), NEW j \in i..Len(s)
  PROVE  /\ SubSeq(s, i + 1, j) \in Seq(E)
         /\ Len(SubSeq(s, i + 1, j)) = j - i
         /\ \A o \in 1..(j - i) : SubSeq(s, i + 1, j)[o] = s[i + o]
<1>1. Len(s) \in Nat /\ i \in Nat /\ j \in Nat /\ i <= j /\ j <= Len(s) /\ \A o \in 1..Len(s) : s[o] \in E
  OBVIOUS
<1> QED BY <1>1

LEMMA SliceMid ==
  ASSUME NEW E, NEW s \in Seq(E), NEW i \in 0..Len(s), NEW j \in 0..Len(s), NEW m \in Int, i <= m, m < j
  PROVE  SubSeq(s, i + 1, j) = Mid(SubSeq(s, i + 1, m), s[m + 1], SubSeq(s, (m + 1) + 1, j)) /\ s[m + 1] \in E
<1> DEFINE a == SubSeq(s, i + 1, m)
           b == SubSeq(s, (m + 1) + 1, j)
           t == SubSeq(s, i + 1, j)
<1>1. Len(s) \in Nat /\ m \in i..Len(s) /\ j \in i..Len(s) /\ m + 1 \in 0..Len(s) /\ j \in (m + 1)..Len(s)
  OBVIOUS
<1>2. /\ a \in Seq(E) /\ Len(a) = m - i /\ \A o \in 1..(m - i) : a[o] = s[i + o]
      /\ t \in Seq(E) /\ Len(t) = j - i /\ \A o \in 1..(j - i) : t[o] = s[i + o]
  BY <1>1, SliceIs
<1>3. b \in Seq(E) /\ Len(b) = j - (m + 1) /\ \A o \in 1..(j - (m + 1)) : b[o] = s[(m + 1) + o]
  BY <1>1, SliceIs
<1>4. s[m + 1] \in E
  <2>1. m + 1 \in 1..Len(s)
    BY <1>1
  <2> QED BY <2>1
<1> HIDE DEF a, b, t
<1>5. IsMid(t, a, s[m + 1], b, E)
  <2>1. Len(t) = Len(a) + 1 + Len(b)
    BY <1>1, <1>2, <1>3
  <2>2. \A o \in 1..Len(a) : t[o] = a[o]
    BY <1>1, <1>2
  <2>3. t[Len(a) + 1] = s[m + 1]
    <3>1. Len(a) + 1 \in 1..(j - i) /\ i + (Len(a) + 1) = m + 1
      BY <1>1, <1>2
    <3> QED BY <1>2, <3>1
  <2>4. ASSUME NEW o \in 1..Len(b) PROVE t[Len(a) + 1 + o] = b[o]
    <3>1. Len(a) + 1 + o \in 1..(j - i) /\ i + (Len(a) + 1 + o) = (m + 1) + o /\ o \in 1..(j - (m + 1))
      BY <1>1, <1>2, <1>3
    <3>2. t[Len(a) + 1 + o] = s[i + (Len(a) + 1 + o)]
      BY <1>2, <3>1
    <3>3. b[o] = s[(m + 1) + o]
      BY <1>3, <3>1
    <3> QED BY <3>1, <3>2, <3>3
  <2> QED BY <1>2, <2>1, <2>2, <2>3, <2>4 DEF IsMid
<1>6. t = Mid(a, s[m + 1], b)
  BY <1>2, <1>3, <1>4, <1>5, MidUnique
<1> QED BY <1>4, <1>6 DEF a, b, t

\* The root of a range with the children x and y.
LEMMA BuildNode ==
  ASSUME NEW E, NEW e \in E, e = <<e[1], e[2]>>, NEW x, NEW y, NEW a, NEW b, Tree(x, a, E), Tree(y, b, E),
         x.h - y.h \in {0, 1},
         NEW n, n = Assign(Assign(NewNode(e[1], e[2]), "l", x), "r", y)
  PROVE  TreeIn(FixHSZ(Asserted(n, n.l.h - n.r.h \in {0, 1})), Mid(a, e, b), {x.h + 1}, E)
<1>1. x.h \in Nat /\ y.h \in Nat /\ Opposite("l", "r")
  BY TreeType DEF Opposite
<1> DEFINE c == NewNode(e[1], e[2])
<1>2. Fresh(c, "l", Nil, Nil, e)
  <2>1. /\ c = [f \in NodeField |-> c[f]]
        /\ c.k = e[1] /\ c.v = e[2] /\ c.l = Nil /\ c.r = Nil /\ c.own = TRUE /\ c.ok = TRUE
    BY DEF NewNode, NodeField
  <2> HIDE DEF c
  <2> QED BY <2>1 DEF Fresh, Opposite, IsNode, Data
<1> HIDE DEF c
<1> DEFINE c1 == Assign(c, "l", x)
<1>3. Fresh(c1, "l", x, Nil, e)
  BY <1>1, <1>2, AssignSide, Zenon
<1> HIDE DEF c1
<1>4. Fresh(n, "l", x, y, e)
  <2>1. Fresh(Assign(c1, "r", y), "l", x, y, e)
    BY <1>1, <1>3, AssignOther, Zenon
  <2> QED BY <2>1 DEF c, c1
<1>5. n.l = x /\ n.r = y
  BY <1>1, <1>4, FreshSides, Zenon
<1> DEFINE assertion == n.l.h - n.r.h \in {0, 1}
<1>6. assertion = TRUE
  BY <1>5
<1> HIDE DEF assertion
<1>7. Asserted(n, assertion) = n
  BY <1>4, <1>6, AssertedIs
<1>8. Near(x, y) /\ Higher(x, y) = x.h
  BY <1>1 DEF Near, Higher
<1>9. Root(FixHSZ(n), Around("l", a, e, b), Higher(x, y) + 1, E)
  BY <1>1, <1>4, <1>8, FixTree, Zenon
<1> QED BY <1>7, <1>8, <1>9 DEF assertion, Root, TreeIn, Around

LEMMA BuildIs ==
  ASSUME NEW E, NEW kvs \in Seq(E), \A e \in E : e = <<e[1], e[2]>>
  PROVE  Tree(BuildTree(kvs), kvs, E)
<1> DEFINE N == Len(kvs)
           build == CHOOSE f : BuildsBy(f, kvs)
           Elements(lo, hi) == SubSeq(kvs, lo + 1, hi)
<1>1. BuildsBy(build, kvs)
  BY BuildExists, Zenon
<1>2. BuildTree(kvs) = build[<<0, Len(kvs)>>]
  BY Zenon DEF BuildTree, BuildsBy
<1> HIDE DEF build
<1>3. ASSUME NEW lo \in 0..N, NEW hi \in 0..N
      PROVE  build[<<lo, hi>>] =
               LET mid == lo + (hi - lo) \div 2
                   n == Assign(Assign(NewNode(kvs[mid + 1][1], kvs[mid + 1][2]),
                                      "l", build[<<lo, mid>>]),
                               "r", build[<<mid + 1, hi>>])
               IN  IF lo < hi THEN FixHSZ(Asserted(n, n.l.h - n.r.h \in {0, 1})) ELSE Nil
  <2>1. <<lo, hi>> \in (0..Len(kvs)) \X (0..Len(kvs)) /\ <<lo, hi>>[1] = lo /\ <<lo, hi>>[2] = hi
    OBVIOUS
  <2> QED BY <1>1, <2>1, Zenon DEF BuildsBy
<1> DEFINE
      Trees(w) == \A lo, hi \in 0..N : lo <= hi /\ hi - lo <= w => Tree(build[<<lo, hi>>], Elements(lo, hi), E)
      \* Heights of ranges of which the second is not shorter, and one longer at most.
      Heights(w) == \A lo, hi, lo2, hi2 \in 0..N :
                      /\ lo <= hi /\ hi - lo <= w
                      /\ lo2 <= hi2 /\ hi2 - lo2 <= w
                      /\ (hi2 - lo2) - (hi - lo) \in {0, 1}
                      => /\ build[<<lo2, hi2>>].h - build[<<lo, hi>>].h \in {0, 1}
                         /\ hi2 - lo2 = hi - lo => build[<<lo2, hi2>>].h = build[<<lo, hi>>].h
      Good == {w \in Nat : Trees(w) /\ Heights(w)}
      Child(lo, hi) == build[<<lo, lo + (hi - lo) \div 2>>]
<1>4. N \in Nat
  OBVIOUS
<1>5. ASSUME NEW lo \in 0..N PROVE build[<<lo, lo>>] = Nil /\ Elements(lo, lo) = <<>>
  <2>1. build[<<lo, lo>>] = Nil
    <3>1. ~(lo < lo)
      BY <1>4
    <3> QED BY <1>3, <3>1, Zenon
  <2>2. Elements(lo, lo) = <<>>
    BY SliceIs, EmptySeq
  <2> QED BY <2>1, <2>2
<1>6. ASSUME NEW w \in Nat, Trees(w), Heights(w), NEW lo \in 0..N, NEW hi \in 0..N, lo < hi, hi - lo <= w + 1
      PROVE  TreeIn(build[<<lo, hi>>], Elements(lo, hi), {Child(lo, hi).h + 1}, E)
  <2> DEFINE v == hi - lo
             mid == lo + v \div 2
             x == build[<<lo, mid>>]
             y == build[<<mid + 1, hi>>]
             e == kvs[mid + 1]
             n == Assign(Assign(NewNode(e[1], e[2]), "l", x), "r", y)
  <2>3. /\ mid \in 0..N /\ mid + 1 \in 0..N /\ lo <= mid /\ mid + 1 <= hi /\ mid < hi /\ mid \in Int
        /\ mid - lo <= w /\ hi - (mid + 1) <= w /\ (mid - lo) - (hi - (mid + 1)) \in {0, 1}
    <3> HIDE DEF mid
    <3>1. mid = lo + (hi - lo) \div 2
      BY DEF mid
    <3> HIDE DEF v
    <3> QED BY <1>4, <1>6, <3>1, MiddleIs, SMTT(40)
  <2>4. build[<<lo, hi>>] = FixHSZ(Asserted(n, n.l.h - n.r.h \in {0, 1}))
    BY <1>3, <1>6, Zenon
  <2>5. Child(lo, hi) = x
    OBVIOUS
  <2> HIDE DEF v, mid
  <2>6. Tree(x, Elements(lo, mid), E) /\ Tree(y, Elements(mid + 1, hi), E)
    BY <1>6, <2>3
  <2>7. x.h - y.h \in {0, 1}
    BY <1>6, <2>3
  <2>8. Elements(lo, hi) = Mid(Elements(lo, mid), e, Elements(mid + 1, hi)) /\ e \in E
    BY <2>3, SliceMid
  <2>9. e = <<e[1], e[2]>>
    BY <2>8
  <2> HIDE DEF x, y, e, Elements, Child, n
  <2>10. n = Assign(Assign(NewNode(e[1], e[2]), "l", x), "r", y)
    BY DEF n
  <2>11. TreeIn(FixHSZ(Asserted(n, n.l.h - n.r.h \in {0, 1})), Mid(Elements(lo, mid), e, Elements(mid + 1, hi)), {x.h + 1}, E)
    BY <2>6, <2>7, <2>8, <2>9, <2>10, BuildNode
  <2> QED BY <2>4, <2>5, <2>8, <2>11
<1>7. 0 \in Good
  <2>1. ASSUME NEW lo \in 0..N, NEW hi \in 0..N, lo <= hi, hi - lo <= 0
        PROVE  build[<<lo, hi>>] = Nil /\ Elements(lo, hi) = <<>>
    <3>1. hi = lo
      BY <2>1
    <3> HIDE DEF Elements
    <3> QED BY <1>5, <3>1
  <2>2. Trees(0)
    BY <2>1, TreeNil
  <2>3. Heights(0)
    <3> HIDE DEF Elements
    <3> SUFFICES ASSUME NEW lo \in 0..N, NEW hi \in 0..N, NEW lo2 \in 0..N, NEW hi2 \in 0..N,
                        lo <= hi, hi - lo <= 0, lo2 <= hi2, hi2 - lo2 <= 0
                 PROVE  build[<<lo2, hi2>>].h = build[<<lo, hi>>].h /\ build[<<lo, hi>>].h = 0
      <4>1. \A i, j : i = 0 /\ j = 0 => i - j \in {0, 1}
        OBVIOUS
      <4> QED BY <4>1, ZenonT(40)
    <3> QED BY <2>1 DEF Nil
  <2> HIDE DEF Trees, Heights
  <2> QED BY <2>2, <2>3
<1>8. ASSUME NEW w \in Nat, Trees(w), Heights(w) PROVE Trees(w + 1) /\ Heights(w + 1)
  <2>1. ASSUME NEW lo \in 0..N, NEW hi \in 0..N, lo <= hi, hi - lo <= w + 1
        PROVE  Tree(build[<<lo, hi>>], Elements(lo, hi), E)
    <3>1. CASE lo < hi
      BY <1>6, <1>8, <2>1, <3>1 DEF TreeIn
    <3>2. CASE lo = hi
      <4> HIDE DEF Elements
      <4> QED BY <1>5, <3>2, TreeNil
    <3> QED BY <1>4, <2>1, <3>1, <3>2
  <2>2. ASSUME NEW lo \in 0..N, NEW hi \in 0..N, NEW lo2 \in 0..N, NEW hi2 \in 0..N,
               lo <= hi, hi - lo <= w + 1, lo2 <= hi2, hi2 - lo2 <= w + 1,
               (hi2 - lo2) - (hi - lo) \in {0, 1}
        PROVE  /\ build[<<lo2, hi2>>].h - build[<<lo, hi>>].h \in {0, 1}
               /\ hi2 - lo2 = hi - lo => build[<<lo2, hi2>>].h = build[<<lo, hi>>].h
    <3>1. CASE lo = hi /\ lo2 = hi2
      BY <1>5, <3>1 DEF Nil
    <3>2. CASE lo = hi /\ lo2 < hi2
      <4>1. hi2 = lo2 + 1 /\ (hi2 - lo2) \div 2 = 0
        BY <1>4, <2>2, <3>2
      <4>2. Child(lo2, hi2) = Nil
        BY <1>5, <4>1
      <4>3. build[<<lo2, hi2>>].h = Nil.h + 1
        BY <1>6, <1>8, <2>2, <3>2, <4>2, ZenonT(40) DEF TreeIn
      <4>4. build[<<lo, hi>>] = Nil
        BY <1>5, <3>2
      <4> QED BY <3>2, <4>1, <4>3, <4>4 DEF Nil
    <3>3. CASE lo < hi
      <4>1. lo2 < hi2
        BY <1>4, <2>2, <3>3
      <4>2. build[<<lo, hi>>].h = Child(lo, hi).h + 1 /\ build[<<lo2, hi2>>].h = Child(lo2, hi2).h + 1
        BY <1>6, <1>8, <2>2, <3>3, <4>1, ZenonT(40) DEF TreeIn
      <4> DEFINE m == lo + (hi - lo) \div 2
                 o == lo2 + (hi2 - lo2) \div 2
      <4>3. /\ m \in 0..N /\ m \in Int /\ lo <= m /\ m - lo <= w /\ 2 * (m - lo) \in {hi - lo - 1, hi - lo}
            /\ o \in 0..N /\ o \in Int /\ lo2 <= o /\ o - lo2 <= w /\ 2 * (o - lo2) \in {hi2 - lo2 - 1, hi2 - lo2}
        <5> HIDE DEF m, o
        <5>1. m = lo + (hi - lo) \div 2 /\ o = lo2 + (hi2 - lo2) \div 2
          BY DEF m, o
        <5>2. m \in 0..N /\ m \in Int /\ lo <= m /\ m - lo <= w /\ 2 * (m - lo) \in {hi - lo - 1, hi - lo}
          BY <1>4, <2>2, <3>3, <5>1, MiddleIs, ZenonT(40)
        <5>3. o \in 0..N /\ o \in Int /\ lo2 <= o /\ o - lo2 <= w /\ 2 * (o - lo2) \in {hi2 - lo2 - 1, hi2 - lo2}
          <6>1. lo2 < hi2 /\ hi2 - lo2 <= w + 1 /\ N \in Nat /\ o = lo2 + (hi2 - lo2) \div 2
            BY <1>4, <2>2, <4>1, <5>1
          <6> HIDE DEF N
          <6> QED BY <6>1, MiddleIs
        <5> QED BY <5>2, <5>3
      <4>4. (o - lo2) - (m - lo) \in {0, 1} /\ (hi2 - lo2 = hi - lo => o - lo2 = m - lo)
        <5> HIDE DEF m, o
        <5>1. m - lo \in Int /\ o - lo2 \in Int /\ hi - lo \in Int /\ hi2 - lo2 \in Int
          BY <4>3, SMTT(40)
        <5> QED BY <2>2, <4>3, <5>1, HalvesAre
      <4>5. Child(lo, hi) = build[<<lo, m>>] /\ Child(lo2, hi2) = build[<<lo2, o>>]
        OBVIOUS
      <4>6. Tree(build[<<lo, m>>], Elements(lo, m), E) /\ Tree(build[<<lo2, o>>], Elements(lo2, o), E)
        <5> HIDE DEF m, o, Elements
        <5> QED BY <1>8, <4>3
      <4>7. /\ build[<<lo2, o>>].h - build[<<lo, m>>].h \in {0, 1}
            /\ hi2 - lo2 = hi - lo => build[<<lo2, o>>].h = build[<<lo, m>>].h
        <5> HIDE DEF m, o
        <5> QED BY <1>8, <4>3, <4>4
      <4>8. build[<<lo, m>>].h \in Nat /\ build[<<lo2, o>>].h \in Nat
        BY <4>6, TreeType
      <4> HIDE DEF m, o, Child
      <4>9. ASSUME NEW i \in Nat, NEW j \in Nat, j - i \in {0, 1} PROVE (j + 1) - (i + 1) \in {0, 1}
        BY <4>9
      <4> DEFINE p == build[<<lo2, o>>].h
                 q == build[<<lo, m>>].h
      <4>10. p \in Nat /\ q \in Nat /\ p - q \in {0, 1} /\ (hi2 - lo2 = hi - lo => p = q)
        BY <4>7, <4>8
      <4>11. build[<<lo, hi>>].h = q + 1 /\ build[<<lo2, hi2>>].h = p + 1
        BY <4>2, <4>5
      <4> HIDE DEF p, q
      <4>12. (p + 1) - (q + 1) \in {0, 1}
        BY <4>9, <4>10
      <4> QED BY <4>10, <4>11, <4>12
    <3> QED BY <1>4, <2>2, <3>1, <3>2, <3>3
  <2>3. Trees(w + 1)
    <3> HIDE DEF Elements
    <3> QED BY <2>1
  <2>4. Heights(w + 1)
    BY <2>2, SMTT(40)
  <2> HIDE DEF Trees, Heights
  <2> QED BY <2>3, <2>4
<1>9. \A w \in Nat : w \in Good
  <2>1. \A w \in Nat : w \in Good => w + 1 \in Good
    <3> SUFFICES ASSUME NEW w \in Nat, w \in Good PROVE w + 1 \in Good
      OBVIOUS
    <3>1. Trees(w) /\ Heights(w)
      OBVIOUS
    <3>2. Trees(w + 1) /\ Heights(w + 1) /\ w + 1 \in Nat
      <4> HIDE DEF Trees, Heights
      <4> QED BY <1>8, <3>1
    <3> HIDE DEF Trees, Heights
    <3> QED BY <3>2
  <2> HIDE DEF Good
  <2> QED BY <1>7, <2>1, InductionNat
<1>10. Tree(build[<<0, N>>], Elements(0, N), E)
  <2>1. Trees(N)
    <3> HIDE DEF Trees, Heights
    <3> QED BY <1>4, <1>9
  <2>2. 0 \in 0..N /\ N \in 0..N /\ 0 <= N /\ N - 0 <= N
    BY <1>4
  <2> HIDE DEF Elements
  <2> QED BY <2>1, <2>2
<1>11. Elements(0, N) = kvs
  <2>1. /\ Elements(0, N) \in Seq(E) /\ Len(Elements(0, N)) = N
        /\ \A o \in 1..N : Elements(0, N)[o] = kvs[o]
    BY <1>4, SliceIs
  <2> HIDE DEF Elements
  <2> QED BY <2>1, SeqEqual
<1> QED BY <1>2, <1>10, <1>11

-----------------------------------------------------------------------------
(* Pairs in order, and the function that they stand for.                   *)

\* ref is the function of the pairs s.
Agrees(s, ref) ==
  /\ DOMAIN ref = {s[i][1] : i \in 1..Len(s)}
  /\ \A i \in 1..Len(s) : ref[s[i][1]] = s[i][2]

\* The function ref with another value of k, and without k.
Put(ref, k, v) == [j \in DOMAIN ref \cup {k} |-> IF j = k THEN v ELSE ref[j]]
TakenOut(ref, k) == [j \in DOMAIN ref \ {k} |-> ref[j]]

LEMMA InsertPlaces ==
  ASSUME NEW E, NEW s \in Seq(E), NEW u, NEW p, NEW x, IsInsert(u, s, p, x, E)
  PROVE  /\ Len(u) = Len(s) + 1 /\ p \in 0..Len(s) /\ Len(s) \in Nat
         /\ \A i \in 1..Len(u) : \/ i \in 1..p /\ i \in 1..Len(s) /\ u[i] = s[i]
                                 \/ i = p + 1 /\ u[i] = x
                                 \/ i - 1 \in (p + 1)..Len(s) /\ i - 1 \in 1..Len(s) /\ u[i] = s[i - 1]
<1>1. Len(u) = Len(s) + 1 /\ p \in 0..Len(s) /\ Len(s) \in Nat
  BY DEF IsInsert
<1>2. ASSUME NEW i \in 1..Len(u)
      PROVE  \/ i \in 1..p /\ i \in 1..Len(s) /\ u[i] = s[i]
             \/ i = p + 1 /\ u[i] = x
             \/ i - 1 \in (p + 1)..Len(s) /\ i - 1 \in 1..Len(s) /\ u[i] = s[i - 1]
  <2>1. CASE i <= p
    BY <1>1, <2>1 DEF IsInsert
  <2>2. CASE i = p + 1
    BY <1>1, <2>2 DEF IsInsert
  <2>3. CASE i > p + 1
    <3> DEFINE j == i - 1
    <3>1. j \in (p + 1)..Len(s) /\ j \in 1..Len(s) /\ i = j + 1
      BY <1>1, <2>3
    <3>2. u[j + 1] = s[j]
      <4> HIDE DEF j
      <4> QED BY <3>1 DEF IsInsert
    <3> QED BY <3>1, <3>2
  <2> QED BY <1>1, <2>1, <2>2, <2>3
<1> QED BY <1>1, <1>2

LEMMA InsertKey ==
  ASSUME NEW E, Keyed(E), NEW s \in Seq(E), Increasing(s), NEW p, NEW k \in Int, NEW v, Before(s, p, k),
         \A j \in 1..Len(s) : s[j][1] /= k, NEW u, IsInsert(u, s, p, <<k, v>>, E),
         NEW ref, Agrees(s, ref)
  PROVE  Increasing(u) /\ Agrees(u, Put(ref, k, v))
<1> DEFINE x == <<k, v>>
           new == Put(ref, k, v)
<1>1. /\ Len(u) = Len(s) + 1 /\ p \in 0..Len(s) /\ Len(s) \in Nat
      /\ \A i \in 1..Len(u) : \/ i \in 1..p /\ i \in 1..Len(s) /\ u[i] = s[i]
                              \/ i = p + 1 /\ u[i] = x
                              \/ i - 1 \in (p + 1)..Len(s) /\ i - 1 \in 1..Len(s) /\ u[i] = s[i - 1]
  BY InsertPlaces
<1>2. x[1] = k /\ x[2] = v
  OBVIOUS
<1> HIDE DEF x
<1>3. \A i \in 1..Len(s) : s[i][1] \in Int /\ s[i][1] \in DOMAIN ref
  BY DEF Keyed, Agrees
<1>4. /\ \A i \in 1..p : s[i][1] < k
      /\ \A i \in (p + 1)..Len(s) : i \in 1..Len(s) /\ k < s[i][1]
  <2>1. \A i \in (p + 1)..Len(s) : i \in 1..Len(s) /\ k <= s[i][1] /\ s[i][1] /= k
    BY <1>1 DEF Before
  <2> QED BY <1>3, <2>1 DEF Before
<1>5. ASSUME NEW i \in 1..Len(u), NEW j \in 1..Len(u), i < j PROVE u[i][1] < u[j][1]
  <2>1. CASE i \in 1..p /\ i \in 1..Len(s) /\ u[i] = s[i]
    <3>1. CASE j \in 1..Len(s) /\ u[j] = s[j]
      BY <1>5, <2>1, <3>1 DEF Increasing
    <3>2. CASE u[j] = x
      BY <1>2, <1>4, <2>1, <3>2
    <3>3. CASE j - 1 \in (p + 1)..Len(s) /\ j - 1 \in 1..Len(s) /\ u[j] = s[j - 1]
      <4>1. i < j - 1
        BY <1>1, <2>1, <3>3
      <4> QED BY <2>1, <3>3, <4>1 DEF Increasing
    <3> QED BY <1>1, <3>1, <3>2, <3>3
  <2>2. CASE i = p + 1 /\ u[i] = x
    <3>1. j - 1 \in (p + 1)..Len(s) /\ u[j] = s[j - 1]
      BY <1>1, <1>5, <2>2
    <3> QED BY <1>2, <1>4, <2>2, <3>1
  <2>3. CASE i - 1 \in (p + 1)..Len(s) /\ i - 1 \in 1..Len(s) /\ u[i] = s[i - 1]
    <3>1. j - 1 \in 1..Len(s) /\ u[j] = s[j - 1] /\ i - 1 < j - 1
      BY <1>1, <1>5, <2>3
    <3> QED BY <2>3, <3>1 DEF Increasing
  <2> QED BY <1>1, <2>1, <2>2, <2>3
<1>6. DOMAIN new = DOMAIN ref \cup {k}
  BY DEF Put
<1>7. \A i \in 1..Len(s) : new[s[i][1]] = s[i][2]
  BY <1>3 DEF Agrees, Put
<1>8. new[k] = v
  BY DEF Put
<1> HIDE DEF new
<1>9. ASSUME NEW i \in 1..Len(u) PROVE u[i][1] \in DOMAIN new /\ new[u[i][1]] = u[i][2]
  <2>1. u[i] = x \/ \E j \in 1..Len(s) : u[i] = s[j]
    BY <1>1
  <2> QED BY <1>2, <1>3, <1>6, <1>7, <1>8, <2>1
<1>10. ASSUME NEW j \in DOMAIN new PROVE \E i \in 1..Len(u) : u[i][1] = j
  <2>1. CASE j = k
    <3>1. p + 1 \in 1..Len(u) /\ u[p + 1] = x
      BY <1>1 DEF IsInsert, x
    <3> QED BY <1>2, <2>1, <3>1
  <2>2. CASE j /= k
    <3>1. PICK i \in 1..Len(s) : s[i][1] = j
      BY <1>6, <2>2 DEF Agrees
    <3>2. CASE i <= p
      <4>1. i \in 1..p /\ i \in 1..Len(u)
        BY <1>1, <3>2
      <4> QED BY <3>1, <4>1 DEF IsInsert
    <3>3. CASE i > p
      <4>1. i \in (p + 1)..Len(s) /\ i + 1 \in 1..Len(u)
        BY <1>1, <3>3
      <4> QED BY <3>1, <4>1 DEF IsInsert
    <3> QED BY <1>1, <3>2, <3>3
  <2> QED BY <2>1, <2>2
<1>11. Agrees(u, new)
  BY <1>9, <1>10, ZenonT(40) DEF Agrees
<1> QED BY <1>5, <1>11 DEF Increasing, new

LEMMA ReplaceValue ==
  ASSUME NEW E, Keyed(E), NEW s \in Seq(E), Increasing(s), NEW p \in 0..(Len(s) - 1), NEW k, NEW v, s[p + 1][1] = k,
         NEW u, IsReplace(u, s, p, <<k, v>>, E), NEW ref, Agrees(s, ref)
  PROVE  Increasing(u) /\ Agrees(u, Put(ref, k, v))
<1> DEFINE x == <<k, v>>
           new == Put(ref, k, v)
<1>1. x[1] = k /\ x[2] = v
  OBVIOUS
<1> HIDE DEF x
<1>2. /\ Len(u) = Len(s) /\ Len(s) \in Nat /\ p + 1 \in 1..Len(s)
      /\ \A i \in 1..Len(s) : IF i = p + 1 THEN u[i] = x ELSE u[i] = s[i]
  BY DEF IsReplace, x
<1>3. \A i \in 1..Len(s) : u[i][1] = s[i][1]
  BY <1>1, <1>2
<1>4. Increasing(u)
  BY <1>2, <1>3 DEF Increasing
<1>5. k \in DOMAIN ref /\ \A i \in 1..Len(s) : s[i][1] \in DOMAIN ref /\ ref[s[i][1]] = s[i][2]
  BY <1>2 DEF Agrees
<1>6. DOMAIN new = DOMAIN ref /\ \A j \in DOMAIN ref : new[j] = IF j = k THEN v ELSE ref[j]
  BY <1>5 DEF Put
<1> HIDE DEF new
<1>7. ASSUME NEW i \in 1..Len(u) PROVE new[u[i][1]] = u[i][2]
  <2>1. CASE i = p + 1
    BY <1>1, <1>2, <1>5, <1>6, <2>1
  <2>2. CASE i /= p + 1
    <3>1. u[i] = s[i] /\ s[i][1] /= k
      <4>1. s[i][1] \in Int /\ k \in Int
        BY <1>2 DEF Keyed
      <4>2. i < p + 1 \/ p + 1 < i
        BY <1>2, <2>2
      <4>3. s[i][1] < k \/ k < s[i][1]
        BY <1>2, <4>2 DEF Increasing
      <4> QED BY <1>2, <2>2, <4>1, <4>3
    <3> QED BY <1>2, <1>5, <1>6, <3>1
  <2> QED BY <2>1, <2>2
<1>8. \A i \in 1..Len(u) : u[i][1] \in DOMAIN new
  BY <1>2, <1>3, <1>5, <1>6
<1>9. ASSUME NEW j \in DOMAIN new PROVE \E i \in 1..Len(u) : u[i][1] = j
  BY <1>2, <1>3, <1>6 DEF Agrees
<1>10. Agrees(u, new)
  BY <1>7, <1>8, <1>9 DEF Agrees
<1> QED BY <1>4, <1>10 DEF new

LEMMA RemoveKey ==
  ASSUME NEW E, Keyed(E), NEW s \in Seq(E), Increasing(s), NEW p \in 0..(Len(s) - 1), NEW k, s[p + 1][1] = k,
         NEW u, IsRemove(u, s, p, E), NEW ref, Agrees(s, ref)
  PROVE  Increasing(u) /\ Agrees(u, TakenOut(ref, k))
<1> DEFINE new == TakenOut(ref, k)
<1>1. Len(u) = Len(s) - 1 /\ Len(s) \in Nat /\ p + 1 \in 1..Len(s)
  BY DEF IsRemove
<1>2. ASSUME NEW i \in 1..Len(u)
      PROVE  \/ i <= p /\ i \in 1..Len(s) /\ u[i] = s[i]
             \/ i > p /\ i + 1 \in 1..Len(s) /\ i + 1 > p + 1 /\ u[i] = s[i + 1]
  <2>1. CASE i <= p
    BY <1>1, <2>1 DEF IsRemove
  <2>2. CASE i > p
    <3>1. i \in (p + 1)..Len(u)
      BY <1>1, <2>2
    <3> QED BY <1>1, <2>2, <3>1 DEF IsRemove
  <2> QED BY <1>1, <2>1, <2>2
<1>3. ASSUME NEW i \in 1..Len(u), NEW j \in 1..Len(u), i < j PROVE u[i][1] < u[j][1]
  <2>1. CASE i <= p /\ i \in 1..Len(s) /\ u[i] = s[i]
    <3>1. CASE j \in 1..Len(s) /\ u[j] = s[j]
      BY <1>3, <2>1, <3>1 DEF Increasing
    <3>2. CASE j + 1 \in 1..Len(s) /\ u[j] = s[j + 1]
      <4>1. i < j + 1
        BY <1>3
      <4> QED BY <2>1, <3>2, <4>1 DEF Increasing
    <3> QED BY <1>2, <3>1, <3>2
  <2>2. CASE i > p /\ i + 1 \in 1..Len(s) /\ i + 1 > p + 1 /\ u[i] = s[i + 1]
    <3>1. j + 1 \in 1..Len(s) /\ u[j] = s[j + 1] /\ i + 1 < j + 1
      BY <1>1, <1>2, <1>3, <2>2
    <3> QED BY <2>2, <3>1 DEF Increasing
  <2> QED BY <1>2, <2>1, <2>2
<1>4. \A i \in 1..Len(s) : s[i][1] \in Int /\ (i /= p + 1 => s[i][1] /= k)
  <2>1. k \in Int /\ \A i \in 1..Len(s) : s[i][1] \in Int
    BY <1>1 DEF Keyed
  <2> SUFFICES ASSUME NEW i \in 1..Len(s), i /= p + 1 PROVE s[i][1] /= k
    BY <2>1
  <2>2. i < p + 1 \/ p + 1 < i
    BY <1>1
  <2>3. s[i][1] < k \/ k < s[i][1]
    BY <1>1, <2>2 DEF Increasing
  <2> QED BY <2>1, <2>3
<1>5. DOMAIN new = DOMAIN ref \ {k} /\ \A j \in DOMAIN new : new[j] = ref[j]
  BY DEF TakenOut
<1> HIDE DEF new
<1>6. ASSUME NEW i \in 1..Len(u) PROVE u[i][1] \in DOMAIN new /\ new[u[i][1]] = u[i][2]
  <2>1. PICK j \in 1..Len(s) : j /= p + 1 /\ u[i] = s[j]
    <3>1. CASE i <= p /\ i \in 1..Len(s) /\ u[i] = s[i]
      <4>1. i /= p + 1
        BY <1>1, <3>1
      <4> QED BY <3>1, <4>1
    <3>2. CASE i + 1 \in 1..Len(s) /\ i + 1 > p + 1 /\ u[i] = s[i + 1]
      <4>1. i + 1 /= p + 1
        BY <1>1, <3>2
      <4> QED BY <3>2, <4>1
    <3> QED BY <1>2, <3>1, <3>2
  <2>2. s[j][1] \in DOMAIN ref /\ ref[s[j][1]] = s[j][2] /\ s[j][1] /= k
    BY <1>4, <2>1 DEF Agrees
  <2> QED BY <1>5, <2>1, <2>2
<1>7. ASSUME NEW j \in DOMAIN new PROVE \E i \in 1..Len(u) : u[i][1] = j
  <2>1. PICK o \in 1..Len(s) : s[o][1] = j /\ o /= p + 1
    BY <1>5 DEF Agrees
  <2>2. CASE o <= p
    <3>1. o \in 1..p /\ o \in 1..Len(u)
      BY <1>1, <2>2
    <3> QED BY <2>1, <3>1 DEF IsRemove
  <2>3. CASE o > p
    <3> DEFINE i == o - 1
    <3>1. i \in (p + 1)..Len(u) /\ i \in 1..Len(u) /\ o = i + 1
      BY <1>1, <2>1, <2>3
    <3> HIDE DEF i
    <3> QED BY <2>1, <3>1 DEF IsRemove
  <2> QED BY <1>1, <2>2, <2>3
<1>8. Agrees(u, new)
  BY <1>6, <1>7 DEF Agrees
<1> QED BY <1>3, <1>8 DEF Increasing, new

\* The keys at the first places are so many.
LEMMA FirstKeys ==
  ASSUME NEW E, Keyed(E), NEW s \in Seq(E), Increasing(s), NEW p \in 0..Len(s), NEW K, K = {s[i][1] : i \in 1..p}
  PROVE  Cardinality(K) = p
<1> DEFINE f == [i \in 1..p |-> s[i][1]]
<1>1. Len(s) \in Nat /\ p \in Nat /\ \A i \in 1..p : i \in 1..Len(s) /\ s[i][1] \in Int
  BY DEF Keyed
<1>2. ASSUME NEW i \in 1..p, NEW j \in 1..p, s[i][1] = s[j][1] PROVE i = j
  <2>1. ~(i < j) /\ ~(j < i)
    BY <1>1, <1>2 DEF Increasing
  <2> QED BY <2>1
<1>3. f \in Bijection(1..p, K)
  <2>1. f \in [1..p -> K] /\ \A i \in 1..p : f[i] = s[i][1]
    OBVIOUS
  <2>2. \A y \in K : \E i \in 1..p : f[i] = y
    BY <2>1
  <2> HIDE DEF f
  <2>3. \A i, j \in 1..p : f[i] = f[j] => i = j
    BY <1>2, <2>1
  <2> QED BY <2>1, <2>2, <2>3 DEF Bijection, Injection, Surjection, IsInjective
<1>4. IsFiniteSet(1..p) /\ Cardinality(1..p) = p
  BY <1>1, FS_Interval
<1>5. ExistsBijection(1..p, K)
  BY <1>3 DEF ExistsBijection
<1> QED BY <1>4, <1>5, FS_Bijection


-----------------------------------------------------------------------------
(* The elements of a list, and the pairs that a map is built of.           *)

Tagged(r) == [i \in DOMAIN r |-> <<r[i], 0>>]

LEMMA TaggedIs ==
  ASSUME NEW S, NEW r \in Seq(S)
  PROVE  /\ Tagged(r) \in Seq(S \X {0}) /\ Len(Tagged(r)) = Len(r) /\ Len(r) \in Nat
         /\ \A i \in 1..Len(r) : Tagged(r)[i] = <<r[i], 0>>
<1>1. Len(r) \in Nat /\ DOMAIN r = 1..Len(r) /\ \A i \in 1..Len(r) : r[i] \in S
  OBVIOUS
<1>2. Tagged(r) = [i \in 1..Len(r) |-> <<r[i], 0>>]
  BY <1>1 DEF Tagged
<1>3. [i \in 1..Len(r) |-> <<r[i], 0>>] \in [1..Len(r) -> S \X {0}]
  BY <1>1
<1> QED BY <1>1, <1>2, <1>3

LEMMA TaggedInsert ==
  ASSUME NEW S, NEW r \in Seq(S), NEW i \in 0..Len(r), NEW e \in S,
         NEW u, IsInsert(u, Tagged(r), i, <<e, 0>>, S \X {0})
  PROVE  InsertAt(r, i + 1, e) \in Seq(S) /\ Tagged(InsertAt(r, i + 1, e)) = u
<1> DEFINE q == InsertAt(r, i + 1, e)
           x == <<e, 0>>
           s == Tagged(r)
           t == Tagged(q)
<1>1. IsInsert(q, r, i, e, S)
  BY InsertAtIs
<1> HIDE DEF q
<1>2. q \in Seq(S) /\ Len(q) = Len(r) + 1 /\ Len(r) \in Nat
  BY <1>1 DEF IsInsert
<1>3. s \in Seq(S \X {0}) /\ Len(s) = Len(r) /\ \A j \in 1..Len(r) : s[j] = <<r[j], 0>>
  BY TaggedIs
<1>4. t \in Seq(S \X {0}) /\ Len(t) = Len(q) /\ \A j \in 1..Len(q) : t[j] = <<q[j], 0>>
  BY <1>2, TaggedIs
<1> HIDE DEF s, t
<1>5. ASSUME NEW j \in 1..i PROVE t[j] = s[j]
  <2>1. j \in 1..Len(r) /\ j \in 1..Len(q)
    BY <1>2
  <2>2. q[j] = r[j]
    BY <1>1 DEF IsInsert
  <2> QED BY <1>3, <1>4, <2>1, <2>2
<1>6. t[i + 1] = x
  BY <1>1, <1>2, <1>4 DEF IsInsert
<1>7. ASSUME NEW j \in (i + 1)..Len(s) PROVE t[j + 1] = s[j]
  <2>1. j \in 1..Len(r) /\ j + 1 \in 1..Len(q) /\ j \in (i + 1)..Len(r)
    BY <1>2, <1>3
  <2>2. q[j + 1] = r[j]
    BY <1>1, <2>1 DEF IsInsert
  <2> QED BY <1>3, <1>4, <2>1, <2>2
<1> HIDE DEF x
<1>8. IsInsert(t, s, i, x, S \X {0})
  BY <1>2, <1>3, <1>4, <1>5, <1>6, <1>7 DEF IsInsert
<1>9. IsInsert(u, s, i, x, S \X {0})
  BY DEF s, x
<1>10. t = u
  <2>1. Len(s) \in Nat
    BY <1>2, <1>3
  <2> QED BY <1>8, <1>9, <2>1, InsertUnique, Zenon
<1> QED BY <1>2, <1>10 DEF q, t

LEMMA TaggedReplace ==
  ASSUME NEW S, NEW r \in Seq(S), NEW i \in 0..(Len(r) - 1), NEW e \in S,
         NEW u, IsReplace(u, Tagged(r), i, <<e, 0>>, S \X {0})
  PROVE  ReplaceAt(r, i + 1, e) \in Seq(S) /\ Tagged(ReplaceAt(r, i + 1, e)) = u
<1> DEFINE q == ReplaceAt(r, i + 1, e)
           s == Tagged(r)
           t == Tagged(q)
<1>1. Len(r) \in Nat /\ i + 1 \in 1..Len(r) /\ r \in [1..Len(r) -> S]
  OBVIOUS
<1>2. q \in [1..Len(r) -> S] /\ \A j \in 1..Len(r) : q[j] = IF j = i + 1 THEN e ELSE r[j]
  BY <1>1 DEF ReplaceAt
<1> HIDE DEF q
<1>3. q \in Seq(S) /\ Len(q) = Len(r)
  BY <1>1, <1>2
<1>4. s \in Seq(S \X {0}) /\ Len(s) = Len(r) /\ \A j \in 1..Len(r) : s[j] = <<r[j], 0>>
  BY TaggedIs
<1>5. t \in Seq(S \X {0}) /\ Len(t) = Len(q) /\ \A j \in 1..Len(q) : t[j] = <<q[j], 0>>
  BY <1>3, TaggedIs
<1>6. IsReplace(u, s, i, <<e, 0>>, S \X {0})
  OBVIOUS
<1> HIDE DEF s, t
<1>7. u \in Seq(S \X {0}) /\ Len(u) = Len(r) /\ u[i + 1] = <<e, 0>>
      /\ \A j \in 1..Len(r) : j /= i + 1 => u[j] = s[j]
  BY <1>4, <1>6 DEF IsReplace
<1>8. \A j \in 1..Len(u) : t[j] = u[j]
  BY <1>2, <1>3, <1>4, <1>5, <1>7
<1>9. t = u
  BY <1>3, <1>5, <1>7, <1>8, SeqEqual
<1> QED BY <1>3, <1>9 DEF q, t

LEMMA TaggedRemove ==
  ASSUME NEW S, NEW r \in Seq(S), NEW i \in 0..(Len(r) - 1),
         NEW u, IsRemove(u, Tagged(r), i, S \X {0})
  PROVE  RemoveAt(r, i + 1) \in Seq(S) /\ Tagged(RemoveAt(r, i + 1)) = u
<1> DEFINE q == RemoveAt(r, i + 1)
           s == Tagged(r)
           t == Tagged(q)
<1>1. Len(r) \in Nat /\ i + 1 \in DOMAIN r
  OBVIOUS
<1>2. /\ q \in Seq(S) /\ Len(q) = Len(r) - 1
      /\ \A j \in 1..(Len(r) - 1) : q[j] = IF j < i + 1 THEN r[j] ELSE r[j + 1]
  <2> HIDE DEF q
  <2> QED BY <1>1, RemoveAtIs DEF q
<1> HIDE DEF q
<1>3. s \in Seq(S \X {0}) /\ Len(s) = Len(r) /\ \A j \in 1..Len(r) : s[j] = <<r[j], 0>>
  BY TaggedIs
<1>4. t \in Seq(S \X {0}) /\ Len(t) = Len(q) /\ \A j \in 1..Len(q) : t[j] = <<q[j], 0>>
  BY <1>2, TaggedIs
<1>5. IsRemove(u, s, i, S \X {0})
  OBVIOUS
<1> HIDE DEF s, t
<1>6. /\ u \in Seq(S \X {0}) /\ Len(u) = Len(r) - 1
      /\ \A j \in 1..i : u[j] = s[j]
      /\ \A j \in (i + 1)..Len(u) : u[j] = s[j + 1]
  BY <1>3, <1>5 DEF IsRemove
<1>7. ASSUME NEW j \in 1..Len(u) PROVE t[j] = u[j]
  <2>1. j \in 1..Len(q) /\ j \in 1..(Len(r) - 1) /\ j \in 1..Len(r) /\ j + 1 \in 1..Len(r)
    BY <1>1, <1>2, <1>6
  <2>2. CASE j <= i
    <3>1. j \in 1..i /\ j < i + 1
      BY <1>1, <2>2
    <3> QED BY <1>2, <1>3, <1>4, <1>6, <2>1, <3>1
  <2>3. CASE j > i
    <3>1. j \in (i + 1)..Len(u) /\ ~(j < i + 1)
      BY <1>1, <2>3
    <3> QED BY <1>2, <1>3, <1>4, <1>6, <2>1, <3>1
  <2> QED BY <1>1, <2>2, <2>3
<1>8. t = u
  BY <1>1, <1>2, <1>4, <1>6, <1>7, SeqEqual, SMTT(40)
<1> QED BY <1>2, <1>8 DEF q, t

\* Keys each above the one before are in order.
LEMMA AscendingIs ==
  ASSUME NEW n \in Nat, NEW keys \in Ascending(n)
  PROVE  keys \in [1..n -> MapKey] /\ \A i, j \in 1..n : i < j => keys[i] < keys[j]
<1>1. keys \in [1..n -> MapKey] /\ \A i \in 2..n : keys[i - 1] < keys[i]
  BY DEF Ascending
<1>2. \A i \in 1..n : keys[i] \in Int
  BY <1>1, AVLAssumption
<1> DEFINE Above == {j \in Nat : j \in 1..n => \A i \in 1..n : i < j => keys[i] < keys[j]}
<1>3. 0 \in Above
  OBVIOUS
<1>4. ASSUME NEW j \in Above PROVE j + 1 \in Above
  <2> SUFFICES ASSUME j + 1 \in 1..n, NEW i \in 1..n, i < j + 1
               PROVE  keys[i] < keys[j + 1]
    BY <1>4
  <2>1. j + 1 \in 2..n /\ j \in 1..n /\ (j + 1) - 1 = j
    BY <1>4
  <2>2. keys[j] < keys[j + 1]
    BY <1>1, <2>1
  <2>3. i = j \/ keys[i] < keys[j]
    BY <1>4, <2>1
  <2> QED BY <1>2, <2>1, <2>2, <2>3
<1> HIDE DEF Above
<1>5. Nat \subseteq Above
  BY <1>3, <1>4, InductionNat
<1> QED BY <1>1, <1>5 DEF Above

LEMMA PairsAre ==
  ASSUME NEW n \in Nat, NEW keys \in Ascending(n), NEW values \in [1..n -> MapValue]
  PROVE  LET kvs == [i \in DOMAIN keys |-> <<keys[i], values[i]>>]
             ref == [k \in Range(keys) |-> values[CHOOSE i \in DOMAIN keys : keys[i] = k]]
         IN  kvs \in Seq(MapKey \X MapValue) /\ Increasing(kvs) /\ Agrees(kvs, ref)
<1> DEFINE kvs == [i \in DOMAIN keys |-> <<keys[i], values[i]>>]
           ref == [k \in Range(keys) |-> values[CHOOSE i \in DOMAIN keys : keys[i] = k]]
<1>1. keys \in [1..n -> MapKey] /\ \A i, j \in 1..n : i < j => keys[i] < keys[j]
  BY AscendingIs
<1>2. DOMAIN keys = 1..n /\ \A i \in 1..n : keys[i] \in MapKey /\ keys[i] \in Int /\ values[i] \in MapValue
  BY <1>1, AVLAssumption
<1>3. kvs \in [1..n -> MapKey \X MapValue] /\ \A i \in 1..n : kvs[i] = <<keys[i], values[i]>>
  BY <1>2
<1>4. DOMAIN ref = {keys[i] : i \in 1..n}
  BY <1>2 DEF Range
<1>5. ASSUME NEW i \in 1..n PROVE ref[keys[i]] = values[i]
  <2> DEFINE o == CHOOSE j \in DOMAIN keys : keys[j] = keys[i]
  <2>1. o \in 1..n /\ keys[o] = keys[i]
    BY <1>2
  <2>2. ref[keys[i]] = values[o]
    BY <1>2 DEF Range
  <2> HIDE DEF o
  <2>3. o = i
    <3>1. ~(o < i) /\ ~(i < o)
      BY <1>1, <1>2, <2>1
    <3> QED BY <2>1, <3>1
  <2> QED BY <2>2, <2>3
<1> HIDE DEF kvs, ref
<1>6. kvs \in Seq(MapKey \X MapValue) /\ Len(kvs) = n
  BY <1>3
<1>7. Increasing(kvs)
  BY <1>1, <1>3, <1>6 DEF Increasing
<1>8. Agrees(kvs, ref)
  BY <1>3, <1>4, <1>5, <1>6 DEF Agrees
<1> QED BY <1>6, <1>7, <1>8 DEF kvs, ref

\* A map knows the rank of a key, and where it would be.
LEMMA RankIs ==
  ASSUME NEW E, Keyed(E), NEW s \in Seq(E), Increasing(s), NEW ref, Agrees(s, ref), NEW k \in Int, NEW p, Before(s, p, k)
  PROVE  Cardinality({j \in DOMAIN ref : j < k}) = p
<1> DEFINE K == {s[i][1] : i \in 1..p}
           L == {j \in DOMAIN ref : j < k}
<1>1. p \in 0..Len(s) /\ Len(s) \in Nat
  BY DEF Before
<1>2. \A i \in 1..Len(s) : s[i][1] \in Int /\ s[i][1] \in DOMAIN ref
  BY DEF Keyed, Agrees
<1>3. ASSUME NEW j \in L PROVE j \in K
  <2>1. PICK i \in 1..Len(s) : s[i][1] = j
    BY DEF Agrees
  <2>2. ~(i \in (p + 1)..Len(s))
    <3>1. ~(k <= s[i][1])
      BY <1>2, <2>1
    <3> QED BY <3>1 DEF Before
  <2>3. i \in 1..p
    BY <1>1, <2>2
  <2> QED BY <2>1, <2>3
<1>4. ASSUME NEW i \in 1..p PROVE s[i][1] \in L
  <2>1. i \in 1..Len(s) /\ s[i][1] < k
    BY <1>1 DEF Before
  <2> QED BY <1>2, <2>1
<1>5. K = L
  BY <1>3, <1>4
<1>6. Cardinality(K) = p
  BY <1>1, FirstKeys
<1> QED BY <1>5, <1>6

LEMMA SizeIs ==
  ASSUME NEW E, Keyed(E), NEW s \in Seq(E), Increasing(s), NEW ref, Agrees(s, ref)
  PROVE  Cardinality(DOMAIN ref) = Len(s)
<1>1. Len(s) \in 0..Len(s)
  OBVIOUS
<1> QED BY <1>1, FirstKeys DEF Agrees

-----------------------------------------------------------------------------
(* The invariant of the containers, and the steps that keep it.            *)

MapPair == MapKey \X MapValue
ListPair == Elem \X {0}

\* n is the tree of a map that holds what ref says.
MapHolds(n, ref) == \E s : Tree(n, s, MapPair) /\ Increasing(s) /\ Agrees(s, ref)

\* n is the tree of a list of the elements r.
ListHolds(n, r) == r \in Seq(Elem) /\ Tree(n, Tagged(r), ListPair)

AVLInv == MapHolds(map, mapRef) /\ ListHolds(list, listRef)

LEMMA PairsKeyed ==
  /\ Keyed(MapPair)
  /\ \A e \in MapPair : e = <<e[1], e[2]>>
  /\ \A e \in ListPair : e = <<e[1], e[2]>>
  /\ \A k \in MapKey : k \in Int /\ \A v \in MapValue : <<k, v>> \in MapPair
<1>1. \A k \in MapKey : k \in Int /\ \A v \in MapValue : <<k, v>> \in MapPair
  BY AVLAssumption DEF MapPair
<1>2. ASSUME NEW e \in MapPair PROVE e = <<e[1], e[2]>> /\ e[1] \in Int
  <2>1. PICK a \in MapKey, b \in MapValue : e = <<a, b>>
    BY DEF MapPair
  <2>2. a \in Int
    BY AVLAssumption
  <2> QED BY <2>1, <2>2
<1>3. ASSUME NEW e \in ListPair PROVE e = <<e[1], e[2]>>
  <2>1. PICK a \in Elem, b \in {0} : e = <<a, b>>
    BY DEF ListPair
  <2> QED BY <2>1
<1> QED BY <1>1, <1>2, <1>3 DEF Keyed

LEMMA MapSetKeeps ==
  ASSUME NEW n, NEW ref, MapHolds(n, ref), NEW k \in MapKey, NEW v \in MapValue, NEW at, at = GetFrom(n, k, 0)
  PROVE  MapHolds(Publish(IF at.found THEN SetByIdx(n, at.idx, "v", v) ELSE AddByIdx(n, at.idx, k, v)),
                  Put(ref, k, v))
<1> DEFINE new == Put(ref, k, v)
           r == IF at.found THEN SetByIdx(n, at.idx, "v", v) ELSE AddByIdx(n, at.idx, k, v)
<1>1. PICK s : Tree(n, s, MapPair) /\ Increasing(s) /\ Agrees(s, ref)
  BY DEF MapHolds
<1>2. s \in Seq(MapPair)
  BY <1>1, TreeType
<1>3. Keyed(MapPair) /\ k \in Int /\ <<k, v>> \in MapPair
  BY PairsKeyed
<1>4. Located(at, s, 0, k)
  BY <1>1, <1>3, GetFromIs
<1>5. PICK p \in 0..Len(s) :
        /\ Before(s, p, k) /\ at.idx = 0 + p
        /\ \/ at.found = TRUE /\ p < Len(s) /\ s[p + 1] = <<k, at.v>>
           \/ at.found = FALSE /\ \A j \in 1..Len(s) : s[j][1] /= k
  BY <1>4 DEF Located
<1>6. at.idx = p /\ Len(s) \in Nat
  BY <1>2, <1>5
<1>7. \E u : Tree(r, u, MapPair) /\ Increasing(u) /\ Agrees(u, new)
  <2>1. CASE at.found = TRUE
    <3>1. p \in 0..(Len(s) - 1) /\ s[p + 1] = <<k, at.v>> /\ s[p + 1][1] = k
      BY <1>5, <1>6, <2>1
    <3>2. With(s[p + 1], "v", v) = <<k, v>>
      BY <3>1 DEF With
    <3>3. Changed(SetByIdx(n, p, "v", v), n, s, p, <<k, v>>, MapPair)
      <4>1. Changed(SetByIdx(n, p, "v", v), n, s, p, With(s[p + 1], "v", v), MapPair)
        <5>1. With(s[p + 1], "v", v) \in MapPair /\ "v" \in {"k", "v"}
          BY <1>3, <3>2
        <5> QED BY <1>1, <3>1, <5>1, SetIs
      <4> QED BY <3>2, <4>1
    <3>4. PICK u : Tree(r, u, MapPair) /\ IsReplace(u, s, p, <<k, v>>, MapPair)
      <4>1. r = SetByIdx(n, p, "v", v)
        BY <1>6, <2>1
      <4> QED BY <3>3, <4>1 DEF Changed, TreeIn
    <3>5. Increasing(u) /\ Agrees(u, new)
      BY <1>1, <1>2, <1>3, <3>1, <3>4, ReplaceValue
    <3> QED BY <3>4, <3>5
  <2>2. CASE at.found = FALSE
    <3>1. \A j \in 1..Len(s) : s[j][1] /= k
      BY <1>5, <2>2
    <3>2. Added(AddByIdx(n, p, k, v), n, s, p, <<k, v>>, MapPair)
      BY <1>1, <1>3, AddIs
    <3>3. PICK u : Tree(r, u, MapPair) /\ IsInsert(u, s, p, <<k, v>>, MapPair)
      <4>1. r = AddByIdx(n, p, k, v)
        BY <1>6, <2>2
      <4> QED BY <3>2, <4>1 DEF Added, TreeIn
    <3>4. Increasing(u) /\ Agrees(u, new)
      BY <1>1, <1>2, <1>3, <1>5, <3>1, <3>3, InsertKey
    <3> QED BY <3>3, <3>4
  <2> QED BY <1>5, <2>1, <2>2
<1> HIDE DEF r, new
<1>8. PICK u : Tree(r, u, MapPair) /\ Increasing(u) /\ Agrees(u, new)
  BY <1>7
<1>9. Tree(Publish(r), u, MapPair)
  BY <1>8, PublishIs DEF TreeIn
<1>10. MapHolds(Publish(r), new)
  BY <1>8, <1>9 DEF MapHolds
<1> QED BY <1>10 DEF r, new

LEMMA MapEraseKeeps ==
  ASSUME NEW n, NEW ref, MapHolds(n, ref), NEW k \in MapKey, NEW at, at = GetFrom(n, k, 0)
  PROVE  MapHolds(IF at.found THEN Publish(DelByIdx(n, at.idx)) ELSE n, TakenOut(ref, k))
<1> DEFINE new == TakenOut(ref, k)
<1>1. PICK s : Tree(n, s, MapPair) /\ Increasing(s) /\ Agrees(s, ref)
  BY DEF MapHolds
<1>2. s \in Seq(MapPair)
  BY <1>1, TreeType
<1>3. Keyed(MapPair) /\ k \in Int
  BY PairsKeyed
<1>4. Located(at, s, 0, k)
  BY <1>1, <1>3, GetFromIs
<1>5. PICK p \in 0..Len(s) :
        /\ at.idx = 0 + p
        /\ \/ at.found = TRUE /\ p < Len(s) /\ s[p + 1] = <<k, at.v>>
           \/ at.found = FALSE /\ \A j \in 1..Len(s) : s[j][1] /= k
  BY <1>4 DEF Located
<1>6. at.idx = p /\ Len(s) \in Nat
  BY <1>2, <1>5
<1>7. CASE at.found = TRUE
  <2>1. p \in 0..(Len(s) - 1) /\ s[p + 1][1] = k
    BY <1>5, <1>6, <1>7
  <2>2. Deleted(DelByIdx(n, p), n, s, p, MapPair)
    BY <1>1, <2>1, DelIs
  <2>3. PICK u : Tree(DelByIdx(n, p), u, MapPair) /\ IsRemove(u, s, p, MapPair)
    BY <2>2 DEF Deleted, TreeIn
  <2>4. Increasing(u) /\ Agrees(u, new)
    BY <1>1, <1>2, <1>3, <2>1, <2>3, RemoveKey
  <2>5. Tree(Publish(DelByIdx(n, p)), u, MapPair)
    BY <2>3, PublishIs DEF TreeIn
  <2>6. MapHolds(Publish(DelByIdx(n, p)), new)
    BY <2>4, <2>5 DEF MapHolds
  <2> QED BY <1>6, <1>7, <2>6
<1>8. CASE at.found = FALSE
  <2>1. k \notin DOMAIN ref
    BY <1>1, <1>5, <1>8 DEF Agrees
  <2>2. DOMAIN new = DOMAIN ref /\ \A j \in DOMAIN ref : new[j] = ref[j]
    BY <2>1 DEF TakenOut
  <2> HIDE DEF new
  <2>3. Agrees(s, new)
    BY <1>1, <2>2 DEF Agrees
  <2>4. MapHolds(n, new)
    BY <1>1, <2>3 DEF MapHolds
  <2> QED BY <1>8, <2>4 DEF new
<1> QED BY <1>5, <1>7, <1>8

LEMMA MapBuildKeeps ==
  ASSUME NEW n \in Nat, NEW keys \in Ascending(n), NEW values \in [1..n -> MapValue]
  PROVE  MapHolds(Publish(BuildTree([i \in DOMAIN keys |-> <<keys[i], values[i]>>])),
                  [k \in Range(keys) |-> values[CHOOSE i \in DOMAIN keys : keys[i] = k]])
<1> DEFINE kvs == [i \in DOMAIN keys |-> <<keys[i], values[i]>>]
           ref == [k \in Range(keys) |-> values[CHOOSE i \in DOMAIN keys : keys[i] = k]]
<1>1. kvs \in Seq(MapPair) /\ Increasing(kvs) /\ Agrees(kvs, ref)
  BY PairsAre DEF MapPair
<1> HIDE DEF kvs, ref
<1>2. Tree(BuildTree(kvs), kvs, MapPair)
  BY <1>1, PairsKeyed, BuildIs
<1>3. Tree(Publish(BuildTree(kvs)), kvs, MapPair)
  BY <1>2, PublishIs DEF TreeIn
<1>4. MapHolds(Publish(BuildTree(kvs)), ref)
  BY <1>1, <1>3 DEF MapHolds
<1> QED BY <1>4 DEF kvs, ref

LEMMA ListSize ==
  ASSUME NEW n, NEW r, ListHolds(n, r)
  PROVE  n.sz = Len(r) /\ Len(r) \in Nat /\ Len(Tagged(r)) = Len(r)
<1>1. r \in Seq(Elem) /\ Tree(n, Tagged(r), ListPair)
  BY DEF ListHolds
<1>2. Len(Tagged(r)) = Len(r) /\ Len(r) \in Nat
  BY <1>1, TaggedIs
<1> QED BY <1>1, <1>2, TreeType

LEMMA ListInsertKeeps ==
  ASSUME NEW n, NEW r, ListHolds(n, r), NEW i \in 0..Len(r), NEW e \in Elem
  PROVE  ListHolds(Publish(AddByIdx(n, i, e, 0)), InsertAt(r, i + 1, e))
<1> DEFINE s == Tagged(r)
<1>1. r \in Seq(Elem) /\ Tree(n, s, ListPair) /\ i \in 0..Len(s)
  BY ListSize DEF ListHolds
<1>2. <<e, 0>> \in ListPair
  BY DEF ListPair
<1> HIDE DEF s
<1>3. Added(AddByIdx(n, i, e, 0), n, s, i, <<e, 0>>, ListPair)
  BY <1>1, <1>2, AddIs
<1>4. PICK u : Tree(AddByIdx(n, i, e, 0), u, ListPair) /\ IsInsert(u, s, i, <<e, 0>>, ListPair)
  BY <1>3 DEF Added, TreeIn
<1>5. Tree(Publish(AddByIdx(n, i, e, 0)), u, ListPair)
  BY <1>4, PublishIs DEF TreeIn
<1>6. InsertAt(r, i + 1, e) \in Seq(Elem) /\ Tagged(InsertAt(r, i + 1, e)) = u
  BY <1>1, <1>4, TaggedInsert DEF s, ListPair
<1> QED BY <1>5, <1>6, Zenon DEF ListHolds

LEMMA ListSetKeeps ==
  ASSUME NEW n, NEW r, ListHolds(n, r), NEW i \in 0..(Len(r) - 1), NEW e \in Elem
  PROVE  ListHolds(Publish(SetByIdx(n, i, "k", e)), ReplaceAt(r, i + 1, e))
<1> DEFINE s == Tagged(r)
<1>1. r \in Seq(Elem) /\ Tree(n, s, ListPair) /\ i \in 0..(Len(s) - 1) /\ i + 1 \in 1..Len(r)
  BY ListSize DEF ListHolds
<1>2. s[i + 1] = <<r[i + 1], 0>>
  BY <1>1, TaggedIs
<1> HIDE DEF s
<1>3. With(s[i + 1], "k", e) = <<e, 0>>
  BY <1>2 DEF With
<1>4. <<e, 0>> \in ListPair /\ "k" \in {"k", "v"}
  BY DEF ListPair
<1>5. Changed(SetByIdx(n, i, "k", e), n, s, i, With(s[i + 1], "k", e), ListPair)
  BY <1>1, <1>3, <1>4, SetIs
<1>6. PICK u : Tree(SetByIdx(n, i, "k", e), u, ListPair) /\ IsReplace(u, s, i, <<e, 0>>, ListPair)
  BY <1>3, <1>5 DEF Changed, TreeIn
<1>7. Tree(Publish(SetByIdx(n, i, "k", e)), u, ListPair)
  BY <1>6, PublishIs DEF TreeIn
<1>8. ReplaceAt(r, i + 1, e) \in Seq(Elem) /\ Tagged(ReplaceAt(r, i + 1, e)) = u
  BY <1>1, <1>6, TaggedReplace DEF s, ListPair
<1> QED BY <1>7, <1>8, Zenon DEF ListHolds

LEMMA ListEraseKeeps ==
  ASSUME NEW n, NEW r, ListHolds(n, r), NEW i \in 0..(Len(r) - 1)
  PROVE  ListHolds(Publish(DelByIdx(n, i)), RemoveAt(r, i + 1))
<1> DEFINE s == Tagged(r)
<1>1. r \in Seq(Elem) /\ Tree(n, s, ListPair) /\ i \in 0..(Len(s) - 1)
  BY ListSize DEF ListHolds
<1> HIDE DEF s
<1>2. Deleted(DelByIdx(n, i), n, s, i, ListPair)
  BY <1>1, DelIs
<1>3. PICK u : Tree(DelByIdx(n, i), u, ListPair) /\ IsRemove(u, s, i, ListPair)
  BY <1>2 DEF Deleted, TreeIn
<1>4. Tree(Publish(DelByIdx(n, i)), u, ListPair)
  BY <1>3, PublishIs DEF TreeIn
<1>5. RemoveAt(r, i + 1) \in Seq(Elem) /\ Tagged(RemoveAt(r, i + 1)) = u
  BY <1>1, <1>3, TaggedRemove DEF s, ListPair
<1> QED BY <1>4, <1>5, Zenon DEF ListHolds

LEMMA ListBuildKeeps ==
  ASSUME NEW n \in Nat
  PROVE  ListHolds(Publish(BuildTree([i \in 1..n |-> <<"e", 0>>])), [i \in 1..n |-> "e"])
<1> DEFINE kvs == [i \in 1..n |-> <<"e", 0>>]
           r == [i \in 1..n |-> "e"]
<1>1. kvs \in [1..n -> ListPair] /\ r \in [1..n -> Elem]
  BY DEF ListPair, Elem
<1>2. kvs \in Seq(ListPair) /\ r \in Seq(Elem)
  BY <1>1
<1>3. Tagged(r) = kvs
  BY DEF Tagged
<1> HIDE DEF kvs, r
<1>4. Tree(BuildTree(kvs), kvs, ListPair)
  BY <1>2, PairsKeyed, BuildIs
<1>5. Tree(Publish(BuildTree(kvs)), kvs, ListPair)
  BY <1>4, PublishIs DEF TreeIn
<1>6. ListHolds(Publish(BuildTree(kvs)), r)
  BY <1>2, <1>3, <1>5 DEF ListHolds
<1> QED BY <1>6 DEF kvs, r

LEMMA AVLInitHolds == AVLInit => AVLInv
<1> SUFFICES ASSUME AVLInit PROVE AVLInv
  OBVIOUS
<1>1. map = Nil /\ list = Nil /\ mapRef = [k \in {} |-> 0] /\ listRef = <<>>
  BY DEF AVLInit
<1>2. MapHolds(map, mapRef)
  <2> SUFFICES ASSUME NEW s, s = <<>> PROVE MapHolds(map, mapRef)
    OBVIOUS
  <2>1. Tree(map, s, MapPair)
    BY <1>1, TreeNil
  <2>2. Len(s) = 0
    OBVIOUS
  <2>3. Increasing(s) /\ Agrees(s, mapRef)
    BY <1>1, <2>2 DEF Increasing, Agrees
  <2> QED BY <2>1, <2>3 DEF MapHolds
<1>3. ListHolds(list, listRef)
  <2>1. listRef \in Seq(Elem) /\ Len(listRef) = 0
    BY <1>1
  <2>2. Tagged(listRef) \in Seq(ListPair) /\ Len(Tagged(listRef)) = 0
    BY <2>1, TaggedIs DEF ListPair
  <2>3. Tagged(listRef) = <<>>
    BY <2>2
  <2>4. Tree(list, Tagged(listRef), ListPair)
    BY <1>1, <2>3, TreeNil
  <2> QED BY <2>1, <2>4 DEF ListHolds
<1> QED BY <1>2, <1>3 DEF AVLInv

LEMMA AVLStep == AVLInv /\ [MapNext \/ ListNext]_avlVars => AVLInv'
<1> SUFFICES ASSUME AVLInv, [MapNext \/ ListNext]_avlVars PROVE AVLInv'
  OBVIOUS
<1>1. MapHolds(map, mapRef) /\ ListHolds(list, listRef)
  BY DEF AVLInv
<1>2. list.sz = Len(listRef) /\ Len(listRef) \in Nat
  BY <1>1, ListSize
<1>3. Cardinality(MapKey) \in Nat
  BY AVLAssumption, FS_CardinalityType
<1>4. ASSUME NEW k \in MapKey, MapErase(k) PROVE AVLInv'
  <2>1. MapHolds(map', mapRef')
    BY <1>1, <1>4, MapEraseKeeps, Zenon DEF MapErase, TakenOut
  <2>2. ListHolds(list', listRef')
    BY <1>1, <1>4 DEF MapErase
  <2> QED BY <2>1, <2>2 DEF AVLInv
<1>5. ASSUME NEW k \in MapKey, NEW v \in MapValue, MapSet(k, v) PROVE AVLInv'
  <2> DEFINE at == GetFrom(map, k, 0)
             new == Put(mapRef, k, v)
             r == IF at.found THEN SetByIdx(map, at.idx, "v", v) ELSE AddByIdx(map, at.idx, k, v)
  <2>1. map' = Publish(r) /\ mapRef' = new /\ UNCHANGED <<list, listRef>>
    BY <1>5 DEF MapSet, Put
  <2>2. MapHolds(Publish(r), new)
    BY <1>1, MapSetKeeps
  <2> HIDE DEF r, new
  <2>3. MapHolds(map', mapRef') /\ ListHolds(list', listRef')
    BY <1>1, <2>1, <2>2
  <2> QED BY <2>3 DEF AVLInv
<1>6. ASSUME NEW n \in 0..Cardinality(MapKey), NEW keys \in Ascending(n), NEW values \in [1..n -> MapValue],
             MapBuild(keys, values)
      PROVE  AVLInv'
  <2>1. n \in Nat
    BY <1>3
  <2>2. MapHolds(map', mapRef')
    BY <1>6, <2>1, MapBuildKeeps, Zenon DEF MapBuild
  <2>3. ListHolds(list', listRef')
    BY <1>1, <1>6 DEF MapBuild
  <2> QED BY <2>2, <2>3 DEF AVLInv
<1>7. ASSUME NEW idx \in 0..MaxList, ListErase(idx) PROVE AVLInv'
  <2>1. idx \in 0..(Len(listRef) - 1)
    BY <1>2, <1>7, AVLAssumption DEF ListErase
  <2>2. ListHolds(list', listRef')
    BY <1>1, <1>7, <2>1, ListEraseKeeps, Zenon DEF ListErase
  <2>3. MapHolds(map', mapRef')
    BY <1>1, <1>7 DEF ListErase
  <2> QED BY <2>2, <2>3 DEF AVLInv
<1>8. ASSUME NEW idx \in 0..MaxList, NEW e \in Elem, ListInsert(idx, e) PROVE AVLInv'
  <2>1. idx \in 0..Len(listRef)
    BY <1>2, <1>8, AVLAssumption DEF ListInsert
  <2>2. ListHolds(list', listRef')
    BY <1>1, <1>8, <2>1, ListInsertKeeps, Zenon DEF ListInsert
  <2>3. MapHolds(map', mapRef')
    BY <1>1, <1>8 DEF ListInsert
  <2> QED BY <2>2, <2>3 DEF AVLInv
<1>9. ASSUME NEW idx \in 0..MaxList, NEW e \in Elem, ListSet(idx, e) PROVE AVLInv'
  <2>1. idx \in 0..(Len(listRef) - 1)
    BY <1>2, <1>9, AVLAssumption DEF ListSet
  <2>2. ListHolds(list', listRef')
    BY <1>1, <1>9, <2>1, ListSetKeeps, Zenon DEF ListSet
  <2>3. MapHolds(map', mapRef')
    BY <1>1, <1>9 DEF ListSet
  <2> QED BY <2>2, <2>3 DEF AVLInv
<1>10. ASSUME NEW n \in 0..MaxList, ListBuild(n) PROVE AVLInv'
  <2>1. n \in Nat
    BY AVLAssumption
  <2>2. ListHolds(list', listRef')
    BY <1>10, <2>1, ListBuildKeeps, Zenon DEF ListBuild
  <2>3. MapHolds(map', mapRef')
    BY <1>1, <1>10 DEF ListBuild
  <2> QED BY <2>2, <2>3 DEF AVLInv
<1>11. CASE UNCHANGED avlVars
  BY <1>11 DEF avlVars, AVLInv, MapHolds, ListHolds, Tagged
<1> QED BY <1>4, <1>5, <1>6, <1>7, <1>8, <1>9, <1>10, <1>11 DEF MapNext, ListNext

(* Whatever is set, erased, inserted and built, the map and the list are   *)
(* trees of sound nodes, with the elements that they must hold, in order.  *)
THEOREM AVLInvariant == AVLSpec => []AVLInv
BY AVLInitHolds, AVLStep, PTL DEF AVLSpec

LEMMA TreeSound ==
  ASSUME NEW E, NEW n, NEW s, Tree(n, s, E)
  PROVE  \A m \in NodesOf(n) : Sound(m)
<1> SUFFICES ASSUME NEW m \in Subtrees(n), m /= Nil PROVE Sound(m)
  BY DEF NodesOf
<1>1. PICK t : Tree(m, t, E)
  BY SubtreesAre
<1> QED BY <1>1, TreeParts DEF Parts

LEMMA NodesSound ==
  ASSUME AVLInv
  PROVE  (\A n \in NodesOf(map) : Sound(n)) /\ (\A n \in NodesOf(list) : Sound(n))
<1>1. PICK s : Tree(map, s, MapPair)
  BY DEF AVLInv, MapHolds
<1>2. Tree(list, Tagged(listRef), ListPair)
  BY DEF AVLInv, ListHolds
<1> QED BY <1>1, <1>2, TreeSound

(* Rebalance, after any one operation on any tree that it has made, leaves *)
(* every node balanced, and FixHSZ its height and its number of elements.  *)
THEOREM AlwaysBalanced == AVLSpec => []Balanced
<1>1. AVLInv => Balanced
  <2> SUFFICES ASSUME AVLInv PROVE Balanced
    OBVIOUS
  <2> QED BY NodesSound DEF Balanced, BalancedTree, Sound
<1> QED BY <1>1, AVLInvariant, PTL

(* No write of avl.h or avl_util.h goes to a node that another version may *)
(* share, and none of their assertions fails.                              *)
THEOREM VersionsAreKept == AVLSpec => []OldVersionsKept
<1>1. AVLInv => OldVersionsKept
  <2> SUFFICES ASSUME AVLInv PROVE OldVersionsKept
    OBVIOUS
  <2> QED BY NodesSound DEF OldVersionsKept, Sound
<1> QED BY <1>1, AVLInvariant, PTL

LEMMA MapAgrees ==
  ASSUME NEW n, NEW ref, MapHolds(n, ref)
  PROVE  /\ n.sz = Cardinality(DOMAIN ref)
         /\ \A k \in MapKey :
              LET at == GetFrom(n, k, 0) IN
              /\ at.idx = Cardinality({j \in DOMAIN ref : j < k})
              /\ at.found = (k \in DOMAIN ref)
              /\ at.found => at.v = ref[k] /\ GetByIdx(n, at.idx) = <<k, at.v>>
<1>1. PICK s : Tree(n, s, MapPair) /\ Increasing(s) /\ Agrees(s, ref)
  BY DEF MapHolds
<1>2. s \in Seq(MapPair) /\ n.sz = Len(s) /\ Len(s) \in Nat
  BY <1>1, TreeType
<1>3. n.sz = Cardinality(DOMAIN ref)
  BY <1>1, <1>2, PairsKeyed, SizeIs
<1>4. ASSUME NEW k \in MapKey, NEW at, at = GetFrom(n, k, 0)
      PROVE  /\ at.idx = Cardinality({j \in DOMAIN ref : j < k})
             /\ at.found = (k \in DOMAIN ref)
             /\ at.found => at.v = ref[k] /\ GetByIdx(n, at.idx) = <<k, at.v>>
  <2>1. k \in Int
    BY PairsKeyed
  <2>2. Located(at, s, 0, k)
    BY <1>1, <1>4, <2>1, PairsKeyed, GetFromIs
  <2>3. PICK p \in 0..Len(s) :
          /\ Before(s, p, k) /\ at.idx = 0 + p
          /\ \/ at.found = TRUE /\ p < Len(s) /\ s[p + 1] = <<k, at.v>>
             \/ at.found = FALSE /\ \A j \in 1..Len(s) : s[j][1] /= k
    BY <2>2 DEF Located
  <2>4. at.idx = p
    BY <2>3
  <2>5. Cardinality({j \in DOMAIN ref : j < k}) = p
    BY <1>1, <1>2, <2>1, <2>3, PairsKeyed, RankIs
  <2>6. CASE at.found = TRUE
    <3>1. p \in 0..(Len(s) - 1) /\ p + 1 \in 1..Len(s) /\ s[p + 1] = <<k, at.v>>
      BY <1>2, <2>3, <2>6
    <3>2. k \in DOMAIN ref /\ ref[k] = at.v
      BY <1>1, <3>1 DEF Agrees
    <3>3. GetByIdx(n, p) = <<k, at.v>>
      BY <1>1, <3>1, GetByIdxIs
    <3> QED BY <2>4, <2>5, <2>6, <3>2, <3>3
  <2>7. CASE at.found = FALSE
    <3>1. k \notin DOMAIN ref
      BY <1>1, <2>3, <2>7 DEF Agrees
    <3>2. (k \in DOMAIN ref) = FALSE
      BY <3>1, SMT
    <3>3. at.found = (k \in DOMAIN ref)
      BY <2>7, <3>2, Zenon
    <3> QED BY <2>4, <2>5, <2>7, <3>3
  <2> QED BY <2>3, <2>6, <2>7
<1> QED BY <1>3, <1>4

(* Get finds exactly the keys that were set and not erased, with their     *)
(* last values, Idx their ranks; the list has what was inserted, in the    *)
(* order that the indices gave it.                                         *)
THEOREM ContainersAlwaysAgree == AVLSpec => []ContainersAgree
<1>1. AVLInv => ContainersAgree
  <2> SUFFICES ASSUME AVLInv PROVE ContainersAgree
    OBVIOUS
  <2>1. InOrder(list) = [i \in DOMAIN listRef |-> <<listRef[i], 0>>]
    BY InOrderIs DEF AVLInv, ListHolds, Tagged
  <2> QED BY <2>1, MapAgrees DEF AVLInv, ContainersAgree
<1> QED BY <1>1, AVLInvariant, PTL


=============================================================================
