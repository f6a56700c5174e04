---------------------------- MODULE MemoryProofs ----------------------------
(***************************************************************************)
(* Slices that share arrays and append in place, the last error, which is  *)
(* one of them, and strings that share blocks with each other and take     *)
(* them from buffers: what each holds is what it was given, for every      *)
(* number of them and every order of operations.                           *)
(***************************************************************************)
EXTENDS GoSlice, Err, Str, DataLemmas

-----------------------------------------------------------------------------
(* A heap of arrays of elements of E, and slices on it.                    *)

Heap(h, E) ==
  /\ h \in [DOMAIN h -> Seq(E)]
  /\ IsFiniteSet(DOMAIN h) /\ DOMAIN h \subseteq Nat \ {0}

SliceRec == [a : Nat, start : Nat, len : Nat]

SliceIn(h, s) ==
  /\ s \in SliceRec
  /\ s.a = 0 => s.start = 0 /\ s.len = 0
  /\ s.a /= 0 => s.a \in DOMAIN h /\ s.start + s.len <= Len(h[s.a])

\* h and g have the same array under s.
SameArray(g, h, s) == s.a /= 0 => s.a \in DOMAIN g /\ g[s.a] = h[s.a]

\* What an operation gives: r.s on r.h, with the arrays of h that it does not write to.
Result(r, h, E, w) ==
  /\ Heap(r.h, E) /\ SliceIn(r.h, r.s)
  /\ DOMAIN h \subseteq DOMAIN r.h
  /\ \A b \in DOMAIN h : Len(r.h[b]) = Len(h[b]) /\ (b /= w => r.h[b] = h[b])

\* There is a place for a new array.
LEMMA FreshIs ==
  ASSUME NEW D \in SUBSET Nat, IsFiniteSet(D)
  PROVE  LET b == Min((1..(Cardinality(D) + 1)) \ D) IN b \in Nat \ {0} /\ b \notin D
<1> DEFINE n == Cardinality(D) + 1
           F == (1..n) \ D
<1>1. Cardinality(D) \in Nat
  BY FS_CardinalityType
<1>2. F /= {}
  <2> SUFFICES ASSUME 1..n \subseteq D PROVE FALSE
    OBVIOUS
  <2>1. IsFiniteSet(1..n) /\ Cardinality(1..n) = n
    <3>1. Cardinality(1..n) = IF 1 > n THEN 0 ELSE n - 1 + 1
      BY <1>1, FS_Interval
    <3> QED BY <1>1, <3>1, FS_Interval
  <2>2. Cardinality(1..n) <= Cardinality(D)
    BY FS_Subset
  <2> QED BY <1>1, <2>1, <2>2
<1>3. F \in SUBSET Nat
  OBVIOUS
<1>4. Min(F) \in F
  <2> HIDE DEF F
  <2> QED BY <1>2, <1>3, MinIs
<1> QED BY <1>1, <1>4

\* The elements of a slice.
LEMMA ContentIs ==
  ASSUME NEW E, NEW h, Heap(h, E), NEW s, SliceIn(h, s)
  PROVE  /\ Content(h, s) \in Seq(E) /\ Len(Content(h, s)) = s.len
         /\ \A i \in 1..s.len : Content(h, s)[i] = h[s.a][s.start + i]
<1>1. s.len \in Nat /\ s.start \in Nat
  BY DEF SliceIn, SliceRec
<1>2. ASSUME NEW i \in 1..s.len PROVE h[s.a][s.start + i] \in E
  <2>1. s.a \in DOMAIN h /\ s.start + s.len <= Len(h[s.a])
    BY <1>1 DEF SliceIn
  <2>2. h[s.a] \in Seq(E)
    BY <2>1 DEF Heap
  <2> DEFINE t == h[s.a]
  <2>3. t \in Seq(E) /\ s.start + s.len <= Len(t) /\ Len(t) \in Nat
    BY <2>1, <2>2
  <2> HIDE DEF t
  <2>4. s.start + i \in 1..Len(t)
    BY <1>1, <2>3
  <2>5. t[s.start + i] \in E
    BY <2>3, <2>4, ElementOfSeq
  <2> QED BY <2>5 DEF t
<1> DEFINE c == [i \in 1..s.len |-> h[s.a][s.start + i]]
           l == s.len
<1>3. Content(h, s) = c
  BY DEF Content
<1>4. c \in [1..l -> E] /\ \A i \in 1..l : c[i] = h[s.a][s.start + i]
  BY <1>2
<1> HIDE DEF c, l
<1>5. c \in Seq(E) /\ Len(c) = l
  <2>1. l \in Nat
    BY <1>1 DEF l
  <2> QED BY <1>4, <2>1
<1> QED BY <1>3, <1>4, <1>5 DEF l

\* A slice whose array is the same has the same elements.
LEMMA ContentKept ==
  ASSUME NEW h, NEW g, NEW s, SliceIn(h, s), SameArray(g, h, s)
  PROVE  SliceIn(g, s) /\ Content(g, s) = Content(h, s)
<1>1. SliceIn(g, s)
  BY DEF SliceIn, SameArray
<1>2. CASE s.a = 0
  <2>1. 1..s.len = {}
    BY <1>2 DEF SliceIn
  <2>2. Content(g, s) = [i \in {} |-> g[s.a][s.start + i]] /\ Content(h, s) = [i \in {} |-> h[s.a][s.start + i]]
    BY <2>1 DEF Content
  <2>3. Content(g, s) = Content(h, s)
    BY <2>2
  <2> QED BY <1>1, <2>3
<1>3. CASE s.a /= 0
  BY <1>1, <1>3 DEF SameArray, Content
<1> QED BY <1>2, <1>3

\* Array(cap, ...) gives a new array, and leaves the others alone.
LEMMA NewArrayIs ==
  ASSUME NEW E, NEW h, Heap(h, E), NEW elems \in Seq(E), NEW cap \in Nat, Len(elems) <= cap, NEW zero \in E
  PROVE  LET r == NewArray(h, elems, cap, zero) IN
         /\ Result(r, h, E, 0) /\ r.s.a \notin DOMAIN h /\ r.s.a /= 0 /\ r.s.len = Len(elems)
         /\ DOMAIN r.h = DOMAIN h \cup {r.s.a} /\ Content(r.h, r.s) = elems
<1> DEFINE b == Min((1..(Cardinality(DOMAIN h) + 1)) \ DOMAIN h)
           padded == [i \in 1..cap |-> IF i <= Len(elems) THEN elems[i] ELSE zero]
           D == DOMAIN h \cup {b}
           g == [x \in D |-> IF x = b THEN padded ELSE h[x]]
           t == On(b, 0, Len(elems))
           r == NewArray(h, elems, cap, zero)
<1>1. IsFiniteSet(DOMAIN h) /\ DOMAIN h \subseteq Nat \ {0} /\ \A x \in DOMAIN h : h[x] \in Seq(E)
  BY DEF Heap
<1>2. b \in Nat \ {0} /\ b \notin DOMAIN h
  BY <1>1, FreshIs
<1>3. r = Gives(g, t)
  BY DEF NewArray
<1>4. padded \in Seq(E) /\ Len(padded) = cap /\ \A i \in 1..Len(elems) : padded[i] = elems[i]
  <2>1. \A i \in 1..cap : (IF i <= Len(elems) THEN elems[i] ELSE zero) \in E
    BY ElementOfSeq
  <2>2. Len(elems) \in Nat
    OBVIOUS
  <2> QED BY <2>1, <2>2
<1> HIDE DEF b, padded, r
<1>5. DOMAIN g = D /\ g[b] = padded /\ \A x \in DOMAIN h : g[x] = h[x]
  BY <1>2
<1>6. Heap(g, E)
  <2>1. \A x \in D : g[x] \in Seq(E)
    BY <1>1, <1>4, <1>5
  <2>2. IsFiniteSet(D)
    BY <1>1, FS_AddElement
  <2>3. D \subseteq Nat \ {0}
    BY <1>1, <1>2
  <2> HIDE DEF D
  <2> QED BY <1>5, <2>1, <2>2, <2>3 DEF Heap
<1> HIDE DEF g
<1>7. t.a = b /\ t.start = 0 /\ t.len = Len(elems) /\ t \in SliceRec
  BY <1>2 DEF On, SliceRec
<1> HIDE DEF t
<1>8. SliceIn(g, t)
  <2>1. 0 + Len(elems) <= Len(g[b])
    BY <1>4, <1>5
  <2> QED BY <1>2, <1>5, <1>7, <2>1 DEF SliceIn
<1>9. Content(g, t) = elems
  <2>1. /\ Content(g, t) \in Seq(E) /\ Len(Content(g, t)) = t.len
        /\ \A i \in 1..t.len : Content(g, t)[i] = g[t.a][t.start + i]
    BY <1>6, <1>8, ContentIs
  <2>2. ASSUME NEW i \in 1..Len(elems) PROVE Content(g, t)[i] = elems[i]
    <3>1. 0 + i = i
      OBVIOUS
    <3>2. Content(g, t)[i] = g[b][0 + i]
      BY <1>7, <2>1
    <3> QED BY <1>4, <1>5, <3>1, <3>2
  <2>3. Content(g, t) \in Seq(E) /\ Len(Content(g, t)) = Len(elems)
    BY <1>7, <2>1
  <2> QED BY <2>2, <2>3, SeqEqual
<1>10. r.h = g /\ r.s = t
  BY <1>3 DEF Gives
<1>11. Result(r, h, E, 0)
  BY <1>5, <1>6, <1>8, <1>10 DEF Result
<1> QED BY <1>2, <1>5, <1>7, <1>9, <1>10, <1>11 DEF r

\* A write behind the slice: the array keeps its length, and the other arrays are left alone.
LEMMA WrittenIs ==
  ASSUME NEW E, NEW h, Heap(h, E), NEW b \in DOMAIN h, NEW t \in Seq(E), Len(t) = Len(h[b])
  PROVE  LET g == [h EXCEPT ![b] = t] IN
         /\ Heap(g, E) /\ DOMAIN g = DOMAIN h /\ g[b] = t
         /\ \A x \in DOMAIN h : Len(g[x]) = Len(h[x]) /\ (x /= b => g[x] = h[x])
<1> DEFINE g == [h EXCEPT ![b] = t]
<1>1. h \in [DOMAIN h -> Seq(E)] /\ IsFiniteSet(DOMAIN h) /\ DOMAIN h \subseteq Nat \ {0}
  BY DEF Heap
<1>2. g \in [DOMAIN h -> Seq(E)] /\ DOMAIN g = DOMAIN h /\ g[b] = t /\ \A x \in DOMAIN h : x /= b => g[x] = h[x]
  BY <1>1
<1> HIDE DEF g
<1>3. Heap(g, E)
  BY <1>1, <1>2 DEF Heap
<1> QED BY <1>2, <1>3 DEF g

\* Append(v), in place or not.
LEMMA AppendOneElemIs ==
  ASSUME NEW E, NEW h, Heap(h, E), NEW s, SliceIn(h, s), NEW v \in E, NEW zero \in E
  PROVE  LET r == AppendOneElem(h, s, v, zero) IN
         /\ Result(r, h, E, s.a) /\ Content(r.h, r.s) = Append(Content(h, s), v)
         /\ r.s.a /= 0 /\ r.s.len = s.len + 1 /\ (r.s.a = s.a \/ r.s.a \notin DOMAIN h)
<1> DEFINE r == AppendOneElem(h, s, v, zero)
           c == Content(h, s)
<1>1. s.len \in Nat /\ s.start \in Nat /\ s.a \in Nat
  BY DEF SliceIn, SliceRec
<1>2. c \in Seq(E) /\ Len(c) = s.len /\ \A i \in 1..s.len : c[i] = h[s.a][s.start + i]
  BY ContentIs
<1> HIDE DEF c
<1>3. Append(c, v) \in Seq(E) /\ Len(Append(c, v)) = s.len + 1
  BY <1>2
<1>4. CASE ~ Fits(h, s, 1)
  <2> DEFINE cap == IF s.a = 0 THEN 1 ELSE s.len + (s.len \div 2) + 1
  <2>1. cap \in Nat /\ s.len + 1 <= cap
    <3>1. s.a = 0 => s.len = 0
      BY DEF SliceIn
    <3> QED BY <1>1, <3>1
  <2>2. r = NewArray(h, Append(c, v), cap, zero)
    BY <1>4 DEF AppendOneElem, c
  <2> HIDE DEF cap, r
  <2> DEFINE d == Append(c, v)
  <2>3. d \in Seq(E) /\ Len(d) <= cap /\ Len(d) = s.len + 1
    BY <1>3, <2>1
  <2>4. /\ Result(r, h, E, 0) /\ r.s.a \notin DOMAIN h /\ r.s.a /= 0 /\ r.s.len = Len(d)
        /\ Content(r.h, r.s) = d
    <3>1. r = NewArray(h, d, cap, zero)
      BY <2>2
    <3> HIDE DEF d
    <3> DEFINE q == NewArray(h, d, cap, zero)
    <3>2. /\ Result(q, h, E, 0) /\ q.s.a \notin DOMAIN h /\ q.s.a /= 0 /\ q.s.len = Len(d)
          /\ Content(q.h, q.s) = d
      BY <2>1, <2>3, NewArrayIs
    <3> QED BY <3>1, <3>2
  <2> HIDE DEF d
  <2>5. Result(r, h, E, s.a)
    <3>1. \A x \in DOMAIN h : x /= 0
      BY DEF Heap
    <3> QED BY <2>4, <3>1 DEF Result
  <2> QED BY <2>3, <2>4, <2>5 DEF r, c, d
<1>5. CASE Fits(h, s, 1)
  <2> DEFINE at == s.start + s.len + 1
             t == [h[s.a] EXCEPT ![at] = v]
             g == [h EXCEPT ![s.a] = t]
             u == On(s.a, s.start, s.len + 1)
  <2>1. s.a /= 0 /\ Len(h[s.a]) - s.start - s.len >= 1
    <3>1. s.a /= 0
      BY <1>1, <1>5 DEF Fits, Cap, SliceIn
    <3> QED BY <1>5, <3>1 DEF Fits, Cap
  <2>2. s.a \in DOMAIN h /\ h[s.a] \in Seq(E)
    BY <2>1 DEF SliceIn, Heap
  <2>3. at \in 1..Len(h[s.a]) /\ Len(h[s.a]) \in Nat
    BY <1>1, <2>1, <2>2
  <2>4. t \in Seq(E) /\ Len(t) = Len(h[s.a]) /\ t[at] = v /\ \A i \in 1..Len(h[s.a]) : i /= at => t[i] = h[s.a][i]
    <3> DEFINE z == h[s.a]
    <3> HIDE DEF z
    <3>1. z \in Seq(E) /\ at \in 1..Len(z)
      BY <2>2, <2>3 DEF z
    <3> HIDE DEF at
    <3>2. /\ [z EXCEPT ![at] = v] \in Seq(E) /\ Len([z EXCEPT ![at] = v]) = Len(z) /\ [z EXCEPT ![at] = v][at] = v
          /\ \A i \in 1..Len(z) : i /= at => [z EXCEPT ![at] = v][i] = z[i]
      BY <3>1
    <3> QED BY <3>2 DEF z
  <2>5. r = Gives(g, u)
    BY <1>5 DEF AppendOneElem
  <2> HIDE DEF t, r
  <2>6. /\ Heap(g, E) /\ DOMAIN g = DOMAIN h /\ g[s.a] = t
        /\ \A x \in DOMAIN h : Len(g[x]) = Len(h[x]) /\ (x /= s.a => g[x] = h[x])
    BY <2>2, <2>4, WrittenIs
  <2> HIDE DEF g
  <2>7. u \in SliceRec /\ u.a = s.a /\ u.start = s.start /\ u.len = s.len + 1
    BY <1>1 DEF On, SliceRec
  <2> HIDE DEF u
  <2>8. SliceIn(g, u)
    <3>1. u.start + u.len <= Len(g[u.a])
      BY <1>1, <2>1, <2>3, <2>4, <2>6, <2>7
    <3> QED BY <2>1, <2>2, <2>6, <2>7, <3>1 DEF SliceIn
  <2>9. Content(g, u) = Append(c, v)
    <3>1. /\ Content(g, u) \in Seq(E) /\ Len(Content(g, u)) = u.len
          /\ \A i \in 1..u.len : Content(g, u)[i] = g[u.a][u.start + i]
      BY <2>6, <2>8, ContentIs
    <3>2. ASSUME NEW i \in 1..(s.len + 1) PROVE Content(g, u)[i] = Append(c, v)[i]
      <4>1. Content(g, u)[i] = t[s.start + i]
        BY <2>6, <2>7, <3>1
      <4>2. CASE i = s.len + 1
        <5>1. s.start + i = at
          BY <1>1, <4>2
        <5>2. Append(c, v)[i] = v
          BY <1>2, <4>2
        <5> QED BY <2>4, <4>1, <5>1, <5>2
      <4>3. CASE i /= s.len + 1
        <5>1. i \in 1..s.len /\ s.start + i /= at /\ s.start + i \in 1..Len(h[s.a])
          BY <1>1, <2>1, <2>3, <4>3, SMTT(40)
        <5>2. t[s.start + i] = h[s.a][s.start + i]
          BY <2>4, <5>1
        <5>3. Append(c, v)[i] = c[i]
          BY <1>2, <5>1
        <5> QED BY <1>2, <4>1, <5>1, <5>2, <5>3
      <4> QED BY <4>2, <4>3
    <3>3. Content(g, u) \in Seq(E) /\ Len(Content(g, u)) = s.len + 1
      BY <2>7, <3>1
    <3> QED BY <1>3, <3>2, <3>3, SeqEqual
  <2>10. r.h = g /\ r.s = u
    BY <2>5 DEF Gives
  <2>11. Result(r, h, E, s.a)
    BY <2>6, <2>8, <2>10 DEF Result
  <2> QED BY <2>1, <2>7, <2>9, <2>10, <2>11 DEF r, c
<1> QED BY <1>4, <1>5

\* The null slice holds nothing, whatever the heap.
LEMMA NilIs ==
  /\ NilSlice.a = 0 /\ NilSlice.start = 0 /\ NilSlice.len = 0
  /\ \A h : SliceIn(h, NilSlice) /\ Content(h, NilSlice) = <<>>
<1>1. NilSlice.a = 0 /\ NilSlice.start = 0 /\ NilSlice.len = 0 /\ NilSlice \in SliceRec
  BY DEF NilSlice, SliceRec
<1>2. ASSUME NEW h PROVE Content(h, NilSlice) = <<>>
  <2>1. 1..NilSlice.len = {}
    BY <1>1
  <2>2. Content(h, NilSlice) = [i \in {} |-> h[NilSlice.a][NilSlice.start + i]]
    BY <2>1 DEF Content
  <2> QED BY <2>2
<1> QED BY <1>1, <1>2 DEF SliceIn

-----------------------------------------------------------------------------
(* Err: an array is named by err or by one protector, never by two, for a  *)
(* protector takes err with it; so that an append in place touches nothing *)
(* that another one brings back.                                           *)

ErrElem == Msg \cup Pos \cup {NoText}

ErrInv ==
  /\ Heap(errHeap, ErrElem)
  /\ DOMAIN saved = Protector /\ DOMAIN savedTrace = Protector /\ DOMAIN savedErrno = Protector
  /\ SliceIn(errHeap, err) /\ \A q \in Protector : SliceIn(errHeap, saved[q].err)
  /\ \A q \in Protector : saved[q].err.a = err.a => err.a = 0
  /\ \A p, q \in Protector : p /= q /\ saved[p].err.a = saved[q].err.a => saved[p].err.a = 0
  /\ \A q \in Protector : Len(savedTrace[q]) <= MaxTrace
  /\ ErrTraceKept

\* Arrays that no slice is on go, and take nothing with them.
LEMMA KeptIs ==
  ASSUME NEW h, Heap(h, ErrElem), Kept(h), SliceIn(h, err'), \A q \in Protector : SliceIn(h, saved'[q].err)
  PROVE  /\ Heap(errHeap', ErrElem)
         /\ SliceIn(errHeap', err') /\ Content(errHeap', err') = Content(h, err')
         /\ \A q \in Protector : /\ SliceIn(errHeap', saved'[q].err)
                                 /\ Content(errHeap', saved'[q].err) = Content(h, saved'[q].err)
<1> DEFINE used == {err'.a} \cup {saved'[q].err.a : q \in Protector}
           D == DOMAIN h \cap used
<1>1. errHeap' = [a \in D |-> h[a]]
  BY DEF Kept
<1>2. Heap(errHeap', ErrElem)
  <2>1. D \subseteq DOMAIN h /\ IsFiniteSet(D)
    BY FS_Subset DEF Heap
  <2>2. \A a \in D : h[a] \in Seq(ErrElem)
    BY <2>1 DEF Heap
  <2> HIDE DEF D
  <2>3. errHeap' \in [D -> Seq(ErrElem)] /\ DOMAIN errHeap' = D
    BY <1>1, <2>2
  <2> QED BY <2>1, <2>3 DEF Heap
<1>3. \A s : SliceIn(h, s) /\ s.a \in used => SameArray(errHeap', h, s)
  BY <1>1 DEF SameArray, SliceIn
<1>4. SameArray(errHeap', h, err') /\ \A q \in Protector : SameArray(errHeap', h, saved'[q].err)
  BY <1>3
<1> QED BY <1>2, <1>4, ContentKept

\* Every operation leaves a heap h with the new error on it; what is saved is on it as it was.
LEMMA ErrStep ==
  ASSUME ErrInv, NEW h, Heap(h, ErrElem), Kept(h),
         SliceIn(h, err'), Content(h, err') = trace', Len(trace') <= MaxTrace,
         DOMAIN saved' = Protector, DOMAIN savedTrace' = Protector,
         \A q \in Protector : SliceIn(h, saved'[q].err) /\ Content(h, saved'[q].err) = savedTrace'[q],
         \A q \in Protector : saved'[q].err.a = err'.a => err'.a = 0,
         \A p, q \in Protector : p /= q /\ saved'[p].err.a = saved'[q].err.a => saved'[p].err.a = 0,
         \A q \in Protector : Len(savedTrace'[q]) <= MaxTrace,
         DOMAIN savedErrno' = Protector, ErrnoKept'
  PROVE  ErrInv'
<1>1. /\ Heap(errHeap', ErrElem)
      /\ SliceIn(errHeap', err') /\ Content(errHeap', err') = Content(h, err')
      /\ \A q \in Protector : /\ SliceIn(errHeap', saved'[q].err)
                              /\ Content(errHeap', saved'[q].err) = Content(h, saved'[q].err)
  BY KeptIs
<1>2. ErrTraceKept'
  BY <1>1 DEF ErrTraceKept
<1> QED BY <1>1, <1>2 DEF ErrInv

\* A call that only reports keeps the numbers.
LEMMA ErrnoSame ==
  ASSUME ErrInv, UNCHANGED <<errno, saved, lastErrno, savedErrno>>
  PROVE  DOMAIN savedErrno' = Protector /\ ErrnoKept'
BY DEF ErrInv, ErrTraceKept, ErrnoKept

\* A protector takes errno with it, and brings it back.
LEMMA ErrnoMoves ==
  ASSUME ErrInv, NEW q \in Protector, Protect(q) \/ Unprotect(q)
  PROVE  DOMAIN savedErrno' = Protector /\ ErrnoKept'
<1>1. /\ errno = lastErrno /\ DOMAIN saved = Protector /\ DOMAIN savedErrno = Protector
      /\ \A p \in Protector : saved[p].errno = savedErrno[p]
  BY DEF ErrInv, ErrTraceKept, ErrnoKept
<1>2. CASE Protect(q)
  <2>1. /\ errno' = lastErrno' /\ saved' = [saved EXCEPT ![q] = [err |-> err, errno |-> errno]]
        /\ savedErrno' = [savedErrno EXCEPT ![q] = lastErrno]
    BY <1>2 DEF Protect
  <2>2. /\ saved'[q].errno = errno /\ savedErrno'[q] = lastErrno
        /\ \A p \in Protector \ {q} : saved'[p] = saved[p] /\ savedErrno'[p] = savedErrno[p]
    BY <1>1, <2>1
  <2> QED BY <1>1, <2>1, <2>2 DEF ErrnoKept
<1>3. CASE Unprotect(q)
  <2>1. /\ errno' = saved[q].errno /\ saved' = [saved EXCEPT ![q] = NotMade]
        /\ lastErrno' = savedErrno[q] /\ savedErrno' = [savedErrno EXCEPT ![q] = -1]
    BY <1>3 DEF Unprotect, HistoryBack
  <2>2. /\ saved'[q].errno = -1 /\ savedErrno'[q] = -1
        /\ \A p \in Protector \ {q} : saved'[p] = saved[p] /\ savedErrno'[p] = savedErrno[p]
    BY <1>1, <2>1 DEF NotMade
  <2> QED BY <1>1, <2>1, <2>2 DEF ErrnoKept
<1> QED BY <1>2, <1>3

\* A result that writes to no array but err's leaves what is saved alone.
LEMMA SavedAlone ==
  ASSUME ErrInv, NEW r, NEW w, Result(r, errHeap, ErrElem, w), w = 0 \/ w = err.a
  PROVE  \A q \in Protector : SliceIn(r.h, saved[q].err) /\ Content(r.h, saved[q].err) = savedTrace[q]
<1> SUFFICES ASSUME NEW q \in Protector
             PROVE  SliceIn(r.h, saved[q].err) /\ Content(r.h, saved[q].err) = savedTrace[q]
  OBVIOUS
<1> DEFINE s == saved[q].err
<1>1. SliceIn(errHeap, s) /\ Content(errHeap, s) = savedTrace[q] /\ (s.a = err.a => err.a = 0)
  BY DEF ErrInv, ErrTraceKept
<1> HIDE DEF s
<1>2. SameArray(r.h, errHeap, s)
  <2> SUFFICES ASSUME s.a /= 0 PROVE s.a \in DOMAIN r.h /\ r.h[s.a] = errHeap[s.a]
    BY DEF SameArray
  <2>1. s.a \in DOMAIN errHeap /\ s.a /= w
    BY <1>1 DEF SliceIn
  <2> QED BY <2>1 DEF Result
<1>3. SliceIn(r.h, s) /\ Content(r.h, s) = Content(errHeap, s)
  BY <1>1, <1>2, ContentKept
<1> QED BY <1>1, <1>3 DEF s

\* The new array of a result, or the one of err, is no other slice's.
LEMMA OwnAlone ==
  ASSUME ErrInv, NEW b, b = err.a \/ b \notin DOMAIN errHeap
  PROVE  \A q \in Protector : saved[q].err.a = b => b = 0
<1>1. \A q \in Protector : saved[q].err.a = err.a => err.a = 0
  BY DEF ErrInv
<1>2. \A q \in Protector : saved[q].err.a /= 0 => saved[q].err.a \in DOMAIN errHeap
  BY DEF ErrInv, SliceIn
<1> QED BY <1>1, <1>2

\* What err may hold.
LEMMA ElemsIs == NoText \in ErrElem /\ (\A s \in Msg : s \in ErrElem) /\ (\A p \in Pos : p \in ErrElem)
BY DEF ErrElem

\* A position is pushed: in place behind err, or into a new array, or not at all.
LEMMA PushKeeps ==
  ASSUME ErrInv, NEW pos \in Pos \cup {NoPos}, PushErrBT(pos)
  PROVE  ErrInv'
<1> DEFINE r0 == Gives(errHeap, err)
           r == PushErrBTImpl(r0, pos)
<1>1. r0.h = errHeap /\ r0.s = err
  BY DEF Gives
<1>2. /\ Heap(errHeap, ErrElem) /\ SliceIn(errHeap, err) /\ Content(errHeap, err) = trace
      /\ Len(trace) <= MaxTrace /\ DOMAIN saved = Protector /\ DOMAIN savedTrace = Protector
      /\ \A p, q \in Protector : p /= q /\ saved[p].err.a = saved[q].err.a => saved[p].err.a = 0
      /\ \A q \in Protector : Len(savedTrace[q]) <= MaxTrace
  BY DEF ErrInv, ErrTraceKept
<1>3. trace \in Seq(ErrElem) /\ Len(trace) = err.len /\ Len(trace) \in Nat /\ err.len \in Nat
  <2>1. trace \in Seq(ErrElem) /\ Len(trace) = err.len
    BY <1>2, ContentIs
  <2> QED BY <2>1
<1>4. /\ err' = r.s /\ Kept(r.h) /\ saved' = saved /\ savedTrace' = savedTrace
      /\ trace' = IF pos = NoPos \/ Len(trace) = MaxTrace THEN trace ELSE Append(trace, pos)
  BY DEF PushErrBT
<1>errno. DOMAIN savedErrno' = Protector /\ ErrnoKept'
  BY ErrnoSame DEF PushErrBT
<1>5. MaxTrace \in Nat
  BY ErrAssumption
<1> HIDE DEF r0
<1>6. CASE err.len < MaxTrace /\ pos /= NoPos
  <2>1. r = AppendOneElem(errHeap, err, pos, NoText)
    BY <1>1, <1>6 DEF PushErrBTImpl
  <2> HIDE DEF r
  <2>2. pos \in ErrElem
    BY <1>6, ElemsIs
  <2> DEFINE a == AppendOneElem(errHeap, err, pos, NoText)
  <2>3. /\ Result(a, errHeap, ErrElem, err.a) /\ Content(a.h, a.s) = Append(Content(errHeap, err), pos)
        /\ a.s.a /= 0 /\ (a.s.a = err.a \/ a.s.a \notin DOMAIN errHeap)
    BY <1>2, <2>2, ElemsIs, AppendOneElemIs
  <2> HIDE DEF a
  <2>4. r = a
    BY <2>1 DEF a
  <2>5. trace' = Append(trace, pos) /\ Len(trace') <= MaxTrace
    <3>1. trace' = Append(trace, pos)
      BY <1>3, <1>4, <1>5, <1>6
    <3>2. Len(Append(trace, pos)) = Len(trace) + 1
      BY <1>3
    <3> QED BY <1>3, <1>5, <1>6, <3>1, <3>2
  <2>6. Content(r.h, err') = trace'
    BY <1>2, <1>4, <2>3, <2>4, <2>5
  <2>7. \A q \in Protector : SliceIn(r.h, saved'[q].err) /\ Content(r.h, saved'[q].err) = savedTrace'[q]
    BY <1>4, <2>3, <2>4, SavedAlone
  <2>8. \A q \in Protector : saved'[q].err.a = err'.a => err'.a = 0
    BY <1>4, <2>3, <2>4, OwnAlone
  <2>9. Heap(r.h, ErrElem) /\ SliceIn(r.h, err')
    BY <1>4, <2>3, <2>4 DEF Result
  <2> QED BY <1>2, <1>4, <2>5, <2>6, <2>7, <2>8, <2>9, <1>errno, ErrStep
<1>7. CASE ~ (err.len < MaxTrace /\ pos /= NoPos)
  <2>1. r.h = errHeap /\ r.s = err
    BY <1>1, <1>7 DEF PushErrBTImpl
  <2>2. trace' = trace
    BY <1>2, <1>3, <1>4, <1>5, <1>7
  <2> HIDE DEF r
  <2>3. \A q \in Protector : SliceIn(errHeap, saved[q].err) /\ Content(errHeap, saved[q].err) = savedTrace[q]
    BY DEF ErrInv, ErrTraceKept
  <2>4. \A q \in Protector : saved[q].err.a = err.a => err.a = 0
    BY DEF ErrInv
  <2> QED BY <1>2, <1>4, <2>1, <2>2, <2>3, <2>4, <1>errno, ErrStep
<1> QED BY <1>6, <1>7

\* Two elements.
LEMMA AppendToOne ==
  ASSUME NEW x, NEW y
  PROVE  Append(<<x>>, y) = <<x, y>> /\ Len(<<x, y>>) = 2
<1>1. <<x>> \in Seq({x, y}) /\ Len(<<x>>) = 1 /\ <<x, y>> \in Seq({x, y}) /\ Len(<<x, y>>) = 2
  OBVIOUS
<1>2. Append(<<x>>, y) \in Seq({x, y}) /\ Len(Append(<<x>>, y)) = 2
  BY <1>1
<1>3. \A i \in 1..2 : Append(<<x>>, y)[i] = <<x, y>>[i]
  <2>1. \A i \in 1..2 : i = 1 \/ i = 2
    OBVIOUS
  <2>2. Append(<<x>>, y)[1] = x /\ Append(<<x>>, y)[2] = y
    BY <1>1
  <2> QED BY <2>1, <2>2
<1> QED BY <1>1, <1>2, <1>3, SeqEqual

\* A new error is on a new array, which no protector can have.
LEMMA SetErrKeeps ==
  ASSUME ErrInv, NEW s \in Msg, NEW pos \in Pos \cup {NoPos}, SetErr(s, pos)
  PROVE  ErrInv'
<1> DEFINE a == AppendOneElem(errHeap, NilSlice, s, NoText)
           r == PushErrBTImpl(a, pos)
<1>1. /\ Heap(errHeap, ErrElem) /\ DOMAIN saved = Protector /\ DOMAIN savedTrace = Protector
      /\ \A p, q \in Protector : p /= q /\ saved[p].err.a = saved[q].err.a => saved[p].err.a = 0
      /\ \A q \in Protector : Len(savedTrace[q]) <= MaxTrace
  BY DEF ErrInv
<1>2. /\ Result(a, errHeap, ErrElem, NilSlice.a) /\ Content(a.h, a.s) = Append(Content(errHeap, NilSlice), s)
      /\ a.s.a /= 0 /\ a.s.len = NilSlice.len + 1 /\ (a.s.a = NilSlice.a \/ a.s.a \notin DOMAIN errHeap)
  BY <1>1, NilIs, ElemsIs, AppendOneElemIs
<1>3. /\ err' = r.s /\ Kept(r.h) /\ saved' = saved /\ savedTrace' = savedTrace
      /\ trace' = IF pos = NoPos \/ MaxTrace = 1 THEN <<s>> ELSE <<s, pos>>
  BY DEF SetErr
<1>errno. DOMAIN savedErrno' = Protector /\ ErrnoKept'
  BY ErrnoSame DEF SetErr
<1> HIDE DEF a
<1>4. /\ Result(a, errHeap, ErrElem, 0) /\ Content(a.h, a.s) = <<s>>
      /\ a.s.a /= 0 /\ a.s.len = 1 /\ a.s.a \notin DOMAIN errHeap
  <2>1. Append(<<>>, s) = <<s>> /\ 0 + 1 = 1
    OBVIOUS
  <2> QED BY <1>2, <2>1, NilIs
<1>5. MaxTrace \in Nat \ {0}
  BY ErrAssumption
<1>6. Heap(a.h, ErrElem) /\ SliceIn(a.h, a.s)
  BY <1>4 DEF Result
<1>7. CASE 1 < MaxTrace /\ pos /= NoPos
  <2> DEFINE b == AppendOneElem(a.h, a.s, pos, NoText)
  <2>1. r = b
    BY <1>4, <1>7 DEF PushErrBTImpl
  <2> HIDE DEF r
  <2>2. pos \in ErrElem
    BY <1>7, ElemsIs
  <2>3. /\ Result(b, a.h, ErrElem, a.s.a) /\ Content(b.h, b.s) = Append(Content(a.h, a.s), pos)
        /\ b.s.a /= 0 /\ (b.s.a = a.s.a \/ b.s.a \notin DOMAIN a.h)
    BY <1>6, <2>2, ElemsIs, AppendOneElemIs
  <2> HIDE DEF b
  <2>4. Result(b, errHeap, ErrElem, 0) /\ b.s.a \notin DOMAIN errHeap
    <3>1. DOMAIN errHeap \subseteq DOMAIN a.h /\ DOMAIN a.h \subseteq DOMAIN b.h
      BY <1>4, <2>3 DEF Result
    <3>2. \A x \in DOMAIN errHeap : x /= 0
      BY <1>1 DEF Heap
    <3>3. \A x \in DOMAIN errHeap : a.h[x] = errHeap[x]
      BY <1>4, <3>2 DEF Result
    <3>4. \A x \in DOMAIN errHeap : x /= a.s.a /\ b.h[x] = a.h[x]
      BY <1>4, <2>3, <3>1 DEF Result
    <3>5. Heap(b.h, ErrElem) /\ SliceIn(b.h, b.s)
      BY <2>3 DEF Result
    <3> QED BY <1>4, <2>3, <3>1, <3>3, <3>4, <3>5 DEF Result
  <2>5. trace' = <<s, pos>> /\ Append(<<s>>, pos) = <<s, pos>> /\ Len(<<s, pos>>) = 2 /\ 2 <= MaxTrace
    <3>1. 2 <= MaxTrace /\ MaxTrace /= 1
      BY <1>5, <1>7
    <3>2. Append(<<s>>, pos) = <<s, pos>> /\ Len(<<s, pos>>) = 2
      BY AppendToOne
    <3> QED BY <1>3, <1>7, <3>1, <3>2
  <2>6. Content(r.h, err') = trace'
    BY <1>3, <1>4, <2>1, <2>3, <2>5
  <2>7. \A q \in Protector : SliceIn(r.h, saved'[q].err) /\ Content(r.h, saved'[q].err) = savedTrace'[q]
    BY <1>3, <2>1, <2>4, SavedAlone
  <2>8. \A q \in Protector : saved'[q].err.a = err'.a => err'.a = 0
    BY <1>3, <2>1, <2>4, OwnAlone
  <2>9. Heap(r.h, ErrElem) /\ SliceIn(r.h, err')
    BY <1>3, <2>1, <2>4 DEF Result
  <2> QED BY <1>1, <1>3, <2>5, <2>6, <2>7, <2>8, <2>9, <1>errno, ErrStep
<1>8. CASE ~ (1 < MaxTrace /\ pos /= NoPos)
  <2>1. r = a
    BY <1>4, <1>8 DEF PushErrBTImpl
  <2> HIDE DEF r
  <2>2. trace' = <<s>> /\ Len(<<s>>) = 1 /\ 1 <= MaxTrace
    BY <1>3, <1>5, <1>8
  <2>3. Content(r.h, err') = trace'
    BY <1>3, <1>4, <2>1, <2>2
  <2>7. \A q \in Protector : SliceIn(r.h, saved'[q].err) /\ Content(r.h, saved'[q].err) = savedTrace'[q]
    BY <1>3, <1>4, <2>1, SavedAlone
  <2>8. \A q \in Protector : saved'[q].err.a = err'.a => err'.a = 0
    BY <1>3, <1>4, <2>1, OwnAlone
  <2> QED BY <1>1, <1>3, <1>6, <2>1, <2>2, <2>3, <2>7, <2>8, <1>errno, ErrStep
<1> QED BY <1>7, <1>8

\* A protector takes err with it, and brings it back when no other has it.
LEMMA ProtectKeeps ==
  ASSUME ErrInv, NEW q \in Protector, Protect(q) \/ Unprotect(q)
  PROVE  ErrInv'
<1>1. /\ Heap(errHeap, ErrElem) /\ SliceIn(errHeap, err) /\ Content(errHeap, err) = trace
      /\ DOMAIN saved = Protector /\ DOMAIN savedTrace = Protector /\ Len(trace) <= MaxTrace
      /\ \A p \in Protector : SliceIn(errHeap, saved[p].err) /\ Content(errHeap, saved[p].err) = savedTrace[p]
      /\ \A p \in Protector : saved[p].err.a = err.a => err.a = 0
      /\ \A p, o \in Protector : p /= o /\ saved[p].err.a = saved[o].err.a => saved[p].err.a = 0
      /\ \A p \in Protector : Len(savedTrace[p]) <= MaxTrace
  BY DEF ErrInv, ErrTraceKept
<1>2. CASE Protect(q)
  <2>1. /\ err' = NilSlice /\ trace' = <<>> /\ Kept(errHeap)
        /\ saved' = [saved EXCEPT ![q] = [err |-> err, errno |-> errno]]
        /\ savedTrace' = [savedTrace EXCEPT ![q] = trace]
    BY <1>2 DEF Protect
  <2>2. /\ DOMAIN saved' = Protector /\ DOMAIN savedTrace' = Protector
        /\ saved'[q].err = err /\ savedTrace'[q] = trace
        /\ \A p \in Protector : p /= q => saved'[p] = saved[p] /\ savedTrace'[p] = savedTrace[p]
    BY <1>1, <2>1
  <2>3. Len(trace') <= MaxTrace
    BY <2>1, ErrAssumption
  <2>4. \A p \in Protector : SliceIn(errHeap, saved'[p].err) /\ Content(errHeap, saved'[p].err) = savedTrace'[p]
    BY <1>1, <2>2
  <2>5. \A p, o \in Protector : p /= o /\ saved'[p].err.a = saved'[o].err.a => saved'[p].err.a = 0
    <3> SUFFICES ASSUME NEW p \in Protector, NEW o \in Protector, p /= o, saved'[p].err.a = saved'[o].err.a
                 PROVE  saved'[p].err.a = 0
      OBVIOUS
    <3>1. CASE p = q
      BY <1>1, <2>2, <3>1
    <3>2. CASE o = q
      BY <1>1, <2>2, <3>2
    <3>3. CASE p /= q /\ o /= q
      BY <1>1, <2>2, <3>3
    <3> QED BY <3>1, <3>2, <3>3
  <2>6. \A p \in Protector : saved'[p].err.a = err'.a => err'.a = 0
    BY <2>1, NilIs
  <2>7. SliceIn(errHeap, err') /\ Content(errHeap, err') = trace'
    BY <2>1, NilIs
  <2>8. \A p \in Protector : Len(savedTrace'[p]) <= MaxTrace
    BY <1>1, <2>2
  <2> QED BY <1>1, <2>1, <2>2, <2>3, <2>4, <2>5, <2>6, <2>7, <2>8, ErrnoMoves, ErrStep
<1>3. CASE Unprotect(q)
  <2>1. /\ err' = saved[q].err /\ trace' = savedTrace[q] /\ Kept(errHeap)
        /\ saved' = [saved EXCEPT ![q] = NotMade] /\ savedTrace' = [savedTrace EXCEPT ![q] = <<>>]
    BY <1>3 DEF Unprotect, HistoryBack
  <2>2. /\ DOMAIN saved' = Protector /\ DOMAIN savedTrace' = Protector
        /\ saved'[q].err = NilSlice /\ savedTrace'[q] = <<>>
        /\ \A p \in Protector : p /= q => saved'[p] = saved[p] /\ savedTrace'[p] = savedTrace[p]
    BY <1>1, <2>1 DEF NotMade
  <2>3. \A p \in Protector : SliceIn(errHeap, saved'[p].err) /\ Content(errHeap, saved'[p].err) = savedTrace'[p]
    BY <1>1, <2>2, NilIs
  <2>4. \A p \in Protector : saved'[p].err.a = err'.a => err'.a = 0
    BY <1>1, <2>1, <2>2, NilIs
  <2>5. \A p, o \in Protector : p /= o /\ saved'[p].err.a = saved'[o].err.a => saved'[p].err.a = 0
    BY <1>1, <2>2, NilIs
  <2>6. Len(trace') <= MaxTrace
    BY <1>1, <2>1
  <2>7. \A p \in Protector : Len(savedTrace'[p]) <= MaxTrace
    BY <1>1, <2>2, ErrAssumption
  <2>8. SliceIn(errHeap, err') /\ Content(errHeap, err') = trace'
    BY <1>1, <2>1
  <2> QED BY <1>1, <2>1, <2>2, <2>3, <2>4, <2>5, <2>6, <2>7, <2>8, ErrnoMoves, ErrStep
<1> QED BY <1>2, <1>3

(* What is reported is kept by the slices that share arrays, and what a    *)
(* protector took away, errno with it, comes back as it was.               *)
THEOREM ErrorsAreKept == ErrSpec => []ErrTraceKept
<1>1. ErrInit => ErrInv
  <2> SUFFICES ASSUME ErrInit PROVE ErrInv
    OBVIOUS
  <2>1. /\ errHeap = [a \in {} |-> <<>>] /\ err = NilSlice /\ trace = <<>>
        /\ DOMAIN saved = Protector /\ DOMAIN savedTrace = Protector
        /\ \A q \in Protector : saved[q].err = NilSlice /\ savedTrace[q] = <<>>
        /\ DOMAIN savedErrno = Protector /\ ErrnoKept
    BY DEF ErrInit, NotMade, ErrnoKept
  <2>2. Heap(errHeap, ErrElem)
    BY <2>1, FS_EmptySet DEF Heap
  <2>3. SliceIn(errHeap, NilSlice) /\ Content(errHeap, NilSlice) = <<>> /\ NilSlice.a = 0
    BY NilIs
  <2>4. Len(<<>>) <= MaxTrace
    BY ErrAssumption
  <2> QED BY <2>1, <2>2, <2>3, <2>4 DEF ErrInv, ErrTraceKept
<1>2. ErrInv /\ [ErrNext]_errVars => ErrInv'
  <2> SUFFICES ASSUME ErrInv, [ErrNext]_errVars PROVE ErrInv'
    OBVIOUS
  <2>1. ASSUME NEW pos \in Pos \cup {NoPos}, PushErrBT(pos) PROVE ErrInv'
    BY <2>1, PushKeeps
  <2>2. ASSUME NEW pos \in Pos \cup {NoPos}, NEW s \in Msg, SetErr(s, pos) PROVE ErrInv'
    BY <2>2, SetErrKeeps
  <2>3. ASSUME NEW e \in Errno, SetErrno(e) PROVE ErrInv'
    BY <2>3 DEF SetErrno, ErrInv, ErrTraceKept, ErrnoKept
  <2>4. ASSUME NEW q \in Protector, Protect(q) \/ Unprotect(q) PROVE ErrInv'
    BY <2>4, ProtectKeeps
  <2>5. CASE UNCHANGED errVars
    BY <2>5 DEF errVars, history, ErrInv, ErrTraceKept, ErrnoKept
  <2> QED BY <2>1, <2>2, <2>3, <2>4, <2>5 DEF ErrNext
<1>3. ErrInv => ErrTraceKept
  BY DEF ErrInv
<1> QED BY <1>1, <1>2, <1>3, PTL DEF ErrSpec

-----------------------------------------------------------------------------
(* GoSlice.  The capacity of a new array.                                  *)

GrowsTo(G, M, need) == G = [c \in 0..M |-> IF c >= need THEN c ELSE G[c + (c \div 2) + 1]]

\* What GrownCap chooses.
LEMMA GrowDef ==
  ASSUME NEW cap, NEW need, NEW F, GrowsTo(F, cap + 2 * need, need)
  PROVE  \E G : GrowsTo(G, cap + 2 * need, need) /\ GrownCap(cap, need) = G[cap]
BY DEF GrowsTo, GrownCap

\* The loop goes up, and not past the bound that the function is defined to.
LEMMA NextCap ==
  ASSUME NEW need \in Nat, NEW M \in Nat, 2 * need <= M, NEW c \in 0..M, c < need
  PROVE  c + (c \div 2) + 1 \in (c + 1)..M
<1>1. c \div 2 \in Nat /\ 2 * (c \div 2) <= c
  OBVIOUS
<1> QED BY <1>1

\* There is a function as the loop computes it: from the large capacities down.
LEMMA GrowExists ==
  ASSUME NEW need \in Nat, NEW M \in Nat, 2 * need <= M
  PROVE  \E F : GrowsTo(F, M, need)
<1> DEFINE Up(k) == {c \in 0..M : c >= need - k}
           Part(F, k) == /\ F \in [Up(k) -> Nat]
                         /\ \A c \in Up(k) : F[c] = IF c >= need THEN c ELSE F[c + (c \div 2) + 1]
           Good == {k \in Nat : \E F : Part(F, k)}
<1>1. 0 \in Good
  <2> DEFINE F == [c \in Up(0) |-> c]
  <2>1. Part(F, 0)
    OBVIOUS
  <2> QED BY <2>1
<1>2. ASSUME NEW k \in Nat, k \in Good PROVE k + 1 \in Good
  <2>1. PICK F : Part(F, k)
    BY <1>2
  <2> DEFINE val(c) == IF c >= need THEN c ELSE F[c + (c \div 2) + 1]
             H == [c \in Up(k + 1) |-> val(c)]
  <2>2. \A c \in Up(k + 1) : c < need => c + (c \div 2) + 1 \in Up(k)
    <3> SUFFICES ASSUME NEW c \in Up(k + 1), c < need PROVE c + (c \div 2) + 1 \in Up(k)
      OBVIOUS
    <3>1. c \in 0..M /\ c + 1 >= need - k
      OBVIOUS
    <3>2. c + (c \div 2) + 1 \in (c + 1)..M
      BY NextCap
    <3> QED BY <3>1, <3>2
  <2>3. \A c \in Up(k + 1) : val(c) \in Nat
    <3> SUFFICES ASSUME NEW c \in Up(k + 1) PROVE val(c) \in Nat
      OBVIOUS
    <3>1. CASE c >= need
      BY <3>1
    <3>2. CASE ~(c >= need)
      <4>1. c < need
        BY <3>2
      <4>2. F[c + (c \div 2) + 1] \in Nat
        BY <2>1, <2>2, <4>1
      <4> QED BY <3>2, <4>2
    <3> QED BY <3>1, <3>2
  <2>4. \A c \in Up(k) : c \in Up(k + 1) /\ H[c] = F[c]
    BY <2>1
  <2>5. H \in [Up(k + 1) -> Nat] /\ \A c \in Up(k + 1) : H[c] = val(c)
    BY <2>3
  <2> HIDE DEF H
  <2>6. \A c \in Up(k + 1) : H[c] = IF c >= need THEN c ELSE H[c + (c \div 2) + 1]
    <3> SUFFICES ASSUME NEW c \in Up(k + 1) PROVE H[c] = IF c >= need THEN c ELSE H[c + (c \div 2) + 1]
      OBVIOUS
    <3>1. CASE c >= need
      BY <2>5, <3>1
    <3>2. CASE ~(c >= need)
      <4>1. c < need
        BY <3>2
      <4>2. H[c + (c \div 2) + 1] = F[c + (c \div 2) + 1]
        BY <2>2, <2>4, <4>1
      <4> QED BY <2>5, <3>2, <4>2
    <3> QED BY <3>1, <3>2
  <2> QED BY <2>5, <2>6
<1>3. need \in Good
  <2> HIDE DEF Good
  <2> QED BY <1>1, <1>2, InductionNat
<1>4. PICK F : Part(F, need)
  BY <1>3
<1>5. Up(need) = 0..M
  OBVIOUS
<1> HIDE DEF Up
<1>6. F \in [0..M -> Nat] /\ \A c \in 0..M : F[c] = IF c >= need THEN c ELSE F[c + (c \div 2) + 1]
  BY <1>4, <1>5
<1> QED BY <1>6 DEF GrowsTo

\* The loop ends with room for what is needed, and takes none away.
LEMMA GrowsIs ==
  ASSUME NEW need \in Nat, NEW M \in Nat, 2 * need <= M, NEW G, GrowsTo(G, M, need), NEW c0 \in 0..M
  PROVE  G[c0] \in Nat /\ need <= G[c0] /\ c0 <= G[c0]
<1> DEFINE Ends(c) == G[c] \in Nat /\ need <= G[c] /\ c <= G[c]
           Good == {k \in Nat : \A c \in 0..M : c >= need - k => Ends(c)}
<1>1. \A c \in 0..M : G[c] = IF c >= need THEN c ELSE G[c + (c \div 2) + 1]
  BY DEF GrowsTo
<1>2. 0 \in Good
  BY <1>1
<1>3. ASSUME NEW k \in Nat, k \in Good PROVE k + 1 \in Good
  <2> SUFFICES ASSUME NEW c \in 0..M, c >= need - (k + 1) PROVE Ends(c)
    OBVIOUS
  <2>1. CASE c >= need
    BY <1>1, <2>1
  <2>2. CASE ~(c >= need)
    <3>1. c < need
      BY <2>2
    <3>2. c + (c \div 2) + 1 \in (c + 1)..M
      BY <3>1, NextCap
    <3>3. c + (c \div 2) + 1 \in 0..M /\ c + (c \div 2) + 1 >= need - k
      BY <3>2
    <3>4. Ends(c + (c \div 2) + 1)
      BY <1>3, <3>3
    <3>5. G[c] = G[c + (c \div 2) + 1]
      BY <1>1, <2>2
    <3> QED BY <3>2, <3>4, <3>5
  <2> QED BY <2>1, <2>2
<1>4. need \in Good
  <2> HIDE DEF Good
  <2> QED BY <1>2, <1>3, InductionNat
<1>5. c0 >= need - need
  OBVIOUS
<1> QED BY <1>4, <1>5

\* There is room for what is needed.
LEMMA GrownCapIs ==
  ASSUME NEW cap \in Nat, NEW need \in Nat
  PROVE  GrownCap(cap, need) \in Nat /\ need <= GrownCap(cap, need)
<1> DEFINE M == cap + 2 * need
<1>1. M \in Nat /\ 2 * need <= M /\ cap \in 0..M
  OBVIOUS
<1>2. PICK F : GrowsTo(F, M, need)
  <2> HIDE DEF M
  <2> QED BY <1>1, GrowExists
<1>3. PICK G : GrowsTo(G, M, need) /\ GrownCap(cap, need) = G[cap]
  BY <1>2, GrowDef
<1> HIDE DEF M
<1> QED BY <1>1, <1>3, GrowsIs

\* There is room for what a slice holds.
LEMMA CapIs ==
  ASSUME NEW E, NEW h, Heap(h, E), NEW s, SliceIn(h, s)
  PROVE  /\ Cap(h, s) \in Nat /\ s.len <= Cap(h, s)
         /\ s.a /= 0 => Cap(h, s) = Len(h[s.a]) - s.start /\ h[s.a] \in Seq(E) /\ Len(h[s.a]) \in Nat
<1>1. s.len \in Nat /\ s.start \in Nat
  BY DEF SliceIn, SliceRec
<1>2. CASE s.a = 0
  BY <1>2 DEF Cap, SliceIn
<1>3. CASE s.a /= 0
  <2>1. s.a \in DOMAIN h /\ s.start + s.len <= Len(h[s.a])
    BY <1>3 DEF SliceIn
  <2>2. h[s.a] \in Seq(E)
    BY <2>1 DEF Heap
  <2>3. Len(h[s.a]) \in Nat
    BY <2>2
  <2> QED BY <1>1, <1>3, <2>1, <2>2, <2>3 DEF Cap
<1> QED BY <1>2, <1>3

\* What does not fit behind the slice goes into a new array, with the slice before it.
LEMMA NewAndAppendIs ==
  ASSUME NEW E, NEW h, Heap(h, E), NEW s, SliceIn(h, s), NEW elems \in Seq(E), NEW zero \in E
  PROVE  LET r == NewArrayAndAppend(h, s, elems, zero) IN
         Result(r, h, E, 0) /\ Content(r.h, r.s) = Content(h, s) \o elems
<1> DEFINE c == Content(h, s) \o elems
           cap == GrownCap(Cap(h, s), s.len + Len(elems))
           r == NewArrayAndAppend(h, s, elems, zero)
<1>1. Content(h, s) \in Seq(E) /\ Len(Content(h, s)) = s.len
  BY ContentIs
<1>2. c \in Seq(E) /\ Len(c) = s.len + Len(elems)
  BY <1>1, ConcatProperties
<1>3. s.len + Len(elems) \in Nat
  BY DEF SliceIn, SliceRec
<1>4. Cap(h, s) \in Nat
  BY CapIs
<1>5. cap \in Nat /\ s.len + Len(elems) <= cap
  BY <1>3, <1>4, GrownCapIs
<1>6. r = NewArray(h, c, cap, zero)
  BY DEF NewArrayAndAppend
<1> HIDE DEF r, c, cap
<1> DEFINE q == NewArray(h, c, cap, zero)
<1>7. Len(c) <= cap
  BY <1>2, <1>5
<1>8. Result(q, h, E, 0) /\ Content(q.h, q.s) = c
  BY <1>2, <1>5, <1>7, NewArrayIs
<1> QED BY <1>6, <1>8 DEF r, c

-----------------------------------------------------------------------------
(* GoSlice.  The loops that copy and reverse, one step after another.      *)

\* The greatest of some places.
LEMMA MaxIs ==
  ASSUME NEW n \in Nat, NEW S \in SUBSET (1..n), S /= {}
  PROVE  Max(S) \in S /\ \A x \in S : x <= Max(S)
<1> DEFINE T == {n - x : x \in S}
<1>1. T \in SUBSET Nat /\ T /= {}
  <2>1. \A x \in S : n - x \in Nat
    OBVIOUS
  <2>2. PICK x \in S : TRUE
    OBVIOUS
  <2> QED BY <2>1, <2>2
<1>2. PICK m \in T : \A y \in T : m <= y
  <2> HIDE DEF T
  <2> QED BY <1>1, LeastNat
<1>3. PICK x \in S : m = n - x
  BY <1>2
<1>4. \A y \in S : x >= y
  <2> SUFFICES ASSUME NEW y \in S PROVE x >= y
    OBVIOUS
  <2>1. n - y \in T
    OBVIOUS
  <2>2. m <= n - y
    BY <1>2, <2>1
  <2> QED BY <1>3, <2>2
<1>5. \E y \in S : \A z \in S : y >= z
  BY <1>4
<1>6. Max(S) \in S /\ \A y \in S : Max(S) >= y
  BY <1>5 DEF Max
<1> QED BY <1>6

\* The greatest of the first places, and the rest of them.
LEMMA MaxUpTo ==
  ASSUME NEW k \in Nat
  PROVE  /\ 1..(k + 1) /= {} /\ Max(1..(k + 1)) = k + 1
         /\ (1..(k + 1)) \ {k + 1} = 1..k
<1>1. k + 1 \in 1..(k + 1) /\ 1..(k + 1) /= {} /\ k + 1 \in Nat
  OBVIOUS
<1>2. Max(1..(k + 1)) \in 1..(k + 1) /\ \A x \in 1..(k + 1) : x <= Max(1..(k + 1))
  BY <1>1, MaxIs
<1>3. Max(1..(k + 1)) = k + 1
  BY <1>1, <1>2
<1> QED BY <1>1, <1>3

Places(n) == [i \in DOMAIN [i \in 1..n |-> i] |-> i]

\* The places a fold goes through.
LEMMA PlacesIs ==
  ASSUME NEW n \in Nat
  PROVE  DOMAIN Places(n) = 1..n /\ \A S \in SUBSET (1..n) : S /= {} => Places(n)[Max(S)] = Max(S)
<1>1. DOMAIN Places(n) = 1..n /\ \A i \in 1..n : Places(n)[i] = i
  BY DEF Places
<1> QED BY <1>1, MaxIs

(* The heaps that have the arrays of h.                                    *)
Shaped(h, E) == {g \in [DOMAIN h -> Seq(E)] : \A x \in DOMAIN h : Len(g[x]) = Len(h[x])}

\* q is g with one more element written.
WithPut(q, g, h, E, a, i, v) ==
  /\ q \in Shaped(h, E)
  /\ \A x \in DOMAIN h : x /= a => q[x] = g[x]
  /\ \A p \in 1..Len(h[a]) : q[a][p] = IF p = i THEN v ELSE g[a][p]

\* One element is written, whatever is under the other places.
LEMMA PutIs ==
  ASSUME NEW E, NEW h, NEW g \in Shaped(h, E), NEW a \in DOMAIN h, NEW i \in 1..Len(h[a]), NEW v \in E
  PROVE  WithPut([g EXCEPT ![a][i] = v], g, h, E, a, i, v)
<1> DEFINE z == g[a]
           t == [z EXCEPT ![i] = v]
           q == [g EXCEPT ![a] = t]
<1>1. g \in [DOMAIN h -> Seq(E)] /\ \A x \in DOMAIN h : Len(g[x]) = Len(h[x])
  BY DEF Shaped
<1>2. z \in Seq(E) /\ Len(z) = Len(h[a])
  BY <1>1
<1> HIDE DEF z
<1>3. t \in Seq(E) /\ Len(t) = Len(z) /\ \A p \in 1..Len(z) : t[p] = IF p = i THEN v ELSE z[p]
  BY <1>2
<1> HIDE DEF t
<1>4. /\ q \in [DOMAIN h -> Seq(E)] /\ q[a] = t
      /\ \A x \in DOMAIN h : x /= a => q[x] = g[x]
  BY <1>1, <1>3
<1> HIDE DEF q
<1>5. q \in Shaped(h, E)
  BY <1>1, <1>2, <1>3, <1>4 DEF Shaped
<1>6. [g EXCEPT ![a][i] = v] = q
  BY DEF q, t, z
<1>7. \A p \in 1..Len(h[a]) : q[a][p] = IF p = i THEN v ELSE g[a][p]
  BY <1>2, <1>3, <1>4 DEF z
<1>8. WithPut(q, g, h, E, a, i, v)
  BY <1>4, <1>5, <1>7 DEF WithPut
<1> QED BY <1>6, <1>8

\* Such a heap is one, and h is such a heap.
LEMMA ShapedIs ==
  ASSUME NEW E, NEW h, Heap(h, E)
  PROVE  h \in Shaped(h, E) /\ \A g \in Shaped(h, E) : Heap(g, E) /\ DOMAIN g = DOMAIN h
<1>1. h \in Shaped(h, E)
  BY DEF Heap, Shaped
<1>2. ASSUME NEW g \in Shaped(h, E) PROVE Heap(g, E) /\ DOMAIN g = DOMAIN h
  <2>1. g \in [DOMAIN h -> Seq(E)] /\ DOMAIN g = DOMAIN h
    BY DEF Shaped
  <2> QED BY <2>1 DEF Heap
<1> QED BY <1>1, <1>2

\* One element of CopyIn.
CopyIdx(s, from, i) == IF MayOverlap(s, from) THEN from.len + 1 - i ELSE i
CopyStep(g, s, from, i) ==
  [g EXCEPT ![s.a][s.start + s.len + CopyIdx(s, from, i)] = g[from.a][from.start + CopyIdx(s, from, i)]]

CopyFold(it, h, s, from) ==
  it = [S \in SUBSET DOMAIN Places(from.len) |->
          IF S = {} THEN h ELSE CopyStep(it[S \ {Max(S)}], s, from, Places(from.len)[Max(S)])]

\* What CopyIn chooses, when there is such a fold.
LEMMA CopyInDef ==
  ASSUME NEW h, NEW s, NEW from, NEW jt, CopyFold(jt, h, s, from)
  PROVE  \E it : CopyFold(it, h, s, from) /\ CopyIn(h, s, from) = it[DOMAIN Places(from.len)]
BY DEF CopyFold, CopyIn, FoldLeftDomain, FoldLeft, MapThenFoldSet, CopyStep, CopyIdx, Places

\* The slice from and room for it behind s.
Copying(h, E, s, from) == Heap(h, E) /\ SliceIn(h, s) /\ SliceIn(h, from) /\ Fits(h, s, from.len)

\* No step of the loop goes past the end of an array.
LEMMA CopyPlaces ==
  ASSUME NEW E, NEW h, NEW s, NEW from, Copying(h, E, s, from), NEW i \in 1..from.len
  PROVE  /\ CopyIdx(s, from, i) \in 1..from.len
         /\ s.a \in DOMAIN h /\ from.a \in DOMAIN h
         /\ s.start + s.len + CopyIdx(s, from, i) \in 1..Len(h[s.a])
         /\ from.start + CopyIdx(s, from, i) \in 1..Len(h[from.a])
<1>1. /\ s.start \in Nat /\ s.len \in Nat /\ from.start \in Nat /\ from.len \in Nat
  BY DEF Copying, SliceIn, SliceRec
<1>2. CopyIdx(s, from, i) \in 1..from.len
  BY <1>1 DEF CopyIdx
<1>3. from.a \in DOMAIN h /\ from.start + from.len <= Len(h[from.a])
  <2>1. from.len /= 0
    BY <1>1
  <2> QED BY <2>1 DEF Copying, SliceIn
<1>4. Len(h[from.a]) \in Nat
  <2>1. h[from.a] \in Seq(E)
    BY <1>3 DEF Copying, Heap
  <2> QED BY <2>1
<1>5. s.a /= 0
  <2>1. Cap(h, s) \in Nat /\ Cap(h, s) - s.len >= from.len /\ from.len >= 1
    BY <1>1, CapIs DEF Copying, Fits
  <2>2. Cap(h, s) /= 0
    BY <1>1, <2>1
  <2> QED BY <2>2 DEF Cap
<1>6. s.a \in DOMAIN h /\ Len(h[s.a]) - s.start - s.len >= from.len /\ Len(h[s.a]) \in Nat
  BY <1>5, CapIs DEF Copying, Fits, SliceIn
<1> DEFINE j == CopyIdx(s, from, i)
           l == Len(h[s.a])
           m == Len(h[from.a])
<1>7. /\ j \in 1..from.len /\ l \in Nat /\ m \in Nat
      /\ l - s.start - s.len >= from.len /\ from.start + from.len <= m
  BY <1>2, <1>3, <1>4, <1>6
<1> HIDE DEF j, l, m
<1>8. s.start + s.len + j \in 1..l /\ from.start + j \in 1..m
  BY <1>1, <1>7
<1> QED BY <1>2, <1>3, <1>6, <1>8 DEF j, l, m

\* One step writes one element.
LEMMA CopyStepIs ==
  ASSUME NEW E, NEW h, NEW s, NEW from, Copying(h, E, s, from), NEW i \in 1..from.len,
         NEW g \in Shaped(h, E)
  PROVE  WithPut(CopyStep(g, s, from, i), g, h, E, s.a, s.start + s.len + CopyIdx(s, from, i),
                 g[from.a][from.start + CopyIdx(s, from, i)])
<1> DEFINE to == s.start + s.len + CopyIdx(s, from, i)
           at == from.start + CopyIdx(s, from, i)
           v == g[from.a][at]
           a == s.a
<1>1. a \in DOMAIN h /\ from.a \in DOMAIN h /\ to \in 1..Len(h[a]) /\ at \in 1..Len(h[from.a])
  BY CopyPlaces
<1>2. v \in E
  <2>1. g[from.a] \in Seq(E) /\ Len(g[from.a]) = Len(h[from.a])
    BY <1>1 DEF Shaped
  <2> QED BY <1>1, <2>1, ElementOfSeq
<1>3. CopyStep(g, s, from, i) = [g EXCEPT ![a][to] = v]
  BY DEF CopyStep
<1> HIDE DEF to, v, a
<1>4. WithPut([g EXCEPT ![a][to] = v], g, h, E, a, to, v)
  BY <1>1, <1>2, PutIs
<1> QED BY <1>3, <1>4 DEF to, v, a

\* The states of the heap while elements are copied.
CopyChain(st, h, s, from) ==
  /\ st[0] = h
  /\ \A k \in 0..(from.len - 1) : st[k + 1] = CopyStep(st[k], s, from, k + 1)
  /\ CopyIn(h, s, from) = st[from.len]

\* There is such a fold, and so the loop runs through these states.
LEMMA CopyRuns ==
  ASSUME NEW E, NEW h, NEW s, NEW from, Copying(h, E, s, from)
  PROVE  \E st : CopyChain(st, h, s, from)
<1> DEFINE n == from.len
           D == 1..n
           V == Shaped(h, E)
           c == [S \in SUBSET D |-> Max(S)]
           f == [p \in D \X V |-> CopyStep(p[2], s, from, p[1])]
<1>1. n \in Nat
  BY DEF Copying, SliceIn, SliceRec
<1>2. DOMAIN Places(n) = D /\ \A S \in SUBSET D : S /= {} => Places(n)[Max(S)] = Max(S)
  BY <1>1, PlacesIs
<1>3. IsFiniteSet(D)
  BY <1>1, FS_Interval
<1>4. h \in V
  BY ShapedIs DEF Copying
<1>5. IsChoice(c, D)
  BY <1>1, MaxIs DEF IsChoice
<1>6. IsStep(f, D, V)
  <2>1. \A p \in D \X V : CopyStep(p[2], s, from, p[1]) \in V
    BY CopyStepIs DEF WithPut
  <2> QED BY <2>1 DEF IsStep
<1>7. PICK jt : IsFold(jt, D, V, c, h, f)
  <2> HIDE DEF D, V, c, f
  <2> QED BY <1>3, <1>4, <1>5, <1>6, FoldExists
<1>8. CopyFold(jt, h, s, from)
  <2>1. jt \in [SUBSET D -> V] /\ jt[{}] = h
    BY <1>7 DEF IsFold
  <2>2. ASSUME NEW S \in SUBSET D, S /= {}
        PROVE  jt[S] = CopyStep(jt[S \ {Max(S)}], s, from, Places(n)[Max(S)])
    <3>1. jt[S] = f[<<c[S], jt[S \ {c[S]}]>>]
      BY <1>7, <2>2 DEF IsFold
    <3>2. c[S] = Max(S) /\ Max(S) \in D
      BY <1>5, <2>2 DEF IsChoice
    <3>3. jt[S \ {Max(S)}] \in V
      BY <2>1
    <3>4. f[<<Max(S), jt[S \ {Max(S)}]>>] = CopyStep(jt[S \ {Max(S)}], s, from, Max(S))
      BY <3>2, <3>3
    <3> QED BY <1>2, <2>2, <3>1, <3>2, <3>4
  <2> HIDE DEF V, f, c, D
  <2>3. jt = [S \in SUBSET D |-> IF S = {} THEN h ELSE CopyStep(jt[S \ {Max(S)}], s, from, Places(n)[Max(S)])]
    BY <2>1, <2>2
  <2> QED BY <1>2, <2>3 DEF CopyFold
<1>9. PICK it : CopyFold(it, h, s, from) /\ CopyIn(h, s, from) = it[DOMAIN Places(n)]
  BY <1>8, CopyInDef
<1>10. \A S \in SUBSET D : it[S] = IF S = {} THEN h ELSE CopyStep(it[S \ {Max(S)}], s, from, Max(S))
  BY <1>2, <1>9 DEF CopyFold
<1> DEFINE st == [k \in 0..n |-> it[1..k]]
<1>11. st[0] = h
  <2>1. 1..0 = {} /\ {} \in SUBSET D /\ 0 \in 0..n
    BY <1>1
  <2>2. st[0] = it[{}]
    BY <2>1
  <2>3. it[{}] = h
    <3> HIDE DEF D
    <3> QED BY <1>10, <2>1
  <2> QED BY <2>2, <2>3
<1>12. ASSUME NEW k \in 0..(n - 1) PROVE st[k + 1] = CopyStep(st[k], s, from, k + 1)
  <2>1. k \in Nat /\ 1..(k + 1) \in SUBSET D /\ k + 1 \in 0..n /\ k \in 0..n
    BY <1>1
  <2>2. 1..(k + 1) /= {} /\ Max(1..(k + 1)) = k + 1 /\ (1..(k + 1)) \ {k + 1} = 1..k
    BY <2>1, MaxUpTo
  <2> HIDE DEF D
  <2>3. it[1..(k + 1)] = CopyStep(it[1..k], s, from, k + 1)
    BY <1>10, <2>1, <2>2
  <2> QED BY <2>1, <2>3
<1>13. CopyIn(h, s, from) = st[n]
  BY <1>1, <1>2, <1>9
<1> HIDE DEF st
<1> QED BY <1>11, <1>12, <1>13 DEF CopyChain

\* The places behind s that k steps have written, and what they have: what from had.
CopiedPlaces(s, from, k) == IF MayOverlap(s, from) THEN (from.len + 1 - k)..from.len ELSE 1..k
Copied(g, h, E, s, from, k) ==
  /\ g \in Shaped(h, E)
  /\ \A x \in DOMAIN h : x /= s.a => g[x] = h[x]
  /\ \A p \in 1..Len(h[s.a]) :
       g[s.a][p] = IF p - (s.start + s.len) \in CopiedPlaces(s, from, k)
                   THEN h[from.a][from.start + (p - (s.start + s.len))]
                   ELSE h[s.a][p]

\* A step reads what no step before it has written: that is what the order is for.
LEMMA CopyStepKeeps ==
  ASSUME NEW E, NEW h, NEW s, NEW from, Copying(h, E, s, from), NEW k \in 0..(from.len - 1),
         NEW g, Copied(g, h, E, s, from, k)
  PROVE  Copied(CopyStep(g, s, from, k + 1), h, E, s, from, k + 1)
<1> DEFINE i == k + 1
           j == CopyIdx(s, from, i)
           at == s.start + s.len
           q == CopyStep(g, s, from, i)
           n == from.len
<1>1. s.start \in Nat /\ s.len \in Nat /\ from.start \in Nat /\ n \in Nat /\ at \in Nat
  BY DEF Copying, SliceIn, SliceRec
<1>2. i \in 1..n
  BY <1>1
<1>3. /\ j \in 1..n /\ s.a \in DOMAIN h /\ from.a \in DOMAIN h
      /\ at + j \in 1..Len(h[s.a]) /\ from.start + j \in 1..Len(h[from.a])
  BY <1>2, CopyPlaces
<1>4. g \in Shaped(h, E)
  BY DEF Copied
<1>5. WithPut(q, g, h, E, s.a, at + j, g[from.a][from.start + j])
  BY <1>2, <1>4, CopyStepIs
<1>6. g[from.a][from.start + j] = h[from.a][from.start + j]
  <2>1. CASE from.a /= s.a
    BY <1>3, <2>1 DEF Copied
  <2>2. CASE from.a = s.a
    <3> DEFINE p == from.start + j
    <3>1. p \in 1..Len(h[s.a])
      BY <1>3, <2>2
    <3>2. p - at \notin CopiedPlaces(s, from, k)
      <4>1. CASE MayOverlap(s, from)
        <5>1. at > from.start /\ j = n - k /\ CopiedPlaces(s, from, k) = (n + 1 - k)..n
          BY <1>1, <4>1 DEF MayOverlap, CopyIdx, CopiedPlaces
        <5> HIDE DEF at, n, i, j
        <5> QED BY <1>1, <1>2, <5>1
      <4>2. CASE ~ MayOverlap(s, from)
        <5>1. ~ (at > from.start) /\ j = k + 1 /\ CopiedPlaces(s, from, k) = 1..k
          BY <2>2, <4>2 DEF MayOverlap, CopyIdx, CopiedPlaces
        <5> HIDE DEF at, n, i, j
        <5> QED BY <1>1, <1>2, <5>1
      <4> QED BY <4>1, <4>2
    <3> HIDE DEF p
    <3>3. g[s.a][p] = h[s.a][p]
      BY <3>1, <3>2 DEF Copied
    <3> QED BY <2>2, <3>3 DEF p
  <2> QED BY <2>1, <2>2
<1>7. CopiedPlaces(s, from, k + 1) = CopiedPlaces(s, from, k) \cup {j} /\ j \notin CopiedPlaces(s, from, k)
  <2>1. CASE MayOverlap(s, from)
    BY <1>1, <1>2, <2>1 DEF CopyIdx, CopiedPlaces
  <2>2. CASE ~ MayOverlap(s, from)
    BY <1>1, <1>2, <2>2 DEF CopyIdx, CopiedPlaces
  <2> QED BY <2>1, <2>2
<1> HIDE DEF q, j
<1>8. ASSUME NEW p \in 1..Len(h[s.a])
      PROVE  q[s.a][p] = IF p - at \in CopiedPlaces(s, from, k + 1) THEN h[from.a][from.start + (p - at)] ELSE h[s.a][p]
  <2>1. p \in Int
    OBVIOUS
  <2>2. CASE p = at + j
    <3>1. p - at = j
      BY <1>1, <1>3, <2>2
    <3>2. q[s.a][p] = h[from.a][from.start + j]
      BY <1>5, <1>6, <2>2 DEF WithPut
    <3> QED BY <1>7, <3>1, <3>2
  <2>3. CASE p /= at + j
    <3>1. p - at /= j
      BY <1>1, <1>3, <2>1, <2>3
    <3>2. q[s.a][p] = g[s.a][p]
      BY <1>5, <2>3 DEF WithPut
    <3>3. g[s.a][p] = IF p - at \in CopiedPlaces(s, from, k) THEN h[from.a][from.start + (p - at)] ELSE h[s.a][p]
      BY DEF Copied
    <3> QED BY <1>7, <3>1, <3>2, <3>3
  <2> QED BY <2>2, <2>3
<1>9. q \in Shaped(h, E) /\ \A x \in DOMAIN h : x /= s.a => q[x] = h[x]
  BY <1>5 DEF WithPut, Copied
<1> QED BY <1>8, <1>9 DEF Copied, q

\* What CopyIn leaves.
LEMMA CopyInIs ==
  ASSUME NEW E, NEW h, NEW s, NEW from, Copying(h, E, s, from)
  PROVE  Copied(CopyIn(h, s, from), h, E, s, from, from.len)
<1> DEFINE n == from.len
<1>1. PICK st : CopyChain(st, h, s, from)
  BY CopyRuns
<1>2. n \in Nat
  BY DEF Copying, SliceIn, SliceRec
<1> DEFINE Good == {k \in Nat : k <= n => Copied(st[k], h, E, s, from, k)}
<1>3. 0 \in Good
  <2>1. CopiedPlaces(s, from, 0) = {}
    BY <1>2 DEF CopiedPlaces
  <2>2. h \in Shaped(h, E)
    BY ShapedIs DEF Copying
  <2>3. Copied(h, h, E, s, from, 0)
    BY <2>1, <2>2 DEF Copied
  <2> QED BY <1>1, <2>3 DEF CopyChain
<1>4. ASSUME NEW k \in Nat, k \in Good PROVE k + 1 \in Good
  <2> SUFFICES ASSUME k + 1 <= n PROVE Copied(st[k + 1], h, E, s, from, k + 1)
    OBVIOUS
  <2>1. k \in 0..(n - 1) /\ k <= n
    BY <1>2
  <2>2. Copied(st[k], h, E, s, from, k)
    BY <1>4, <2>1
  <2>3. st[k + 1] = CopyStep(st[k], s, from, k + 1)
    BY <1>1, <2>1 DEF CopyChain
  <2> DEFINE g == st[k]
  <2> HIDE DEF g
  <2>4. Copied(g, h, E, s, from, k)
    BY <2>2 DEF g
  <2> HIDE DEF Good
  <2>5. Copied(CopyStep(g, s, from, k + 1), h, E, s, from, k + 1)
    BY <2>1, <2>4, CopyStepKeeps
  <2> QED BY <2>3, <2>5 DEF g
<1>5. n \in Good
  <2> HIDE DEF Good
  <2> QED BY <1>2, <1>3, <1>4, InductionNat
<1>6. Copied(st[n], h, E, s, from, n)
  BY <1>2, <1>5
<1> QED BY <1>1, <1>6 DEF CopyChain

\* What is behind from in an array of the length of h's, as Content has it.
LEMMA BehindIs ==
  ASSUME NEW E, NEW h, NEW s, NEW from, Copying(h, E, s, from), NEW g, Copied(g, h, E, s, from, from.len)
  PROVE  LET u == On(s.a, s.start, s.len + from.len) IN
         /\ SliceIn(g, u) /\ Content(g, u) = Content(h, s) \o Content(h, from)
         /\ SliceIn(g, s) /\ Content(g, s) = Content(h, s)
<1> DEFINE n == from.len
           at == s.start + s.len
           u == On(s.a, s.start, s.len + from.len)
<1>1. /\ Heap(h, E) /\ SliceIn(h, s) /\ SliceIn(h, from) /\ Fits(h, s, n)
      /\ s.start \in Nat /\ s.len \in Nat /\ s.a \in Nat /\ from.start \in Nat /\ n \in Nat /\ at \in Nat
  BY DEF Copying, SliceIn, SliceRec
<1>2. Heap(g, E) /\ DOMAIN g = DOMAIN h /\ \A x \in DOMAIN h : Len(g[x]) = Len(h[x])
  <2>1. g \in Shaped(h, E)
    BY DEF Copied
  <2> QED BY <1>1, <2>1, ShapedIs DEF Shaped
<1>3. SliceIn(g, s)
  BY <1>1, <1>2 DEF SliceIn
<1>4. u.a = s.a /\ u.start = s.start /\ u.len = s.len + n /\ u \in SliceRec
  BY <1>1 DEF On, SliceRec
<1> HIDE DEF u
<1>5. s.a /= 0 => Len(h[s.a]) \in Nat /\ at + n <= Len(h[s.a])
  <2> SUFFICES ASSUME s.a /= 0 PROVE Len(h[s.a]) \in Nat /\ at + n <= Len(h[s.a])
    OBVIOUS
  <2> DEFINE l == Len(h[s.a])
  <2>1. l \in Nat /\ Cap(h, s) = l - s.start
    BY <1>1, CapIs
  <2>2. Cap(h, s) - s.len >= n
    BY <1>1 DEF Fits
  <2> HIDE DEF l
  <2>3. at + n <= l
    BY <1>1, <2>1, <2>2
  <2> QED BY <2>1, <2>3 DEF l
<1>6. s.a = 0 => s.start = 0 /\ s.len = 0 /\ n = 0
  <2> SUFFICES ASSUME s.a = 0 PROVE s.start = 0 /\ s.len = 0 /\ n = 0
    OBVIOUS
  <2>1. Cap(h, s) = 0 /\ s.len = 0 /\ s.start = 0
    BY <1>1 DEF Cap, SliceIn
  <2>2. Cap(h, s) - s.len >= n
    BY <1>1 DEF Fits
  <2> QED BY <1>1, <2>1, <2>2
<1>7. SliceIn(g, u)
  <2>1. s.a /= 0 => u.a \in DOMAIN g /\ u.start + u.len <= Len(g[u.a])
    <3> SUFFICES ASSUME s.a /= 0 PROVE u.a \in DOMAIN g /\ u.start + u.len <= Len(g[u.a])
      OBVIOUS
    <3>1. s.a \in DOMAIN h /\ Len(g[s.a]) = Len(h[s.a])
      BY <1>1, <1>2 DEF SliceIn
    <3>2. at + n = s.start + (s.len + n)
      BY <1>1
    <3> QED BY <1>2, <1>4, <1>5, <3>1, <3>2
  <2>2. s.a = 0 => u.start = 0 /\ u.len = 0
    BY <1>4, <1>6
  <2> QED BY <1>4, <2>1, <2>2 DEF SliceIn
<1>8. CopiedPlaces(s, from, n) = 1..n
  <2>1. n + 1 - n = 1
    BY <1>1
  <2> QED BY <2>1 DEF CopiedPlaces
<1>9. ASSUME NEW i \in 1..(s.len + n), s.a /= 0
      PROVE  g[s.a][s.start + i] = IF i <= s.len THEN h[s.a][s.start + i] ELSE h[from.a][from.start + (i - s.len)]
  <2> DEFINE p == s.start + i
             l == Len(h[s.a])
  <2>1. l \in Nat /\ at + n <= l
    BY <1>5, <1>9
  <2> HIDE DEF l
  <2>2. p \in 1..l /\ p - at = i - s.len /\ (p - at \in 1..n <=> ~(i <= s.len))
    BY <1>1, <2>1
  <2> HIDE DEF p
  <2>3. g[s.a][p] = IF p - at \in 1..n THEN h[from.a][from.start + (p - at)] ELSE h[s.a][p]
    BY <1>8, <2>2 DEF Copied, l
  <2> QED BY <2>2, <2>3 DEF p
<1>10. /\ Content(h, s) \in Seq(E) /\ Len(Content(h, s)) = s.len
       /\ \A i \in 1..s.len : Content(h, s)[i] = h[s.a][s.start + i]
  BY <1>1, ContentIs
<1>11. /\ Content(h, from) \in Seq(E) /\ Len(Content(h, from)) = n
       /\ \A i \in 1..n : Content(h, from)[i] = h[from.a][from.start + i]
  BY <1>1, ContentIs
<1>12. /\ Content(g, s) \in Seq(E) /\ Len(Content(g, s)) = s.len
       /\ \A i \in 1..s.len : Content(g, s)[i] = g[s.a][s.start + i]
  BY <1>2, <1>3, ContentIs
<1>13. /\ Content(g, u) \in Seq(E) /\ Len(Content(g, u)) = s.len + n
       /\ \A i \in 1..(s.len + n) : Content(g, u)[i] = g[s.a][s.start + i]
  <2>1. /\ Content(g, u) \in Seq(E) /\ Len(Content(g, u)) = u.len
        /\ \A i \in 1..u.len : Content(g, u)[i] = g[u.a][u.start + i]
    BY <1>2, <1>7, ContentIs
  <2> QED BY <1>4, <2>1
<1>14. Content(g, s) = Content(h, s)
  <2>1. ASSUME NEW i \in 1..s.len PROVE Content(g, s)[i] = Content(h, s)[i]
    <3>1. i \in 1..(s.len + n) /\ i <= s.len
      BY <1>1
    <3>2. s.a /= 0
      BY <1>1, <1>6
    <3>3. g[s.a][s.start + i] = h[s.a][s.start + i]
      BY <1>9, <3>1, <3>2
    <3> QED BY <1>10, <1>12, <3>3
  <2> QED BY <1>10, <1>12, <2>1, SeqEqual
<1> DEFINE c == Content(h, s)
           d == Content(h, from)
           e == Content(g, u)
<1>15. c \in Seq(E) /\ d \in Seq(E) /\ e \in Seq(E) /\ Len(c) = s.len /\ Len(d) = n /\ Len(e) = s.len + n
  BY <1>10, <1>11, <1>13
<1>16. ASSUME NEW i \in 1..(s.len + n) PROVE e[i] = IF i <= s.len THEN c[i] ELSE d[i - s.len]
  <2>1. s.a /= 0
    BY <1>1, <1>6
  <2>2. e[i] = IF i <= s.len THEN h[s.a][s.start + i] ELSE h[from.a][from.start + (i - s.len)]
    BY <1>9, <1>13, <2>1
  <2>3. CASE i <= s.len
    <3>1. i \in 1..s.len
      BY <1>1, <2>3
    <3> QED BY <1>10, <2>2, <2>3, <3>1
  <2>4. CASE ~(i <= s.len)
    <3>1. i - s.len \in 1..n
      BY <1>1, <2>4
    <3> QED BY <1>11, <2>2, <2>4, <3>1
  <2> QED BY <2>3, <2>4
<1> HIDE DEF c, d, e
<1>17. e = c \o d
  <2>1. /\ c \o d \in Seq(E) /\ Len(c \o d) = Len(c) + Len(d)
        /\ \A i \in 1..(Len(c) + Len(d)) : (c \o d)[i] = IF i <= Len(c) THEN c[i] ELSE d[i - Len(c)]
    BY <1>15, ConcatProperties
  <2>2. \A i \in 1..(s.len + n) : (c \o d)[i] = e[i]
    BY <1>15, <1>16, <2>1
  <2> QED BY <1>15, <2>1, <2>2, SeqEqual
<1> QED BY <1>3, <1>7, <1>14, <1>17 DEF u, c, d, e

\* Append of a slice, in place or not.
LEMMA AppendGoSliceIs ==
  ASSUME NEW E, NEW h, Heap(h, E), NEW s, SliceIn(h, s), NEW from, SliceIn(h, from), NEW zero \in E
  PROVE  LET r == AppendGoSlice(h, s, from, zero) IN
         /\ Result(r, h, E, s.a) /\ Content(r.h, r.s) = Content(h, s) \o Content(h, from)
         /\ SliceIn(r.h, s) /\ Content(r.h, s) = Content(h, s)
<1> DEFINE r == AppendGoSlice(h, s, from, zero)
<1>1. CASE Fits(h, s, from.len)
  <2> DEFINE g == CopyIn(h, s, from)
             u == On(s.a, s.start, s.len + from.len)
  <2>1. r = Gives(g, u)
    BY <1>1 DEF AppendGoSlice
  <2>2. Copying(h, E, s, from)
    BY <1>1 DEF Copying
  <2>3. Copied(g, h, E, s, from, from.len)
    BY <2>2, CopyInIs
  <2> HIDE DEF g, r
  <2>4. /\ SliceIn(g, u) /\ Content(g, u) = Content(h, s) \o Content(h, from)
        /\ SliceIn(g, s) /\ Content(g, s) = Content(h, s)
    BY <2>2, <2>3, BehindIs
  <2>5. g \in Shaped(h, E) /\ \A x \in DOMAIN h : x /= s.a => g[x] = h[x]
    BY <2>3 DEF Copied
  <2>6. Heap(g, E) /\ DOMAIN g = DOMAIN h /\ \A x \in DOMAIN h : Len(g[x]) = Len(h[x])
    BY <2>5, ShapedIs DEF Shaped
  <2>7. r.h = g /\ r.s = u
    BY <2>1 DEF Gives
  <2>8. Result(r, h, E, s.a)
    BY <2>4, <2>5, <2>6, <2>7 DEF Result
  <2> QED BY <2>4, <2>7, <2>8 DEF r
<1>2. CASE ~ Fits(h, s, from.len)
  <2> DEFINE c == Content(h, from)
             q == NewArrayAndAppend(h, s, c, zero)
  <2>1. r = q
    BY <1>2 DEF AppendGoSlice
  <2>2. c \in Seq(E)
    BY ContentIs
  <2> HIDE DEF c
  <2>3. Result(q, h, E, 0) /\ Content(q.h, q.s) = Content(h, s) \o c
    BY <2>2, NewAndAppendIs
  <2> HIDE DEF q
  <2>4. \A x \in DOMAIN h : x /= 0
    BY DEF Heap
  <2>5. SameArray(q.h, h, s)
    <3>1. s.a /= 0 => s.a \in DOMAIN h
      BY DEF SliceIn
    <3> QED BY <2>3, <3>1 DEF SameArray, Result
  <2>6. SliceIn(q.h, s) /\ Content(q.h, s) = Content(h, s)
    BY <2>5, ContentKept
  <2>7. Result(q, h, E, s.a)
    BY <2>3, <2>4 DEF Result
  <2> QED BY <2>1, <2>3, <2>6, <2>7 DEF c
<1> QED BY <1>1, <1>2

\* A list of elements, in place or not.
LEMMA AppendListIs ==
  ASSUME NEW E, NEW h, Heap(h, E), NEW s, SliceIn(h, s), NEW elems \in Seq(E), NEW zero \in E
  PROVE  Result(AppendList(h, s, elems, zero), h, E, s.a)
<1> DEFINE r == AppendList(h, s, elems, zero)
           n == Len(elems)
           at == s.start + s.len
<1>1. /\ s.start \in Nat /\ s.len \in Nat /\ s.a \in Nat /\ n \in Nat /\ at \in Nat
  BY DEF SliceIn, SliceRec
<1>2. CASE ~ Fits(h, s, n)
  <2> DEFINE q == NewArrayAndAppend(h, s, elems, zero)
  <2>1. r = q
    BY <1>2 DEF AppendList
  <2>2. Result(q, h, E, 0)
    BY NewAndAppendIs
  <2> HIDE DEF q
  <2>3. \A x \in DOMAIN h : x /= 0
    BY DEF Heap
  <2> QED BY <2>1, <2>2, <2>3 DEF Result
<1>3. CASE Fits(h, s, n) /\ elems = <<>>
  <2>1. r = Gives(h, s)
    BY <1>3 DEF AppendList
  <2> HIDE DEF r
  <2>2. r.h = h /\ r.s = s
    BY <2>1 DEF Gives
  <2> QED BY <2>2 DEF Result, r
<1>4. CASE Fits(h, s, n) /\ elems /= <<>>
  <2> DEFINE z == h[s.a]
             t == [i \in DOMAIN z |-> IF i \in (at + 1)..(at + n) THEN elems[i - at] ELSE z[i]]
             g == [h EXCEPT ![s.a] = t]
             u == On(s.a, s.start, s.len + n)
  <2>1. r = Gives(g, u)
    BY <1>4 DEF AppendList
  <2> HIDE DEF r
  <2>2. n >= 1
    <3>1. n /= 0
      BY <1>4
    <3> QED BY <1>1, <3>1
  <2>3. Cap(h, s) - s.len >= n /\ Cap(h, s) \in Nat
    BY <1>4, CapIs DEF Fits
  <2>4. s.a /= 0
    <3>1. Cap(h, s) /= 0
      BY <1>1, <2>2, <2>3
    <3> QED BY <3>1 DEF Cap
  <2>5. s.a \in DOMAIN h /\ z \in Seq(E) /\ Len(z) \in Nat /\ Cap(h, s) = Len(z) - s.start
    BY <2>4, CapIs DEF SliceIn
  <2> HIDE DEF z
  <2>6. at + n <= Len(z)
    BY <1>1, <2>3, <2>5
  <2>7. t \in Seq(E) /\ Len(t) = Len(z)
    <3>1. DOMAIN z = 1..Len(z)
      BY <2>5
    <3>2. ASSUME NEW i \in 1..Len(z)
          PROVE  (IF i \in (at + 1)..(at + n) THEN elems[i - at] ELSE z[i]) \in E
      <4>1. CASE i \in (at + 1)..(at + n)
        <5>1. i - at \in 1..n
          BY <1>1, <4>1
        <5>2. elems[i - at] \in E
          BY <5>1, ElementOfSeq
        <5> QED BY <4>1, <5>2
      <4>2. CASE i \notin (at + 1)..(at + n)
        <5>1. z[i] \in E
          BY <2>5, ElementOfSeq
        <5> QED BY <4>2, <5>1
      <4> QED BY <4>1, <4>2
    <3>3. t \in [1..Len(z) -> E]
      BY <3>1, <3>2
    <3> HIDE DEF t
    <3> QED BY <2>5, <3>3
  <2> HIDE DEF t
  <2>8. Len(t) = Len(h[s.a])
    BY <2>7 DEF z
  <2>9. /\ Heap(g, E) /\ DOMAIN g = DOMAIN h /\ g[s.a] = t
        /\ \A x \in DOMAIN h : Len(g[x]) = Len(h[x]) /\ (x /= s.a => g[x] = h[x])
    BY <2>5, <2>7, <2>8, WrittenIs
  <2> HIDE DEF g
  <2>10. u \in SliceRec /\ u.a = s.a /\ u.start + u.len = at + n
    BY <1>1 DEF On, SliceRec
  <2> HIDE DEF u
  <2>11. SliceIn(g, u)
    <3>1. u.start + u.len <= Len(g[u.a])
      BY <2>6, <2>7, <2>9, <2>10
    <3> QED BY <2>4, <2>5, <2>9, <2>10, <3>1 DEF SliceIn
  <2>12. r.h = g /\ r.s = u
    BY <2>1 DEF Gives
  <2>13. Result(r, h, E, s.a)
    BY <2>9, <2>11, <2>12 DEF Result
  <2> QED BY <2>13 DEF r
<1> QED BY <1>2, <1>3, <1>4

-----------------------------------------------------------------------------
(* GoSlice.  ReverseOf, of which the proofs need the shape only.           *)

ReverseFold(it, h, s) ==
  it = [S \in SUBSET DOMAIN Places(s.len \div 2) |->
          IF S = {} THEN h ELSE Swapped(it[S \ {Max(S)}], s, Places(s.len \div 2)[Max(S)])]

\* What ReverseOf chooses, when there is such a fold.
LEMMA ReverseDef ==
  ASSUME NEW h, NEW s, NEW jt, ReverseFold(jt, h, s)
  PROVE  \E it : ReverseFold(it, h, s) /\ ReverseOf(h, s) = it[DOMAIN Places(s.len \div 2)]
BY DEF ReverseFold, ReverseOf, FoldLeftDomain, FoldLeft, MapThenFoldSet, Places

\* One turn leaves the shape of the heap, and the other arrays.
LEMMA SwappedIs ==
  ASSUME NEW E, NEW h, Heap(h, E), NEW s, SliceIn(h, s), NEW i \in 1..(s.len \div 2), NEW g \in Shaped(h, E)
  PROVE  /\ Swapped(g, s, i) \in Shaped(h, E)
         /\ \A x \in DOMAIN h : x /= s.a => Swapped(g, s, i)[x] = g[x]
<1> DEFINE a == s.a
           l == s.start + i
           r == s.start + s.len + 1 - i
           n == Len(h[a])
           u == g[a][l]
           v == g[a][r]
           q == [g EXCEPT ![a][l] = v]
<1>1. s.len \in Nat /\ s.start \in Nat /\ i \in Nat /\ 1 <= i /\ i <= s.len
  BY DEF SliceIn, SliceRec
<1>2. a \in DOMAIN h /\ s.start + s.len <= n
  <2>1. s.len /= 0
    BY <1>1
  <2> QED BY <2>1 DEF SliceIn
<1>3. n \in Nat /\ g[a] \in Seq(E) /\ Len(g[a]) = n
  <2>1. h[a] \in Seq(E)
    BY <1>2 DEF Heap
  <2>2. g[a] \in Seq(E) /\ Len(g[a]) = n
    BY <1>2 DEF Shaped
  <2> QED BY <2>1, <2>2
<1> HIDE DEF n
<1>4. l \in 1..n /\ r \in 1..n
  BY <1>1, <1>2, <1>3
<1> HIDE DEF l, r
<1>5. u \in E /\ v \in E
  BY <1>3, <1>4, ElementOfSeq
<1>6. Swapped(g, s, i) = [q EXCEPT ![a][r] = u]
  BY DEF Swapped, l, r
<1> HIDE DEF u, v
<1>7. WithPut(q, g, h, E, a, l, v)
  BY <1>2, <1>4, <1>5, PutIs DEF n
<1> HIDE DEF q
<1>8. q \in Shaped(h, E)
  BY <1>7 DEF WithPut
<1>9. WithPut([q EXCEPT ![a][r] = u], q, h, E, a, r, u)
  BY <1>2, <1>4, <1>5, <1>8, PutIs DEF n
<1> QED BY <1>6, <1>7, <1>9 DEF WithPut

\* And so does the loop.
LEMMA ReverseIs ==
  ASSUME NEW E, NEW h, Heap(h, E), NEW s, SliceIn(h, s)
  PROVE  ReverseOf(h, s) \in Shaped(h, E)
<1> DEFINE n == s.len \div 2
           D == 1..n
           V == Shaped(h, E)
           c == [S \in SUBSET D |-> Max(S)]
           f == [p \in D \X V |-> Swapped(p[2], s, p[1])]
<1>1. n \in Nat
  BY DEF SliceIn, SliceRec
<1>2. DOMAIN Places(n) = D /\ \A S \in SUBSET D : S /= {} => Places(n)[Max(S)] = Max(S)
  <2> HIDE DEF n
  <2> QED BY <1>1, PlacesIs
<1>3. IsFiniteSet(D)
  BY <1>1, FS_Interval
<1>4. h \in V
  BY ShapedIs
<1>5. IsChoice(c, D)
  <2> HIDE DEF n
  <2> QED BY <1>1, MaxIs DEF IsChoice
<1>6. IsStep(f, D, V)
  <2>1. \A p \in D \X V : Swapped(p[2], s, p[1]) \in V
    BY SwappedIs
  <2> QED BY <2>1 DEF IsStep
<1>7. PICK jt : IsFold(jt, D, V, c, h, f)
  <2> HIDE DEF D, V, c, f
  <2> QED BY <1>3, <1>4, <1>5, <1>6, FoldExists
<1>8. ReverseFold(jt, h, s)
  <2>1. jt \in [SUBSET D -> V] /\ jt[{}] = h
    BY <1>7 DEF IsFold
  <2>2. ASSUME NEW S \in SUBSET D, S /= {}
        PROVE  jt[S] = Swapped(jt[S \ {Max(S)}], s, Places(n)[Max(S)])
    <3>1. jt[S] = f[<<c[S], jt[S \ {c[S]}]>>]
      BY <1>7, <2>2 DEF IsFold
    <3>2. c[S] = Max(S) /\ Max(S) \in D
      BY <1>5, <2>2 DEF IsChoice
    <3>3. jt[S \ {Max(S)}] \in V
      BY <2>1
    <3>4. f[<<Max(S), jt[S \ {Max(S)}]>>] = Swapped(jt[S \ {Max(S)}], s, Max(S))
      BY <3>2, <3>3
    <3> QED BY <1>2, <2>2, <3>1, <3>2, <3>4
  <2> HIDE DEF V, f, c, D
  <2>3. jt = [S \in SUBSET D |-> IF S = {} THEN h ELSE Swapped(jt[S \ {Max(S)}], s, Places(n)[Max(S)])]
    BY <2>1, <2>2
  <2> QED BY <1>2, <2>3 DEF ReverseFold
<1>9. PICK it : ReverseFold(it, h, s) /\ ReverseOf(h, s) = it[DOMAIN Places(n)]
  BY <1>8, ReverseDef
<1>10. \A S \in SUBSET D : it[S] = IF S = {} THEN h ELSE Swapped(it[S \ {Max(S)}], s, Max(S))
  BY <1>2, <1>9 DEF ReverseFold
<1> DEFINE Good == {k \in Nat : k <= n => it[1..k] \in V}
<1>11. 0 \in Good
  <2>1. 1..0 = {} /\ {} \in SUBSET D
    OBVIOUS
  <2>2. it[{}] = h
    <3> HIDE DEF D
    <3> QED BY <1>10, <2>1
  <2> QED BY <1>4, <2>1, <2>2
<1>12. ASSUME NEW k \in Nat, k \in Good PROVE k + 1 \in Good
  <2> SUFFICES ASSUME k + 1 <= n PROVE it[1..(k + 1)] \in V
    OBVIOUS
  <2>1. 1..(k + 1) \in SUBSET D /\ k + 1 \in D /\ k <= n
    BY <1>1
  <2>2. 1..(k + 1) /= {} /\ Max(1..(k + 1)) = k + 1 /\ (1..(k + 1)) \ {k + 1} = 1..k
    BY MaxUpTo
  <2>3. it[1..k] \in V
    BY <1>12, <2>1
  <2>4. it[1..(k + 1)] = Swapped(it[1..k], s, k + 1)
    <3> HIDE DEF D
    <3> QED BY <1>10, <2>1, <2>2
  <2> DEFINE g == it[1..k]
             i == k + 1
  <2> HIDE DEF g, i
  <2>5. g \in Shaped(h, E) /\ i \in 1..(s.len \div 2)
    BY <2>1, <2>3 DEF g, i
  <2>6. Swapped(g, s, i) \in Shaped(h, E)
    BY <2>5, SwappedIs
  <2> QED BY <2>4, <2>6 DEF g, i
<1>13. n \in Good
  <2> HIDE DEF Good, n
  <2> QED BY <1>1, <1>11, <1>12, InductionNat
<1>14. it[1..n] \in V
  BY <1>1, <1>13
<1> QED BY <1>2, <1>9, <1>14

-----------------------------------------------------------------------------
(* GoSlice.  Every slice is within an array that there is, as the code     *)
(* never looks whether it is.                                              *)

SliceInv ==
  /\ Heap(arrays, SliceElem)
  /\ slices \in [SliceName -> SliceRec]
  /\ \A x \in SliceName : SliceIn(arrays, slices[x])

\* An operation of the program leaves this heap and this slice.
Gave(r) ==
  /\ Heap(r.h, SliceElem) /\ SliceIn(r.h, r.s)
  /\ DOMAIN arrays \subseteq DOMAIN r.h
  /\ \A b \in DOMAIN arrays : Len(r.h[b]) = Len(arrays[b])

\* What an operator of slices gives is such a result.
LEMMA ResultGave ==
  ASSUME NEW r, NEW w, Result(r, arrays, SliceElem, w)
  PROVE  Gave(r)
BY DEF Result, Gave

\* The slices stay on their arrays when arrays keep their lengths.
LEMMA StillIn ==
  ASSUME SliceInv, NEW h, Heap(h, SliceElem), DOMAIN arrays \subseteq DOMAIN h,
         \A b \in DOMAIN arrays : Len(h[b]) = Len(arrays[b])
  PROVE  \A x \in SliceName : SliceIn(h, slices[x])
BY DEF SliceInv, SliceIn

\* A result is assigned; arrays go with their last slice.
LEMMA AssignedKeeps ==
  ASSUME SliceInv, NEW d \in SliceName, NEW r, Gave(r), Assigned(d, r)
  PROVE  SliceInv'
<1> DEFINE to == [slices EXCEPT ![d] = r.s]
           used == {to[x].a : x \in SliceName} \cap DOMAIN r.h
<1>1. slices' = to /\ arrays' = [a \in used |-> r.h[a]]
  BY DEF Assigned
<1>2. \A x \in SliceName : SliceIn(r.h, slices[x])
  BY StillIn DEF Gave
<1>3. slices \in [SliceName -> SliceRec] /\ SliceIn(r.h, r.s) /\ r.s \in SliceRec
  BY DEF SliceInv, Gave, SliceIn
<1>4. to \in [SliceName -> SliceRec] /\ \A x \in SliceName : SliceIn(r.h, to[x])
  BY <1>2, <1>3
<1>5. Heap(arrays', SliceElem)
  <2>1. used \subseteq DOMAIN r.h /\ IsFiniteSet(used) /\ DOMAIN r.h \subseteq Nat \ {0}
    BY FS_Subset DEF Gave, Heap
  <2>2. \A a \in used : r.h[a] \in Seq(SliceElem)
    BY <2>1 DEF Gave, Heap
  <2> HIDE DEF used
  <2>3. arrays' \in [used -> Seq(SliceElem)] /\ DOMAIN arrays' = used
    BY <1>1, <2>2
  <2> QED BY <2>1, <2>3 DEF Heap
<1>6. \A x \in SliceName : to[x].a \in DOMAIN r.h => to[x].a \in DOMAIN arrays' /\ arrays'[to[x].a] = r.h[to[x].a]
  BY <1>1
<1> HIDE DEF to, used
<1>7. \A x \in SliceName : SliceIn(arrays', to[x])
  BY <1>4, <1>6 DEF SliceIn
<1> QED BY <1>1, <1>4, <1>5, <1>7 DEF SliceInv

\* An operation that writes to arrays leaves the slices where they are.
LEMMA WritesKeep ==
  ASSUME SliceInv, Heap(arrays', SliceElem), DOMAIN arrays \subseteq DOMAIN arrays',
         \A b \in DOMAIN arrays : Len(arrays'[b]) = Len(arrays[b]), UNCHANGED slices
  PROVE  SliceInv'
BY StillIn DEF SliceInv

\* What is known of a slice of the program.
LEMMA SlicesAre ==
  ASSUME SliceInv, NEW x \in SliceName
  PROVE  /\ Heap(arrays, SliceElem) /\ SliceIn(arrays, slices[x])
         /\ slices[x].a \in Nat /\ slices[x].start \in Nat /\ slices[x].len \in Nat
         /\ Cap(arrays, slices[x]) \in Nat /\ slices[x].len <= Cap(arrays, slices[x])
<1>1. Heap(arrays, SliceElem) /\ SliceIn(arrays, slices[x])
  BY DEF SliceInv
<1>2. Cap(arrays, slices[x]) \in Nat /\ slices[x].len <= Cap(arrays, slices[x])
  BY <1>1, CapIs
<1> QED BY <1>1, <1>2 DEF SliceIn, SliceRec

\* A part of a slice, with room behind it or not.
LEMMA PartIs ==
  ASSUME NEW E, NEW h, Heap(h, E), NEW s, SliceIn(h, s), NEW at \in Nat, NEW len \in Nat, at + len <= Cap(h, s)
  PROVE  SliceIn(h, On(s.a, s.start + at, len))
<1> DEFINE u == On(s.a, s.start + at, len)
<1>1. s.start \in Nat /\ s.len \in Nat /\ s.a \in Nat
  BY DEF SliceIn, SliceRec
<1>2. u.a = s.a /\ u.start = s.start + at /\ u.len = len /\ u \in SliceRec
  BY <1>1 DEF On, SliceRec
<1> HIDE DEF u
<1>3. CASE s.a = 0
  <2>1. Cap(h, s) = 0 /\ s.start = 0
    BY <1>3 DEF Cap, SliceIn
  <2>2. at = 0 /\ len = 0
    BY <2>1
  <2> QED BY <1>2, <1>3, <2>1, <2>2 DEF SliceIn, u
<1>4. CASE s.a /= 0
  <2> DEFINE l == Len(h[s.a])
  <2>1. Cap(h, s) = l - s.start /\ l \in Nat /\ s.a \in DOMAIN h
    BY <1>4, CapIs DEF SliceIn
  <2> HIDE DEF l
  <2>2. (s.start + at) + len <= l
    BY <1>1, <2>1
  <2> QED BY <1>2, <1>4, <2>1, <2>2 DEF SliceIn, u, l
<1> QED BY <1>3, <1>4

\* A slice on arrays that are left alone.
LEMMA NilGave ==
  ASSUME SliceInv, NEW s, SliceIn(arrays, s)
  PROVE  Gave(Gives(arrays, s))
BY DEF Gave, Gives, SliceInv

\* The lists that are appended have elements of the type.
LEMMA ListsAre ==
  ASSUME SliceInv
  PROVE  Fresh \subseteq SliceElem /\ Lists \subseteq Seq(SliceElem)
<1>1. Fresh \subseteq SliceElem /\ Zero \in SliceElem
  BY GoSliceAssumption DEF Fresh
<1>2. ASSUME NEW l \in Lists PROVE l \in Seq(SliceElem)
  <2>1. CASE l = <<>>
    BY <2>1
  <2>2. CASE l /= <<>>
    <3>1. PICK v \in Fresh : l \in {<<v>>, <<Zero, v>>, <<v, Zero>>}
      BY <2>2 DEF Lists
    <3>2. v \in SliceElem
      BY <1>1
    <3>3. <<v>> \in Seq(SliceElem) /\ <<Zero, v>> \in Seq(SliceElem) /\ <<v, Zero>> \in Seq(SliceElem)
      BY <1>1, <3>2
    <3> QED BY <3>1, <3>3
  <2> QED BY <2>1, <2>2
<1> QED BY <1>1, <1>2

\* The constructors.
LEMMA MakeKeeps ==
  ASSUME SliceInv, NEW d \in SliceName, MakeSlice(d)
  PROVE  SliceInv'
<1>1. Heap(arrays, SliceElem) /\ Zero \in SliceElem /\ MaxCap \in Nat
  BY GoSliceAssumption DEF SliceInv
<1>2. ASSUME NEW elems \in Seq(SliceElem), NEW cap \in Nat, Len(elems) <= cap,
             Assigned(d, NewArray(arrays, elems, cap, Zero))
      PROVE  SliceInv'
  <2> DEFINE r == NewArray(arrays, elems, cap, Zero)
  <2>1. Result(r, arrays, SliceElem, 0)
    BY <1>1, <1>2, NewArrayIs
  <2> HIDE DEF r
  <2>2. Gave(r)
    BY <2>1, ResultGave
  <2>3. Assigned(d, r)
    BY <1>2 DEF r
  <2> QED BY <2>2, <2>3, AssignedKeeps
<1>3. CASE \E cap \in 0..MaxCap, len \in 0..MaxCap :
             len <= cap /\ Assigned(d, NewArray(arrays, [i \in 1..len |-> Zero], cap, Zero))
  <2>1. PICK cap \in 0..MaxCap, len \in 0..MaxCap :
               len <= cap /\ Assigned(d, NewArray(arrays, [i \in 1..len |-> Zero], cap, Zero))
    BY <1>3
  <2> DEFINE elems == [i \in 1..len |-> Zero]
  <2>2. elems \in Seq(SliceElem) /\ Len(elems) = len /\ cap \in Nat
    BY <1>1
  <2> HIDE DEF elems
  <2>3. Len(elems) <= cap /\ Assigned(d, NewArray(arrays, elems, cap, Zero))
    BY <2>1, <2>2 DEF elems
  <2> QED BY <1>2, <2>2, <2>3
<1>4. CASE \E l \in Lists : \E cap \in Len(l)..MaxCap : Assigned(d, NewArray(arrays, l, cap, Zero))
  <2>1. PICK l \in Lists : \E cap \in Len(l)..MaxCap : Assigned(d, NewArray(arrays, l, cap, Zero))
    BY <1>4
  <2>2. PICK cap \in Len(l)..MaxCap : Assigned(d, NewArray(arrays, l, cap, Zero))
    BY <2>1
  <2>3. l \in Seq(SliceElem)
    BY ListsAre
  <2>4. Len(l) \in Nat
    BY <2>3
  <2>5. cap \in Nat /\ Len(l) <= cap
    BY <1>1, <2>4
  <2> QED BY <1>2, <2>2, <2>3, <2>5
<1>5. CASE Assigned(d, Gives(arrays, NilSlice))
  <2>1. SliceIn(arrays, NilSlice)
    BY NilIs
  <2> QED BY <1>5, <2>1, NilGave, AssignedKeeps
<1> QED BY <1>3, <1>4, <1>5 DEF MakeSlice

\* Set.
LEMMA SetKeeps ==
  ASSUME SliceInv, NEW x \in SliceName, NEW v \in Fresh, NEW idx \in Int, SetAt(x, idx, v)
  PROVE  SliceInv'
<1> DEFINE s == slices[x]
           i == FixIdx(s, idx)
           p == s.start + i + 1
           a == s.a
<1>1. i \in 0..(s.len - 1) /\ arrays' = [arrays EXCEPT ![a][p] = v] /\ UNCHANGED slices
  BY DEF SetAt
<1>2. /\ Heap(arrays, SliceElem) /\ SliceIn(arrays, s) /\ s.start \in Nat /\ s.len \in Nat
  BY SlicesAre
<1> HIDE DEF s, i
<1>3. a \in DOMAIN arrays /\ s.start + s.len <= Len(arrays[a])
  <2>1. s.len /= 0
    BY <1>1, <1>2
  <2> QED BY <1>2, <2>1 DEF SliceIn
<1>4. p \in 1..Len(arrays[a])
  <2>1. arrays[a] \in Seq(SliceElem)
    BY <1>2, <1>3 DEF Heap
  <2> DEFINE l == Len(arrays[a])
  <2>2. l \in Nat /\ s.start + s.len <= l
    BY <1>3, <2>1
  <2> HIDE DEF l
  <2> QED BY <1>1, <1>2, <2>2 DEF l
<1>5. v \in SliceElem
  BY ListsAre
<1> HIDE DEF p, a
<1>6. arrays \in Shaped(arrays, SliceElem)
  BY <1>2, ShapedIs
<1>7. WithPut([arrays EXCEPT ![a][p] = v], arrays, arrays, SliceElem, a, p, v)
  BY <1>3, <1>4, <1>5, <1>6, PutIs
<1>8. arrays' \in Shaped(arrays, SliceElem)
  BY <1>1, <1>7 DEF WithPut
<1>9. Heap(arrays', SliceElem) /\ DOMAIN arrays' = DOMAIN arrays
  BY <1>2, <1>8, ShapedIs
<1>10. \A b \in DOMAIN arrays : Len(arrays'[b]) = Len(arrays[b])
  BY <1>8 DEF Shaped
<1> QED BY <1>1, <1>9, <1>10, WritesKeep

\* Reverse.
LEMMA ReverseKeeps ==
  ASSUME SliceInv, NEW x \in SliceName, ReverseSlice(x)
  PROVE  SliceInv'
<1>1. Heap(arrays, SliceElem) /\ SliceIn(arrays, slices[x])
  BY SlicesAre
<1>2. arrays' \in Shaped(arrays, SliceElem) /\ UNCHANGED slices
  BY <1>1, ReverseIs DEF ReverseSlice
<1>3. Heap(arrays', SliceElem) /\ DOMAIN arrays' = DOMAIN arrays
  BY <1>1, <1>2, ShapedIs
<1>4. \A b \in DOMAIN arrays : Len(arrays'[b]) = Len(arrays[b])
  BY <1>2 DEF Shaped
<1> QED BY <1>2, <1>3, <1>4, WritesKeep

\* Slice: its bounds are checked against the capacity, not the length.
LEMMA TakeKeeps ==
  ASSUME SliceInv, NEW d \in SliceName, NEW x \in SliceName, TakeSlice(d, x)
  PROVE  SliceInv'
<1> DEFINE s == slices[x]
           cap == Cap(arrays, s)
<1>1. PICK start \in -1..Cap(arrays, slices[x]) :
        LET at == FixIdx(slices[x], start) IN
        /\ at >= 0
        /\ \/ \E len \in 0..(Cap(arrays, slices[x]) - at) :
                Assigned(d, Gives(arrays, Slice2(slices[x], start, len)))
           \/ /\ start <= slices[x].len
              /\ Assigned(d, Gives(arrays, Slice1(slices[x], start)))
  BY DEF TakeSlice
<1>2. /\ Heap(arrays, SliceElem) /\ SliceIn(arrays, s) /\ s.start \in Nat /\ s.len \in Nat
      /\ cap \in Nat /\ s.len <= cap
  BY SlicesAre
<1> DEFINE at == FixIdx(s, start)
<1>3. at \in Nat /\ start \in Int /\ at = (IF start < 0 THEN start + s.len ELSE start)
  BY <1>1, <1>2 DEF FixIdx
<1>4. ASSUME NEW len \in Nat, at + len <= cap, Assigned(d, Gives(arrays, Slice2(s, start, len)))
      PROVE  SliceInv'
  <2> DEFINE u == On(s.a, s.start + at, len)
  <2>1. Slice2(s, start, len) = u
    BY DEF Slice2
  <2> HIDE DEF s, at
  <2>2. SliceIn(arrays, u)
    BY <1>2, <1>3, <1>4, PartIs
  <2> QED BY <1>4, <2>1, <2>2, NilGave, AssignedKeeps
<1>5. CASE \E len \in 0..(cap - at) : Assigned(d, Gives(arrays, Slice2(s, start, len)))
  <2>1. PICK len \in 0..(cap - at) : Assigned(d, Gives(arrays, Slice2(s, start, len)))
    BY <1>5
  <2> HIDE DEF at, cap, s
  <2>2. len \in Nat /\ at + len <= cap
    BY <1>2, <1>3
  <2> QED BY <1>4, <2>1, <2>2
<1>6. CASE start <= s.len /\ Assigned(d, Gives(arrays, Slice1(s, start)))
  <2> DEFINE len == s.len - at
  <2>1. Slice1(s, start) = Slice2(s, start, len)
    BY DEF Slice1
  <2> HIDE DEF at, cap, s
  <2>2. len \in Nat /\ at + len <= cap
    BY <1>2, <1>3, <1>6
  <2> HIDE DEF len
  <2> QED BY <1>4, <1>6, <2>1, <2>2
<1> QED BY <1>1, <1>5, <1>6

\* An append of a slice, the result of which is assigned.
LEMMA AppendKeeps ==
  ASSUME SliceInv, NEW d \in SliceName, NEW s, SliceIn(arrays, s), NEW from, SliceIn(arrays, from),
         Assigned(d, AppendGoSlice(arrays, s, from, Zero))
  PROVE  SliceInv'
<1> DEFINE r == AppendGoSlice(arrays, s, from, Zero)
<1>1. Heap(arrays, SliceElem) /\ Zero \in SliceElem
  BY GoSliceAssumption DEF SliceInv
<1>2. Result(r, arrays, SliceElem, s.a)
  BY <1>1, AppendGoSliceIs
<1> HIDE DEF r
<1>3. Gave(r) /\ Assigned(d, r)
  BY <1>2, ResultGave DEF r
<1> QED BY <1>3, AssignedKeeps

\* Copy and the appends.
LEMMA AppendsKeep ==
  ASSUME SliceInv, NEW d \in SliceName, NEW x \in SliceName,
         \/ CopySlice(d, x)
         \/ \E v \in Fresh : AppendElem(d, x, v)
         \/ \E l \in Lists : AppendElems(d, x, l)
         \/ \E y \in SliceName :
              AppendSlice(d, x, y) \/ \E step \in {1, MaxCap + 1} : AppendIter(d, x, y, step)
  PROVE  SliceInv'
<1>1. Heap(arrays, SliceElem) /\ Zero \in SliceElem /\ MaxCap \in Nat
  BY GoSliceAssumption DEF SliceInv
<1>2. \A y \in SliceName : SliceIn(arrays, slices[y])
  BY DEF SliceInv
<1>3. CASE CopySlice(d, x)
  BY <1>2, <1>3, NilIs, AppendKeeps DEF CopySlice
<1>4. ASSUME NEW v \in Fresh, AppendElem(d, x, v) PROVE SliceInv'
  <2> DEFINE r == AppendOneElem(arrays, slices[x], v, Zero)
             s == slices[x]
  <2>1. v \in SliceElem
    BY ListsAre
  <2>2. Result(r, arrays, SliceElem, s.a)
    BY <1>1, <1>2, <2>1, AppendOneElemIs
  <2> HIDE DEF r
  <2>3. Gave(r) /\ Assigned(d, r)
    BY <1>4, <2>2, ResultGave DEF r, AppendElem
  <2> QED BY <2>3, AssignedKeeps
<1>5. ASSUME NEW l \in Lists, AppendElems(d, x, l) PROVE SliceInv'
  <2> DEFINE r == AppendList(arrays, slices[x], l, Zero)
             s == slices[x]
  <2>1. l \in Seq(SliceElem)
    BY ListsAre
  <2>2. Result(r, arrays, SliceElem, s.a)
    BY <1>1, <1>2, <2>1, AppendListIs
  <2> HIDE DEF r
  <2>3. Gave(r) /\ Assigned(d, r)
    BY <1>5, <2>2, ResultGave DEF r, AppendElems
  <2> QED BY <2>3, AssignedKeeps
<1>6. ASSUME NEW y \in SliceName, AppendSlice(d, x, y) PROVE SliceInv'
  BY <1>2, <1>6, AppendKeeps DEF AppendSlice
<1>7. ASSUME NEW y \in SliceName, NEW step \in {1, MaxCap + 1}, AppendIter(d, x, y, step) PROVE SliceInv'
  <2> DEFINE s == slices[y]
             idx == IncIdx(s, 0, step)
  <2>1. s.len \in Nat /\ SliceIn(arrays, s) /\ s.len <= Cap(arrays, s) /\ Cap(arrays, s) \in Nat
    BY SlicesAre
  <2>2. CASE idx \in 0..(s.len - 1)
    <3> DEFINE u == On(s.a, s.start + idx, s.len - idx)
    <3>1. Assigned(d, AppendGoSlice(arrays, slices[x], RawGoSlice(s, idx), Zero))
      BY <1>7, <2>2 DEF AppendIter
    <3>2. RawGoSlice(s, idx) = u
      <4> HIDE DEF idx, s
      <4> QED BY <2>1, <2>2 DEF RawGoSlice, Slice1, Slice2, FixIdx
    <3>3. SliceIn(arrays, u)
      <4> HIDE DEF idx, s
      <4>1. idx \in Nat /\ s.len - idx \in Nat /\ idx + (s.len - idx) <= Cap(arrays, s)
        BY <2>1, <2>2
      <4> QED BY <1>1, <2>1, <4>1, PartIs
    <3> HIDE DEF u
    <3> QED BY <1>2, <3>1, <3>2, <3>3, AppendKeeps
  <2>3. CASE idx \notin 0..(s.len - 1)
    <3>1. Assigned(d, Gives(arrays, slices[x]))
      BY <1>7, <2>3 DEF AppendIter
    <3> QED BY <1>2, <3>1, NilGave, AssignedKeeps
  <2> QED BY <2>2, <2>3
<1> QED BY <1>3, <1>4, <1>5, <1>6, <1>7

\* Map.
LEMMA MapKeeps ==
  ASSUME SliceInv, NEW d \in SliceName, NEW x \in SliceName, MapSlice(d, x)
  PROVE  SliceInv'
<1> DEFINE c == Content(arrays, slices[x])
           n == slices[x].len
<1>1. Heap(arrays, SliceElem) /\ SliceIn(arrays, slices[x]) /\ n \in Nat /\ Zero \in SliceElem
  BY SlicesAre, GoSliceAssumption
<1>2. c \in Seq(SliceElem) /\ Len(c) = n
  BY <1>1, ContentIs
<1> HIDE DEF c, n
<1> DEFINE r == NewArray(arrays, c, n, Zero)
<1>3. Len(c) <= n
  BY <1>1, <1>2
<1>4. Result(r, arrays, SliceElem, 0)
  BY <1>1, <1>2, <1>3, NewArrayIs
<1>5. Assigned(d, r)
  BY DEF MapSlice, c, n
<1> HIDE DEF r
<1> QED BY <1>4, <1>5, ResultGave, AssignedKeeps

\* CopyFrom.
LEMMA CopyFromKeeps ==
  ASSUME SliceInv, NEW x \in SliceName, NEW y \in SliceName, CopyFrom(x, y)
  PROVE  SliceInv'
<1> DEFINE s == slices[x]
           t == slices[y]
           n == Min({s.len, t.len})
           u == On(s.a, s.start + 0, 0)
           v == On(t.a, t.start + 0, n)
           r == AppendGoSlice(arrays, u, v, Zero)
<1>1. Heap(arrays, SliceElem) /\ Zero \in SliceElem
  BY GoSliceAssumption DEF SliceInv
<1>2. SliceIn(arrays, s) /\ s.len \in Nat /\ Cap(arrays, s) \in Nat
  BY SlicesAre
<1>3. SliceIn(arrays, t) /\ t.len \in Nat /\ Cap(arrays, t) \in Nat /\ t.len <= Cap(arrays, t)
  BY SlicesAre
<1>4. n \in Nat /\ n <= t.len
  <2> DEFINE S == {s.len, t.len}
  <2>1. S \in SUBSET Nat /\ S /= {}
    BY <1>2, <1>3
  <2>2. Min(S) \in S /\ \A z \in S : Min(S) <= z
    <3> HIDE DEF S
    <3> QED BY <2>1, MinIs
  <2> QED BY <2>1, <2>2
<1>5. Slice2(s, 0, 0) = u /\ Slice2(t, 0, n) = v
  BY DEF Slice2, FixIdx
<1>6. arrays' = r.h /\ UNCHANGED slices
  BY <1>5 DEF CopyFrom
<1> HIDE DEF n, s, t
<1>7. SliceIn(arrays, u)
  <2>1. 0 \in Nat /\ 0 + 0 <= Cap(arrays, s)
    BY <1>2
  <2> QED BY <1>1, <1>2, <2>1, PartIs
<1>8. SliceIn(arrays, v)
  <2>1. 0 \in Nat /\ 0 + n <= Cap(arrays, t)
    BY <1>3, <1>4
  <2> QED BY <1>1, <1>3, <1>4, <2>1, PartIs
<1> HIDE DEF u, v
<1>9. Result(r, arrays, SliceElem, u.a)
  BY <1>1, <1>7, <1>8, AppendGoSliceIs
<1> HIDE DEF r
<1> QED BY <1>6, <1>9, WritesKeep DEF Result

(* An append gives the elements of the slice and what was appended, for    *)
(* any two slices that earlier operations left, however they share arrays. *)
THEOREM AppendsAreRight == SliceSpec => []AppendsConcatenate
<1>1. SliceInit => SliceInv
  <2> SUFFICES ASSUME SliceInit PROVE SliceInv
    OBVIOUS
  <2>1. arrays = [a \in {} |-> <<>>] /\ slices = [x \in SliceName |-> NilSlice]
    BY DEF SliceInit
  <2>2. Heap(arrays, SliceElem)
    BY <2>1, FS_EmptySet DEF Heap
  <2>3. SliceIn(arrays, NilSlice) /\ NilSlice \in SliceRec
    BY NilIs DEF SliceIn
  <2> QED BY <2>1, <2>2, <2>3 DEF SliceInv
<1>2. SliceInv /\ [SliceNext]_sliceVars => SliceInv'
  <2> SUFFICES ASSUME SliceInv, [SliceNext]_sliceVars PROVE SliceInv'
    OBVIOUS
  <2>1. ASSUME NEW d \in SliceName, MakeSlice(d) PROVE SliceInv'
    BY <2>1, MakeKeeps
  <2>2. ASSUME NEW d \in SliceName, ReverseSlice(d) PROVE SliceInv'
    BY <2>2, ReverseKeeps
  <2>3. ASSUME NEW d \in SliceName, NEW v \in Fresh, NEW idx \in -1..(MaxCap - 1), SetAt(d, idx, v)
        PROVE  SliceInv'
    <3>1. idx \in Int
      BY GoSliceAssumption
    <3> QED BY <2>3, <3>1, SetKeeps
  <2>4. ASSUME NEW d \in SliceName, NEW x \in SliceName, TakeSlice(d, x) PROVE SliceInv'
    BY <2>4, TakeKeeps
  <2>5. ASSUME NEW d \in SliceName, NEW x \in SliceName,
               \/ CopySlice(d, x)
               \/ \E v \in Fresh : AppendElem(d, x, v)
               \/ \E l \in Lists : AppendElems(d, x, l)
               \/ \E y \in SliceName :
                    AppendSlice(d, x, y) \/ \E step \in {1, MaxCap + 1} : AppendIter(d, x, y, step)
        PROVE  SliceInv'
    BY <2>5, AppendsKeep
  <2>6. ASSUME NEW d \in SliceName, NEW x \in SliceName, MapSlice(d, x) PROVE SliceInv'
    BY <2>6, MapKeeps
  <2>7. ASSUME NEW d \in SliceName, NEW x \in SliceName, CopyFrom(d, x) PROVE SliceInv'
    BY <2>7, CopyFromKeeps
  <2>8. CASE UNCHANGED sliceVars
    BY <2>8 DEF sliceVars, SliceInv
  <2> QED BY <2>1, <2>2, <2>3, <2>4, <2>5, <2>6, <2>7, <2>8 DEF SliceNext
<1>3. SliceInv => AppendsConcatenate
  <2> SUFFICES ASSUME SliceInv, NEW x \in SliceName, NEW y \in SliceName
               PROVE  LET r == AppendGoSlice(arrays, slices[x], slices[y], Zero) IN
                      /\ Content(r.h, r.s) = Holds(x) \o Holds(y)
                      /\ \A z \in SliceName :
                           z = x \/ slices[z].a /= slices[x].a => Content(r.h, slices[z]) = Holds(z)
    BY DEF AppendsConcatenate
  <2> DEFINE s == slices[x]
             t == slices[y]
             r == AppendGoSlice(arrays, s, t, Zero)
  <2>1. /\ Heap(arrays, SliceElem) /\ SliceIn(arrays, s) /\ SliceIn(arrays, t) /\ Zero \in SliceElem
        /\ \A z \in SliceName : SliceIn(arrays, slices[z])
    BY GoSliceAssumption DEF SliceInv
  <2> HIDE DEF s, t
  <2>2. /\ Result(r, arrays, SliceElem, s.a) /\ Content(r.h, r.s) = Content(arrays, s) \o Content(arrays, t)
        /\ Content(r.h, s) = Content(arrays, s)
    BY <2>1, AppendGoSliceIs
  <2> HIDE DEF r
  <2>3. ASSUME NEW z \in SliceName, slices[z].a /= s.a PROVE Content(r.h, slices[z]) = Holds(z)
    <3>1. SameArray(r.h, arrays, slices[z])
      BY <2>1, <2>2, <2>3 DEF SameArray, Result, SliceIn
    <3> QED BY <2>1, <3>1, ContentKept DEF Holds
  <2>4. Content(r.h, slices[x]) = Holds(x)
    BY <2>2 DEF Holds, s
  <2>5. Content(r.h, r.s) = Holds(x) \o Holds(y)
    BY <2>2 DEF Holds, s, t
  <2> QED BY <2>3, <2>4, <2>5 DEF r, s, t
<1> QED BY <1>1, <1>2, <1>3, PTL DEF SliceSpec

-----------------------------------------------------------------------------
(* Strings and their buffers.  The blocks of memory and who has them.      *)

StrRec == [ss_len : Int, own : Seq(Nat), ls_len : Nat, block : Nat]
BufRec == [p : Nat, len : Nat, cap : Nat]

MemOK(m) ==
  /\ m \in [bytes : [DOMAIN m.bytes -> Seq(Nat)], count : [DOMAIN m.bytes -> Nat]]
  /\ IsFiniteSet(DOMAIN m.bytes) /\ DOMAIN m.bytes \subseteq Nat \ {0}

\* How many strings share block b, and whether s is one of them.
Shares(m, b) == IF b \in DOMAIN m.bytes THEN m.count[b] ELSE 0
Held(s, b) == IF IsLongStr(s) /\ s.block = b THEN 1 ELSE 0
HeldIn(m, s) == IsLongStr(s) => s.block \in DOMAIN m.bytes /\ m.count[s.block] /= 0

\* The blocks of P belong to buffers, and all others are counted.
Clean(m, P) ==
  /\ MemOK(m) /\ P \subseteq DOMAIN m.bytes
  /\ \A b \in DOMAIN m.bytes : m.count[b] = 0 <=> b \in P

SameBytes(q, m) == \A b \in DOMAIN m.bytes \cap DOMAIN q.bytes : q.bytes[b] = m.bytes[b]

\* s begins to share its block, or no longer does.
Come(q, m, s) ==
  /\ MemOK(q) /\ SameBytes(q, m)
  /\ \A b \in Nat : b \in DOMAIN q.bytes <=> b \in DOMAIN m.bytes \/ Held(s, b) = 1
  /\ \A b \in Nat : Shares(q, b) = Shares(m, b) + Held(s, b)

Gone(q, m, s) ==
  /\ MemOK(q) /\ SameBytes(q, m)
  /\ \A b \in Nat : b \in DOMAIN q.bytes <=>
                      b \in DOMAIN m.bytes /\ ~ (Held(s, b) = 1 /\ Shares(m, b) = 1)
  /\ \A b \in Nat : Shares(q, b) = Shares(m, b) - Held(s, b)

\* A new block, and one that goes.
Got(r, m, t, k) ==
  /\ MemOK(r.m) /\ SameBytes(r.m, m)
  /\ r.block \in Nat \ {0} /\ r.block \notin DOMAIN m.bytes
  /\ DOMAIN r.m.bytes = DOMAIN m.bytes \cup {r.block}
  /\ r.m.bytes[r.block] = t /\ r.m.count[r.block] = k
  /\ \A b \in DOMAIN m.bytes : r.m.count[b] = m.count[b]

Freed(q, m, a) ==
  /\ MemOK(q) /\ SameBytes(q, m)
  /\ DOMAIN q.bytes = DOMAIN m.bytes \ {a}
  /\ \A b \in DOMAIN q.bytes : q.count[b] = m.count[b]

\* A memory is made of its blocks and their counts.
LEMMA MemIs ==
  ASSUME NEW D, IsFiniteSet(D), D \subseteq Nat \ {0}, NEW h \in [D -> Seq(Nat)], NEW n \in [D -> Nat]
  PROVE  MemOK([bytes |-> h, count |-> n])
BY DEF MemOK

\* The parts of a memory, and what it is made of.
LEMMA MemParts ==
  ASSUME NEW m, MemOK(m)
  PROVE  /\ m = [bytes |-> m.bytes, count |-> m.count]
         /\ m.bytes \in [DOMAIN m.bytes -> Seq(Nat)] /\ m.count \in [DOMAIN m.bytes -> Nat]
         /\ IsFiniteSet(DOMAIN m.bytes) /\ DOMAIN m.bytes \subseteq Nat \ {0}
BY DEF MemOK

\* Alloc takes a place that is free and disturbs nothing.
LEMMA AllocIs ==
  ASSUME NEW m, MemOK(m), NEW t \in Seq(Nat), NEW k \in Nat
  PROVE  Got(Alloc(m, t, k), m, t, k)
<1> DEFINE D == DOMAIN m.bytes
           b == Min((1..(Cardinality(D) + 1)) \ D)
           used == D \cup {b}
           h == [x \in used |-> IF x = b THEN t ELSE m.bytes[x]]
           n == [x \in used |-> IF x = b THEN k ELSE m.count[x]]
<1>1. Alloc(m, t, k) = [block |-> b, m |-> [bytes |-> h, count |-> n]]
  BY DEF Alloc
<1>2. D \in SUBSET Nat /\ IsFiniteSet(D) /\ 0 \notin D
  BY MemParts
<1> HIDE DEF D
<1>3. b \in Nat \ {0} /\ b \notin D
  BY <1>2, FreshIs
<1> HIDE DEF b
<1>4. IsFiniteSet(used) /\ used \subseteq Nat \ {0}
  BY <1>2, <1>3, FS_AddElement
<1>5. m.bytes \in [D -> Seq(Nat)] /\ m.count \in [D -> Nat]
  BY MemParts DEF D
<1>6. h \in [used -> Seq(Nat)] /\ n \in [used -> Nat]
  BY <1>5
<1>7. \A x \in D : x /= b /\ h[x] = m.bytes[x] /\ n[x] = m.count[x]
  BY <1>3
<1>8. h[b] = t /\ n[b] = k
  OBVIOUS
<1> HIDE DEF h, n, used
<1>9. MemOK([bytes |-> h, count |-> n])
  BY <1>4, <1>6, MemIs
<1>10. DOMAIN h = D \cup {b}
  BY <1>6 DEF used
<1> DEFINE r == [block |-> b, m |-> [bytes |-> h, count |-> n]]
<1>11. r.block = b /\ r.m = [bytes |-> h, count |-> n] /\ r.m.bytes = h /\ r.m.count = n
  OBVIOUS
<1> HIDE DEF r
<1>12. SameBytes(r.m, m)
  BY <1>7, <1>11 DEF SameBytes, D
<1> QED BY <1>1, <1>3, <1>7, <1>8, <1>9, <1>10, <1>11, <1>12 DEF Got, r, D

\* Dealloc takes away one block.
LEMMA DeallocIs ==
  ASSUME NEW m, MemOK(m), NEW a
  PROVE  Freed(Dealloc(m, a), m, a)
<1> DEFINE used == DOMAIN m.bytes \ {a}
           h == [x \in used |-> m.bytes[x]]
           n == [x \in used |-> m.count[x]]
<1>1. Dealloc(m, a) = [bytes |-> h, count |-> n]
  BY DEF Dealloc
<1>2. IsFiniteSet(used) /\ used \subseteq Nat \ {0}
  BY MemParts, FS_Subset
<1>3. h \in [used -> Seq(Nat)] /\ n \in [used -> Nat]
  BY MemParts
<1>4. MemOK([bytes |-> h, count |-> n])
  <2> HIDE DEF h, n, used
  <2> QED BY <1>2, <1>3, MemIs
<1> QED BY <1>1, <1>3, <1>4 DEF Freed, SameBytes

\* Only the counts change.
LEMMA RecountIs ==
  ASSUME NEW m, MemOK(m), NEW a \in DOMAIN m.bytes, NEW k \in Int, m.count[a] + k >= 0
  PROVE  /\ MemOK(Recount(m, a, k)) /\ Recount(m, a, k).bytes = m.bytes
         /\ Recount(m, a, k).count[a] = m.count[a] + k
         /\ \A b \in DOMAIN m.bytes : b /= a => Recount(m, a, k).count[b] = m.count[b]
<1> DEFINE n == [m.count EXCEPT ![a] = m.count[a] + k]
<1>1. m = [bytes |-> m.bytes, count |-> m.count] /\ m.count \in [DOMAIN m.bytes -> Nat]
      /\ m.bytes \in [DOMAIN m.bytes -> Seq(Nat)]
      /\ IsFiniteSet(DOMAIN m.bytes) /\ DOMAIN m.bytes \subseteq Nat \ {0}
  BY MemParts
<1>2. Recount(m, a, k) = [bytes |-> m.bytes, count |-> n]
  <2>1. \A h, c : Recount([bytes |-> h, count |-> c], a, k) =
                    [bytes |-> h, count |-> [c EXCEPT ![a] = c[a] + k]]
    BY DEF Recount
  <2> QED BY <1>1, <2>1
<1>3. m.count[a] + k \in Nat
  BY <1>1
<1>4. n \in [DOMAIN m.bytes -> Nat] /\ n[a] = m.count[a] + k
      /\ \A b \in DOMAIN m.bytes : b /= a => n[b] = m.count[b]
  BY <1>1, <1>3
<1> HIDE DEF n
<1>5. MemOK([bytes |-> m.bytes, count |-> n])
  BY <1>1, <1>4, MemIs
<1> QED BY <1>2, <1>4, <1>5

\* A copy of a string shares its block.
LEMMA CopyIs ==
  ASSUME NEW m, MemOK(m), NEW s \in StrRec, HeldIn(m, s)
  PROVE  Come(CopyOf(m, s), m, s)
<1>1. CASE ~ IsLongStr(s)
  <2>1. CopyOf(m, s) = m /\ \A b \in Nat : Held(s, b) = 0
    BY <1>1 DEF CopyOf, Held
  <2>2. \A b \in Nat : Shares(m, b) \in Nat
    BY MemParts DEF Shares
  <2> QED BY <2>1, <2>2 DEF Come, SameBytes
<1>2. CASE IsLongStr(s)
  <2> DEFINE q == Recount(m, s.block, 1)
  <2>1. CopyOf(m, s) = q
    BY <1>2 DEF CopyOf
  <2>2. s.block \in DOMAIN m.bytes /\ m.count \in [DOMAIN m.bytes -> Nat]
    BY <1>2, MemParts DEF HeldIn
  <2>3. /\ MemOK(q) /\ q.bytes = m.bytes /\ q.count[s.block] = m.count[s.block] + 1
        /\ \A b \in DOMAIN m.bytes : b /= s.block => q.count[b] = m.count[b]
    BY <2>2, RecountIs
  <2> HIDE DEF q
  <2>4. \A b \in Nat : Held(s, b) = IF b = s.block THEN 1 ELSE 0
    BY <1>2 DEF Held
  <2>5. \A b \in Nat : Shares(q, b) = Shares(m, b) + Held(s, b)
    BY <2>2, <2>3, <2>4 DEF Shares
  <2>6. \A b \in Nat : b \in DOMAIN q.bytes <=> b \in DOMAIN m.bytes \/ Held(s, b) = 1
    BY <2>2, <2>3, <2>4
  <2> QED BY <2>1, <2>3, <2>5, <2>6 DEF Come, SameBytes
<1> QED BY <1>1, <1>2

\* The end of a string takes its block along if it is the last one.
LEMMA DestructIs ==
  ASSUME NEW m, MemOK(m), NEW s \in StrRec, HeldIn(m, s)
  PROVE  Gone(Destruct(m, s), m, s)
<1>0. \A b \in Nat : Shares(m, b) \in Nat
  BY MemParts DEF Shares
<1>1. CASE ~ IsLongStr(s)
  <2>1. Destruct(m, s) = m /\ \A b \in Nat : Held(s, b) = 0
    BY <1>1 DEF Destruct, Held
  <2> QED BY <1>0, <2>1 DEF Gone, SameBytes
<1>2. CASE IsLongStr(s)
  <2>1. s.block \in DOMAIN m.bytes /\ m.count[s.block] /= 0 /\ m.count \in [DOMAIN m.bytes -> Nat]
    BY <1>2, MemParts DEF HeldIn
  <2>2. \A b \in Nat : Held(s, b) = IF b = s.block THEN 1 ELSE 0
    BY <1>2 DEF Held
  <2>3. CASE m.count[s.block] = 1
    <3> DEFINE q == Dealloc(m, s.block)
    <3>1. Destruct(m, s) = q
      BY <1>2, <2>3 DEF Destruct
    <3>2. /\ MemOK(q) /\ SameBytes(q, m) /\ DOMAIN q.bytes = DOMAIN m.bytes \ {s.block}
          /\ \A b \in DOMAIN q.bytes : q.count[b] = m.count[b]
      BY DeallocIs DEF Freed
    <3> HIDE DEF q
    <3>3. \A b \in Nat : Shares(q, b) = Shares(m, b) - Held(s, b)
      BY <2>1, <2>2, <2>3, <3>2 DEF Shares
    <3>4. \A b \in Nat : b \in DOMAIN q.bytes <=>
                           b \in DOMAIN m.bytes /\ ~ (Held(s, b) = 1 /\ Shares(m, b) = 1)
      BY <2>1, <2>2, <2>3, <3>2 DEF Shares
    <3> QED BY <3>1, <3>2, <3>3, <3>4 DEF Gone
  <2>4. CASE m.count[s.block] /= 1
    <3> DEFINE q == Recount(m, s.block, -1)
    <3>1. Destruct(m, s) = q
      BY <1>2, <2>4 DEF Destruct
    <3>2. /\ MemOK(q) /\ q.bytes = m.bytes /\ q.count[s.block] = m.count[s.block] + (-1)
          /\ \A b \in DOMAIN m.bytes : b /= s.block => q.count[b] = m.count[b]
      BY <2>1, RecountIs
    <3> HIDE DEF q
    <3>3. \A b \in Nat : Shares(q, b) = Shares(m, b) - Held(s, b)
      BY <2>1, <2>2, <3>2 DEF Shares
    <3>4. \A b \in Nat : b \in DOMAIN q.bytes <=>
                           b \in DOMAIN m.bytes /\ ~ (Held(s, b) = 1 /\ Shares(m, b) = 1)
      BY <2>1, <2>2, <2>4, <3>2 DEF Shares
    <3> QED BY <3>1, <3>2, <3>3, <3>4 DEF Gone, SameBytes
  <2> QED BY <2>3, <2>4
<1> QED BY <1>1, <1>2

\* Strings do not disturb who has what.
LEMMA ComeClean ==
  ASSUME NEW m, NEW P, Clean(m, P), NEW q, NEW s \in StrRec, Come(q, m, s), IsLongStr(s) => s.block \notin P
  PROVE  Clean(q, P)
<1>1. \A b \in DOMAIN q.bytes : b \in Nat
  BY DEF Come, MemOK
<1>2. \A b \in Nat : Shares(m, b) \in Nat /\ Held(s, b) \in {0, 1} /\ (Held(s, b) = 1 => b \notin P)
  BY MemParts DEF Clean, Shares, Held
<1>3. P \subseteq DOMAIN q.bytes
  BY DEF Clean, Come, MemOK
<1>4. ASSUME NEW b \in DOMAIN q.bytes PROVE q.count[b] = 0 <=> b \in P
  <2>1. q.count[b] = Shares(m, b) + Held(s, b)
    BY <1>1 DEF Come, Shares
  <2>2. b \in Nat /\ (b \in DOMAIN m.bytes \/ Held(s, b) = 1)
    BY <1>1 DEF Come
  <2>3. b \in DOMAIN m.bytes => Shares(m, b) = m.count[b]
    BY DEF Shares
  <2>4. b \in DOMAIN m.bytes => (m.count[b] = 0 <=> b \in P)
    BY DEF Clean
  <2>5. b \in P => b \in DOMAIN m.bytes
    BY DEF Clean
  <2> QED BY <1>2, <2>1, <2>2, <2>3, <2>4, <2>5
<1> QED BY <1>3, <1>4 DEF Clean, Come

\* A block that goes was not a buffer's.
LEMMA GoneClean ==
  ASSUME NEW m, NEW P, Clean(m, P), NEW q, NEW s \in StrRec, Gone(q, m, s), HeldIn(m, s)
  PROVE  Clean(q, P)
<1>1. \A b \in DOMAIN q.bytes : b \in Nat
  BY DEF Gone, MemOK
<1>2. \A b \in Nat : Shares(m, b) \in Nat /\ Held(s, b) \in {0, 1}
  BY MemParts DEF Clean, Shares, Held
<1>3. \A b \in Nat : Held(s, b) = 1 => b \in DOMAIN m.bytes /\ Shares(m, b) /= 0 /\ b \notin P
  BY DEF Clean, Shares, Held, HeldIn
<1>4. \A b \in Nat : b \in DOMAIN q.bytes <=>
                       b \in DOMAIN m.bytes /\ ~ (Held(s, b) = 1 /\ Shares(m, b) = 1)
  BY DEF Gone
<1>5. P \subseteq DOMAIN m.bytes /\ P \subseteq Nat
  BY DEF Clean, MemOK
<1>6. P \subseteq DOMAIN q.bytes
  BY <1>3, <1>4, <1>5
<1>7. ASSUME NEW b \in DOMAIN q.bytes PROVE q.count[b] = 0 <=> b \in P
  <2>1. b \in Nat /\ q.count[b] = Shares(m, b) - Held(s, b)
    BY <1>1 DEF Gone, Shares
  <2>2. b \in DOMAIN m.bytes /\ ~ (Held(s, b) = 1 /\ Shares(m, b) = 1)
    BY <1>4, <2>1
  <2>3. Shares(m, b) = m.count[b] /\ (m.count[b] = 0 <=> b \in P)
    BY <2>2 DEF Shares, Clean
  <2> QED BY <1>2, <1>3, <2>1, <2>2, <2>3
<1> QED BY <1>6, <1>7 DEF Clean, Gone

\* A buffer gets a block, gives it back, or gives it to a string.
LEMMA GotClean ==
  ASSUME NEW m, NEW P, Clean(m, P), NEW t, NEW r, Got(r, m, t, 0)
  PROVE  Clean(r.m, P \cup {r.block})
BY DEF Clean, Got

\* A buffer gives its block back.
LEMMA FreedClean ==
  ASSUME NEW m, NEW P, Clean(m, P), NEW a \in P, NEW q, Freed(q, m, a)
  PROVE  /\ Clean(q, P \ {a})
         /\ \A b \in Nat : Shares(q, b) = Shares(m, b)
BY DEF Clean, Freed, Shares

\* A buffer gives its block to a string.
LEMMA GivenClean ==
  ASSUME NEW m, NEW P, Clean(m, P), NEW a \in P, NEW q, MemOK(q), q.bytes = m.bytes,
         q.count[a] = m.count[a] + 1, \A b \in DOMAIN m.bytes : b /= a => q.count[b] = m.count[b]
  PROVE  /\ Clean(q, P \ {a})
         /\ \A b \in Nat : Shares(q, b) = Shares(m, b) + (IF b = a THEN 1 ELSE 0)
<1>1. a \in DOMAIN m.bytes /\ m.count[a] = 0 /\ m.count \in [DOMAIN m.bytes -> Nat]
  BY MemParts DEF Clean
<1> QED BY <1>1 DEF Clean, Shares

-----------------------------------------------------------------------------
(* What strings and buffers hold.                                          *)

\* v says what is in text, as far as it says anything.
Tells(v, text) ==
  /\ v \in Seq(Nat) /\ text \in Seq(Nat) /\ Len(v) = Len(text)
  /\ \A i \in 1..Len(v) : v[i] \in {Junk, text[i]}

Holding(bytes, len, v) ==
  /\ bytes \in Seq(Nat) /\ len + 1 <= Len(bytes)
  /\ v \in Seq(Nat) /\ Agrees(bytes, len, v)

StrFine(m, s, v) == s \in StrRec /\ Holding(Data(m, s), LenOf(s), v)

BufFine(m, f, v) ==
  /\ f \in BufRec /\ f.len <= f.cap
  /\ f.p \in DOMAIN m.bytes /\ Len(m.bytes[f.p]) = f.cap + 1
  /\ Holding(m.bytes[f.p], f.len, v)

\* Bytes that nobody wrote.
LEMMA UnwrittenIs ==
  ASSUME NEW n \in Nat
  PROVE  /\ Unwritten(n) \in Seq(Nat) /\ Len(Unwritten(n)) = n
         /\ \A i \in 1..n : Unwritten(n)[i] = Junk
BY StrAssumption DEF Unwritten

\* A text and the Nul behind it.
LEMMA TerminatedIs ==
  ASSUME NEW v, NEW text, Tells(v, text)
  PROVE  Holding(Append(text, Nul), Len(text), v)
<1>1. /\ text \in Seq(Nat) /\ Len(text) \in Nat /\ Nul \in Nat
      /\ Append(text, Nul) \in Seq(Nat) /\ Len(Append(text, Nul)) = Len(text) + 1
      /\ \A i \in 1..Len(text) : Append(text, Nul)[i] = text[i]
      /\ Append(text, Nul)[Len(text) + 1] = Nul
  BY StrAssumption DEF Tells
<1> QED BY <1>1 DEF Tells, Holding, Agrees

\* A short string needs no memory.
LEMMA ShortIs ==
  ASSUME NEW v, NEW text, Tells(v, text), NEW m
  PROVE  StrFine(m, Short(text), v) /\ ~ IsLongStr(Short(text)) /\ Short(text) \in StrRec
<1>1. Holding(Append(text, Nul), Len(text), v)
  BY TerminatedIs
<1>2. Len(text) \in Nat /\ Append(text, Nul) \in Seq(Nat)
  BY <1>1 DEF Tells, Holding
<1>3. ~ IsLongStr(Short(text)) /\ Short(text) \in StrRec
  BY <1>2 DEF Short, IsLongStr, StrRec
<1>4. Data(m, Short(text)) = Append(text, Nul) /\ LenOf(Short(text)) = Len(text)
  BY <1>3 DEF Data, LenOf, Short
<1> QED BY <1>1, <1>3, <1>4 DEF StrFine

\* A long string holds what its block does.
LEMMA LongIs ==
  ASSUME NEW m, NEW b \in Nat, b \in DOMAIN m.bytes, NEW len \in Nat, NEW v, Holding(m.bytes[b], len, v)
  PROVE  /\ StrFine(m, Long(len, b), v) /\ IsLongStr(Long(len, b)) /\ Long(len, b) \in StrRec
         /\ Long(len, b).block = b
<1>1. IsLongStr(Long(len, b)) /\ Long(len, b).block = b /\ Long(len, b).ls_len = len
  BY DEF Long, IsLongStr
<1>2. Long(len, b) \in StrRec
  BY DEF Long, StrRec
<1>3. Data(m, Long(len, b)) = m.bytes[b] /\ LenOf(Long(len, b)) = len
  BY <1>1 DEF Data, LenOf
<1> QED BY <1>1, <1>2, <1>3 DEF StrFine

\* The constructor.
LEMMA NewStrIs ==
  ASSUME NEW m, MemOK(m), NEW v, NEW text, Tells(v, text)
  PROVE  LET r == NewStr(m, text) IN
         /\ Come(r.m, m, r.s) /\ StrFine(r.m, r.s, v) /\ r.s \in StrRec
         /\ IsLongStr(r.s) => r.s.block \notin DOMAIN m.bytes
<1>0. Len(text) \in Nat /\ Holding(Append(text, Nul), Len(text), v) /\ Append(text, Nul) \in Seq(Nat)
  BY TerminatedIs DEF Tells, Holding
<1>1. CASE Len(text) <= ShortMax
  <2>1. NewStr(m, text).m = m /\ NewStr(m, text).s = Short(text)
    BY <1>1 DEF NewStr
  <2>2. StrFine(m, Short(text), v) /\ ~ IsLongStr(Short(text)) /\ Short(text) \in StrRec
    BY ShortIs
  <2>3. \A b \in Nat : Held(Short(text), b) = 0 /\ Shares(m, b) \in Nat
    BY <2>2, MemParts DEF Held, Shares
  <2>4. Come(m, m, Short(text))
    BY <2>3 DEF Come, SameBytes
  <2> QED BY <2>1, <2>2, <2>4
<1>2. CASE ~ (Len(text) <= ShortMax)
  <2> DEFINE got == Alloc(m, Append(text, Nul), 1)
             q == got.m
             b == got.block
             s == Long(Len(text), b)
  <2>1. NewStr(m, text).m = q /\ NewStr(m, text).s = s
    BY <1>2 DEF NewStr
  <2>2. Got(got, m, Append(text, Nul), 1)
    BY <1>0, AllocIs
  <2> HIDE DEF got
  <2>3. /\ MemOK(q) /\ SameBytes(q, m) /\ b \in Nat \ {0} /\ b \notin DOMAIN m.bytes
        /\ DOMAIN q.bytes = DOMAIN m.bytes \cup {b}
        /\ q.bytes[b] = Append(text, Nul) /\ q.count[b] = 1
        /\ \A c \in DOMAIN m.bytes : q.count[c] = m.count[c]
    BY <2>2 DEF Got
  <2> HIDE DEF q, b
  <2>4. StrFine(q, s, v) /\ IsLongStr(s) /\ s \in StrRec /\ s.block = b
    <3>1. b \in Nat /\ b \in DOMAIN q.bytes /\ Holding(q.bytes[b], Len(text), v)
      BY <1>0, <2>3
    <3> QED BY <1>0, <3>1, LongIs
  <2> HIDE DEF s
  <2>5. \A c \in Nat : Held(s, c) = IF c = b THEN 1 ELSE 0
    BY <2>4 DEF Held
  <2>6. m.count \in [DOMAIN m.bytes -> Nat]
    BY MemParts
  <2>7. \A c \in Nat : Shares(q, c) = Shares(m, c) + Held(s, c)
    BY <2>3, <2>5, <2>6 DEF Shares
  <2>8. Come(q, m, s)
    BY <2>3, <2>5, <2>7 DEF Come
  <2> QED BY <2>1, <2>3, <2>4, <2>8
<1> QED BY <1>1, <1>2

IsCut(from, to, len) == (from \in 1..len /\ to \in 1..len /\ from <= to) \/ (from = 1 /\ to = 0)

\* A slice of a string.
LEMMA PieceIs ==
  ASSUME NEW m, NEW s, NEW v, StrFine(m, s, v), NEW from, NEW to, IsCut(from, to, LenOf(s))
  PROVE  Tells(SubSeq(v, from, to), SubSeq(Data(m, s), from, to))
<1> DEFINE bytes == Data(m, s)
           len == LenOf(s)
<1>1. /\ bytes \in Seq(Nat) /\ len + 1 <= Len(bytes) /\ v \in Seq(Nat) /\ len = Len(v) /\ len \in Nat
      /\ Len(bytes) \in Nat /\ \A i \in 1..len : v[i] \in {Junk, bytes[i]}
  BY DEF StrFine, Holding, Agrees
<1>2. IsCut(from, to, len)
  OBVIOUS
<1> HIDE DEF bytes, len
<1>3. CASE from = 1 /\ to = 0
  <2>1. SubSeq(v, from, to) = <<>> /\ SubSeq(bytes, from, to) = <<>>
    BY <1>1, <1>3
  <2>2. Tells(<<>>, <<>>)
    BY DEF Tells
  <2> QED BY <2>1, <2>2 DEF bytes
<1>4. CASE from \in 1..len /\ to \in 1..len /\ from <= to
  <2>1. /\ SubSeq(v, from, to) \in Seq(Nat) /\ Len(SubSeq(v, from, to)) = to - from + 1
        /\ \A i \in 1..(to - from + 1) : SubSeq(v, from, to)[i] = v[from + i - 1]
    <3>1. from \in Int /\ to \in Int /\ from <= to
      BY <1>1, <1>4
    <3>2. \A i \in from..to : v[i] \in Nat
      BY <1>1, <1>4, ElementOfSeq
    <3> QED BY <3>1, <3>2, SubSeqProperties
  <2>2. /\ SubSeq(bytes, from, to) \in Seq(Nat) /\ Len(SubSeq(bytes, from, to)) = to - from + 1
        /\ \A i \in 1..(to - from + 1) : SubSeq(bytes, from, to)[i] = bytes[from + i - 1]
    <3>1. from \in Int /\ to \in Int /\ from <= to
      BY <1>1, <1>4
    <3>2. \A i \in from..to : bytes[i] \in Nat
      BY <1>1, <1>4, ElementOfSeq
    <3> QED BY <3>1, <3>2, SubSeqProperties
  <2>3. \A i \in 1..(to - from + 1) : from + i - 1 \in 1..len
    BY <1>1, <1>4
  <2>4. Tells(SubSeq(v, from, to), SubSeq(bytes, from, to))
    BY <1>1, <2>1, <2>2, <2>3 DEF Tells
  <2> QED BY <2>4 DEF bytes
<1> QED BY <1>2, <1>3, <1>4 DEF IsCut

-----------------------------------------------------------------------------
(* How many strings share a block.                                         *)

Longs(ss, b) == {x \in StrName : IsLongStr(ss[x]) /\ ss[x].block = b}
Counted(m, ss) == \A b \in Nat : Shares(m, b) = Cardinality(Longs(ss, b))

\* The strings of tt are those of ss but for d.
Replaced(tt, ss, d, s) ==
  /\ DOMAIN tt = StrName /\ DOMAIN ss = StrName
  /\ tt[d] = s /\ \A x \in StrName : x /= d => tt[x] = ss[x]

\* A replaced string counts no more, and the new one does.
LEMMA LongsChange ==
  ASSUME NEW d \in StrName, NEW s, NEW ss, NEW tt, Replaced(tt, ss, d, s), NEW b \in Nat
  PROVE  /\ Cardinality(Longs(ss, b)) \in Nat
         /\ Cardinality(Longs(tt, b)) = Cardinality(Longs(ss, b)) - Held(ss[d], b) + Held(s, b)
<1> DEFINE L == Longs(ss, b)
           K == Longs(tt, b)
           R == L \ {d}
<1>1. tt[d] = s /\ \A x \in StrName : x /= d => tt[x] = ss[x]
  BY DEF Replaced
<1>2. IsFiniteSet(L) /\ IsFiniteSet(R) /\ Cardinality(R) \in Nat /\ d \notin R
  BY StrAssumption, FS_Subset, FS_CardinalityType DEF Longs
<1>3. L = IF Held(ss[d], b) = 1 THEN R \cup {d} ELSE R
  BY DEF Longs, Held
<1>4. K = IF Held(s, b) = 1 THEN R \cup {d} ELSE R
  BY <1>1 DEF Longs, Held
<1>5. Cardinality(R \cup {d}) = Cardinality(R) + 1
  BY <1>2, FS_AddElement
<1>6. Held(ss[d], b) \in {0, 1} /\ Held(s, b) \in {0, 1}
  BY DEF Held
<1> HIDE DEF L, K, R
<1>7. Cardinality(L) = Cardinality(R) + Held(ss[d], b)
  BY <1>2, <1>3, <1>5, <1>6
<1>8. Cardinality(K) = Cardinality(R) + Held(s, b)
  BY <1>2, <1>4, <1>5, <1>6
<1>9. Cardinality(L) \in Nat /\ Cardinality(K) = Cardinality(L) - Held(ss[d], b) + Held(s, b)
  BY <1>2, <1>6, <1>7, <1>8
<1> QED BY <1>9 DEF L, K

\* One string is replaced.
LEMMA CountedOne ==
  ASSUME NEW d \in StrName, NEW s, NEW ss, NEW tt, Replaced(tt, ss, d, s),
         NEW m, Counted(m, ss), NEW q,
         \A b \in Nat : Shares(q, b) = Shares(m, b) - Held(ss[d], b) + Held(s, b)
  PROVE  Counted(q, tt)
BY LongsChange DEF Counted

\* A string of memory has its block there.
LEMMA CountedHeld ==
  ASSUME NEW ss, NEW m, Counted(m, ss), NEW x \in StrName, ss[x] \in StrRec
  PROVE  HeldIn(m, ss[x])
<1> SUFFICES ASSUME IsLongStr(ss[x]) PROVE ss[x].block \in DOMAIN m.bytes /\ m.count[ss[x].block] /= 0
  BY DEF HeldIn
<1> DEFINE b == ss[x].block
           L == Longs(ss, b)
<1>1. b \in Nat
  BY DEF StrRec
<1>2. x \in L /\ IsFiniteSet(L)
  BY StrAssumption, FS_Subset DEF Longs
<1>3. Cardinality(L) /= 0
  BY <1>2, FS_EmptySet
<1>4. Shares(m, b) /= 0
  BY <1>1, <1>3 DEF Counted
<1> QED BY <1>4 DEF Shares

\* What is in memory as it was, holds what it held.
LEMMA StrStays ==
  ASSUME NEW m, NEW q, SameBytes(q, m), NEW s, NEW v, StrFine(m, s, v), HeldIn(m, s), HeldIn(q, s)
  PROVE  StrFine(q, s, v)
<1>1. Data(q, s) = Data(m, s)
  BY DEF HeldIn, SameBytes, Data
<1> QED BY <1>1 DEF StrFine

\* The same for a buffer.
LEMMA BufStays ==
  ASSUME NEW m, NEW q, SameBytes(q, m), NEW f, NEW v, BufFine(m, f, v), f.p \in DOMAIN q.bytes
  PROVE  BufFine(q, f, v)
<1>1. q.bytes[f.p] = m.bytes[f.p]
  BY DEF BufFine, SameBytes
<1> QED BY <1>1 DEF BufFine

-----------------------------------------------------------------------------
(* FitLen and Write.                                                       *)

\* What GrownTo chooses.
LEMMA GrowToDef ==
  ASSUME NEW cap, NEW len, NEW F, GrowsTo(F, cap + 2 * len, len)
  PROVE  \E G : GrowsTo(G, cap + 2 * len, len) /\ GrownTo(cap, len) = G[cap]
BY DEF GrowsTo, GrownTo

\* There is room for len, and none is taken away.
LEMMA GrownToIs ==
  ASSUME NEW cap \in Nat, NEW len \in Nat
  PROVE  GrownTo(cap, len) \in Nat /\ len <= GrownTo(cap, len) /\ cap <= GrownTo(cap, len)
<1> DEFINE M == cap + 2 * len
<1>1. M \in Nat /\ 2 * len <= M /\ cap \in 0..M
  OBVIOUS
<1>2. PICK F : GrowsTo(F, M, len)
  <2> HIDE DEF M
  <2> QED BY <1>1, GrowExists
<1>3. PICK G : GrowsTo(G, M, len) /\ GrownTo(cap, len) = G[cap]
  BY <1>2, GrowToDef
<1> HIDE DEF M
<1> QED BY <1>1, <1>3, GrowsIs

\* r is s and then t.
Joined(r, s, t) ==
  /\ r \in Seq(Nat) /\ Len(r) = Len(s) + Len(t)
  /\ \A i \in 1..Len(s) : r[i] = s[i]
  /\ \A i \in 1..Len(t) : r[Len(s) + i] = t[i]

\* Such is the concatenation.
LEMMA JoinedIs ==
  ASSUME NEW s \in Seq(Nat), NEW t \in Seq(Nat)
  PROVE  Joined(s \o t, s, t)
BY ConcatProperties DEF Joined

\* A buffer f with these bytes, that nobody has said more of than v.
BufHas(f, bytes, v) ==
  /\ f \in BufRec /\ f.len <= f.cap /\ bytes \in Seq(Nat) /\ Len(bytes) = f.cap + 1
  /\ Holding(bytes, f.len, v)

\* Nothing is said of what FitLen adds.
LEMMA FitIs ==
  ASSUME NEW f, NEW bytes, NEW v, BufHas(f, bytes, v), NEW len \in Nat
  PROVE  LET fit == FitLen(f, bytes, len) IN
         /\ BufHas(fit.buf, fit.bytes, v \o Unwritten(fit.buf.len - f.len))
         /\ fit.buf.p = f.p /\ fit.buf.len \in Nat /\ f.len <= fit.buf.len /\ len <= fit.buf.len
<1>1. /\ f \in BufRec /\ f.len \in Nat /\ f.cap \in Nat /\ f.p \in Nat /\ f.len <= f.cap
      /\ bytes \in Seq(Nat) /\ Len(bytes) = f.cap + 1 /\ Holding(bytes, f.len, v) /\ v \in Seq(Nat)
      /\ Len(v) = f.len
  BY DEF BufHas, BufRec, Holding, Agrees
<1>2. CASE len <= f.len
  <2>1. FitLen(f, bytes, len).buf = f /\ FitLen(f, bytes, len).bytes = bytes
    BY <1>2 DEF FitLen
  <2>2. f.len - f.len = 0 /\ v \o Unwritten(0) = v
    <3>1. Unwritten(0) = <<>>
      BY UnwrittenIs
    <3> QED BY <1>1, <3>1
  <2>3. FitLen(f, bytes, len).buf.len = f.len /\ FitLen(f, bytes, len).buf.len - f.len = 0
    BY <2>1, <2>2
  <2>4. v \o Unwritten(FitLen(f, bytes, len).buf.len - f.len) = v
    BY <2>2, <2>3
  <2>5. /\ FitLen(f, bytes, len).buf.p = f.p /\ FitLen(f, bytes, len).buf.len = f.len
        /\ f.len <= FitLen(f, bytes, len).buf.len /\ len <= FitLen(f, bytes, len).buf.len
    BY <1>1, <1>2, <2>1, <2>3
  <2>6. BufHas(FitLen(f, bytes, len).buf, FitLen(f, bytes, len).bytes, v)
    BY <2>1
  <2> QED BY <1>1, <2>4, <2>5, <2>6
<1>3. CASE ~ (len <= f.len)
  <2> DEFINE cap == GrownTo(f.cap, len)
             more == Unwritten(cap - f.cap)
             grown == bytes \o more
             b2 == [grown EXCEPT ![len + 1] = Nul]
             f2 == [f EXCEPT !.len = len, !.cap = cap]
             v2 == v \o Unwritten(len - f.len)
  <2>1. FitLen(f, bytes, len).buf = f2 /\ FitLen(f, bytes, len).bytes = b2
    BY <1>3 DEF FitLen
  <2>2. cap \in Nat /\ len <= cap /\ f.cap <= cap
    BY <1>1, GrownToIs
  <2> HIDE DEF cap
  <2>3. f2 \in BufRec /\ f2.p = f.p /\ f2.len = len /\ f2.cap = cap
    BY <1>1, <2>2 DEF BufRec
  <2>4. cap - f.cap \in Nat /\ more \in Seq(Nat) /\ Len(more) = cap - f.cap
    <3>1. cap - f.cap \in Nat
      BY <1>1, <2>2
    <3> DEFINE k == cap - f.cap
    <3> HIDE DEF k
    <3>2. k \in Nat /\ Unwritten(k) \in Seq(Nat) /\ Len(Unwritten(k)) = k
      BY <3>1, UnwrittenIs DEF k
    <3> QED BY <3>2 DEF k
  <2> HIDE DEF more
  <2>5. /\ grown \in Seq(Nat) /\ Len(grown) = cap + 1
        /\ \A i \in 1..(f.cap + 1) : grown[i] = bytes[i]
    <3>1. Joined(grown, bytes, more)
      BY <1>1, <2>4, JoinedIs
    <3> QED BY <1>1, <2>2, <2>4, <3>1 DEF Joined
  <2> HIDE DEF grown
  <2>6. /\ b2 \in Seq(Nat) /\ Len(b2) = cap + 1 /\ b2[len + 1] = Nul
        /\ \A i \in 1..(cap + 1) : i /= len + 1 => b2[i] = grown[i]
    <3>1. Nul \in Nat /\ len + 1 \in 1..Len(grown)
      BY <2>2, <2>5, StrAssumption
    <3> QED BY <2>5, <3>1, ExceptSeq
  <2> HIDE DEF b2, f2
  <2>7. len - f.len \in Nat
    BY <1>1, <1>3
  <2>8. /\ Unwritten(len - f.len) \in Seq(Nat) /\ Len(Unwritten(len - f.len)) = len - f.len
        /\ \A i \in 1..(len - f.len) : Unwritten(len - f.len)[i] = Junk
    BY <2>7, UnwrittenIs
  <2>9. /\ v2 \in Seq(Nat) /\ Len(v2) = len
        /\ \A i \in 1..f.len : v2[i] = v[i]
        /\ \A i \in 1..len : i > f.len => v2[i] = Junk
    <3> DEFINE u == Unwritten(len - f.len)
    <3> HIDE DEF u
    <3>1. u \in Seq(Nat) /\ Len(u) = len - f.len /\ \A i \in 1..(len - f.len) : u[i] = Junk
      BY <2>8 DEF u
    <3>2. v2 = v \o u
      BY DEF u
    <3> HIDE DEF v2
    <3>3. Joined(v2, v, u)
      BY <1>1, <3>1, <3>2, JoinedIs
    <3>4. v2 \in Seq(Nat) /\ Len(v2) = len /\ \A i \in 1..f.len : v2[i] = v[i]
      BY <1>1, <2>7, <3>1, <3>3 DEF Joined
    <3>5. ASSUME NEW i \in 1..len, i > f.len PROVE v2[i] = Junk
      <4>1. i - f.len \in 1..(len - f.len) /\ f.len + (i - f.len) = i
        BY <1>1, <3>5
      <4>2. v2[f.len + (i - f.len)] = u[i - f.len]
        BY <1>1, <3>1, <3>3, <4>1 DEF Joined
      <4> QED BY <3>1, <4>1, <4>2
    <3> QED BY <3>4, <3>5
  <2> HIDE DEF v2
  <2>10. \A i \in 1..len : v2[i] \in {Junk, b2[i]}
    <3> SUFFICES ASSUME NEW i \in 1..len, i <= f.len PROVE v2[i] \in {Junk, b2[i]}
      <4>1. len \in Nat /\ f.len \in Nat
        BY <1>1
      <4>2. \A i \in 1..len : i <= f.len \/ i > f.len
        BY <4>1
      <4> QED BY <2>9, <4>2
    <3>0. i \in 1..f.len /\ i \in 1..(f.cap + 1) /\ i \in 1..(cap + 1) /\ i /= len + 1
      BY <1>1, <2>2
    <3>1. v2[i] = v[i] /\ b2[i] = bytes[i]
      <4>1. b2[i] = grown[i]
        BY <2>6, <3>0
      <4>2. grown[i] = bytes[i]
        BY <2>5, <3>0
      <4> QED BY <2>9, <3>0, <4>1, <4>2
    <3>2. v[i] \in {Junk, bytes[i]}
      BY <1>1, <3>0 DEF Holding, Agrees
    <3> QED BY <3>1, <3>2
  <2>11. Holding(b2, len, v2)
    BY <2>2, <2>6, <2>9, <2>10, SMTT(40) DEF Holding, Agrees
  <2>12. BufHas(f2, b2, v2)
    BY <2>2, <2>3, <2>6, <2>11 DEF BufHas
  <2> QED BY <1>1, <1>3, <2>1, <2>3, <2>12 DEF v2
<1> QED BY <1>2, <1>3

\* The loop of Write.
OverAt(s, t, offset) ==
  [i \in DOMAIN s |-> IF i \in (offset + 1)..(offset + Len(t)) THEN t[i - offset] ELSE s[i]]

\* The elements after Write.
LEMMA OverIs ==
  ASSUME NEW s \in Seq(Nat), NEW t \in Seq(Nat), NEW offset \in Nat
  PROVE  /\ OverAt(s, t, offset) \in Seq(Nat) /\ Len(OverAt(s, t, offset)) = Len(s)
         /\ \A i \in 1..Len(s) :
              OverAt(s, t, offset)[i] =
                IF i \in (offset + 1)..(offset + Len(t)) THEN t[i - offset] ELSE s[i]
<1> DEFINE val(i) == IF i \in (offset + 1)..(offset + Len(t)) THEN t[i - offset] ELSE s[i]
<1>1. DOMAIN s = 1..Len(s) /\ Len(s) \in Nat /\ Len(t) \in Nat
  OBVIOUS
<1>2. \A i \in 1..Len(s) : val(i) \in Nat
  <2> SUFFICES ASSUME NEW i \in 1..Len(s) PROVE val(i) \in Nat
    OBVIOUS
  <2>1. CASE i \in (offset + 1)..(offset + Len(t))
    <3>1. i - offset \in 1..Len(t)
      BY <1>1, <2>1
    <3>2. t[i - offset] \in Nat
      BY <3>1, ElementOfSeq
    <3> QED BY <2>1, <3>2
  <2>2. CASE ~ (i \in (offset + 1)..(offset + Len(t)))
    BY <2>2, ElementOfSeq
  <2> QED BY <2>1, <2>2
<1>3. OverAt(s, t, offset) = [i \in 1..Len(s) |-> val(i)]
  BY <1>1 DEF OverAt
<1> HIDE DEF val
<1>4. /\ [i \in 1..Len(s) |-> val(i)] \in Seq(Nat) /\ Len([i \in 1..Len(s) |-> val(i)]) = Len(s)
      /\ \A i \in 1..Len(s) : [j \in 1..Len(s) |-> val(j)][i] = val(i)
  BY <1>1, <1>2
<1> QED BY <1>3, <1>4 DEF val

\* What is written is said, and the rest is as it was.
LEMMA WrittenOver ==
  ASSUME NEW bytes, NEW len \in Nat, NEW v, Holding(bytes, len, v),
         NEW text, NEW given, Tells(given, text), NEW offset \in Nat, offset + Len(text) <= len
  PROVE  /\ Holding(OverAt(bytes, text, offset), len, OverAt(v, given, offset))
         /\ OverAt(bytes, text, offset) \in Seq(Nat) /\ Len(OverAt(bytes, text, offset)) = Len(bytes)
<1> DEFINE b2 == OverAt(bytes, text, offset)
           v2 == OverAt(v, given, offset)
           n == Len(text)
<1>1. /\ bytes \in Seq(Nat) /\ v \in Seq(Nat) /\ Len(v) = len /\ len + 1 <= Len(bytes) /\ bytes[len + 1] = Nul
      /\ \A i \in 1..len : v[i] \in {Junk, bytes[i]}
  BY DEF Holding, Agrees
<1>2. text \in Seq(Nat) /\ given \in Seq(Nat) /\ Len(given) = n /\ n \in Nat
      /\ \A i \in 1..n : given[i] \in {Junk, text[i]}
  BY DEF Tells
<1>3. /\ b2 \in Seq(Nat) /\ Len(b2) = Len(bytes)
      /\ \A i \in 1..Len(bytes) : b2[i] = IF i \in (offset + 1)..(offset + n) THEN text[i - offset] ELSE bytes[i]
  BY <1>1, <1>2, OverIs
<1>4. /\ v2 \in Seq(Nat) /\ Len(v2) = len
      /\ \A i \in 1..len : v2[i] = IF i \in (offset + 1)..(offset + n) THEN given[i - offset] ELSE v[i]
  <2>1. /\ v2 \in Seq(Nat) /\ Len(v2) = Len(v)
        /\ \A i \in 1..Len(v) :
             v2[i] = IF i \in (offset + 1)..(offset + Len(given)) THEN given[i - offset] ELSE v[i]
    BY <1>1, <1>2, OverIs
  <2> QED BY <1>1, <1>2, <2>1
<1>5. offset + n <= len
  OBVIOUS
<1> HIDE DEF b2, v2, n
<1>6. \A i \in 1..len : v2[i] \in {Junk, b2[i]}
  <2> SUFFICES ASSUME NEW i \in 1..len PROVE v2[i] \in {Junk, b2[i]}
    OBVIOUS
  <2>1. i \in 1..Len(bytes)
    BY <1>1
  <2>2. CASE i \in (offset + 1)..(offset + n)
    <3>1. i - offset \in 1..n
      BY <1>2, <2>2
    <3> QED BY <1>2, <1>3, <1>4, <2>1, <2>2, <3>1
  <2>3. CASE ~ (i \in (offset + 1)..(offset + n))
    BY <1>1, <1>3, <1>4, <2>1, <2>3
  <2> QED BY <2>2, <2>3
<1>7. b2[len + 1] = Nul
  <2>1. len + 1 \in 1..Len(bytes) /\ ~ (len + 1 \in (offset + 1)..(offset + n))
    BY <1>1, <1>2, <1>5
  <2> QED BY <1>1, <1>3, <2>1
<1>8. Holding(b2, len, v2)
  BY <1>1, <1>3, <1>4, <1>6, <1>7 DEF Holding, Agrees
<1> QED BY <1>3, <1>8 DEF b2, v2

-----------------------------------------------------------------------------
(* The invariant of strings, and its actions.                              *)

Blocks(bf) == {bf[c].p : c \in BufName}

StrInv ==
  /\ DOMAIN strs = StrName /\ DOMAIN bufs = BufName /\ DOMAIN value = StrName \cup BufName
  /\ Clean(mem, Blocks(bufs)) /\ Counted(mem, strs)
  /\ \A b, c \in BufName : bufs[b].p = bufs[c].p => b = c
  /\ \A x \in StrName : StrFine(mem, strs[x], value[x])
  /\ \A b \in BufName : BufFine(mem, bufs[b], value[b])

\* What a string is given leaves the others as they are; q is the memory on the way.
LEMMA OthersStay ==
  ASSUME StrInv, NEW q, SameBytes(q, mem), SameBytes(mem', q), Counted(q, strs'), Counted(mem', strs'),
         NEW x \in StrName, strs'[x] = strs[x], value'[x] = value[x]
  PROVE  StrFine(mem', strs'[x], value'[x])
<1> DEFINE s == strs[x]
           v == value[x]
<1>1. StrFine(mem, s, v) /\ s \in StrRec
  BY DEF StrInv, StrFine
<1>2. HeldIn(mem, s) /\ HeldIn(q, strs'[x]) /\ HeldIn(mem', strs'[x])
  BY <1>1, CountedHeld DEF StrInv
<1> HIDE DEF s, v
<1>3. HeldIn(q, s) /\ HeldIn(mem', s) /\ strs'[x] = s /\ value'[x] = v
  BY <1>2 DEF s, v
<1>4. StrFine(q, s, v)
  BY <1>1, <1>2, <1>3, StrStays
<1> QED BY <1>3, <1>4, StrStays

\* The same for the other buffers.
LEMMA BufsStay ==
  ASSUME StrInv, NEW q, SameBytes(q, mem), SameBytes(mem', q),
         NEW b \in BufName, bufs'[b] = bufs[b], value'[b] = value[b],
         bufs[b].p \in DOMAIN q.bytes, bufs[b].p \in DOMAIN mem'.bytes
  PROVE  BufFine(mem', bufs'[b], value'[b])
<1>1. BufFine(mem, bufs[b], value[b])
  BY DEF StrInv
<1>2. BufFine(q, bufs[b], value[b])
  BY <1>1, BufStays
<1> QED BY <1>2, BufStays

\* Memory as it is.
LEMMA SameTwice ==
  ASSUME NEW m, NEW q, SameBytes(q, m)
  PROVE  SameBytes(m, m) /\ SameBytes(q, q)
BY DEF SameBytes

\* A string d is given a new value, and with it the block that it had may go.
LEMMA StringGets ==
  ASSUME StrInv, NEW d \in StrName, NEW s, NEW v, Replaced(strs', strs, d, s),
         DOMAIN value' = DOMAIN value, value'[d] = v,
         \A x \in DOMAIN value : x /= d => value'[x] = value[x],
         bufs' = bufs, Clean(mem', Blocks(bufs)), SameBytes(mem', mem),
         \A b \in Nat : Shares(mem', b) = Shares(mem, b) - Held(strs[d], b) + Held(s, b),
         StrFine(mem', s, v)
  PROVE  StrInv'
<1>1. Counted(mem', strs')
  BY CountedOne DEF StrInv
<1>2. SameBytes(mem', mem')
  BY SameTwice
<1>3. ASSUME NEW x \in StrName PROVE StrFine(mem', strs'[x], value'[x])
  <2>1. CASE x = d
    BY <2>1 DEF Replaced
  <2>2. CASE x /= d
    <3>1. strs'[x] = strs[x] /\ value'[x] = value[x]
      BY <2>2 DEF Replaced, StrInv
    <3> QED BY <1>1, <1>2, <3>1, OthersStay
  <2> QED BY <2>1, <2>2
<1>4. ASSUME NEW b \in BufName PROVE BufFine(mem', bufs'[b], value'[b])
  <2>1. b /= d /\ b \in DOMAIN value
    BY StrAssumption DEF StrInv
  <2>2. bufs[b].p \in DOMAIN mem'.bytes
    BY DEF Clean, Blocks
  <2> QED BY <1>2, <2>1, <2>2, BufsStay
<1> QED BY <1>1, <1>3, <1>4 DEF StrInv, Replaced

\* What comes is held, and what was held still is.
LEMMA ComeHeld ==
  ASSUME NEW m, MemOK(m), NEW q, NEW s \in StrRec, Come(q, m, s)
  PROVE  HeldIn(q, s) /\ \A t \in StrRec : HeldIn(m, t) => HeldIn(q, t)
<1>1. \A b \in Nat : Shares(m, b) \in Nat /\ Held(s, b) \in {0, 1}
  BY MemParts DEF Shares, Held
<1>2. ASSUME NEW t \in StrRec, IsLongStr(t), Shares(m, t.block) /= 0 \/ Held(s, t.block) = 1
      PROVE  HeldIn(q, t)
  <2>1. t.block \in Nat
    BY DEF StrRec
  <2>2. Shares(q, t.block) = Shares(m, t.block) + Held(s, t.block)
    BY <2>1 DEF Come
  <2>3. Shares(q, t.block) /= 0
    BY <1>1, <1>2, <2>1, <2>2
  <2> QED BY <2>3 DEF Shares, HeldIn
<1>3. IsLongStr(s) => Held(s, s.block) = 1
  BY DEF Held
<1>4. \A t \in StrRec : HeldIn(m, t) /\ IsLongStr(t) => Shares(m, t.block) /= 0
  BY DEF HeldIn, Shares
<1> QED BY <1>2, <1>3, <1>4 DEF HeldIn

\* The new text is made before what d had is given back.
LEMMA AssignTextKeeps ==
  ASSUME StrInv, NEW d \in StrName, NEW text, NEW given, Tells(given, text), AssignText(d, text, given)
  PROVE  StrInv'
<1> DEFINE new == NewStr(mem, text)
           q == new.m
           s == new.s
           old == strs[d]
<1>1. /\ strs' = [strs EXCEPT ![d] = s] /\ mem' = Destruct(q, old)
      /\ value' = [value EXCEPT ![d] = given] /\ bufs' = bufs
  BY DEF AssignText
<1>2. Clean(mem, Blocks(bufs)) /\ MemOK(mem) /\ old \in StrRec /\ HeldIn(mem, old)
  BY CountedHeld DEF StrInv, Clean, StrFine
<1>3. /\ Come(q, mem, s) /\ StrFine(q, s, given) /\ s \in StrRec
      /\ IsLongStr(s) => s.block \notin DOMAIN mem.bytes
  BY <1>2, NewStrIs
<1>a. DOMAIN strs = StrName /\ DOMAIN value = StrName \cup BufName
  BY DEF StrInv
<1>b. Replaced(strs', strs, d, s)
  BY <1>1, <1>a DEF Replaced
<1>c. /\ DOMAIN value' = DOMAIN value /\ value'[d] = given
      /\ \A x \in DOMAIN value : x /= d => value'[x] = value[x]
  BY <1>1, <1>a
<1> HIDE DEF new, q, s, old
<1>4. Clean(q, Blocks(bufs))
  <2>1. IsLongStr(s) => s.block \notin Blocks(bufs)
    BY <1>2, <1>3 DEF Clean
  <2> QED BY <1>2, <1>3, <2>1, ComeClean
<1>5. MemOK(q) /\ HeldIn(q, s) /\ HeldIn(q, old)
  BY <1>2, <1>3, ComeHeld DEF Come
<1>6. Gone(mem', q, old)
  BY <1>1, <1>2, <1>5, DestructIs
<1>7. Clean(mem', Blocks(bufs))
  BY <1>2, <1>4, <1>5, <1>6, GoneClean
<1>8. \A b \in DOMAIN mem.bytes : b \in DOMAIN q.bytes
  BY <1>2, <1>3 DEF Come, MemOK
<1>9. SameBytes(mem', mem)
  BY <1>3, <1>6, <1>8 DEF SameBytes, Come, Gone
<1>10. \A b \in Nat : /\ Shares(mem', b) = Shares(mem, b) - Held(old, b) + Held(s, b)
                      /\ Shares(q, b) = Shares(mem, b) + Held(s, b)
  <2>1. \A b \in Nat : Shares(mem, b) \in Nat /\ Held(s, b) \in Nat /\ Held(old, b) \in Nat
    BY <1>2, MemParts DEF Shares, Held
  <2>2. \A b \in Nat : Shares(q, b) = Shares(mem, b) + Held(s, b)
    BY <1>3 DEF Come
  <2>3. \A b \in Nat : Shares(mem', b) = Shares(q, b) - Held(old, b)
    BY <1>6 DEF Gone
  <2> QED BY <2>1, <2>2, <2>3
<1>11. HeldIn(mem', s)
  <2>1. Counted(mem, strs)
    BY DEF StrInv
  <2>2. \A b \in Nat : Shares(mem', b) = Shares(mem, b) - Held(strs[d], b) + Held(s, b)
    BY <1>10 DEF old
  <2>3. Counted(mem', strs')
    BY <1>b, <2>1, <2>2, CountedOne
  <2>4. strs'[d] = s
    BY <1>b DEF Replaced
  <2> QED BY <1>3, <2>3, <2>4, CountedHeld
<1>12. StrFine(mem', s, given)
  <2>1. SameBytes(mem', q)
    BY <1>6 DEF Gone
  <2> QED BY <1>3, <1>5, <1>11, <2>1, StrStays
<1>13. \A b \in Nat : Shares(mem', b) = Shares(mem, b) - Held(strs[d], b) + Held(s, b)
  BY <1>10 DEF old
<1> QED BY <1>1, <1>b, <1>c, <1>7, <1>9, <1>12, <1>13, StringGets

\* An assignment between two strings: the other one keeps the block alive that both may have.
LEMMA AssignStrKeeps ==
  ASSUME StrInv, NEW d \in StrName, NEW x \in StrName, AssignStr(d, x)
  PROVE  StrInv'
<1> DEFINE q == Destruct(mem, strs[d])
           s == strs[x]
           v == value[x]
           nil == Short(<<>>)
           tt == [strs EXCEPT ![d] = nil]
<1>1. /\ d /= x /\ strs' = [strs EXCEPT ![d] = s] /\ mem' = CopyOf(q, s)
      /\ value' = [value EXCEPT ![d] = v] /\ bufs' = bufs
  BY DEF AssignStr
<1>2. /\ Clean(mem, Blocks(bufs)) /\ MemOK(mem) /\ Counted(mem, strs)
      /\ DOMAIN strs = StrName /\ DOMAIN value = StrName \cup BufName
      /\ StrFine(mem, s, v) /\ s \in StrRec
  BY DEF StrInv, Clean, StrFine
<1>3. strs[d] \in StrRec /\ HeldIn(mem, strs[d]) /\ HeldIn(mem, s)
  BY CountedHeld DEF StrInv, StrFine
<1>4. Gone(q, mem, strs[d])
  BY <1>2, <1>3, DestructIs
<1>5. ~ IsLongStr(nil) /\ nil \in StrRec
  <2>1. Tells(<<>>, <<>>)
    BY DEF Tells
  <2> QED BY <2>1, ShortIs
<1>6. Replaced(tt, strs, d, nil) /\ tt[x] = s
  BY <1>1, <1>2 DEF Replaced
<1>b. Replaced(strs', strs, d, s)
  BY <1>1, <1>2 DEF Replaced
<1>c. /\ DOMAIN value' = DOMAIN value /\ value'[d] = v
      /\ \A y \in DOMAIN value : y /= d => value'[y] = value[y]
  BY <1>1, <1>2
<1> HIDE DEF q, s, v, nil, tt
<1>7. MemOK(q) /\ \A b \in Nat : Shares(q, b) = Shares(mem, b) - Held(strs[d], b)
  BY <1>4 DEF Gone
<1>8. \A b \in Nat : /\ Held(nil, b) = 0 /\ Held(strs[d], b) \in Nat /\ Held(s, b) \in Nat
                     /\ Shares(mem, b) \in Nat
  BY <1>2, <1>5, MemParts DEF Held, Shares
<1>9. Counted(q, tt)
  <2>1. \A b \in Nat : Shares(q, b) = Shares(mem, b) - Held(strs[d], b) + Held(nil, b)
    BY <1>7, <1>8
  <2> QED BY <1>2, <1>6, <2>1, CountedOne
<1>10. HeldIn(q, s)
  BY <1>2, <1>6, <1>9, CountedHeld
<1>11. Clean(q, Blocks(bufs))
  BY <1>2, <1>3, <1>4, GoneClean
<1>12. Come(mem', q, s)
  BY <1>1, <1>2, <1>7, <1>10, CopyIs
<1>13. Clean(mem', Blocks(bufs))
  <2>1. IsLongStr(s) => s.block \notin Blocks(bufs)
    BY <1>10, <1>11 DEF HeldIn, Clean
  <2> QED BY <1>2, <1>11, <1>12, <2>1, ComeClean
<1>14. HeldIn(mem', s)
  BY <1>2, <1>7, <1>12, ComeHeld
<1>15. SameBytes(mem', mem)
  <2>1. \A b \in DOMAIN mem'.bytes : b \in DOMAIN q.bytes
    <3> SUFFICES ASSUME NEW b \in DOMAIN mem'.bytes PROVE b \in DOMAIN q.bytes
      OBVIOUS
    <3>1. b \in Nat
      BY <1>12 DEF Come, MemOK
    <3>2. b \in DOMAIN q.bytes \/ Held(s, b) = 1
      BY <1>12, <3>1 DEF Come
    <3>3. Held(s, b) = 1 => b \in DOMAIN q.bytes
      BY <1>10 DEF Held, HeldIn
    <3> QED BY <3>2, <3>3
  <2> QED BY <1>4, <1>12, <2>1 DEF SameBytes, Come, Gone
<1>16. \A b \in Nat : Shares(mem', b) = Shares(mem, b) - Held(strs[d], b) + Held(s, b)
  <2>1. \A b \in Nat : Shares(mem', b) = Shares(q, b) + Held(s, b)
    BY <1>12 DEF Come
  <2> QED BY <1>7, <1>8, <2>1
<1>17. StrFine(mem', s, v)
  BY <1>2, <1>3, <1>14, <1>15, StrStays
<1> QED BY <1>1, <1>b, <1>c, <1>13, <1>15, <1>16, <1>17, StringGets

\* A move passes the block on without counting.
LEMMA MoveStrKeeps ==
  ASSUME StrInv, NEW d \in StrName, NEW x \in StrName, MoveStr(d, x)
  PROVE  StrInv'
<1> DEFINE s == strs[x]
           nil == Short(<<>>)
           tt == [strs EXCEPT ![d] = s]
<1>1. /\ d /= x /\ strs' = [strs EXCEPT ![d] = s, ![x] = nil] /\ mem' = Destruct(mem, strs[d])
      /\ value' = [value EXCEPT ![d] = value[x], ![x] = <<>>] /\ bufs' = bufs
  BY DEF MoveStr
<1>2. /\ Clean(mem, Blocks(bufs)) /\ MemOK(mem) /\ Counted(mem, strs)
      /\ DOMAIN strs = StrName /\ DOMAIN value = StrName \cup BufName
      /\ StrFine(mem, s, value[x]) /\ s \in StrRec
  BY DEF StrInv, Clean, StrFine
<1>3. strs[d] \in StrRec /\ HeldIn(mem, strs[d]) /\ HeldIn(mem, s)
  BY CountedHeld DEF StrInv, StrFine
<1>4. Gone(mem', mem, strs[d])
  BY <1>1, <1>2, <1>3, DestructIs
<1>5. ~ IsLongStr(nil) /\ nil \in StrRec /\ StrFine(mem', nil, <<>>)
  <2>1. Tells(<<>>, <<>>)
    BY DEF Tells
  <2> QED BY <2>1, ShortIs
<1>6. /\ DOMAIN strs' = StrName /\ strs'[d] = s /\ strs'[x] = nil
      /\ \A y \in StrName : y /= d /\ y /= x => strs'[y] = strs[y]
  BY <1>1, <1>2
<1>7. /\ DOMAIN value' = StrName \cup BufName /\ value'[d] = value[x] /\ value'[x] = <<>>
      /\ \A y \in StrName \cup BufName : y /= d /\ y /= x => value'[y] = value[y]
  BY <1>1, <1>2
<1>8. Replaced(tt, strs, d, s) /\ Replaced(strs', tt, x, nil) /\ tt[x] = s
  BY <1>1, <1>2, <1>6 DEF Replaced
<1> HIDE DEF s, nil, tt
<1>9. \A b \in Nat : Held(nil, b) = 0 /\ Held(strs[d], b) \in Nat /\ Held(s, b) \in Nat
  BY <1>5 DEF Held
<1>10. ASSUME NEW b \in Nat PROVE Shares(mem', b) = Cardinality(Longs(strs', b))
  <2>1. /\ Cardinality(Longs(strs, b)) \in Nat
        /\ Cardinality(Longs(tt, b)) = Cardinality(Longs(strs, b)) - Held(strs[d], b) + Held(s, b)
    BY <1>8, LongsChange
  <2>2. Cardinality(Longs(strs', b)) = Cardinality(Longs(tt, b)) - Held(tt[x], b) + Held(nil, b)
    BY <1>8, LongsChange
  <2>3. Shares(mem', b) = Shares(mem, b) - Held(strs[d], b)
    BY <1>4 DEF Gone
  <2>4. Shares(mem, b) = Cardinality(Longs(strs, b)) /\ Held(tt[x], b) = Held(s, b)
    BY <1>2, <1>8 DEF Counted
  <2> QED BY <1>9, <2>1, <2>2, <2>3, <2>4
<1>11. Counted(mem', strs')
  BY <1>10 DEF Counted
<1>12. SameBytes(mem', mem) /\ SameBytes(mem', mem')
  BY <1>4 DEF Gone, SameBytes
<1>13. Clean(mem', Blocks(bufs))
  BY <1>2, <1>3, <1>4, GoneClean
<1>14. ASSUME NEW y \in StrName PROVE StrFine(mem', strs'[y], value'[y])
  <2>1. CASE y = x
    BY <1>5, <1>6, <1>7, <2>1
  <2>2. CASE y = d
    <3>1. HeldIn(mem', s)
      BY <1>2, <1>6, <1>11, CountedHeld
    <3>2. StrFine(mem', s, value[x])
      BY <1>2, <1>3, <1>12, <3>1, StrStays
    <3> QED BY <1>6, <1>7, <2>2, <3>2
  <2>3. CASE y /= d /\ y /= x
    <3>1. strs'[y] = strs[y] /\ value'[y] = value[y]
      BY <1>6, <1>7, <2>3
    <3> QED BY <1>11, <1>12, <3>1, OthersStay
  <2> QED BY <2>1, <2>2, <2>3
<1>15. ASSUME NEW b \in BufName PROVE BufFine(mem', bufs'[b], value'[b])
  <2>1. b /= d /\ b /= x /\ value'[b] = value[b]
    BY <1>7, StrAssumption
  <2>2. bufs[b].p \in DOMAIN mem'.bytes
    BY <1>13 DEF Clean, Blocks
  <2> QED BY <1>1, <1>12, <2>1, <2>2, BufsStay
<1> QED BY <1>1, <1>6, <1>7, <1>11, <1>13, <1>14, <1>15 DEF StrInv

\* What buffers are after one of them got another block.
BuffersFine ==
  /\ DOMAIN bufs' = BufName
  /\ Clean(mem', Blocks(bufs)')
  /\ \A b, c \in BufName : bufs'[b].p = bufs'[c].p => b = c
  /\ \A b \in BufName : BufFine(mem', bufs'[b], value'[b])

\* q is the memory in which the buffer has lost its block; the new one may be at the same place.
LEMMA BufferGets ==
  ASSUME StrInv, NEW b \in BufName, NEW q, Clean(q, Blocks(bufs) \ {bufs[b].p}), SameBytes(q, mem),
         NEW t, NEW r, Got(r, q, t, 0), mem' = r.m,
         NEW f, f.p = r.block, NEW v, BufHas(f, t, v), bufs' = [bufs EXCEPT ![b] = f],
         value'[b] = v, \A c \in BufName : c /= b => value'[c] = value[c]
  PROVE  /\ BuffersFine
         /\ SameBytes(mem', q) /\ \A a \in Nat : Shares(mem', a) = Shares(q, a)
<1> DEFINE p == bufs[b].p
           n == r.block
           P == Blocks(bufs)
<1>1. /\ DOMAIN bufs = BufName /\ \A c \in BufName : bufs[c].p = p => c = b
  BY DEF StrInv
<1>2. DOMAIN bufs' = BufName /\ bufs'[b] = f /\ \A c \in BufName : c /= b => bufs'[c] = bufs[c]
  BY <1>1
<1>3. /\ MemOK(mem') /\ SameBytes(mem', q) /\ n \in Nat \ {0} /\ n \notin DOMAIN q.bytes
      /\ DOMAIN mem'.bytes = DOMAIN q.bytes \cup {n} /\ mem'.bytes[n] = t
  BY DEF Got
<1>4. \A c \in BufName : c /= b => bufs[c].p \in P \ {p}
  BY <1>1 DEF Blocks
<1>5. P \ {p} \subseteq DOMAIN q.bytes
  BY DEF Clean
<1>6. Blocks(bufs)' = (P \ {p}) \cup {n}
  <2>1. \A a \in Blocks(bufs)' : a \in (P \ {p}) \cup {n}
    BY <1>2, <1>4 DEF Blocks
  <2>2. \A a \in P \ {p} : a \in Blocks(bufs)'
    <3> SUFFICES ASSUME NEW c \in BufName, bufs[c].p /= p PROVE bufs[c].p \in Blocks(bufs)'
      BY DEF Blocks
    <3>1. c /= b
      OBVIOUS
    <3> QED BY <1>2, <3>1 DEF Blocks
  <2>3. n \in Blocks(bufs)'
    BY <1>2 DEF Blocks
  <2> QED BY <2>1, <2>2, <2>3
<1>7. Clean(mem', Blocks(bufs)') /\ \A a \in Nat : Shares(mem', a) = Shares(q, a)
  <2> DEFINE K == P \ {p}
  <2>1. Clean(q, K) /\ Got(r, q, t, 0)
    OBVIOUS
  <2> HIDE DEF K
  <2>2. Clean(r.m, K \cup {r.block})
    BY <2>1, GotClean, Zenon
  <2>3. \A a \in Nat : Shares(r.m, a) = Shares(q, a)
    BY <2>1 DEF Got, Shares
  <2>4. K \cup {r.block} = Blocks(bufs)'
    BY <1>6 DEF K
  <2> QED BY <2>2, <2>3, <2>4
<1>8. \A c, e \in BufName : bufs'[c].p = bufs'[e].p => c = e
  <2>1. \A c \in BufName : c /= b => bufs'[c].p /= n
    BY <1>2, <1>3, <1>4, <1>5
  <2>2. \A c, e \in BufName : c /= b /\ e /= b /\ bufs'[c].p = bufs'[e].p => c = e
    BY <1>2 DEF StrInv
  <2> QED BY <1>2, <2>1, <2>2
<1>9. ASSUME NEW c \in BufName PROVE BufFine(mem', bufs'[c], value'[c])
  <2>1. CASE c = b
    <3>1. BufFine(mem', f, v)
      BY <1>3 DEF BufHas, BufFine
    <3> QED BY <1>2, <2>1, <3>1
  <2>2. CASE c /= b
    <3>1. bufs'[c] = bufs[c] /\ value'[c] = value[c]
      BY <1>2, <2>2
    <3>2. bufs[c].p \in DOMAIN q.bytes /\ bufs[c].p \in DOMAIN mem'.bytes
      BY <1>3, <1>4, <1>5, <2>2
    <3> QED BY <1>3, <3>1, <3>2, BufsStay
  <2> QED BY <2>1, <2>2
<1> QED BY <1>2, <1>3, <1>7, <1>8, <1>9 DEF BuffersFine

\* What a Buf begins with.
LEMMA EmptyBufIs ==
  ASSUME NEW n \in Nat
  PROVE  BufHas([p |-> n, len |-> 0, cap |-> FirstCap], <<Nul>> \o Unwritten(FirstCap), <<>>)
         /\ <<Nul>> \o Unwritten(FirstCap) \in Seq(Nat)
<1> DEFINE u == Unwritten(FirstCap)
           t == <<Nul>> \o u
           f == [p |-> n, len |-> 0, cap |-> FirstCap]
<1>1. FirstCap \in Nat /\ Nul \in Nat /\ <<Nul>> \in Seq(Nat) /\ Len(<<Nul>>) = 1
  BY StrAssumption
<1>2. u \in Seq(Nat) /\ Len(u) = FirstCap
  BY <1>1, UnwrittenIs
<1> HIDE DEF u
<1>3. Joined(t, <<Nul>>, u)
  BY <1>1, <1>2, JoinedIs
<1> HIDE DEF t
<1>4. t \in Seq(Nat) /\ Len(t) = FirstCap + 1 /\ t[1] = Nul
  BY <1>1, <1>2, <1>3 DEF Joined
<1>5. f \in BufRec /\ f.len = 0 /\ f.cap = FirstCap
  BY <1>1 DEF BufRec
<1> HIDE DEF f
<1>6. Holding(t, 0, <<>>)
  BY <1>1, <1>4 DEF Holding, Agrees
<1> QED BY <1>1, <1>4, <1>5, <1>6 DEF BufHas, t, u, f

\* Buf(len, cap).
LEMMA MadeBufIs ==
  ASSUME NEW n \in Nat, NEW len \in Nat, NEW cap \in Nat, len <= cap
  PROVE  /\ BufHas([p |-> n, len |-> len, cap |-> cap],
                   [Unwritten(cap + 1) EXCEPT ![len + 1] = Nul], Unwritten(len))
         /\ [Unwritten(cap + 1) EXCEPT ![len + 1] = Nul] \in Seq(Nat)
<1> DEFINE u == Unwritten(cap + 1)
           t == [u EXCEPT ![len + 1] = Nul]
           f == [p |-> n, len |-> len, cap |-> cap]
           v == Unwritten(len)
<1>1. u \in Seq(Nat) /\ Len(u) = cap + 1
  <2>1. cap + 1 \in Nat
    OBVIOUS
  <2> QED BY <2>1, UnwrittenIs
<1>2. v \in Seq(Nat) /\ Len(v) = len /\ \A i \in 1..len : v[i] = Junk
  BY UnwrittenIs
<1> HIDE DEF u, v
<1>3. t \in Seq(Nat) /\ Len(t) = cap + 1 /\ t[len + 1] = Nul
  <2>1. Nul \in Nat /\ len + 1 \in 1..Len(u)
    BY <1>1, StrAssumption
  <2> QED BY <1>1, <2>1, ExceptSeq
<1>4. f \in BufRec /\ f.len = len /\ f.cap = cap
  BY DEF BufRec
<1> HIDE DEF t, f
<1>5. Holding(t, len, v)
  <2>1. len + 1 <= Len(t)
    BY <1>3
  <2>2. Agrees(t, len, v)
    BY <1>2, <1>3 DEF Agrees
  <2> QED BY <1>2, <1>3, <2>1, <2>2 DEF Holding
<1> QED BY <1>3, <1>4, <1>5 DEF BufHas, t, u, f, v

\* A Buf ends and another one is made.
LEMMA NewBufKeeps ==
  ASSUME StrInv, NEW b \in BufName, NEW len \in 0..MaxStr, NEW cap \in 0..MaxStr, NewBuf(b, len, cap)
  PROVE  StrInv'
<1> DEFINE p == bufs[b].p
           q == Dealloc(mem, p)
           t == [Unwritten(cap + 1) EXCEPT ![len + 1] = Nul]
           r == Alloc(q, t, 0)
           f == [p |-> r.block, len |-> len, cap |-> cap]
           v == Unwritten(len)
<1>0. len \in Nat /\ cap \in Nat /\ len <= cap
  BY StrAssumption DEF NewBuf
<1>1. /\ bufs' = [bufs EXCEPT ![b] = f] /\ mem' = r.m
      /\ value' = [value EXCEPT ![b] = v] /\ strs' = strs
  BY DEF NewBuf
<1>2. Clean(mem, Blocks(bufs)) /\ p \in Blocks(bufs) /\ MemOK(mem) /\ Counted(mem, strs)
      /\ DOMAIN value = StrName \cup BufName
  BY DEF StrInv, Clean, Blocks
<1>3. Freed(q, mem, p)
  BY <1>2, DeallocIs
<1>4. t \in Seq(Nat)
  BY <1>0, MadeBufIs
<1>5. f.p = r.block
  OBVIOUS
<1>6. r.block \in Nat => BufHas(f, t, v)
  BY <1>0, MadeBufIs
<1>7. /\ value'[b] = v /\ DOMAIN value' = StrName \cup BufName
      /\ \A x \in StrName \cup BufName : x /= b => value'[x] = value[x]
  BY <1>1, <1>2
<1> HIDE DEF p, q, t, r, f, v
<1>8. Clean(q, Blocks(bufs) \ {p}) /\ SameBytes(q, mem) /\ \A a \in Nat : Shares(q, a) = Shares(mem, a)
  BY <1>2, <1>3, FreedClean DEF Freed
<1>9. Got(r, q, t, 0)
  BY <1>4, <1>8, AllocIs DEF Clean, r
<1>10. BufHas(f, t, v)
  BY <1>6, <1>9 DEF Got
<1>11. /\ BuffersFine
       /\ SameBytes(mem', q) /\ \A a \in Nat : Shares(mem', a) = Shares(q, a)
  <2>1. Clean(q, Blocks(bufs) \ {bufs[b].p})
    BY <1>8 DEF p
  <2>2. \A c \in BufName : c /= b => value'[c] = value[c]
    BY <1>7
  <2> QED BY <1>1, <1>5, <1>7, <1>8, <1>9, <1>10, <2>1, <2>2, BufferGets
<1>12. Counted(q, strs') /\ Counted(mem', strs')
  BY <1>1, <1>2, <1>8, <1>11 DEF Counted
<1>13. ASSUME NEW x \in StrName PROVE StrFine(mem', strs'[x], value'[x])
  <2>1. x /= b /\ strs'[x] = strs[x] /\ value'[x] = value[x]
    BY <1>1, <1>7, StrAssumption
  <2> QED BY <1>8, <1>11, <1>12, <2>1, OthersStay
<1>14. DOMAIN strs' = StrName
  BY <1>1 DEF StrInv
<1> QED BY <1>7, <1>11, <1>12, <1>13, <1>14 DEF StrInv, BuffersFine

\* The block of the buffer goes, or goes to the string, before the buffer begins again.
LEMMA AssignBufKeeps ==
  ASSUME StrInv, NEW d \in StrName, NEW b \in BufName, AssignBuf(d, b)
  PROVE  StrInv'
<1> DEFINE buf == bufs[b]
           p == buf.p
           old == strs[d]
           w == value[b]
           freed == Destruct(mem, old)
           short == buf.len <= ShortMax
           q == IF short THEN Dealloc(freed, p) ELSE Recount(freed, p, 1)
           t == <<Nul>> \o Unwritten(FirstCap)
           r == Alloc(q, t, 0)
           f == [p |-> r.block, len |-> 0, cap |-> FirstCap]
           text == SubSeq(mem.bytes[p], 1, buf.len)
           s == IF short THEN Short(text) ELSE Long(buf.len, p)
<1>1. /\ strs' = [strs EXCEPT ![d] = s] /\ bufs' = [bufs EXCEPT ![b] = f] /\ mem' = r.m
      /\ value' = [value EXCEPT ![d] = w, ![b] = <<>>]
  BY DEF AssignBuf
<1>2. /\ Clean(mem, Blocks(bufs)) /\ p \in Blocks(bufs) /\ MemOK(mem) /\ Counted(mem, strs)
      /\ DOMAIN strs = StrName /\ DOMAIN value = StrName \cup BufName /\ d /= b
      /\ BufFine(mem, buf, w)
  BY StrAssumption DEF StrInv, Clean, Blocks
<1>3. old \in StrRec /\ HeldIn(mem, old)
  BY CountedHeld DEF StrInv, StrFine
<1>4. Gone(freed, mem, old)
  BY <1>2, <1>3, DestructIs
<1>5. /\ value'[d] = w /\ value'[b] = <<>> /\ DOMAIN value' = StrName \cup BufName
      /\ \A x \in StrName \cup BufName : x /= b /\ x /= d => value'[x] = value[x]
  BY <1>1, <1>2
<1>6. Replaced(strs', strs, d, s)
  BY <1>1, <1>2 DEF Replaced
<1>7. f.p = r.block
  OBVIOUS
<1>8. t \in Seq(Nat) /\ (r.block \in Nat => BufHas(f, t, <<>>))
  <2>1. 0 \in Nat
    OBVIOUS
  <2> QED BY <2>1, EmptyBufIs
<1>9. /\ buf.p \in Nat /\ buf.len \in Nat /\ Holding(mem.bytes[p], buf.len, w)
  BY <1>2 DEF BufFine, BufRec
<1> DEFINE bytes == mem.bytes[p]
           len == buf.len
<1>10. Tells(w, text)
  <2>1. /\ bytes \in Seq(Nat) /\ len \in Nat /\ len + 1 <= Len(bytes) /\ Len(bytes) \in Nat
        /\ w \in Seq(Nat) /\ Len(w) = len /\ \A i \in 1..len : w[i] \in {Junk, bytes[i]}
    BY <1>9 DEF Holding, Agrees
  <2> HIDE DEF bytes, len, w
  <2>2. /\ SubSeq(bytes, 1, len) \in Seq(Nat) /\ Len(SubSeq(bytes, 1, len)) = len
        /\ \A i \in 1..len : SubSeq(bytes, 1, len)[i] = bytes[i]
    <3>1. \A i \in 1..len : bytes[i] \in Nat
      BY <2>1, ElementOfSeq
    <3>2. len = IF 1 <= len THEN len - 1 + 1 ELSE 0
      BY <2>1
    <3> QED BY <2>1, <3>1, <3>2, SubSeqProperties
  <2>3. Tells(w, SubSeq(bytes, 1, len))
    BY <2>1, <2>2 DEF Tells
  <2> QED BY <2>3 DEF bytes, len
<1> HIDE DEF buf, p, old, w, freed, t, r, f, text, bytes, len
<1>11. /\ Clean(freed, Blocks(bufs)) /\ SameBytes(freed, mem)
       /\ \A a \in Nat : Shares(freed, a) = Shares(mem, a) - Held(old, a)
  BY <1>2, <1>3, <1>4, GoneClean DEF Gone
<1>12. p \in DOMAIN freed.bytes /\ p \in DOMAIN mem.bytes /\ freed.count[p] = 0 /\ MemOK(freed)
       /\ freed.count \in [DOMAIN freed.bytes -> Nat] /\ freed.bytes[p] = bytes
  BY <1>2, <1>11, MemParts DEF Clean, SameBytes, bytes
<1>13. \A a \in Nat : Shares(mem, a) \in Nat /\ Held(old, a) \in Nat /\ Shares(freed, a) \in Nat
  BY <1>2, <1>12, MemParts DEF Shares, Held
<1>14. /\ Clean(q, Blocks(bufs) \ {p}) /\ SameBytes(q, mem)
       /\ \A a \in Nat : Shares(q, a) = Shares(mem, a) - Held(old, a) + Held(s, a)
       /\ \A m : SameBytes(m, q) /\ DOMAIN q.bytes \subseteq DOMAIN m.bytes => StrFine(m, s, w)
  <2>1. CASE short
    <3>1. q = Dealloc(freed, p) /\ s = Short(text)
      BY <2>1
    <3> HIDE DEF q, s, short
    <3>2. Freed(q, freed, p)
      BY <1>12, <3>1, DeallocIs
    <3>3. Clean(q, Blocks(bufs) \ {p}) /\ \A a \in Nat : Shares(q, a) = Shares(freed, a)
      BY <1>2, <1>11, <3>2, FreedClean
    <3>4. SameBytes(q, mem)
      BY <1>11, <3>2 DEF Freed, SameBytes
    <3>5. ~ IsLongStr(s) /\ \A m : StrFine(m, s, w)
      BY <1>10, <3>1, ShortIs
    <3>6. \A a \in Nat : Held(s, a) = 0
      BY <3>5 DEF Held
    <3>7. \A a \in Nat : Shares(q, a) = Shares(mem, a) - Held(old, a) + Held(s, a)
      BY <1>11, <1>13, <3>3, <3>6
    <3> QED BY <3>3, <3>4, <3>5, <3>7
  <2>2. CASE ~ short
    <3>1. q = Recount(freed, p, 1) /\ s = Long(len, p)
      BY <2>2 DEF len
    <3> HIDE DEF q, s, short
    <3>2. /\ MemOK(q) /\ q.bytes = freed.bytes /\ q.count[p] = freed.count[p] + 1
          /\ \A a \in DOMAIN freed.bytes : a /= p => q.count[a] = freed.count[a]
      <4>1. freed.count[p] + 1 >= 0
        BY <1>12
      <4> QED BY <1>12, <3>1, <4>1, RecountIs
    <3>3. /\ Clean(q, Blocks(bufs) \ {p})
          /\ \A a \in Nat : Shares(q, a) = Shares(freed, a) + (IF a = p THEN 1 ELSE 0)
      BY <1>2, <1>11, <3>2, GivenClean
    <3>4. SameBytes(q, mem)
      BY <1>11, <3>2 DEF SameBytes
    <3>5. IsLongStr(s) /\ s.block = p
      BY <3>1 DEF Long, IsLongStr
    <3>6. \A a \in Nat : Held(s, a) = IF a = p THEN 1 ELSE 0
      BY <3>5 DEF Held
    <3>7. \A a \in Nat : Shares(q, a) = Shares(mem, a) - Held(old, a) + Held(s, a)
      BY <1>11, <1>13, <3>3, <3>6
    <3>8. ASSUME NEW m, SameBytes(m, q), DOMAIN q.bytes \subseteq DOMAIN m.bytes
          PROVE  StrFine(m, s, w)
      <4>1. p \in DOMAIN m.bytes /\ m.bytes[p] = bytes
        BY <1>12, <3>2, <3>8 DEF SameBytes
      <4>2. p \in Nat /\ len \in Nat /\ Holding(m.bytes[p], len, w)
        BY <1>9, <4>1 DEF p, len, bytes
      <4> QED BY <3>1, <4>1, <4>2, LongIs
    <3> QED BY <3>3, <3>4, <3>7, <3>8
  <2> QED BY <2>1, <2>2
<1> HIDE DEF q, s, short
<1>15. Got(r, q, t, 0)
  BY <1>8, <1>14, AllocIs DEF Clean, r
<1>16. BufHas(f, t, <<>>)
  BY <1>8, <1>15 DEF Got
<1>17. /\ BuffersFine
       /\ SameBytes(mem', q) /\ \A a \in Nat : Shares(mem', a) = Shares(q, a)
  <2>1. Clean(q, Blocks(bufs) \ {bufs[b].p})
    BY <1>14 DEF p, buf
  <2>2. \A c \in BufName : c /= b => value'[c] = value[c]
    BY <1>5, StrAssumption
  <2> QED BY <1>1, <1>5, <1>7, <1>14, <1>15, <1>16, <2>1, <2>2, BufferGets, ZenonT(40)
<1>18. Counted(q, strs') /\ Counted(mem', strs')
  <2>1. Counted(q, strs')
    <3>1. \A a \in Nat : Shares(q, a) = Shares(mem, a) - Held(strs[d], a) + Held(s, a)
      BY <1>14 DEF old
    <3> QED BY <1>2, <1>6, <3>1, CountedOne
  <2> QED BY <1>17, <2>1 DEF Counted
<1>19. ASSUME NEW x \in StrName PROVE StrFine(mem', strs'[x], value'[x])
  <2>1. CASE x = d
    <3>1. DOMAIN q.bytes \subseteq DOMAIN mem'.bytes
      BY <1>1, <1>15 DEF Got
    <3> QED BY <1>5, <1>6, <1>14, <1>17, <2>1, <3>1 DEF Replaced
  <2>2. CASE x /= d
    <3>1. x /= b /\ strs'[x] = strs[x] /\ value'[x] = value[x]
      BY <1>5, <1>6, <2>2, StrAssumption DEF Replaced
    <3> QED BY <1>14, <1>17, <1>18, <3>1, OthersStay
  <2> QED BY <2>1, <2>2
<1>20. DOMAIN strs' = StrName
  BY <1>6 DEF Replaced
<1> QED BY <1>5, <1>17, <1>18, <1>19, <1>20 DEF StrInv, BuffersFine

\* A buffer writes into its own block.
Rewritten(m, a, t) == [m EXCEPT !.bytes[a] = t]

\* What is left when one block is written.
LEMMA RewriteIs ==
  ASSUME NEW m, MemOK(m), NEW a \in DOMAIN m.bytes, NEW t \in Seq(Nat)
  PROVE  LET q == Rewritten(m, a, t) IN
         /\ MemOK(q) /\ q.count = m.count /\ DOMAIN q.bytes = DOMAIN m.bytes /\ q.bytes[a] = t
         /\ \A b \in DOMAIN m.bytes : b /= a => q.bytes[b] = m.bytes[b]
<1> DEFINE h == [m.bytes EXCEPT ![a] = t]
<1>1. m = [bytes |-> m.bytes, count |-> m.count] /\ m.bytes \in [DOMAIN m.bytes -> Seq(Nat)]
      /\ m.count \in [DOMAIN m.bytes -> Nat]
      /\ IsFiniteSet(DOMAIN m.bytes) /\ DOMAIN m.bytes \subseteq Nat \ {0}
  BY MemParts
<1>2. Rewritten(m, a, t) = [bytes |-> h, count |-> m.count]
  <2>1. Rewritten(m, a, t) = [m EXCEPT !.bytes = h]
    BY DEF Rewritten
  <2>2. m \in [bytes : [DOMAIN m.bytes -> Seq(Nat)], count : [DOMAIN m.bytes -> Nat]]
    BY DEF MemOK
  <2> HIDE DEF h
  <2> QED BY <2>1, <2>2
<1>3. h \in [DOMAIN m.bytes -> Seq(Nat)] /\ h[a] = t
      /\ \A b \in DOMAIN m.bytes : b /= a => h[b] = m.bytes[b]
  BY <1>1
<1> HIDE DEF h
<1>4. MemOK([bytes |-> h, count |-> m.count]) /\ DOMAIN h = DOMAIN m.bytes
  BY <1>1, <1>3, MemIs
<1> DEFINE q == [bytes |-> h, count |-> m.count]
<1>5. q.bytes = h /\ q.count = m.count
  OBVIOUS
<1> HIDE DEF q
<1>6. /\ MemOK(q) /\ q.count = m.count /\ DOMAIN q.bytes = DOMAIN m.bytes /\ q.bytes[a] = t
      /\ \A b \in DOMAIN m.bytes : b /= a => q.bytes[b] = m.bytes[b]
  BY <1>3, <1>4, <1>5 DEF q
<1>7. Rewritten(m, a, t) = q
  BY <1>2 DEF q
<1> QED BY <1>6, <1>7

\* No string and no other buffer has that block.
LEMMA BufferWrites ==
  ASSUME StrInv, NEW b \in BufName, NEW f, NEW t, NEW v, BufHas(f, t, v), f.p = bufs[b].p,
         bufs' = [bufs EXCEPT ![b] = f], mem' = [mem EXCEPT !.bytes[bufs[b].p] = t],
         DOMAIN value' = DOMAIN value, value'[b] = v,
         \A x \in DOMAIN value : x /= b => value'[x] = value[x],
         strs' = strs
  PROVE  StrInv'
<1> DEFINE p == bufs[b].p
<1>1. /\ Clean(mem, Blocks(bufs)) /\ MemOK(mem) /\ Counted(mem, strs) /\ p \in DOMAIN mem.bytes
      /\ DOMAIN bufs = BufName /\ DOMAIN value = StrName \cup BufName
      /\ \A c \in BufName : bufs[c].p = p => c = b
  BY DEF StrInv, Clean, Blocks
<1>2. t \in Seq(Nat)
  BY DEF BufHas
<1>3. /\ MemOK(mem') /\ mem'.count = mem.count /\ DOMAIN mem'.bytes = DOMAIN mem.bytes /\ mem'.bytes[p] = t
      /\ \A a \in DOMAIN mem.bytes : a /= p => mem'.bytes[a] = mem.bytes[a]
  BY <1>1, <1>2, RewriteIs DEF Rewritten
<1>4. DOMAIN bufs' = BufName /\ bufs'[b] = f /\ \A c \in BufName : c /= b => bufs'[c] = bufs[c]
  BY <1>1
<1>5. f.p = p
  OBVIOUS
<1>6. \A c \in BufName : bufs'[c].p = bufs[c].p
  BY <1>4, <1>5
<1>7. Blocks(bufs)' = Blocks(bufs)
  BY <1>6 DEF Blocks
<1>8. Clean(mem', Blocks(bufs)') /\ Counted(mem', strs')
  BY <1>1, <1>3, <1>7 DEF Clean, Counted, Shares
<1>9. \A c, e \in BufName : bufs'[c].p = bufs'[e].p => c = e
  BY <1>6 DEF StrInv
<1>10. ASSUME NEW x \in StrName PROVE StrFine(mem', strs'[x], value'[x])
  <2> DEFINE s == strs[x]
  <2>1. x /= b /\ value'[x] = value[x] /\ strs'[x] = s
    BY <1>1, StrAssumption
  <2>2. StrFine(mem, s, value[x]) /\ s \in StrRec
    BY DEF StrInv, StrFine
  <2>3. HeldIn(mem, s)
    BY <1>1, <2>2, CountedHeld
  <2>4. p \in Blocks(bufs)
    BY DEF Blocks
  <2> HIDE DEF s, p
  <2>5. mem.count[p] = 0
    BY <1>1, <2>4 DEF Clean
  <2>6. IsLongStr(s) => s.block \in DOMAIN mem.bytes /\ s.block /= p
    BY <2>3, <2>5 DEF HeldIn
  <2>7. Data(mem', s) = Data(mem, s)
    BY <1>3, <2>6 DEF Data
  <2> QED BY <2>1, <2>2, <2>7 DEF StrFine
<1>11. ASSUME NEW c \in BufName PROVE BufFine(mem', bufs'[c], value'[c])
  <2>1. CASE c = b
    <3>1. f.p \in DOMAIN mem'.bytes /\ mem'.bytes[f.p] = t
      BY <1>1, <1>3, <1>5
    <3>2. BufFine(mem', f, v)
      BY <3>1 DEF BufHas, BufFine
    <3> QED BY <1>4, <2>1, <3>2
  <2>2. CASE c /= b
    <3>1. BufFine(mem, bufs[c], value[c]) /\ bufs'[c] = bufs[c]
      BY <1>4, <2>2 DEF StrInv
    <3>2. value'[c] = value[c]
      BY <1>1, <2>2
    <3>3. bufs[c].p \in DOMAIN mem.bytes /\ bufs[c].p /= p
      BY <1>1, <2>2, <3>1 DEF BufFine
    <3>4. mem'.bytes[bufs[c].p] = mem.bytes[bufs[c].p]
      BY <1>3, <3>3
    <3> HIDE DEF p
    <3> QED BY <1>3, <3>1, <3>2, <3>3, <3>4 DEF BufFine
  <2> QED BY <2>1, <2>2
<1>12. DOMAIN strs' = StrName
  BY DEF StrInv
<1> QED BY <1>1, <1>4, <1>8, <1>9, <1>10, <1>11, <1>12 DEF StrInv

\* What the invariant says of one buffer.
LEMMA BufferHas ==
  ASSUME StrInv, NEW b \in BufName
  PROVE  BufHas(bufs[b], mem.bytes[bufs[b].p], value[b]) /\ bufs[b].len \in Nat
BY DEF StrInv, BufFine, BufHas, Holding, BufRec

\* FitLen by itself.
LEMMA FitBufKeeps ==
  ASSUME StrInv, NEW b \in BufName, NEW len \in 0..MaxStr, FitBuf(b, len)
  PROVE  StrInv'
<1> DEFINE fit == FitLen(bufs[b], mem.bytes[bufs[b].p], len)
           v == value[b] \o Unwritten(fit.buf.len - bufs[b].len)
<1>1. /\ bufs' = [bufs EXCEPT ![b] = fit.buf] /\ mem' = [mem EXCEPT !.bytes[bufs[b].p] = fit.bytes]
      /\ value' = [value EXCEPT ![b] = v] /\ strs' = strs
  BY DEF FitBuf
<1>2. len \in Nat
  BY StrAssumption
<1>3. BufHas(fit.buf, fit.bytes, v) /\ fit.buf.p = bufs[b].p
  BY <1>2, BufferHas, FitIs, SMTT(40)
<1>4. DOMAIN value = StrName \cup BufName
  BY DEF StrInv
<1>5. /\ DOMAIN value' = DOMAIN value /\ value'[b] = v
      /\ \A x \in DOMAIN value : x /= b => value'[x] = value[x]
  BY <1>1, <1>4
<1> HIDE DEF fit, v
<1> QED BY <1>1, <1>3, <1>5, BufferWrites

\* WriteBuf with its local operator given a name.
LEMMA WriteBufDef ==
  ASSUME NEW b, NEW offset, NEW text, NEW given, WriteBuf(b, offset, text, given)
  PROVE  LET fit == FitLen(bufs[b], mem.bytes[bufs[b].p], offset + Len(text)) IN
         /\ bufs' = [bufs EXCEPT ![b] = fit.buf]
         /\ mem' = [mem EXCEPT !.bytes[bufs[b].p] = OverAt(fit.bytes, text, offset)]
         /\ value' = [value EXCEPT ![b] =
                        OverAt(value[b] \o Unwritten(fit.buf.len - bufs[b].len), given, offset)]
         /\ strs' = strs
BY DEF WriteBuf, OverAt

\* Write and Append.
LEMMA WriteBufKeeps ==
  ASSUME StrInv, NEW b \in BufName, NEW offset \in 0..bufs[b].len, NEW text, NEW given,
         Tells(given, text), WriteBuf(b, offset, text, given)
  PROVE  StrInv'
<1> DEFINE n == offset + Len(text)
           fit == FitLen(bufs[b], mem.bytes[bufs[b].p], n)
           w == value[b] \o Unwritten(fit.buf.len - bufs[b].len)
           t == OverAt(fit.bytes, text, offset)
           v == OverAt(w, given, offset)
           f == fit.buf
<1>1. /\ bufs' = [bufs EXCEPT ![b] = f] /\ mem' = [mem EXCEPT !.bytes[bufs[b].p] = t]
      /\ value' = [value EXCEPT ![b] = v] /\ strs' = strs
  BY WriteBufDef
<1>2. offset \in Nat /\ Len(text) \in Nat /\ n \in Nat
  <2>1. bufs[b].len \in Nat
    BY BufferHas
  <2> QED BY <2>1 DEF Tells
<1>3. BufHas(f, fit.bytes, w) /\ f.p = bufs[b].p /\ f.len \in Nat /\ n <= f.len
  <2>1. BufHas(bufs[b], mem.bytes[bufs[b].p], value[b])
    BY BufferHas
  <2> HIDE DEF n
  <2> QED BY <1>2, <2>1, FitIs, ZenonT(40)
<1>4. DOMAIN value = StrName \cup BufName
  BY DEF StrInv
<1>5. /\ DOMAIN value' = DOMAIN value /\ value'[b] = v
      /\ \A x \in DOMAIN value : x /= b => value'[x] = value[x]
  BY <1>1, <1>4
<1>6. offset + Len(text) <= f.len
  BY <1>3
<1> HIDE DEF n, fit, f, w
<1>7. Holding(fit.bytes, f.len, w)
  BY <1>3 DEF BufHas
<1>8. Holding(t, f.len, v) /\ t \in Seq(Nat) /\ Len(t) = Len(fit.bytes)
  BY <1>2, <1>3, <1>6, <1>7, WrittenOver
<1> HIDE DEF t, v
<1>9. BufHas(f, t, v)
  BY <1>3, <1>8 DEF BufHas
<1> QED BY <1>1, <1>3, <1>5, <1>9, BufferWrites

\* What the actions are given.
LEMMA TextTells ==
  ASSUME NEW text \in Text
  PROVE  Tells(text, text)
BY StrAssumption DEF Tells

\* A slice of a string tells what the string does.
LEMMA CutTells ==
  ASSUME StrInv, NEW x \in StrName, NEW c \in Cuts(x)
  PROVE  Tells(SubSeq(value[x], c[1], c[2]), Bytes(mem, x, c[1], c[2]))
<1>1. StrFine(mem, strs[x], value[x])
  BY DEF StrInv
<1>2. IsCut(c[1], c[2], LenOf(strs[x]))
  BY DEF Cuts, IsCut
<1>3. Tells(SubSeq(value[x], c[1], c[2]), SubSeq(Data(mem, strs[x]), c[1], c[2]))
  BY <1>1, <1>2, PieceIs
<1> QED BY <1>3 DEF Bytes

\* In the beginning every buffer has its block.
LEMMA StrInitInv == StrInit => StrInv
<1> SUFFICES ASSUME StrInit PROVE StrInv
  OBVIOUS
<1> DEFINE n == Cardinality(BufName)
           t == <<Nul>> \o Unwritten(FirstCap)
           h == [x \in 1..n |-> t]
           k == [x \in 1..n |-> 0]
<1>1. PICK block \in Bijection(BufName, 1..n) :
        /\ strs = [x \in StrName |-> Short(<<>>)]
        /\ bufs = [b \in BufName |-> [p |-> block[b], len |-> 0, cap |-> FirstCap]]
        /\ mem = [bytes |-> h, count |-> k]
        /\ value = [x \in StrName \cup BufName |-> <<>>]
  BY DEF StrInit
<1>2. /\ block \in [BufName -> 1..n] /\ \A b, c \in BufName : block[b] = block[c] => b = c
      /\ \A a \in 1..n : \E b \in BufName : block[b] = a
  BY <1>1 DEF Bijection, Injection, Surjection, IsInjective
<1>3. n \in Nat
  BY StrAssumption, FS_CardinalityType
<1> HIDE DEF n
<1>4. /\ t \in Seq(Nat)
      /\ \A a \in Nat : BufHas([p |-> a, len |-> 0, cap |-> FirstCap], t, <<>>)
  <2>1. 0 \in Nat
    OBVIOUS
  <2> QED BY <2>1, EmptyBufIs
<1> HIDE DEF t
<1>5. h \in [1..n -> Seq(Nat)] /\ k \in [1..n -> Nat] /\ \A x \in 1..n : h[x] = t /\ k[x] = 0
  BY <1>4
<1> HIDE DEF h, k
<1>6. MemOK(mem) /\ mem.bytes = h /\ mem.count = k /\ DOMAIN mem.bytes = 1..n
  <2>1. IsFiniteSet(1..n) /\ 1..n \subseteq Nat \ {0}
    BY <1>3, FS_Interval
  <2>2. MemOK([bytes |-> h, count |-> k])
    BY <1>5, <2>1, MemIs
  <2> QED BY <1>1, <1>5, <2>2
<1>7. \A b \in BufName : bufs[b].p = block[b] /\ bufs[b] = [p |-> block[b], len |-> 0, cap |-> FirstCap]
  BY <1>1
<1>8. Blocks(bufs) = 1..n
  <2>1. \A b \in BufName : bufs[b].p = block[b]
    BY <1>7
  <2>2. Blocks(bufs) = {block[b] : b \in BufName}
    BY <2>1 DEF Blocks
  <2> QED BY <1>2, <2>2
<1>9. Clean(mem, Blocks(bufs))
  BY <1>5, <1>6, <1>8 DEF Clean
<1>10. Tells(<<>>, <<>>)
  BY DEF Tells
<1>11. \A x \in StrName : StrFine(mem, strs[x], value[x]) /\ ~ IsLongStr(strs[x])
  <2>1. StrFine(mem, Short(<<>>), <<>>) /\ ~ IsLongStr(Short(<<>>))
    BY <1>10, ShortIs
  <2> QED BY <1>1, <2>1
<1>12. Counted(mem, strs)
  <2>1. \A b : Longs(strs, b) = {}
    BY <1>11 DEF Longs
  <2>2. Cardinality({}) = 0
    BY FS_EmptySet
  <2>3. \A b \in Nat : Shares(mem, b) = 0
    BY <1>5, <1>6 DEF Shares
  <2> QED BY <2>1, <2>2, <2>3 DEF Counted
<1>13. \A b \in BufName : BufFine(mem, bufs[b], value[b])
  <2> SUFFICES ASSUME NEW b \in BufName PROVE BufFine(mem, bufs[b], value[b])
    OBVIOUS
  <2>1. bufs[b].p \in 1..n /\ bufs[b].p \in Nat /\ value[b] = <<>>
    BY <1>1, <1>2, <1>7
  <2>2. BufHas(bufs[b], t, <<>>)
    BY <1>4, <1>7, <2>1
  <2>3. mem.bytes[bufs[b].p] = t /\ bufs[b].p \in DOMAIN mem.bytes
    BY <1>5, <1>6, <2>1
  <2> QED BY <2>1, <2>2, <2>3 DEF BufHas, BufFine
<1>14. \A b, c \in BufName : bufs[b].p = bufs[c].p => b = c
  <2>1. \A b \in BufName : bufs[b].p = block[b]
    BY <1>7
  <2> QED BY <1>2, <2>1
<1>15. DOMAIN strs = StrName /\ DOMAIN bufs = BufName /\ DOMAIN value = StrName \cup BufName
  BY <1>1
<1> QED BY <1>9, <1>11, <1>12, <1>13, <1>14, <1>15 DEF StrInv

\* Every action keeps the invariant.
LEMMA StrInductive == StrInv /\ [StrNext]_strVars => StrInv'
<1> SUFFICES ASSUME StrInv, [StrNext]_strVars PROVE StrInv'
  OBVIOUS
<1>1. ASSUME NEW d \in StrName, NEW text \in Text, AssignText(d, text, text) PROVE StrInv'
  BY <1>1, TextTells, AssignTextKeeps
<1>2. ASSUME NEW d \in StrName, NEW x \in StrName, NEW c \in Cuts(x), AssignSlice(d, x, c[1], c[2])
      PROVE  StrInv'
  BY <1>2, CutTells, AssignTextKeeps DEF AssignSlice
<1>3. ASSUME NEW d \in StrName, NEW x \in StrName, AssignStr(d, x) \/ MoveStr(d, x) PROVE StrInv'
  BY <1>3, AssignStrKeeps, MoveStrKeeps
<1>4. ASSUME NEW d \in StrName, NEW b \in BufName, AssignBuf(d, b) PROVE StrInv'
  BY <1>4, AssignBufKeeps
<1>5. ASSUME NEW b \in BufName, NEW len \in 0..MaxStr, NEW cap \in 0..MaxStr, NewBuf(b, len, cap)
      PROVE  StrInv'
  BY <1>5, NewBufKeeps
<1>6. ASSUME NEW b \in BufName, NEW len \in 0..MaxStr, FitBuf(b, len) PROVE StrInv'
  BY <1>6, FitBufKeeps
<1>7. ASSUME NEW b \in BufName, NEW offset \in 0..bufs[b].len, NEW text \in Text,
             WriteBuf(b, offset, text, text)
      PROVE  StrInv'
  BY <1>7, TextTells, WriteBufKeeps
<1>8. ASSUME NEW b \in BufName, NEW offset \in 0..bufs[b].len, NEW x \in StrName, NEW c \in Cuts(x),
             WriteSlice(b, offset, x, c[1], c[2])
      PROVE  StrInv'
  BY <1>8, CutTells, WriteBufKeeps DEF WriteSlice
<1>9. CASE UNCHANGED strVars
  BY <1>9 DEF strVars, StrInv
<1> QED BY <1>1, <1>2, <1>3, <1>4, <1>5, <1>6, <1>7, <1>8, <1>9 DEF StrNext

\* The property is a part of the invariant.
LEMMA InvContents == StrInv => StrContents
<1> SUFFICES ASSUME StrInv PROVE StrContents
  OBVIOUS
<1>1. \A x \in StrName : Agrees(Data(mem, strs[x]), LenOf(strs[x]), value[x])
  BY DEF StrInv, StrFine, Holding
<1>2. \A b \in BufName : /\ Agrees(mem.bytes[bufs[b].p], bufs[b].len, value[b])
                         /\ Len(mem.bytes[bufs[b].p]) = bufs[b].cap + 1
  BY DEF StrInv, BufFine, Holding
<1>3. ASSUME NEW b \in DOMAIN mem.bytes
      PROVE  /\ mem.count[b] = Cardinality(LongOnes(b))
             /\ (mem.count[b] = 0) = (Cardinality(BufsOf(b)) = 1)
             /\ Cardinality(BufsOf(b)) <= 1
  <2>1. b \in Nat
    BY DEF StrInv, Clean, MemOK
  <2>2. LongOnes(b) = Longs(strs, b)
    BY DEF LongOnes, Longs
  <2>3. mem.count[b] = Cardinality(LongOnes(b))
    BY <2>1, <2>2 DEF StrInv, Counted, Shares
  <2>4. mem.count[b] = 0 <=> b \in Blocks(bufs)
    BY DEF StrInv, Clean
  <2>5. CASE b \in Blocks(bufs)
    <3>1. PICK c \in BufName : bufs[c].p = b
      BY <2>5 DEF Blocks
    <3>2. BufsOf(b) = {c}
      BY <3>1 DEF StrInv, BufsOf
    <3>3. Cardinality(BufsOf(b)) = 1
      BY <3>2, FS_Singleton
    <3> QED BY <2>3, <2>4, <2>5, <3>3
  <2>6. CASE b \notin Blocks(bufs)
    <3>1. BufsOf(b) = {}
      BY <2>6 DEF BufsOf, Blocks
    <3>2. Cardinality(BufsOf(b)) = 0
      BY <3>1, FS_EmptySet
    <3> QED BY <2>3, <2>4, <2>6, <3>2
  <2> QED BY <2>5, <2>6
<1> QED BY <1>1, <1>2, <1>3 DEF StrContents

(* Str of str.h and str.cpp: for any strings, buffers and texts, a string  *)
(* or a buffer holds what it was given, whatever it was made of and        *)
(* whatever became of that, and each block is one buffer's or is counted   *)
(* by the strings on it and goes with the last.                            *)
THEOREM StringsKeepContents == StrSpec => []StrContents
<1>1. StrInit => StrInv
  BY StrInitInv
<1>2. StrInv /\ [StrNext]_strVars => StrInv'
  BY StrInductive
<1>3. StrInv => StrContents
  BY InvContents
<1> QED BY <1>1, <1>2, <1>3, PTL DEF StrSpec

=============================================================================
