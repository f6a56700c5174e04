------------------------------ MODULE SliceOps ------------------------------
(***************************************************************************)
(* GoSlice of include/lom/go_slice.h: slices are values that name a part   *)
(* of an array, arrays are shared.  Append writes into the array while it  *)
(* has room behind the slice, and makes a new array when it has not.       *)
(*                                                                         *)
(* These are operators on a heap of arrays: they give the heap and the     *)
(* slice that an operation leaves.  An array is as long as its capacity.   *)
(* Array 0 is the null pointer; indices of the code start at 0.            *)
(***************************************************************************)
EXTENDS Integers, Sequences, SequencesExt, FiniteSets, FiniteSetsExt

NilSlice == [a |-> 0, start |-> 0, len |-> 0]
On(a, start, len) == [a |-> a, start |-> start, len |-> len]
Gives(h, s) == [h |-> h, s |-> s]

Cap(h, s) == IF s.a = 0 THEN 0 ELSE Len(h[s.a]) - s.start
Content(h, s) == [i \in 1..s.len |-> h[s.a][s.start + i]]

\* Array(cap, ...): the elements, and T() up to the capacity.
NewArray(h, elems, cap, zero) ==
  LET a == Min(1..(Cardinality(DOMAIN h) + 1) \ DOMAIN h)
      padded == [i \in 1..cap |-> IF i <= Len(elems) THEN elems[i] ELSE zero]
  IN  Gives([b \in DOMAIN h \cup {a} |-> IF b = a THEN padded ELSE h[b]],
            On(a, 0, Len(elems)))

\* The loop of NewArrayAndAppend.
GrownCap(cap, need) ==
  LET Grow[c \in 0..(cap + 2 * need)] == IF c >= need THEN c ELSE Grow[c + (c \div 2) + 1]
  IN  Grow[cap]

NewArrayAndAppend(h, s, elems, zero) ==
  NewArray(h, Content(h, s) \o elems, GrownCap(Cap(h, s), s.len + Len(elems)), zero)

Fits(h, s, n) == Cap(h, s) - s.len >= n

AppendOneElem(h, s, v, zero) ==
  IF Fits(h, s, 1) THEN Gives([h EXCEPT ![s.a][s.start + s.len + 1] = v], On(s.a, s.start, s.len + 1))
  ELSE NewArray(h, Append(Content(h, s), v),
                IF s.a = 0 THEN 1 ELSE s.len + (s.len \div 2) + 1, zero)

\* AppendInitList, and AppendIter of an iterator that is not a GoSlice's.
AppendList(h, s, elems, zero) ==
  IF ~ Fits(h, s, Len(elems)) THEN NewArrayAndAppend(h, s, elems, zero)
  ELSE IF elems = <<>> THEN Gives(h, s)
  ELSE LET at == s.start + s.len
           written == [i \in DOMAIN h[s.a] |->
                         IF i \in (at + 1)..(at + Len(elems)) THEN elems[i - at] ELSE h[s.a][i]]
       IN  Gives([h EXCEPT ![s.a] = written], On(s.a, s.start, s.len + Len(elems)))

\* In place, elements are copied one by one: from the last one on, when the
\* array is the same and the copy goes up.
MayOverlap(s, from) == s.a = from.a /\ s.start + s.len > from.start

BadCopyIn(h, s, from) ==
  FoldLeftDomain(LAMBDA g, i : [g EXCEPT ![s.a][s.start + s.len + i] = g[from.a][from.start + i]],
                 h, [i \in 1..from.len |-> i])

CopyIn(h, s, from) ==
  LET Idx(i) == IF MayOverlap(s, from) THEN from.len + 1 - i ELSE i
  IN  FoldLeftDomain(LAMBDA g, i : [g EXCEPT ![s.a][s.start + s.len + Idx(i)] =
                                             g[from.a][from.start + Idx(i)]],
                     h, [i \in 1..from.len |-> i])

AppendGoSlice(h, s, from, zero) ==
  IF Fits(h, s, from.len) THEN Gives(CopyIn(h, s, from), On(s.a, s.start, s.len + from.len))
  ELSE NewArrayAndAppend(h, s, Content(h, from), zero)

\* Slice(start, len) and Slice(start); At and both take negative indices.
FixIdx(s, idx) == IF idx < 0 THEN idx + s.len ELSE idx
Slice2(s, start, len) == On(s.a, s.start + FixIdx(s, start), len)
Slice1(s, start) == Slice2(s, start, s.len - FixIdx(s, start))

\* One turn of the loop of Reverse.
Swapped(h, s, i) ==
  [h EXCEPT ![s.a][s.start + i] = h[s.a][s.start + s.len + 1 - i],
            ![s.a][s.start + s.len + 1 - i] = h[s.a][s.start + i]]

ReverseOf(h, s) ==
  FoldLeftDomain(LAMBDA g, i : Swapped(g, s, i), h, [i \in 1..(s.len \div 2) |-> i])

\* Iterator::IncImpl, and the slice AppendIter takes from an iterator.
IncIdx(s, idx, step) ==
  LET to == idx + step IN IF to < -1 THEN -1 ELSE IF to > s.len THEN s.len ELSE to
RawGoSlice(s, idx) == IF idx >= 0 THEN Slice1(s, idx) ELSE NilSlice

=============================================================================
