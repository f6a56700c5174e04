------------------------------ MODULE GoSlice ------------------------------
(***************************************************************************)
(* A program with some variables of the type GoSlice (go_slice.h): every   *)
(* operation of a slice, with its result assigned to a variable.           *)
(***************************************************************************)
EXTENDS SliceOps

CONSTANTS
  SliceName,   \* the GoSlice variables of a program
  SliceElem,
  Zero,        \* T()
  MaxCap       \* bound: the capacity of arrays

ASSUME GoSliceAssumption == Zero \in SliceElem /\ MaxCap \in Nat

VARIABLES arrays, slices

sliceVars == <<arrays, slices>>

SliceInit ==
  /\ arrays = [a \in {} |-> <<>>]
  /\ slices = [x \in SliceName |-> NilSlice]

\* d = the result: the old array of d is freed with its last slice.
Assigned(d, r) ==
  LET to == [slices EXCEPT ![d] = r.s]
      used == {to[x].a : x \in SliceName} \cap DOMAIN r.h
  IN  /\ \A a \in used : Len(r.h[a]) <= MaxCap
      /\ slices' = to
      /\ arrays' = [a \in used |-> r.h[a]]

\* The code does not look at elements: to see where each goes it is enough
\* that at most one at a time is put in that is not Zero.
Fresh == IF \E a \in DOMAIN arrays : \E i \in DOMAIN arrays[a] : arrays[a][i] /= Zero
         THEN {Zero} ELSE SliceElem
Lists == {<<>>} \cup UNION {{<<v>>, <<Zero, v>>, <<v, Zero>>} : v \in Fresh}

MakeSlice(d) ==
  \/ \E cap \in 0..MaxCap, len \in 0..MaxCap :
       len <= cap /\ Assigned(d, NewArray(arrays, [i \in 1..len |-> Zero], cap, Zero))
  \/ \* an initializer list, or an iterator, which may leave room
     \E l \in Lists : \E cap \in Len(l)..MaxCap : Assigned(d, NewArray(arrays, l, cap, Zero))
  \/ Assigned(d, Gives(arrays, NilSlice))

SetAt(x, idx, v) ==
  LET i == FixIdx(slices[x], idx) IN
  /\ i \in 0..(slices[x].len - 1)
  /\ arrays' = [arrays EXCEPT ![slices[x].a][slices[x].start + i + 1] = v]
  /\ UNCHANGED slices

TakeSlice(d, x) ==
  \E start \in -1..Cap(arrays, slices[x]) :
    LET at == FixIdx(slices[x], start) IN
    /\ at >= 0
    /\ \/ \E len \in 0..(Cap(arrays, slices[x]) - at) :
            Assigned(d, Gives(arrays, Slice2(slices[x], start, len)))
       \/ /\ start <= slices[x].len
          /\ Assigned(d, Gives(arrays, Slice1(slices[x], start)))

AppendElem(d, x, v) == Assigned(d, AppendOneElem(arrays, slices[x], v, Zero))

AppendElems(d, x, l) == Assigned(d, AppendList(arrays, slices[x], l, Zero))

AppendSlice(d, x, y) == Assigned(d, AppendGoSlice(arrays, slices[x], slices[y], Zero))

\* AppendIter of an iterator of y that was moved by steps.
AppendIter(d, x, y, step) ==
  LET idx == IncIdx(slices[y], 0, step)
      valid == idx \in 0..(slices[y].len - 1)
  IN  Assigned(d, IF valid THEN AppendGoSlice(arrays, slices[x], RawGoSlice(slices[y], idx), Zero)
                  ELSE Gives(arrays, slices[x]))

\* Copy, and Map of a function that keeps the elements.
CopySlice(d, x) == Assigned(d, AppendGoSlice(arrays, NilSlice, slices[x], Zero))
MapSlice(d, x) == Assigned(d, NewArray(arrays, Content(arrays, slices[x]), slices[x].len, Zero))

CopyFrom(x, y) ==
  LET n == Min({slices[x].len, slices[y].len})
      r == AppendGoSlice(arrays, Slice2(slices[x], 0, 0), Slice2(slices[y], 0, n), Zero)
  IN  arrays' = r.h /\ UNCHANGED slices

ReverseSlice(x) == arrays' = ReverseOf(arrays, slices[x]) /\ UNCHANGED slices

SliceNext ==
  \E d \in SliceName :
    \/ MakeSlice(d)
    \/ ReverseSlice(d)
    \/ \E v \in Fresh, idx \in -1..(MaxCap - 1) : SetAt(d, idx, v)
    \/ \E x \in SliceName :
         \/ TakeSlice(d, x) \/ CopySlice(d, x) \/ MapSlice(d, x) \/ CopyFrom(d, x)
         \/ \E v \in Fresh : AppendElem(d, x, v)
         \/ \E l \in Lists : AppendElems(d, x, l)
         \/ \E y \in SliceName :
              AppendSlice(d, x, y) \/ \E step \in {1, MaxCap + 1} : AppendIter(d, x, y, step)

SliceSpec == SliceInit /\ [][SliceNext]_sliceVars

-----------------------------------------------------------------------------
Holds(x) == Content(arrays, slices[x])

(* An append gives the elements of the slice and then what was appended,   *)
(* as it was before, be it a part of the same array ahead of the place     *)
(* that is written or behind it; the slice itself and all slices on other  *)
(* arrays keep their elements.                                             *)
AppendsConcatenate ==
  \A x, y \in SliceName :
    LET r == AppendGoSlice(arrays, slices[x], slices[y], Zero) IN
    /\ Content(r.h, r.s) = Holds(x) \o Holds(y)
    /\ \A z \in SliceName :
         z = x \/ slices[z].a /= slices[x].a => Content(r.h, slices[z]) = Holds(z)

=============================================================================
