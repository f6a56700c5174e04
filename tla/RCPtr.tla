------------------------------- MODULE RCPtr -------------------------------
(***************************************************************************)
(* RCPtr of include/lom/mem.h: pointers that count themselves in the       *)
(* object they point to, which is deleted with its last pointer.           *)
(*                                                                         *)
(* The count is atomic, so an operation is cut at each change of a count:  *)
(* it counts the new object, gives the old one back, deletes what that     *)
(* leaves without a pointer, and stores.  An RCPtr itself is an ordinary   *)
(* variable: threads do not use the same one at the same time, and a       *)
(* thread comes to the members of an object only by a pointer to it.       *)
(***************************************************************************)
EXTENDS Integers, FiniteSets

CONSTANTS
  Thread,
  Name,     \* of the pointer variables of each thread
  Obj,
  Member,   \* the pointers in an object
  Null,
  NoPlace,
  Careful   \* callers hold the object whose member they assign from

Var == Thread \X Name
Place == Var \cup (Obj \X Member)

ASSUME RCPtrAssumption ==
  /\ IsFiniteSet(Thread) /\ IsFiniteSet(Name)
  /\ IsFiniteSet(Obj) /\ IsFiniteSet(Member)
  /\ Thread \cap Obj = {} /\ Null \notin Thread \cup Obj /\ NoPlace \notin Place
  /\ Careful \in BOOLEAN

VARIABLES
  p,         \* p_ of every pointer
  rc,        \* rc_ of every object
  heap,      \* the objects that are allocated
  released,  \* pointers that hold p_ but no longer count for it
  op,        \* the operation a thread is in
  held,      \* the object that it has counted and not stored yet
  dying      \* the objects whose destructors a thread is in

rcVars == <<p, rc, heap, released, op, held, dying>>

Idle == [pc |-> "idle", dst |-> NoPlace, src |-> NoPlace]
VarsOf(t) == {t} \X Name
MembersOf(o) == {o} \X Member

RCInit ==
  /\ p = [l \in Place |-> Null]
  /\ rc = [o \in Obj |-> 0]
  /\ heap = {}
  /\ released = Obj \X Member
  /\ op = [t \in Thread |-> Idle]
  /\ held = [t \in Thread |-> Null]
  /\ dying = [t \in Thread |-> {}]

(* A thread uses its own variables and the members of the objects they     *)
(* point to, and no pointer that another thread is assigning.              *)
Reaches(t, l) == l \in VarsOf(t) \/ \E v \in VarsOf(t) : l \in MembersOf(p[v])

MayUse(t, dst, src) ==
  /\ op[t] = Idle
  /\ Reaches(t, dst) /\ Reaches(t, src)
  /\ \A u \in Thread : op[u].dst \notin {dst, src} /\ op[u].src /= dst

\* IncRC on the new object, the first thing every assignment does.
BadIncRC(t, dst, o) ==
  /\ held' = [held EXCEPT ![t] = o]
  /\ rc' = [x \in Obj |-> IF x = o /\ p[dst] /= o THEN rc[x] + 1 ELSE rc[x]]

IncRC(t, dst, o) ==
  /\ held' = [held EXCEPT ![t] = o]
  /\ rc' = [x \in Obj |-> IF x = o THEN rc[x] + 1 ELSE rc[x]]

Begin(t, dst, src, o) ==
  /\ op' = [op EXCEPT ![t] = [pc |-> "drop", dst |-> dst, src |-> src]]
  /\ IncRC(t, dst, o)
  /\ UNCHANGED dying

\* dst = new T(): the count of a new object is 0, its members are null.
AssignNew(t, dst, o) ==
  /\ o \notin heap
  /\ MayUse(t, dst, dst)
  /\ Begin(t, dst, NoPlace, o)
  /\ heap' = heap \cup {o}
  /\ p' = [l \in Place |-> IF l \in MembersOf(o) THEN Null ELSE p[l]]
  /\ released' = released \ MembersOf(o)

\* dst = from.RawPtr(), or a T * that the caller has from there.
AssignRaw(t, dst, from) ==
  /\ MayUse(t, dst, from)
  /\ Begin(t, dst, NoPlace, p[from])
  /\ UNCHANGED <<p, heap, released>>

\* Reset, = nullptr, and the destructor of dst.
Reset(t, dst) ==
  /\ MayUse(t, dst, dst)
  /\ Begin(t, dst, NoPlace, Null)
  /\ UNCHANGED <<p, heap, released>>

\* dst = src, and the copy constructor, whose dst is null: src is passed by
\* reference and read again in Store.
AssignPtr(t, dst, src) ==
  /\ MayUse(t, dst, src)
  /\ Careful => src \in VarsOf(t) \/ \E v \in VarsOf(t) \ {dst} : src \in MembersOf(p[v])
  /\ Begin(t, dst, src, p[src])
  /\ UNCHANGED <<p, heap, released>>

\* DecRC of the pointer l: the one that brings the count from 1 to 0
\* deletes the object.
DecRC(t, l) ==
  /\ released' = released \cup {l}
  /\ rc' = [x \in Obj |-> IF x = p[l] THEN rc[x] - 1 ELSE rc[x]]
  /\ dying' = [dying EXCEPT ![t] = @ \cup {x \in Obj : x = p[l] /\ rc[x] = 1}]

DropOld(t) ==
  /\ op[t].pc = "drop"
  /\ DecRC(t, op[t].dst)
  /\ op' = [op EXCEPT ![t].pc = "store"]
  /\ UNCHANGED <<p, heap, held>>

\* The destructor of an object: those of its members, and then its memory
\* is free.  In which order nested destructors go on is left open.
DestroyMember(t, o, m) ==
  /\ o \in dying[t]
  /\ <<o, m>> \notin released
  /\ DecRC(t, <<o, m>>)
  /\ UNCHANGED <<p, heap, op, held>>

Free(t, o) ==
  /\ o \in dying[t]
  /\ MembersOf(o) \subseteq released
  /\ heap' = heap \ {o}
  /\ dying' = [dying EXCEPT ![t] = @ \ {o}]
  /\ UNCHANGED <<p, rc, released, op, held>>

\* What p_ = other.p_ reads: anything, if other is in freed memory.
Stored(t) ==
  IF op[t].src = NoPlace THEN {held[t]}
  ELSE IF \E o \in Obj \ heap : op[t].src \in MembersOf(o) THEN Obj \cup {Null}
  ELSE {p[op[t].src]}

Store(t) ==
  /\ op[t].pc = "store"
  /\ dying[t] = {}
  /\ \E o \in Stored(t) : p' = [p EXCEPT ![op[t].dst] = o]
  /\ released' = released \ {op[t].dst}
  /\ op' = [op EXCEPT ![t] = Idle]
  /\ held' = [held EXCEPT ![t] = Null]
  /\ UNCHANGED <<rc, heap, dying>>

RCNext ==
  \E t \in Thread :
    \/ \E dst \in Place :
         \/ \E o \in Obj : AssignNew(t, dst, o)
         \/ \E from \in Place : AssignRaw(t, dst, from) \/ AssignPtr(t, dst, from)
         \/ Reset(t, dst)
    \/ DropOld(t)
    \/ \E o \in Obj : Free(t, o) \/ \E m \in Member : DestroyMember(t, o, m)
    \/ Store(t)

RCSpec == RCInit /\ [][RCNext]_rcVars

-----------------------------------------------------------------------------
RCTypeOK ==
  /\ p \in [Place -> Obj \cup {Null}]
  /\ rc \in [Obj -> Int]
  /\ heap \subseteq Obj
  /\ released \subseteq Place
  /\ op \in [Thread -> {Idle} \cup
                       [pc : {"drop", "store"}, dst : Place, src : Place \cup {NoPlace}]]
  /\ held \in [Thread -> Obj \cup {Null}]
  /\ dying \in [Thread -> SUBSET Obj]

Counting(o) == {l \in Place \ released : p[l] = o}
Holding(o) == {t \in Thread : held[t] = o}
Dead(o) == o \notin heap \/ \E t \in Thread : o \in dying[t]

(* rc_ is the number of pointers, with those on their way; an object lives *)
(* just as long as there is one, so that none dangles, nothing is deleted  *)
(* twice and, but for cycles, nothing leaks, whatever threads do at once.  *)
PointersCounted ==
  \A o \in Obj :
    /\ rc[o] = Cardinality(Counting(o)) + Cardinality(Holding(o))
    /\ Dead(o) <=> rc[o] = 0

(* mem.h:18: callers keep objects alive "until the function call ends", so *)
(* an assignment stores the pointer that it was given and has counted.     *)
AssignmentCopies ==
  [][\A t \in Thread : Store(t) => p'[op[t].dst] = held[t]]_rcVars

=============================================================================
