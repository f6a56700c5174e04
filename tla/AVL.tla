-------------------------------- MODULE AVL --------------------------------
(***************************************************************************)
(* The immutable AVL trees of include/lom/immut: avl_util.h rebalances and *)
(* builds, avl.h adds, sets, deletes and finds by index or key, avl_ds.h   *)
(* makes a map and a list of them.  Versions share their nodes: an         *)
(* operation may write only to nodes that it has created or copied itself. *)
(*                                                                         *)
(* A tree is a value; "own" says that its root node was made by the        *)
(* operation in progress, and "ok" that no write to this node hit a shared *)
(* one and no assertion about it failed.  What the code does by recursion  *)
(* is a recursive function on the subtrees of a tree.                      *)
(***************************************************************************)
EXTENDS Integers, Sequences, SequencesExt, FiniteSets

CONSTANTS
  MapKey,      \* a finite set of integers: K needs an order
  MapValue,
  MaxList      \* bound: the length of the list

ASSUME AVLAssumption == MapKey \subseteq Int /\ IsFiniteSet(MapKey) /\ MaxList \in Nat

VARIABLES
  map,       \* avl_.root_ of an AVLMap
  list,      \* avl_.root_ of an AVLList
  mapRef,    \* history: what the map must hold
  listRef    \* history: what the list must hold

avlVars == <<map, list, mapRef, listRef>>

Nil == [h |-> 0, sz |-> 0]

NewNode(k, v) == [k |-> k, v |-> v, h |-> 1, sz |-> 1, l |-> Nil, r |-> Nil,
                  own |-> TRUE, ok |-> TRUE]

Higher(a, b) == IF a.h >= b.h THEN a.h ELSE b.h

-----------------------------------------------------------------------------
(* Nodes.                                                                  *)

CopyNode(n) == [n EXCEPT !.own = TRUE]

\* A write to a field of node n.
Assign(n, field, x) == [n EXCEPT ![field] = x, !.ok = @ /\ n.own]

Asserted(n, condition) == [n EXCEPT !.ok = @ /\ condition]

FixHSZ(n) == Assign(Assign(n, "h", Higher(n.l, n.r) + 1), "sz", n.l.sz + n.r.sz + 1)

\* Rotates on the child itself, which an older version may share.
BadRotate(c, d, o) ==
  LET heavy == c[d] IN
  IF heavy[d].h = c[o].h
    THEN LET mid == CopyNode(heavy[o])
         IN  FixHSZ(Assign(Assign(mid, o, FixHSZ(Assign(c, d, mid[o]))),
                           d, FixHSZ(Assign(heavy, o, mid[d]))))
    ELSE FixHSZ(Assign(heavy, o, FixHSZ(Assign(c, d, heavy[o]))))

\* c is two higher on side d than on side o.
Rotate(c, d, o) ==
  LET heavy == CopyNode(c[d]) IN
  IF heavy[d].h = c[o].h
    THEN LET mid  == CopyNode(heavy[o])
             low  == FixHSZ(Assign(c, d, mid[o]))
             high == FixHSZ(Assign(heavy, o, mid[d]))
         IN  Asserted(FixHSZ(Assign(Assign(mid, o, low), d, high)), mid.h = c[o].h + 1)
    ELSE Asserted(FixHSZ(Assign(heavy, o, FixHSZ(Assign(c, d, heavy[o])))),
                  /\ heavy[d].h = c[o].h + 1
                  /\ heavy[o].h \in {c[o].h, c[o].h + 1})

Rebalance(c) ==
  LET diff == c.l.h - c.r.h IN
  IF diff \in -1..1 THEN FixHSZ(c)
  ELSE Asserted(IF diff < 0 THEN Rotate(c, "r", "l") ELSE Rotate(c, "l", "r"),
                diff \in {-2, 2})

-----------------------------------------------------------------------------
(* Subtrees.                                                               *)

(* A tree, and all that is below it, down to Nil.                          *)
Subtrees(n) ==
  LET level[d \in 0..n.h] ==
        IF d = 0 THEN {n} ELSE UNION {{m.l, m.r} : m \in level[d - 1] \ {Nil}}
  IN  UNION {level[d] : d \in 0..n.h}

\* The subtrees, each with the indices of its elements.
Places(n) == {at \in Subtrees(n) \X Int : at[2] \in 0..(at[1].sz - 1)}

AddByIdx(n, idx, k, v) ==
  LET add[at \in Subtrees(n) \X Int] ==
        LET c == CopyNode(at[1])
            i == at[2]
        IN  IF at[1] = Nil THEN Asserted(NewNode(k, v), i = 0)
            ELSE Rebalance(IF i <= c.l.sz
                             THEN Assign(c, "l", add[<<c.l, i>>])
                             ELSE Assign(c, "r", add[<<c.r, i - c.l.sz - 1>>]))
  IN  add[<<n, idx>>]

\* A map keeps the key and sets v, a list sets the key and has no v.
SetByIdx(n, idx, field, x) ==
  LET set[at \in Places(n)] ==
        LET c == CopyNode(at[1])
            i == at[2]
        IN  IF i < c.l.sz THEN Assign(c, "l", set[<<c.l, i>>])
            ELSE IF i > c.l.sz THEN Assign(c, "r", set[<<c.r, i - c.l.sz - 1>>])
            ELSE Assign(c, field, x)
  IN  set[<<n, idx>>]

\* The tree without its last element, and the node of that element.
DelLast(n) ==
  LET del[m \in Subtrees(n) \ {Nil}] ==
        IF m.r = Nil THEN [tree |-> m.l, last |-> m]
        ELSE [tree |-> Rebalance(Assign(CopyNode(m), "r", del[m.r].tree)),
              last |-> del[m.r].last]
  IN  del[n]

AssignData(c, n) == Assign(Assign(c, "k", n.k), "v", n.v)

\* Not rebalanced after the last element of the left side was taken away.
BadDelByIdx(n, idx) ==
  LET del[at \in Places(n)] ==
        LET m == at[1]
            i == at[2]
            c == CopyNode(m)
        IN  IF i = m.l.sz /\ m.l = Nil THEN m.r
            ELSE IF i = m.l.sz /\ m.r = Nil THEN m.l
            ELSE IF i < m.l.sz THEN Rebalance(Assign(c, "l", del[<<m.l, i>>]))
            ELSE IF i > m.l.sz THEN Rebalance(Assign(c, "r", del[<<m.r, i - m.l.sz - 1>>]))
            ELSE LET d == DelLast(m.l) IN FixHSZ(AssignData(Assign(c, "l", d.tree), d.last))
  IN  del[<<n, idx>>]

DelByIdx(n, idx) ==
  LET del[at \in Places(n)] ==
        LET m == at[1]
            i == at[2]
            c == CopyNode(m)
        IN  IF i = m.l.sz /\ m.l = Nil THEN m.r
            ELSE IF i = m.l.sz /\ m.r = Nil THEN m.l
            ELSE Rebalance(
                   IF i < m.l.sz THEN Assign(c, "l", del[<<m.l, i>>])
                   ELSE IF i > m.l.sz THEN Assign(c, "r", del[<<m.r, i - m.l.sz - 1>>])
                   ELSE LET d == DelLast(m.l) IN AssignData(Assign(c, "l", d.tree), d.last))
  IN  del[<<n, idx>>]

\* kvs: a sequence of pairs; range: from which, and before which.
BuildTree(kvs) ==
  LET build[range \in (0..Len(kvs)) \X (0..Len(kvs))] ==
        LET mid == range[1] + (range[2] - range[1]) \div 2
            n == Assign(Assign(NewNode(kvs[mid + 1][1], kvs[mid + 1][2]),
                               "l", build[<<range[1], mid>>]),
                        "r", build[<<mid + 1, range[2]>>])
        IN  IF range[1] < range[2] THEN FixHSZ(Asserted(n, n.l.h - n.r.h \in {0, 1})) ELSE Nil
  IN  build[<<0, Len(kvs)>>]

\* Whether k is there, its value, and its index or the one to insert it at.
GetFrom(n, k, idx) ==
  LET get[at \in Subtrees(n) \X Int] ==
        LET m == at[1]
            i == at[2]
        IN  IF m = Nil THEN [found |-> FALSE, idx |-> i]
            ELSE IF k < m.k THEN get[<<m.l, i>>]
            ELSE IF m.k < k THEN get[<<m.r, i + m.l.sz + 1>>]
            ELSE [found |-> TRUE, idx |-> i + m.l.sz, v |-> m.v]
  IN  get[<<n, idx>>]

\* FixIdx checks a negative index, and leaves it as it is: then this comes
\* to a null pointer.
GetByIdx(n, idx) ==
  LET get[at \in Subtrees(n) \X Int] ==
        LET m == at[1]
            i == at[2]
        IN  IF m = Nil THEN <<>>
            ELSE IF i < m.l.sz THEN get[<<m.l, i>>]
            ELSE IF i > m.l.sz THEN get[<<m.r, i - m.l.sz - 1>>]
            ELSE <<m.k, m.v>>
  IN  get[<<n, idx>>]

\* The operation is over: all nodes of its result may be shared from now on.
Publish(n) ==
  LET shared[m \in Subtrees(n)] ==
        IF m = Nil THEN Nil
        ELSE [m EXCEPT !.own = FALSE, !.l = shared[m.l], !.r = shared[m.r]]
  IN  shared[n]

-----------------------------------------------------------------------------
(* AVLMap and AVLList.                                                     *)

AVLInit == map = Nil /\ list = Nil /\ mapRef = [k \in {} |-> 0] /\ listRef = <<>>

BadMapSet(k, v) ==
  /\ LET at == GetFrom(map, k, 0) IN map' = Publish(AddByIdx(map, at.idx, k, v))
  /\ mapRef' = [j \in DOMAIN mapRef \cup {k} |-> IF j = k THEN v ELSE mapRef[j]]
  /\ UNCHANGED <<list, listRef>>

MapSet(k, v) ==
  /\ LET at == GetFrom(map, k, 0) IN
       map' = Publish(IF at.found THEN SetByIdx(map, at.idx, "v", v)
                                  ELSE AddByIdx(map, at.idx, k, v))
  /\ mapRef' = [j \in DOMAIN mapRef \cup {k} |-> IF j = k THEN v ELSE mapRef[j]]
  /\ UNCHANGED <<list, listRef>>

MapErase(k) ==
  /\ LET at == GetFrom(map, k, 0) IN
       map' = IF at.found THEN Publish(DelByIdx(map, at.idx)) ELSE map
  /\ mapRef' = [j \in DOMAIN mapRef \ {k} |-> mapRef[j]]
  /\ UNCHANGED <<list, listRef>>

\* Build makes a new map of pairs, whose keys it asserts to be in order, from
\* nothing: it is tried where there is none yet.
Ascending(n) == {keys \in [1..n -> MapKey] : \A i \in 2..n : keys[i - 1] < keys[i]}

MapBuild(keys, values) ==
  /\ map' = Publish(BuildTree([i \in DOMAIN keys |-> <<keys[i], values[i]>>]))
  /\ mapRef' = [k \in Range(keys) |-> values[CHOOSE i \in DOMAIN keys : keys[i] = k]]
  /\ UNCHANGED <<list, listRef>>

\* The list never looks at its elements: one that is marked, among others
\* that are alike, shows where each of them goes.
Elem == {"e", "marked"}
OneMark(s) == Cardinality({i \in DOMAIN s : s[i] = "marked"}) <= 1

ListInsert(idx, e) ==
  /\ idx <= list.sz /\ list.sz < MaxList
  /\ listRef' = InsertAt(listRef, idx + 1, e)
  /\ OneMark(listRef')
  /\ list' = Publish(AddByIdx(list, idx, e, 0))
  /\ UNCHANGED <<map, mapRef>>

ListSet(idx, e) ==
  /\ idx < list.sz
  /\ listRef' = ReplaceAt(listRef, idx + 1, e)
  /\ OneMark(listRef')
  /\ list' = Publish(SetByIdx(list, idx, "k", e))
  /\ UNCHANGED <<map, mapRef>>

ListErase(idx) ==
  /\ idx < list.sz
  /\ listRef' = RemoveAt(listRef, idx + 1)
  /\ list' = Publish(DelByIdx(list, idx))
  /\ UNCHANGED <<map, mapRef>>

ListBuild(n) ==
  /\ list = Nil
  /\ list' = Publish(BuildTree([i \in 1..n |-> <<"e", 0>>]))
  /\ listRef' = [i \in 1..n |-> "e"]
  /\ UNCHANGED <<map, mapRef>>

MapNext ==
  \/ \E k \in MapKey : MapErase(k) \/ \E v \in MapValue : MapSet(k, v)
  \/ /\ map = Nil
     /\ \E n \in 0..Cardinality(MapKey) :
          \E keys \in Ascending(n), values \in [1..n -> MapValue] : MapBuild(keys, values)

ListNext ==
  \/ \E idx \in 0..MaxList :
       ListErase(idx) \/ \E e \in Elem : ListInsert(idx, e) \/ ListSet(idx, e)
  \/ \E n \in 0..MaxList : ListBuild(n)

AVLSpec == AVLInit /\ [][MapNext \/ ListNext]_avlVars

-----------------------------------------------------------------------------
NodesOf(n) == Subtrees(n) \ {Nil}

InOrder(n) ==
  LET elements[m \in Subtrees(n)] ==
        IF m = Nil THEN <<>> ELSE elements[m.l] \o <<<<m.k, m.v>>>> \o elements[m.r]
  IN  elements[n]

(* Whatever is added, deleted and built, every node is balanced and knows  *)
(* its height and its number of elements, on which indices rest.           *)
BalancedTree(tree) ==
  \A n \in NodesOf(tree) :
    /\ n.l.h - n.r.h \in -1..1
    /\ n.h = Higher(n.l, n.r) + 1
    /\ n.sz = n.l.sz + n.r.sz + 1

Balanced == BalancedTree(map) /\ BalancedTree(list)

(* No operation writes to a node of an older version, whose readers would  *)
(* see it change, and no assertion of avl_util.h fails.                    *)
OldVersionsKept == (\A n \in NodesOf(map) : n.ok) /\ (\A n \in NodesOf(list) : n.ok)

(* The map finds exactly the keys it should hold, with their values and at *)
(* the index of their rank, and tells where a new key has to go; the list  *)
(* has its elements in their places.                                       *)
ContainersAgree ==
  /\ InOrder(list) = [i \in DOMAIN listRef |-> <<listRef[i], 0>>]
  /\ map.sz = Cardinality(DOMAIN mapRef)
  /\ \A k \in MapKey :
       LET at == GetFrom(map, k, 0) IN
       /\ at.idx = Cardinality({j \in DOMAIN mapRef : j < k})
       /\ at.found = (k \in DOMAIN mapRef)
       /\ at.found => at.v = mapRef[k] /\ GetByIdx(map, at.idx) = <<k, at.v>>

(* The comment above GetByIdx, "negative indices are allowed": -1 is the   *)
(* last element.                                                           *)
NegativeIndexAllowed ==
  \A idx \in -map.sz..-1 : GetByIdx(map, idx) = GetByIdx(map, map.sz + idx)

=============================================================================
