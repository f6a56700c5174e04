----------------------------- MODULE LRUCache -----------------------------
(***************************************************************************)
(* LRUCache of include/lom/lru_cache.h: a list of pairs, the oldest first, *)
(* a map from each key to its place in the list, and the sum of the sizes  *)
(* of the values.                                                          *)
(*                                                                         *)
(* A list iterator is the number of a list node, which may be used again   *)
(* once the node is freed.  Of a value only its Size() matters.  Keys and  *)
(* values are passed as copies; an argument that refers into the cache is  *)
(* outside of the model (see the README).                                  *)
(***************************************************************************)
EXTENDS Integers, Sequences, SequencesExt, FiniteSetsExt

CONSTANTS
  Key,
  SzMax,        \* sz_max_
  ValueSizes    \* bound: the sizes of values

ASSUME LRUAssumption == SzMax \in Nat \ {0} /\ ValueSizes \subseteq Nat \ {0}

VARIABLES
  l,      \* l_: sequence of list nodes
  m,      \* m_: key -> number of its list node
  sz,     \* sz_
  uses    \* history: the keys that were ever used, by their last use

lruVars == <<l, m, sz, uses>>

LRUInit == l = <<>> /\ m = [k \in {} |-> 0] /\ sz = 0 /\ uses = <<>>

Ids(list) == {list[i].id : i \in DOMAIN list}
FreshId(list) == Min(1..(Len(list) + 1) \ Ids(list))
IdxOf(list, id) == CHOOSE i \in DOMAIN list : list[i].id = id
NodeOf(list, id) == list[IdxOf(list, id)]
NotNode(list, id) == RemoveAt(list, IdxOf(list, id))
WithoutKey(map, k) == [j \in DOMAIN map \ {k} |-> map[j]]
Sizes(list) == [i \in DOMAIN list |-> list[i].size]

LastUse(k) == CHOOSE i \in DOMAIN uses : uses[i] = k
Used(k) == uses' = Append(IF k \in ToSet(uses) THEN RemoveAt(uses, LastUse(k)) ELSE uses, k)

\* The part of the three that an operation changes.
Cache(list, map, size) == [l |-> list, m |-> map, sz |-> size]

BadAfterErase(c, k) ==
  IF k \notin DOMAIN c.m THEN c
  ELSE Cache(NotNode(c.l, c.m[k]), WithoutKey(c.m, k), c.sz)

AfterErase(c, k) ==
  IF k \notin DOMAIN c.m THEN c
  ELSE Cache(NotNode(c.l, c.m[k]), WithoutKey(c.m, k), c.sz - NodeOf(c.l, c.m[k]).size)

\* The loop of Put that drops the front until n more fit.
EvictFor(c, n) ==
  LET Rest(i) == SubSeq(c.l, i + 1, Len(c.l))
      Dropped(i) == SumFunction(Sizes(SubSeq(c.l, 1, i)))
      Enough(i) == c.sz - Dropped(i) <= SzMax - n
      i0 == Min({i \in 0..Len(c.l) : Enough(i) \/ i = Len(c.l)})
      gone == {c.l[j].k : j \in 1..i0}
  IN  Cache(Rest(i0), [j \in DOMAIN c.m \ gone |-> c.m[j]], c.sz - Dropped(i0))

AfterInsert(c, k, n) ==
  LET id == FreshId(c.l)
  IN  Cache(Append(c.l, [id |-> id, k |-> k, size |-> n]),
            [j \in DOMAIN c.m \cup {k} |-> IF j = k THEN id ELSE c.m[j]],
            c.sz + n)

Becomes(c) == l' = c.l /\ m' = c.m /\ sz' = c.sz

BadCacheGet(k) ==
  /\ k \in DOMAIN m
  /\ Used(k)
  /\ UNCHANGED <<l, m, sz>>

\* Get finds k and makes it the newest; a Get that finds nothing changes
\* nothing.
CacheGet(k) ==
  /\ k \in DOMAIN m
  /\ Used(k)
  /\ l' = Append(NotNode(l, m[k]), NodeOf(l, m[k]))
  /\ UNCHANGED <<m, sz>>

CacheErase(k) ==
  /\ Becomes(AfterErase(Cache(l, m, sz), k))
  /\ UNCHANGED uses

\* Put erases k first, also when the new value is then refused.
CachePut(k, n) ==
  LET erased == AfterErase(Cache(l, m, sz), k) IN
  IF n > SzMax
    THEN Becomes(erased) /\ UNCHANGED uses
    ELSE Becomes(AfterInsert(EvictFor(erased, n), k, n)) /\ Used(k)

LRUNext ==
  \E k \in Key :
    \/ CacheGet(k)
    \/ CacheErase(k)
    \/ \E n \in ValueSizes : CachePut(k, n)

LRUSpec == LRUInit /\ [][LRUNext]_lruVars

-----------------------------------------------------------------------------
(* The list and the map name each other one to one, so that no iterator    *)
(* dangles and the assertions of Put hold; sz_ is the sum of the sizes and *)
(* never exceeds sz_max_, whatever was overwritten, refused or evicted.    *)
CacheConsistent ==
  /\ Cardinality(Ids(l)) = Len(l)
  /\ DOMAIN m = {l[i].k : i \in DOMAIN l}
  /\ \A i \in DOMAIN l : m[l[i].k] = l[i].id
  /\ sz = SumFunction(Sizes(l))
  /\ sz <= SzMax

(* A Put evicts the keys whose last use, by Put or Get, is the longest     *)
(* ago, and no more than it has to: the last one to go would not have fit. *)
EvictsLeastRecent ==
  [][DOMAIN m \ DOMAIN m' /= {} =>
       \A k \in Key, n \in ValueSizes : CachePut(k, n) =>
         LET evicted == DOMAIN m \ (DOMAIN m' \cup {k}) IN
         \A j \in evicted :
           /\ \A kept \in DOMAIN m' \ {k} : LastUse(j) < LastUse(kept)
           /\ (\A other \in evicted : LastUse(other) <= LastUse(j)) =>
                 sz' + NodeOf(l, m[j]).size > SzMax]_lruVars

=============================================================================
