-------------------------------- MODULE Map ---------------------------------
(***************************************************************************)
(* kylin_map.c: a map from keys to values in an incrementally rehashed     *)
(* hash table.  Keys are of a type compared by opts.key_cmp.               *)
(***************************************************************************)
EXTENDS HashTable

CONSTANTS
    MapKeys, MapVals,
    Counts              \* the arguments of kylin_map_resize, none below 2

ASSUME MapAssumption == MapKeys \subseteq DOMAIN Hash /\ Counts \subseteq Nat \ {0, 1}

VARIABLE map     \* see HashTable; stage is "none" when there is no map

MapInit == map = NoTable("none")

-----------------------------------------------------------------------------
kylin_map_create == map.stage = "none" /\ map' = NoTable("ok")

\* reads no bucket of a table that was cleared
kylin_map_destroy == map.stage \in {"ok", "dangling"} /\ map' = NoTable("none")

kylin_map_clear == map.stage = "ok" /\ map' = HtCleared(map)

kylin_map_resize(count) == map.stage = "ok" /\ map' = Resized(map, count)

\* and kylin_map_insert
kylin_map_insert_raw(k, v) ==
    /\ map.stage = "ok"
    /\ LET m == Rehash(Expanded(map)) IN map' = Then(m, HtInserted(m, [key |-> k, val |-> v]))

kylin_map_replace(k, v) ==
    /\ map.stage = "ok"
    /\ LET m == Rehash(map)
           n == Where(m, k)
       IN  map' = Then(m, IF n = -1 THEN m
                          ELSE [m EXCEPT !.ht[n].table[Slot(m.ht[n], k)][Position(Chain(m.ht[n], k), k)].val = v])

\* and kylin_map_unlink_raw, and the removals that use them
kylin_map_unlink(k) == map.stage = "ok" /\ LET m == Rehash(map) IN map' = Then(m, HtUnlinked(m, k))

MapNext == \/ kylin_map_create \/ kylin_map_destroy \/ kylin_map_clear
           \/ \E count \in Counts : kylin_map_resize(count)
           \/ \E k \in MapKeys : \/ kylin_map_unlink(k)
                                 \/ \E v \in MapVals : kylin_map_insert_raw(k, v) \/ kylin_map_replace(k, v)

kylin_map_find(k) == ht_find(map, k)

-----------------------------------------------------------------------------
MapNode == [key : MapKeys, val : MapVals]

MapTypeOK == /\ \A n \in 0..1 : /\ map.ht[n].cap \in Nat /\ map.ht[n].used \in Nat
                                /\ map.ht[n].table \in [0..map.ht[n].cap - 1 -> Seq(MapNode)]
             /\ map.rehashidx \in {-1} \cup 0..map.ht[0].cap
             /\ map.lost \in Nat /\ map.stage \in {"none", "ok", "overrun", "dangling"}

(***************************************************************************)
(* used counts the nodes of its table, and in ht[0] also those that a      *)
(* rehash destroyed as duplicates, which _map_rehash forgets to count      *)
(* down.  Hence a table is only given up (used = 0) when it is empty.      *)
(***************************************************************************)
UsedCountsNodes == UsedRight(map)

(***************************************************************************)
(* Every node of the map can be found by its key, however inserts,         *)
(* removals and resizes interleave with the incremental rehash.            *)
(***************************************************************************)
EveryNodeFound == \A p \in DOMAIN Order(map) : kylin_map_find(Order(map)[p].key) # <<>>

(***************************************************************************)
(* The scan of _map_rehash runs past the end of ht[0] only when a rehash   *)
(* has destroyed a duplicate.                                              *)
(***************************************************************************)
OverrunOnlyAfterDuplicate == map.stage = "overrun" => map.lost > 0

\* kylin_map_insert_raw returns the node of a key that exists ("node exist"), but while
\* the map rehashes it looks for the key in ht[1] only: then a key may get a second node.
OneNodePerKey == OnePerKey(map)

(***************************************************************************)
(* "next和prev操作要处理结点 <跨LIST> 和 <跨HT> 的特殊情况" (kylin_map.c: next and    *)
(* prev deal with a neighbour in another list or table): while no key has  *)
(* two nodes, they walk through all the nodes of both tables, in opposite  *)
(* orders, and between rehashes first and last are the ends of that walk.  *)
(***************************************************************************)
NextAndPrevWalkTheMap == OneNodePerKey =>
    /\ \A p \in DOMAIN Order(map) :
          /\ ht_next(map, Order(map)[p]) = At(map, p + 1)
          /\ ht_prev(map, Order(map)[p]) = At(map, p - 1)
    /\ ~IsRehashing(map) => /\ ht_first(map) = At(map, 1)
                            /\ ht_last(map) = At(map, Len(Order(map)))

(***************************************************************************)
(* As long as no key has two nodes the map is a dictionary: what find      *)
(* returns for each key changes by insert, replace, remove and clear, and  *)
(* never by a resize or by the buckets that a rehash moves.                *)
(***************************************************************************)
Found == [k \in {j \in MapKeys : kylin_map_find(j) # <<>>} |-> kylin_map_find(k)[1].val]

Dict == INSTANCE Dictionary WITH dict <- Found, Key <- MapKeys, Val <- MapVals


(***************************************************************************)
(* However the calls interleave with the incremental rehash, the counts,   *)
(* the chains of the two tables, the lookup and the iteration of           *)
(* kylin_map.c agree.                                                      *)
(***************************************************************************)
MapTablesAgree ==
    /\ MapTypeOK
    /\ UsedCountsNodes
    /\ EveryNodeFound
    /\ OverrunOnlyAfterDuplicate
    /\ NextAndPrevWalkTheMap
=============================================================================
