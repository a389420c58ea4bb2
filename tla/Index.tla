------------------------------- MODULE Index --------------------------------
(***************************************************************************)
(* kylin_index.c: a set of values in the hash table of HashTable, a value  *)
(* being its own key and compared by opts.compare.                         *)
(***************************************************************************)
EXTENDS HashTable

CONSTANT IdxVals, IdxCounts   \* the values, the arguments of kylin_index_resize

VARIABLES
    index,     \* see HashTable; a node is [key |-> value]
    members,   \* history: the values inserted and not unlinked
    doubled    \* history: the values that have had two nodes

index_vars == <<index, members, doubled>>

IndexInit == index = NoTable("none") /\ members = {} /\ doubled = {}

-----------------------------------------------------------------------------
_index_rehash(m) == Rehash(m)
_ht_need_expand(m) == Expanded(m) # m

kylin_index_count(m) == m.ht[0].used + m.ht[1].used

\* (mutant of kylin_index_find: ht[1] is never searched)
kylin_index_find_old(m, v) ==
    m.ht[0].cap # 0 /\ HasKey(Chain(m.ht[0], v), v)

kylin_index_find(m, v) == ht_find(m, v) # <<>>
kylin_index_first(m) == ht_first(m)
kylin_index_last(m) == ht_last(m)
kylin_index_next(m, node) == ht_next(m, node)
kylin_index_prev(m, node) == ht_prev(m, node)

kylin_index_create == index.stage = "none" /\ index' = NoTable("ok") /\ members' = {}

kylin_index_destroy == /\ index.stage \in {"ok", "dangling"}
                       /\ index' = NoTable("none") /\ members' = {}

kylin_index_clear == index.stage = "ok" /\ index' = HtCleared(index) /\ members' = {}

kylin_index_resize(count) == index.stage = "ok" /\ index' = Resized(index, count) /\ UNCHANGED members

\* and kylin_index_insert, whose failure branch no call reaches
kylin_index_insert_raw(v) ==
    /\ index.stage = "ok" /\ members' = members \cup {v}
    /\ LET m == _index_rehash(Expanded(index)) IN index' = Then(m, HtInserted(m, [key |-> v]))

\* The value of a node is replaced by an equal one: only the rehash shows.
kylin_index_replace(v) == index.stage = "ok" /\ index' = _index_rehash(index) /\ UNCHANGED members

\* and kylin_index_unlink_raw, kylin_index_remove_raw
kylin_index_unlink(v) ==
    /\ index.stage = "ok" /\ members' = members \ {v}
    /\ LET m == _index_rehash(index) IN index' = Then(m, HtUnlinked(m, v))

\* kylin_index_unlink returns the value and has freed the node; what it returns is
\* then freed as if it were the node, with the pointer that the value starts with.
kylin_index_remove(v) ==
    /\ index.stage = "ok" /\ members' = members \ {v}
    /\ LET m == _index_rehash(index)
       IN  index' = Then(m, IF Where(m, v) = -1 THEN m
                            ELSE [HtUnlinked(m, v) EXCEPT !.stage = "freed"])

NodesOf(m, v) == SelectSeq(Order(m), LAMBDA n : n.key = v)

IndexNext == /\ \/ kylin_index_create \/ kylin_index_destroy \/ kylin_index_clear
                \/ \E count \in IdxCounts : kylin_index_resize(count)
                \/ \E v \in IdxVals : \/ kylin_index_insert_raw(v) \/ kylin_index_replace(v)
                                      \/ kylin_index_unlink(v) \/ kylin_index_remove(v)
             /\ doubled' = doubled \cup {v \in IdxVals : Len(NodesOf(index', v)) > 1}

-----------------------------------------------------------------------------
(***************************************************************************)
(* The index finds every value that was inserted and not unlinked, during  *)
(* a rehash too; it finds no other, except a value that was inserted again *)
(* during a rehash and got a second node, which an unlink leaves behind.   *)
(***************************************************************************)
IndexFindsItsMembers ==
    index.stage = "ok" =>
        /\ \A v \in members : kylin_index_find(index, v)
        /\ \A v \in IdxVals \ members : kylin_index_find(index, v) => v \in doubled

(***************************************************************************)
(* kylin_index_count is the number of nodes plus the duplicates that a     *)
(* rehash destroyed without counting them down, for as long as that rehash *)
(* lasts; the rehash leaves its table only then.                           *)
(***************************************************************************)
IndexCountsNodes ==
    /\ kylin_index_count(index) = Len(Order(index)) + index.lost
    /\ index.stage = "overrun" => index.lost > 0

(***************************************************************************)
(* However the calls interleave with the incremental rehash, the index     *)
(* finds and counts its values.                                            *)
(***************************************************************************)
IndexTablesAgree == IndexFindsItsMembers /\ IndexCountsNodes
=============================================================================
