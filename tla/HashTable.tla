----------------------------- MODULE HashTable ------------------------------
(***************************************************************************)
(* The chained hash table that grows and shrinks incrementally, which      *)
(* kylin_map.c and kylin_index.c both contain, as operators on a record m: *)
(*   ht         ht[0] and ht[1]; a table is NULL when its cap is 0,        *)
(*   rehashidx  -1, or the bucket of ht[0] to move next,                   *)
(*   lost       history: the nodes of ht[0] destroyed while it rehashes,   *)
(*   stage      "ok", or a kind of undefined behaviour.                    *)
(* While it rehashes, ht[0] holds the buckets that have not been moved and *)
(* ht[1] the moved and the new nodes; every insert, replace and unlink     *)
(* first moves one bucket. A bucket is the sequence of its nodes from the  *)
(* head of the list, and a node is a record with a key.                    *)
(***************************************************************************)
EXTENDS Integers, Sequences, SequencesExt

CONSTANTS
    Hash,               \* opts.hash, of every key
    force_resize_ratio

ASSUME HashTableAssumption == /\ Hash \in [DOMAIN Hash -> Nat]
                              /\ force_resize_ratio \in Nat

\* kylin_fls is the instruction bsr: the index of the highest bit set
fls(w) == CHOOSE b \in 0..30 : 2^b <= w /\ w < 2^(b + 1)

roundup_pow_of_two(n) == 2^fls(n - 1)

NewTable(cap) == [cap |-> cap, used |-> 0, table |-> [b \in 0..cap - 1 |-> <<>>]]
NullTable == NewTable(0)

NoTable(stage) == [ht |-> [n \in 0..1 |-> NullTable], rehashidx |-> -1, lost |-> 0, stage |-> stage]

-----------------------------------------------------------------------------
IsRehashing(m) == m.rehashidx # -1

\* hash & mask: cap is a power of two
Slot(h, k) == Hash[k] % h.cap

Chain(h, k) == h.table[Slot(h, k)]

\* The nodes of a table, bucket after bucket
Nodes(h) == FlattenSeq([b \in 1..h.cap |-> h.table[b - 1]])

HasKey(chain, k) == \E p \in DOMAIN chain : chain[p].key = k

Position(chain, k) == CHOOSE p \in DOMAIN chain : /\ chain[p].key = k
                                                  /\ \A r \in 1..p - 1 : chain[r].key # k

\* (mutant of Linked: the node is not counted)
LinkedUncounted(m, n, node) ==
    [m EXCEPT !.ht[n].table[Slot(m.ht[n], node.key)] = <<node>> \o @]

\* node becomes the head of its list in table n
Linked(m, n, node) ==
    [m EXCEPT !.ht[n].table[Slot(m.ht[n], node.key)] = <<node>> \o @,
              !.ht[n].used = @ + 1]

\* Its inner loop: a node whose key ht[1] has is destroyed
MoveNode(m, node) ==
    IF HasKey(Chain(m.ht[1], node.key), node.key)
    THEN [m EXCEPT !.lost = @ + 1]
    ELSE [Linked(m, 1, node) EXCEPT !.ht[0].used = @ - 1]

\* Its end: ht[1] becomes ht[0]
FinishRehash(m) ==
    IF m.ht[0].used = 0
    THEN [m EXCEPT !.ht = [n \in 0..1 |-> IF n = 0 THEN m.ht[1] ELSE NullTable],
                   !.rehashidx = -1, !.lost = 0]
    ELSE m

\* One step of a rehash.  The scan for a bucket with nodes does not stop at the
\* end of the table.
Rehash(m) ==
    LET full == {b \in m.rehashidx..m.ht[0].cap - 1 : m.ht[0].table[b] # <<>>}
        idx == CHOOSE b \in full : \A c \in full : b <= c
    IN  IF ~IsRehashing(m) THEN m
        ELSE IF m.ht[0].used = 0 THEN FinishRehash(m)
        ELSE IF full = {} THEN [m EXCEPT !.stage = "overrun"]
        ELSE FinishRehash([FoldLeft(MoveNode, m, m.ht[0].table[idx])
                             EXCEPT !.ht[0].table[idx] = <<>>,
                                    !.rehashidx = idx + 1])


\* (mutant of Resized: the rehash starts at the new table's end)
ResizedFromEnd(m, count) ==
    LET cap == roundup_pow_of_two(count)
    IN  IF IsRehashing(m) \/ cap = m.ht[0].cap THEN m
        ELSE IF m.ht[0].cap = 0 THEN [m EXCEPT !.ht[0] = NewTable(cap)]
        ELSE [m EXCEPT !.ht[1] = NewTable(cap), !.rehashidx = cap]

\* A resize: BUSY while it rehashes, EXIST when nothing changes
Resized(m, count) ==
    LET cap == roundup_pow_of_two(count)
    IN  IF IsRehashing(m) \/ cap = m.ht[0].cap THEN m
        ELSE IF m.ht[0].cap = 0 THEN [m EXCEPT !.ht[0] = NewTable(cap)]
        ELSE [m EXCEPT !.ht[1] = NewTable(cap), !.rehashidx = 0]

\* _ht_need_expand and what an insertion does about it
Expanded(m) ==
    IF m.ht[0].cap = 0 THEN Resized(m, 4)
    ELSE IF m.ht[0].used \div m.ht[0].cap > force_resize_ratio
         THEN Resized(m, m.ht[0].used * 2)
         ELSE m

-----------------------------------------------------------------------------
\* The tables that are searched for a key: ht[1] only while rehashing
Searched(m) == {n \in 0..1 : m.ht[n].cap # 0 /\ (n = 0 \/ IsRehashing(m))}

Holders(m, k) == {n \in Searched(m) : HasKey(Chain(m.ht[n], k), k)}

\* (mutant of Where: ht[1] is not searched)
WhereFirst(m, k) == IF 0 \in Holders(m, k) THEN 0 ELSE -1

\* The table in which the search ends, -1 when it fails
Where(m, k) == IF Holders(m, k) = {} THEN -1
               ELSE IF 0 \in Holders(m, k) THEN 0 ELSE 1

\* The node with key k, as a sequence of length at most one
ht_find(m, k) == IF Where(m, k) = -1 THEN <<>>
              ELSE LET chain == Chain(m.ht[Where(m, k)], k)
                   IN  <<chain[Position(chain, k)]>>

-----------------------------------------------------------------------------
\* Iteration: a node is returned as a sequence of length at most one

Buckets(h, from, to) == {b \in from..to : h.table[b] # <<>>}

FirstOf(h) == LET full == Buckets(h, 0, h.cap - 1)
              IN  IF full = {} THEN <<>>
                  ELSE <<Head(h.table[CHOOSE b \in full : \A c \in full : b <= c])>>

LastOf(h) == LET full == Buckets(h, 0, h.cap - 1)
             IN  IF full = {} THEN <<>>
                 ELSE <<Last(h.table[CHOOSE b \in full : \A c \in full : b >= c])>>

\* The first node of ht[0], the last one of the table that takes the new nodes
ht_first(m) == FirstOf(m.ht[0])
ht_last(m) == LastOf(m.ht[IF IsRehashing(m) THEN 1 ELSE 0])

\* The buckets of h before or after bucket i, the others left out
Before(h, i) == [h EXCEPT !.table = [b \in DOMAIN @ |-> IF b < i THEN @[b] ELSE <<>>]]
After(h, i) == [h EXCEPT !.table = [b \in DOMAIN @ |-> IF b > i THEN @[b] ELSE <<>>]]

\* (mutant of ht_next: it does not go on from ht[0] to ht[1])
ht_nextOneTable(m, node) ==
    LET n == Where(m, node.key)
        chain == Chain(m.ht[n], node.key)
        p == Position(chain, node.key)
    IN  IF p < Len(chain) THEN <<chain[p + 1]>>
        ELSE FirstOf(After(m.ht[n], Slot(m.ht[n], node.key)))

\* The node after node: in the list, in a later list of the table, or in ht[1]
ht_next(m, node) ==
    LET n == Where(m, node.key)
        chain == Chain(m.ht[n], node.key)
        p == Position(chain, node.key)
        later == FirstOf(After(m.ht[n], Slot(m.ht[n], node.key)))
    IN  IF p < Len(chain) THEN <<chain[p + 1]>>
        ELSE IF later # <<>> \/ n = 1 THEN later
        ELSE FirstOf(m.ht[1])

\* The node before it: in the list, in an earlier list of the table, or in ht[0]
ht_prev(m, node) ==
    LET n == Where(m, node.key)
        chain == Chain(m.ht[n], node.key)
        p == Position(chain, node.key)
        earlier == LastOf(Before(m.ht[n], Slot(m.ht[n], node.key)))
    IN  IF p > 1 THEN <<chain[p - 1]>>
        ELSE IF earlier # <<>> \/ n = 0 THEN earlier
        ELSE LastOf(m.ht[0])

-----------------------------------------------------------------------------
\* (mutant of HtInserted: the new node always goes to ht[0])
HtInsertedOld(m, node) == IF HasKey(Chain(m.ht[0], node.key), node.key) THEN m ELSE Linked(m, 0, node)

\* An insertion, after a bucket has been moved: the key is looked for in the table
\* that the new node goes to.
HtInserted(m, node) ==
    LET n == IF IsRehashing(m) THEN 1 ELSE 0
    IN  IF HasKey(Chain(m.ht[n], node.key), node.key) THEN m ELSE Linked(m, n, node)

\* The removal of the node with key k from the table where it is found
HtUnlinked(m, k) ==
    LET n == Where(m, k)
    IN  IF n = -1 THEN m
        ELSE [m EXCEPT !.ht[n].table[Slot(m.ht[n], k)] = RemoveAt(@, Position(@, k)),
                       !.ht[n].used = @ - 1]

\* _ht_clear of both tables frees the nodes and leaves the buckets pointing at them,
\* so that a table that had nodes can then only be destroyed; one that had none
\* stops rehashing and keeps ht[1].
HtCleared(m) ==
    [m EXCEPT !.ht = [n \in 0..1 |-> [@[n] EXCEPT !.used = @ - Len(Nodes(m.ht[n])),
                                                  !.table = [b \in DOMAIN @ |-> <<>>]]],
              !.rehashidx = -1,
              !.stage = IF Nodes(m.ht[0]) \o Nodes(m.ht[1]) = <<>> THEN @ ELSE "dangling"]

\* The rest of an operation on m, which it does not reach after an overrun
Then(m, rest) == IF m.stage = "ok" THEN rest ELSE m

\* All the nodes, in the order of an iteration
Order(m) == Nodes(m.ht[0]) \o Nodes(m.ht[1])
At(m, p) == IF p \in DOMAIN Order(m) THEN <<Order(m)[p]>> ELSE <<>>

OnePerKey(m) == \A p, r \in DOMAIN Order(m) : Order(m)[p].key = Order(m)[r].key => p = r

\* used counts the nodes of its table and, in ht[0], the nodes that were lost
UsedRight(m) == /\ m.ht[0].used = Len(Nodes(m.ht[0])) + m.lost
                /\ m.ht[1].used = Len(Nodes(m.ht[1]))
=============================================================================
