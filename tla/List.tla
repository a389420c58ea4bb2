-------------------------------- MODULE List --------------------------------
(***************************************************************************)
(* kylin_list.c: doubly linked lists of values compared by opts.match.     *)
(* The memory of two lists and their nodes is one record lists; a function of  *)
(* the source is an operator on it.                                        *)
(***************************************************************************)
EXTENDS Integers, Sequences, SequencesExt

CONSTANTS
    ListNodes,   \* the memory for nodes: 1..n
    ListVals     \* the values

Lists == {1, 2}
LNull == 0

VARIABLES
    lists,            \* the lists (head, tail, count) and the nodes (prev, next, val)
    list_held,    \* the nodes that kylin_list_unlink_raw returned
    list_stage,   \* "ok", "rotated", "fault": a NULL pointer has been followed,
                  \* "freed": a value has been freed twice
    items,        \* history: the nodes that each list should have, in order
    tailless      \* history: the lists that lost their tail, see kylin_list_join

list_vars == <<lists, list_held, list_stage, items, tailless>>

\* kylin_list_create, twice
ListInit ==
    /\ lists = [head |-> [l \in Lists |-> LNull], tail |-> [l \in Lists |-> LNull],
            count |-> [l \in Lists |-> 0], fault |-> FALSE,
            prev |-> [n \in ListNodes |-> LNull], next |-> [n \in ListNodes |-> LNull],
            val |-> [n \in ListNodes |-> LNull]]
    /\ list_held = {} /\ list_stage = "ok"
    /\ items = [l \in Lists |-> <<>>] /\ tailless = {}

-----------------------------------------------------------------------------
Counted(m, l, d) == [m EXCEPT !.count[l] = @ + d]

LFault(m) == [m EXCEPT !.fault = TRUE]

\* LIST_NEXT(n) = v and LIST_PREV(n) = v, for an n that may be NULL
PutNext(m, n, v) == IF n = LNull THEN LFault(m) ELSE [m EXCEPT !.next[n] = v]
PutPrev(m, n, v) == IF n = LNull THEN LFault(m) ELSE [m EXCEPT !.prev[n] = v]

Sole(m, l, n) == [m EXCEPT !.head[l] = n, !.tail[l] = n, !.prev[n] = LNull, !.next[n] = LNull]

insert_head_raw(m, l, n) ==
    Counted(IF m.count[l] = 0 THEN Sole(m, l, n)
            ELSE [PutPrev([m EXCEPT !.prev[n] = LNull, !.next[n] = m.head[l]], m.head[l], n)
                    EXCEPT !.head[l] = n], l, 1)

insert_tail_raw(m, l, n) ==
    Counted(IF m.count[l] = 0 THEN Sole(m, l, n)
            ELSE [PutNext([m EXCEPT !.prev[n] = m.tail[l], !.next[n] = LNull], m.tail[l], n)
                    EXCEPT !.tail[l] = n], l, 1)

insert_after_raw(m, l, before, n) ==
    LET m1 == [m EXCEPT !.prev[n] = before, !.next[n] = m.next[before]]
        m2 == IF m.tail[l] = before THEN [m1 EXCEPT !.tail[l] = n]
              ELSE PutPrev(m1, m.next[before], n)
    IN  Counted([m2 EXCEPT !.next[before] = n], l, 1)


insert_before_raw(m, l, after, n) ==
    LET m1 == [m EXCEPT !.next[n] = after, !.prev[n] = m.prev[after]]
        m2 == IF m.head[l] = after THEN [m1 EXCEPT !.head[l] = n]
              ELSE PutNext(m1, m.prev[after], n)
    IN  Counted([m2 EXCEPT !.prev[after] = n], l, 1)

\* (mutant of unlink_raw: the tail is not updated)
unlink_raw_stale(m, l, n) ==
    LET m1 == IF m.prev[n] # LNull THEN PutNext(m, m.prev[n], m.next[n])
              ELSE [m EXCEPT !.head[l] = m.next[n]]
        m2 == IF m.next[n] # LNull THEN PutPrev(m1, m.next[n], m.prev[n]) ELSE m1
    IN  [Counted(m2, l, -1) EXCEPT !.prev[n] = LNull, !.next[n] = LNull]

\* The fields of a node that is in no list, which are written before they are
\* read, are abstracted to NULL.
unlink_raw(m, l, n) ==
    LET m1 == IF m.prev[n] # LNull THEN PutNext(m, m.prev[n], m.next[n])
              ELSE [m EXCEPT !.head[l] = m.next[n]]
        m2 == IF m.next[n] # LNull THEN PutPrev(m1, m.next[n], m.prev[n])
              ELSE [m1 EXCEPT !.tail[l] = m.prev[n]]
    IN  [Counted(m2, l, -1) EXCEPT !.prev[n] = LNull, !.next[n] = LNull]

\* The same, and the value and the node are freed
remove_raw(m, l, n) == [unlink_raw(m, l, n) EXCEPT !.val[n] = LNull]

\* The nodes of a list in the order in which a loop over next meets them
RECURSIVE WalkFrom(_, _)
WalkFrom(m, n) == IF n = LNull THEN <<>> ELSE <<n>> \o WalkFrom(m, m.next[n])
Walk(m, l) == WalkFrom(m, m.head[l])

find_raw(m, l, v) == LET hits == SelectSeq(Walk(m, l), LAMBDA n : m.val[n] = v)
                     IN  IF hits = <<>> THEN LNull ELSE hits[1]

kylin_list_find(m, l, v) == IF find_raw(m, l, v) = LNull THEN LNull ELSE v

\* The loop stops before the last node
find_index_raw(m, l, i) == IF i \in 1..m.count[l] - 1 THEN Walk(m, l)[i] ELSE LNull

kylin_list_find_index(m, l, i) == LET n == find_index_raw(m, l, i)
                                  IN  IF n = LNull THEN LNull ELSE m.val[n]

-----------------------------------------------------------------------------
SetList(m) == lists' = m /\ list_stage' = IF m.fault THEN "fault" ELSE "ok"

Free(n) == /\ n \in ListNodes \ list_held /\ lists.val[n] = LNull
           /\ \A j \in 1..n - 1 : lists.val[j] # LNull

\* The node is in no list: just allocated and given its value, or unlinked
Fresh(n, v) == /\ list_stage = "ok"
               /\ \/ Free(n) /\ UNCHANGED list_held
                  \/ n \in list_held /\ lists.val[n] = v /\ list_held' = list_held \ {n}
               /\ UNCHANGED tailless

Valued(n, v) == [lists EXCEPT !.val[n] = v]

kylin_list_insert_head(l, n, v) ==
    /\ Fresh(n, v) /\ SetList(insert_head_raw(Valued(n, v), l, n))
    /\ items' = [items EXCEPT ![l] = <<n>> \o @]

kylin_list_insert_tail(l, n, v) ==
    /\ Fresh(n, v) /\ SetList(insert_tail_raw(Valued(n, v), l, n))
    /\ items' = [items EXCEPT ![l] = Append(@, n)]

Spot(l, n) == CHOOSE p \in DOMAIN items[l] : items[l][p] = n
Member(l, n) == n \in ToSet(items[l]) /\ n \in ToSet(Walk(lists, l))

kylin_list_insert_after(l, before, n, v) ==
    /\ Fresh(n, v) /\ Member(l, before)
    /\ SetList(insert_after_raw(Valued(n, v), l, before, n))
    /\ items' = [items EXCEPT ![l] = InsertAt(@, Spot(l, before) + 1, n)]

kylin_list_insert_before(l, after, n, v) ==
    /\ Fresh(n, v) /\ Member(l, after)
    /\ SetList(insert_before_raw(Valued(n, v), l, after, n))
    /\ items' = [items EXCEPT ![l] = InsertAt(@, Spot(l, after), n)]

Dropped(l, n) == [items EXCEPT ![l] = SelectSeq(@, LAMBDA m : m # n)]

\* kylin_list_remove and kylin_list_unlink: the first node with the value
kylin_list_remove(l, v) ==
    LET n == find_raw(lists, l, v)
    IN  /\ list_stage = "ok" /\ n # LNull
        /\ SetList(remove_raw(lists, l, n)) /\ items' = Dropped(l, n)
        /\ UNCHANGED <<list_held, tailless>>

kylin_list_unlink(l, v) == kylin_list_remove(l, v)

kylin_list_unlink_raw(l, n) ==
    /\ list_stage = "ok" /\ Member(l, n)
    /\ SetList(unlink_raw(lists, l, n)) /\ items' = Dropped(l, n)
    /\ list_held' = list_held \cup {n} /\ UNCHANGED tailless

\* A list with nodes: the first value is freed, and then the node itself is
\* looked up as if it were a value, so that the loop frees the value again or
\* frees what the node of another value held.
kylin_list_clear(l) ==
    /\ list_stage = "ok" /\ lists.head[l] # LNull
    /\ list_stage' = "freed" /\ UNCHANGED <<lists, list_held, items, tailless>>

\* The nodes are inserted for values; the first success is taken for a failure,
\* and the copy is destroyed with the node in it.
kylin_list_dup(l) == kylin_list_clear(l)

\* Every node but the last has its two pointers exchanged
kylin_list_rotate(l) ==
    LET body == {n \in ToSet(Walk(lists, l)) : lists.next[n] # LNull}
    IN  /\ list_stage = "ok" /\ lists.count[l] > 1
        /\ lists' = [lists EXCEPT !.head[l] = lists.tail[l], !.tail[l] = lists.head[l],
                          !.prev = [n \in ListNodes |-> IF n \in body THEN lists.next[n] ELSE @[n]],
                          !.next = [n \in ListNodes |-> IF n \in body THEN lists.prev[n] ELSE @[n]]]
        /\ list_stage' = "rotated"
        /\ items' = [items EXCEPT ![l] = Reverse(@)]
        /\ UNCHANGED <<list_held, tailless>>

\* dest takes the tail of src even when src has none.
kylin_list_join(dest, src) ==
    LET m1 == IF lists.head[src] = LNull THEN lists ELSE PutPrev(lists, lists.head[src], lists.tail[dest])
        m2 == IF lists.tail[dest] # LNull THEN PutNext(m1, lists.tail[dest], lists.head[src])
              ELSE [m1 EXCEPT !.head[dest] = lists.head[src]]
    IN  /\ list_stage = "ok" /\ dest # src
        /\ SetList([m2 EXCEPT !.tail = [@ EXCEPT ![dest] = lists.tail[src], ![src] = LNull],
                              !.count = [@ EXCEPT ![dest] = @ + lists.count[src], ![src] = 0],
                              !.head[src] = LNull])
        /\ items' = [items EXCEPT ![dest] = @ \o items[src], ![src] = <<>>]
        /\ tailless' = IF \/ src \in tailless
                          \/ items[dest] # <<>> /\ items[src] = <<>>
                       THEN tailless \cup {dest} ELSE tailless
        /\ UNCHANGED list_held

ListNext == \E l \in Lists :
               \/ kylin_list_clear(l) \/ kylin_list_dup(l) \/ kylin_list_rotate(l)
               \/ \E src \in Lists : kylin_list_join(l, src)
               \/ \E v \in ListVals : kylin_list_remove(l, v) \/ kylin_list_unlink(l, v)
               \/ \E n \in ListNodes :
                    \/ kylin_list_unlink_raw(l, n)
                    \/ \E v \in ListVals :
                         \/ kylin_list_insert_head(l, n, v) \/ kylin_list_insert_tail(l, n, v)
                         \/ \E m \in ListNodes : \/ kylin_list_insert_after(l, m, n, v)
                                                 \/ kylin_list_insert_before(l, m, n, v)

-----------------------------------------------------------------------------
RECURSIVE BackFrom(_, _)
BackFrom(m, n) == IF n = LNull THEN <<>> ELSE <<n>> \o BackFrom(m, m.prev[n])

(***************************************************************************)
(* A list that was not rotated (the last node keeps its pointers then) and *)
(* never took over the missing tail of an empty one holds the nodes        *)
(* inserted and not removed: next walks them in order from the head, prev  *)
(* in the opposite order from the tail, count counts them, and             *)
(* kylin_list_find_index finds all of them but the last.                   *)
(***************************************************************************)
ListIsTheSequence ==
    list_stage = "ok" => \A l \in Lists \ tailless :
        /\ Walk(lists, l) = items[l] /\ BackFrom(lists, lists.tail[l]) = Reverse(items[l])
        /\ lists.count[l] = Len(items[l])
        /\ \A i \in DOMAIN items[l] : find_index_raw(lists, l, i) =
                                          IF i < Len(items[l]) THEN items[l][i] ELSE LNull

(***************************************************************************)
(* An insertion or a removal follows a NULL pointer only in a program that *)
(* joined an empty list to one with nodes, which leaves the latter a head, *)
(* a count and no tail.                                                    *)
(***************************************************************************)
ListFaultsOnlyTailless == list_stage = "fault" => tailless # {}

=============================================================================
