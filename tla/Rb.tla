---------------------------------- MODULE Rb --------------------------------
(***************************************************************************)
(* kylin_rb.c: an ordered tree of values, each in a node of its own.  The  *)
(* test with which an insertion links the new node (tmp != NULL, after a   *)
(* loop that ends when tmp is NULL) always fails, so that every node that  *)
(* is inserted becomes the root, above the former one as a parent.         *)
(***************************************************************************)
EXTENDS RbTree

CONSTANTS
    RbNodes,   \* the memory for nodes: 1..n
    RbVals     \* the values, numbers

VARIABLES
    rb,          \* krb_t and its nodes
    val_type,    \* opts.val_type: "int", or "others" compared by opts.compare
    rb_alloc,    \* the nodes allocated
    rb_held,     \* those that kylin_rb_unlink_raw returned
    rb_stage,    \* "none", "ok", "fault"
    kept,        \* history: the values inserted and not removed
    many         \* history: there have been two nodes in the tree

rb_vars == <<rb, val_type, rb_alloc, rb_held, rb_stage, kept, many>>

RbInit == /\ rb = NewTree(RbNodes) /\ val_type \in {"int", "others"}
          /\ rb_alloc = {} /\ rb_held = {} /\ rb_stage = "none"
          /\ kept = {} /\ many = FALSE

\* No function assigns count, min and max, which kylin_malloc zeroed.
kylin_rb_count(t) == 0
kylin_rb_min(t) == NULL
kylin_rb_max(t) == NULL

-----------------------------------------------------------------------------
\* (mutant of kmath_val_cmp: equal values are never found equal)
kmath_val_cmp_strict(v1, v2) == IF v1 > v2 THEN 1 ELSE -1

\* Two numbers are never equal
kmath_val_cmp(v1, v2) == IF v1 > v2 THEN 1
                         ELSE IF val_type = "others" /\ v1 = v2 THEN 0 ELSE -1

kmath_val_cmp_raw(v1, v2) == kmath_val_cmp(v1, v2)

RECURSIVE FindRawFrom(_, _, _)
FindRawFrom(t, tmp, v) ==
    LET result == kmath_val_cmp_raw(t.val[tmp], v)
    IN  IF tmp = NULL \/ result = 0 THEN tmp
        ELSE FindRawFrom(t, IF result < 0 THEN RB_RIGHT(t, tmp) ELSE RB_LEFT(t, tmp), v)

kylin_rb_find_raw(t, v) == FindRawFrom(t, t.root, v)

kylin_rb_find(t, v) == LET n == FindRawFrom(t, t.root, v)
                       IN  IF n = NULL THEN {} ELSE {t.val[n]}

\* The node that is kept in mind is one below the value that is looked for
RECURSIVE FindOrNextFrom(_, _, _, _)
FindOrNextFrom(t, tmp, v, res) ==
    LET result == kmath_val_cmp_raw(t.val[tmp], v)
    IN  IF tmp = NULL THEN res
        ELSE IF result < 0 THEN FindOrNextFrom(t, RB_RIGHT(t, tmp), v, tmp)
        ELSE IF result > 0 THEN FindOrNextFrom(t, RB_LEFT(t, tmp), v, res)
        ELSE tmp

kylin_rb_find_or_next_raw(t, v) == FindOrNextFrom(t, t.root, v, NULL)

kylin_rb_next_raw(t, n) == Neighbour(t, n, "right")
kylin_rb_prev_raw(t, n) == Neighbour(t, n, "left")

\* kylin_rb_next and kylin_rb_prev look the value up first
kylin_rb_next(t, v) == LET n == kylin_rb_find_raw(t, v)
                       IN  IF n = NULL THEN NULL ELSE kylin_rb_next_raw(t, n)
kylin_rb_prev(t, v) == LET n == kylin_rb_find_raw(t, v)
                       IN  IF n = NULL THEN NULL ELSE kylin_rb_prev_raw(t, n)

\* Where the descent from the root ends, or the node with an equal value
RECURSIVE Descent(_, _, _, _)
Descent(t, parent, tmp, v) ==
    LET result == kmath_val_cmp(v, t.val[tmp])
    IN  IF tmp = NULL THEN parent
        ELSE IF result = 0 THEN tmp
        ELSE Descent(t, tmp, IF result < 0 THEN RB_LEFT(t, tmp) ELSE RB_RIGHT(t, tmp), v)

Exists(t, v) == t.root # NULL /\ kmath_val_cmp(v, t.val[Descent(t, NULL, t.root, v)]) = 0

\* (mutant of LinkedNode: the test is the one of RB_INSERT, on the parent)
LinkedBelow(t, n, parent) ==
    LET t1 == [t EXCEPT !.parent[n] = parent, !.red[n] = TRUE,
                        !.child["left"][n] = NULL, !.child["right"][n] = NULL]
    IN  IF parent = NULL THEN [t1 EXCEPT !.root = n]
        ELSE [t1 EXCEPT !.child[IF t.val[n] < t.val[parent] THEN "left" ELSE "right"][parent] = n]

\* The new node becomes the root
LinkedNode(t, n, parent) ==
    [t EXCEPT !.parent[n] = parent, !.red[n] = TRUE, !.root = n,
              !.child["left"][n] = NULL, !.child["right"][n] = NULL]

RbInserted(t, n) == insert_color(LinkedNode(t, n, Descent(t, NULL, t.root, t.val[n])), n)

-----------------------------------------------------------------------------
\* kylin_rb_remove_raw: unlike RB_REMOVE, the successor that takes the place of
\* a node with two children keeps its own fields.
kylin_rb_remove_raw(t, old) ==
    LET elm == Outermost(t, RB_RIGHT(t, old), "left")
    IN  IF RB_LEFT(t, old) = NULL \/ RB_RIGHT(t, old) = NULL
        THEN Recoloured(Spliced(t, old), t.red[old], t.parent[old], ChildOf(t, old))
        ELSE Recoloured(Replaced(Spliced(t, elm), old, elm), t.red[elm],
                        IF t.parent[elm] = old THEN elm ELSE t.parent[elm], ChildOf(t, elm))

\* The same code, which leaves the node to the caller
kylin_rb_unlink_raw(t, old) == kylin_rb_remove_raw(t, old)

SetRb(t) == rb' = t /\ rb_stage' = IF t.fault THEN "fault" ELSE "ok"

\* The nodes above the root, which are only reached through parent
RECURSIVE Buried(_, _)
Buried(t, n) == IF n = NULL THEN {} ELSE {n} \cup Buried(t, t.parent[n])

Noted(t, S) == /\ kept' = S
               /\ many' = (many \/ Cardinality(Buried(t, t.root)) > 1)
               /\ UNCHANGED val_type

kylin_rb_create == /\ rb_stage = "none"
                   /\ SetRb(rb) /\ UNCHANGED <<val_type, rb_alloc, rb_held, kept, many>>

\* The loop of kylin_rb_destroy starts from kylin_rb_min: the value of a NULL
\* node is destroyed, which reads nothing for a number, and the node is looked
\* up as a value.
kylin_rb_destroy == /\ rb_stage = "ok"
                    /\ rb_stage' = IF val_type = "int" /\ rb.root = NULL THEN "none" ELSE "fault"
                    /\ many' = TRUE
                    /\ UNCHANGED <<rb, val_type, rb_alloc, rb_held, kept>>

kylin_rb_insert(v) ==
    /\ rb_stage = "ok"
    /\ \E n \in RbNodes \ rb_alloc :
          /\ \A m \in RbNodes \ rb_alloc : n <= m
          /\ LET t == [rb EXCEPT !.val[n] = v]
             IN  IF Exists(rb, v) THEN UNCHANGED rb_vars
                 ELSE /\ SetRb(RbInserted(t, n)) /\ Noted(RbInserted(t, n), kept \cup {v})
                      /\ rb_alloc' = rb_alloc \cup {n} /\ UNCHANGED rb_held

kylin_rb_insert_raw(n) ==
    /\ rb_stage = "ok" /\ n \in rb_held
    /\ IF Exists(rb, rb.val[n]) THEN UNCHANGED rb_vars
       ELSE /\ SetRb(RbInserted(rb, n)) /\ Noted(RbInserted(rb, n), kept \cup {rb.val[n]})
            /\ rb_held' = rb_held \ {n} /\ UNCHANGED rb_alloc

\* kylin_rb_remove, and kylin_rb_unlink, which differ in who frees the value
kylin_rb_remove(v) ==
    LET n == kylin_rb_find_raw(rb, v)
        t == kylin_rb_remove_raw(rb, n)
    IN  /\ rb_stage = "ok"
        /\ IF n = NULL THEN UNCHANGED rb_vars
           ELSE /\ SetRb(t) /\ Noted(t, kept \ {v})
                /\ rb_alloc' = rb_alloc \ {n} /\ UNCHANGED rb_held

kylin_rb_unlink(v) ==
    LET n == kylin_rb_find_raw(rb, v)
        t == kylin_rb_unlink_raw(rb, n)
    IN  /\ rb_stage = "ok" /\ n # NULL
        /\ SetRb(t) /\ Noted(t, kept \ {v})
        /\ rb_held' = rb_held \cup {n} /\ UNCHANGED rb_alloc

RbNext == \/ kylin_rb_create \/ kylin_rb_destroy
          \/ \E v \in RbVals : kylin_rb_insert(v) \/ kylin_rb_remove(v) \/ kylin_rb_unlink(v)
          \/ \E n \in RbNodes : kylin_rb_insert_raw(n)

-----------------------------------------------------------------------------
RbFound == {v \in RbVals : kylin_rb_find(rb, v) # {}}

(***************************************************************************)
(* Whatever has been inserted into a tree ordered by opts.compare, at most *)
(* one value is found again, and it is the root's, the newest: those       *)
(* inserted before it are buried above the root, where no search looks,    *)
(* and kylin_rb_next and kylin_rb_prev go from the newest to a buried node *)
(* whatever its value.                                                     *)
(***************************************************************************)
RbFindsTheNewest ==
    rb_stage = "ok" /\ val_type = "others" =>
        /\ RbFound = IF rb.root = NULL THEN {} ELSE {rb.val[rb.root]}
        /\ \A v \in RbFound : /\ kylin_rb_next(rb, v) = rb.parent[rb.root]
                              /\ kylin_rb_prev(rb, v) = rb.parent[rb.root]

(***************************************************************************)
(* While there has never been more than one node in it, the tree is the    *)
(* set of the values inserted and not removed, and no operation follows a  *)
(* NULL pointer; kylin_rb_find_or_next never finds a value above the one   *)
(* asked for.  (A removal from a tree that has two nodes stops the program *)
(* in _remove_color, and so does kylin_rb_destroy, which sets many too.)   *)
(***************************************************************************)
RbSoundWhileSingle ==
    /\ ~many => /\ rb_stage # "fault"
                /\ val_type = "others" => RbFound = kept
    /\ \A v \in RbVals : LET n == kylin_rb_find_or_next_raw(rb, v)
                         IN  rb_stage = "ok" /\ n # NULL => rb.val[n] <= v

(***************************************************************************)
(* kylin_rb_insert and kylin_rb_remove keep a tree of at most one node,    *)
(* and of more only the newest.                                            *)
(***************************************************************************)
RbKeepsOne == RbFindsTheNewest /\ RbSoundWhileSingle
=============================================================================
