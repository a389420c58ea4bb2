-------------------------------- MODULE RbHpi -------------------------------
(***************************************************************************)
(* The macros of kylin_rb_hpi.h: RB_GENERATE gives a type its own ordered  *)
(* tree, whose nodes are the caller's elements.  The order of the elements *)
(* is that of the numbers that stand for them.                             *)
(***************************************************************************)
EXTENDS RbTree

CONSTANT HpiElems    \* the elements, numbers above 0

VARIABLES
    head,     \* the tree
    inside    \* history: the elements inserted and not removed

hpi_vars == <<head, inside>>

\* RB_INIT
RB_INIT == head = NewTree(HpiElems) /\ inside = {}

RB_ROTATE_LEFT(t, elm) == rotate_left(t, elm)
RB_ROTATE_RIGHT(t, elm) == rotate_right(t, elm)
RB_INSERT_COLOR(t, elm) == insert_color(t, elm)
RB_REMOVE_COLOR(t, parent, elm) == remove_color(t, parent, elm)

RB_SET(t, elm, parent) ==
    [t EXCEPT !.parent[elm] = parent, !.child["left"][elm] = NULL,
              !.child["right"][elm] = NULL, !.red[elm] = TRUE]

-----------------------------------------------------------------------------
RECURSIVE FindFrom(_, _, _)
FindFrom(t, tmp, elm) == IF tmp = NULL \/ tmp = elm THEN tmp
                         ELSE FindFrom(t, t.child[IF elm < tmp THEN "left" ELSE "right"][tmp], elm)

RB_FIND(t, elm) == FindFrom(t, t.root, elm)

RECURSIVE NFindFrom(_, _, _, _)
NFindFrom(t, tmp, elm, res) ==
    IF tmp = NULL THEN res
    ELSE IF elm < tmp THEN NFindFrom(t, RB_LEFT(t, tmp), elm, tmp)
    ELSE IF elm > tmp THEN NFindFrom(t, RB_RIGHT(t, tmp), elm, res)
    ELSE tmp

RB_NFIND(t, elm) == NFindFrom(t, t.root, elm, NULL)

RB_NEXT(t, elm) == Neighbour(t, elm, "right")
RB_PREV(t, elm) == Neighbour(t, elm, "left")
RB_MINMAX(t, s) == IF t.root = NULL THEN NULL ELSE Outermost(t, t.root, s)

\* The last node of the descent to elm
RECURSIVE Bottom(_, _, _)
Bottom(t, tmp, elm) ==
    LET below == t.child[IF elm < tmp THEN "left" ELSE "right"][tmp]
    IN  IF tmp = NULL \/ below = NULL THEN tmp ELSE Bottom(t, below, elm)

\* RB_INSERT of an element that the tree does not have
Inserted(t, elm) ==
    LET parent == IF t.root = NULL THEN NULL ELSE Bottom(t, t.root, elm)
        t1 == RB_SET(t, elm, parent)
    IN  RB_INSERT_COLOR(IF parent = NULL THEN [t1 EXCEPT !.root = elm]
                        ELSE [t1 EXCEPT !.child[IF elm < parent THEN "left" ELSE "right"][parent] = elm],
                        elm)

\* RB_REMOVE: an element with two children gives its place, its colour included,
\* to its successor.
Removed(t, old) ==
    LET elm == Outermost(t, RB_RIGHT(t, old), "left")
        t1 == Spliced(t, elm)
        t2 == [t1 EXCEPT !.parent[elm] = t1.parent[old], !.red[elm] = t1.red[old],
                         !.child["left"][elm] = RB_LEFT(t1, old),
                         !.child["right"][elm] = RB_RIGHT(t1, old)]
    IN  IF RB_LEFT(t, old) = NULL \/ RB_RIGHT(t, old) = NULL
        THEN Recoloured(Spliced(t, old), t.red[old], t.parent[old], ChildOf(t, old))
        ELSE Recoloured(Replaced(t2, old, elm), t.red[elm],
                        IF t.parent[elm] = old THEN elm ELSE t.parent[elm], ChildOf(t, elm))

RB_INSERT(elm) == /\ head' = IF RB_FIND(head, elm) # NULL THEN head ELSE Inserted(head, elm)
                  /\ inside' = inside \cup {elm}

\* The fields of an element outside the tree, which RB_SET overwrites before
\* anything reads them, are abstracted to those of a red leaf.
RB_REMOVE(elm) == /\ elm \in inside
                  /\ head' = RB_SET(Removed(head, elm), elm, NULL)
                  /\ inside' = inside \ {elm}

HpiNext == \E elm \in HpiElems : RB_INSERT(elm) \/ RB_REMOVE(elm)

-----------------------------------------------------------------------------
Below(t, n) == {t.child[s][n] : s \in Sides} \ {NULL}

\* The elements of the tree below n, n included
RECURSIVE Subtree(_, _)
Subtree(t, n) == IF n = NULL THEN {} ELSE {n} \cup UNION {Subtree(t, m) : m \in Below(t, n)}

\* The number of black nodes on the way from n down to the left
RECURSIVE BlackHeight(_, _)
BlackHeight(t, n) == IF n = NULL THEN 0
                     ELSE BlackHeight(t, RB_LEFT(t, n)) + (IF t.red[n] THEN 0 ELSE 1)

(***************************************************************************)
(* Any sequence of RB_INSERT and RB_REMOVE leaves a red-black tree: the    *)
(* root is black, no red node has a red child, and all the ways down from  *)
(* a node meet the same number of black ones, so that the height stays     *)
(* logarithmic; RB_REMOVE_COLOR never follows a sibling that is not there. *)
(***************************************************************************)
HpiBalanced ==
    /\ ~head.fault /\ Black(head, head.root)
    /\ \A n \in inside :
          /\ head.red[n] => \A m \in Below(head, n) : ~head.red[m]
          /\ BlackHeight(head, RB_LEFT(head, n)) = BlackHeight(head, RB_RIGHT(head, n))

(***************************************************************************)
(* The tree holds exactly the elements inserted and not removed, every one *)
(* between those to its left and those to its right, and every node's      *)
(* parent field is the node it hangs from: RB_REMOVE copies the links of a *)
(* node with two children in the order that keeps both directions right.   *)
(***************************************************************************)
HpiIsASearchTree ==
    /\ Subtree(head, head.root) = inside
    /\ head.root # NULL => head.parent[head.root] = NULL
    /\ \A n \in inside :
          /\ \A m \in Below(head, n) : head.parent[m] = n
          /\ \A m \in Subtree(head, RB_LEFT(head, n)) : m < n
          /\ \A m \in Subtree(head, RB_RIGHT(head, n)) : m > n

Least(S) == IF S = {} THEN NULL ELSE CHOOSE m \in S : \A k \in S : m <= k
Greatest(S) == IF S = {} THEN NULL ELSE CHOOSE m \in S : \A k \in S : m >= k

(***************************************************************************)
(* "Finds the first node greater than or equal to the search key"          *)
(* (kylin_rb_hpi.h, RB_NFIND), and RB_FIND, RB_MIN, RB_MAX, RB_NEXT and    *)
(* RB_PREV find what their names say in the set of elements, after         *)
(* whatever rotations.                                                     *)
(***************************************************************************)
HpiSearchesAgree ==
    /\ RB_MINMAX(head, "left") = Least(inside) /\ RB_MINMAX(head, "right") = Greatest(inside)
    /\ \A n \in HpiElems : /\ RB_FIND(head, n) = IF n \in inside THEN n ELSE NULL
                           /\ RB_NFIND(head, n) = Least({m \in inside : m >= n})
    /\ \A n \in inside : /\ RB_NEXT(head, n) = Least({m \in inside : m > n})
                         /\ RB_PREV(head, n) = Greatest({m \in inside : m < n})

(***************************************************************************)
(* After any insertions and removals the macros leave a balanced search    *)
(* tree, and every search in it is right.                                  *)
(***************************************************************************)
HpiIsARedBlackTree == HpiBalanced /\ HpiIsASearchTree /\ HpiSearchesAgree
=============================================================================
