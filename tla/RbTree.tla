------------------------------- MODULE RbTree -------------------------------
(***************************************************************************)
(* The red-black trees of kylin_rb.c and of the macros of kylin_rb_hpi.h:  *)
(* the rotations and recolourings, which the two share line by line, and   *)
(* the searches.  A tree is a record of pointer fields, indexed by node;   *)
(* what the code does to the left and to the right is one operator with a  *)
(* side.  fault: a NULL pointer has been followed.                         *)
(***************************************************************************)
EXTENDS Integers, FiniteSets

NULL == 0
Sides == {"left", "right"}

NewTree(nodes) ==
    [root |-> NULL, fault |-> FALSE,
     child |-> [s \in Sides |-> [n \in nodes |-> NULL]],
     parent |-> [n \in nodes |-> NULL],
     red |-> [n \in nodes |-> FALSE],
     val |-> [n \in nodes |-> n]]

opposite(s) == IF s = "left" THEN "right" ELSE "left"

RB_LEFT(t, n) == t.child["left"][n]
RB_RIGHT(t, n) == t.child["right"][n]

Black(t, n) == n = NULL \/ ~t.red[n]

Blackened(t, n) == IF n = NULL THEN t ELSE [t EXCEPT !.red[n] = FALSE]

\* The side of p on which n is
Side(t, p, n) == IF RB_LEFT(t, p) = n THEN "left" ELSE "right"

\* RB_PARENT(n) = p, if there is an n
Adopted(t, n, p) == IF n = NULL THEN t ELSE [t EXCEPT !.parent[n] = p]

\* The link from p to n, or the root when there is no p, becomes m
Relinked(t, p, n, m) == IF p = NULL THEN [t EXCEPT !.root = m]
                        ELSE [t EXCEPT !.child[Side(t, p, n)][p] = m]

-----------------------------------------------------------------------------
\* n goes down to side s, its other child comes up
Rotated(t, n, s) ==
    LET tmp == t.child[opposite(s)][n]
        mid == t.child[s][tmp]
        t1 == Adopted([t EXCEPT !.child[opposite(s)][n] = mid], mid, n)
        t2 == Relinked([t1 EXCEPT !.parent[tmp] = t.parent[n]], t.parent[n], n, tmp)
    IN  [t2 EXCEPT !.child[s][tmp] = n, !.parent[n] = tmp]

rotate_left(t, n) == Rotated(t, n, "left")
rotate_right(t, n) == Rotated(t, n, "right")

rotate(t, n, s) == IF s = "left" THEN rotate_left(t, n) ELSE rotate_right(t, n)

RECURSIVE insert_color(_, _)
insert_color(t, n) ==
    LET parent == t.parent[n]
        gparent == t.parent[parent]
        s == Side(t, gparent, parent)
        uncle == t.child[opposite(s)][gparent]
        inner == t.child[opposite(s)][parent] = n
        upper == IF inner THEN n ELSE parent
        lower == IF inner THEN parent ELSE n
        t1 == IF inner THEN rotate(t, parent, s) ELSE t
    IN  IF Black(t, parent) THEN [t EXCEPT !.red[t.root] = FALSE]
        ELSE IF ~Black(t, uncle)
        THEN insert_color([t EXCEPT !.red[uncle] = FALSE, !.red[parent] = FALSE,
                                    !.red[gparent] = TRUE], gparent)
        ELSE insert_color(rotate([t1 EXCEPT !.red[upper] = FALSE, !.red[gparent] = TRUE],
                                 gparent, opposite(s)), lower)

\* node, which may be NULL, has lost a black node above it.  Its sibling is
\* followed without a test for NULL.
RECURSIVE remove_color(_, _, _)
remove_color(t, parent, node) ==
    LET s == Side(t, parent, node)
        o == opposite(s)
        tmp0 == t.child[o][parent]
        t1 == IF t.red[tmp0]
              THEN rotate([t EXCEPT !.red[tmp0] = FALSE, !.red[parent] = TRUE], parent, s)
              ELSE t
        tmp1 == t1.child[o][parent]
        inner == t1.child[s][tmp1]
        t2 == IF Black(t1, t1.child[o][tmp1])
              THEN rotate([Blackened(t1, inner) EXCEPT !.red[tmp1] = TRUE], tmp1, o)
              ELSE t1
        tmp2 == t2.child[o][parent]
        outer == t2.child[o][tmp2]
        t3 == rotate([Blackened(t2, outer) EXCEPT !.red[tmp2] = t2.red[parent],
                                                  !.red[parent] = FALSE], parent, s)
    IN  IF ~Black(t, node) \/ node = t.root
        THEN Blackened(t, node)
        ELSE IF tmp0 = NULL THEN [t EXCEPT !.fault = TRUE]
        ELSE IF Black(t1, inner) /\ Black(t1, t1.child[o][tmp1])
        THEN remove_color([t1 EXCEPT !.red[tmp1] = TRUE], t1.parent[parent], parent)
        ELSE [t3 EXCEPT !.red[t3.root] = FALSE]

-----------------------------------------------------------------------------
\* The node furthest to side s below n
RECURSIVE Outermost(_, _, _)
Outermost(t, n, s) == IF t.child[s][n] = NULL THEN n ELSE Outermost(t, t.child[s][n], s)

\* n, which has at most one child, is replaced by it
ChildOf(t, n) == IF RB_LEFT(t, n) = NULL THEN RB_RIGHT(t, n) ELSE RB_LEFT(t, n)
Spliced(t, n) == Relinked(Adopted(t, ChildOf(t, n), t.parent[n]), t.parent[n], n, ChildOf(t, n))

\* (mutant of Recoloured: a black node is taken out and nothing else is done)
RecolouredNever(t, wasred, parent, child) == t

Recoloured(t, wasred, parent, child) == IF wasred THEN t ELSE remove_color(t, parent, child)

\* (mutant of Replaced: the right child keeps its parent)
ReplacedLeft(t, old, elm) ==
    LET t1 == Relinked(t, t.parent[old], old, elm)
    IN  Adopted(t1, RB_LEFT(t1, old), elm)

\* The links of old are given to the node elm that takes its place
Replaced(t, old, elm) ==
    LET t1 == Relinked(t, t.parent[old], old, elm)
    IN  Adopted(Adopted(t1, RB_LEFT(t1, old), elm), RB_RIGHT(t1, old), elm)

\* From the node up while it is on side s of its parent, and once more
RECURSIVE Climbed(_, _, _)
Climbed(t, n, s) ==
    LET p == t.parent[n]
    IN  IF p # NULL /\ n = t.child[s][p] THEN Climbed(t, p, s) ELSE p

\* (mutant of Neighbour: it goes up at most once)
NeighbourNear(t, n, s) ==
    IF t.child[s][n] # NULL THEN Outermost(t, t.child[s][n], opposite(s)) ELSE t.parent[n]

\* The neighbour of n on side s in the order of the tree
Neighbour(t, n, s) ==
    LET p == t.parent[n]
    IN  IF t.child[s][n] # NULL THEN Outermost(t, t.child[s][n], opposite(s))
        ELSE IF p # NULL /\ n = t.child[opposite(s)][p] THEN p
        ELSE Climbed(t, n, s)
=============================================================================
