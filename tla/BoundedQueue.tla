---------------------------- MODULE BoundedQueue ----------------------------
(***************************************************************************)
(* What a ring buffer promises: a first-in first-out queue of at most      *)
(* Capacity objects.                                                       *)
(***************************************************************************)
EXTENDS Naturals, Sequences

CONSTANTS Object, Capacity

VARIABLE q

Init == q = <<>>

Put(v) == Len(q) < Capacity /\ q' = Append(q, v)

Take == q # <<>> /\ q' = Tail(q)

Next == (\E v \in Object : Put(v)) \/ Take

Spec == Init /\ [][Next]_q
=============================================================================
