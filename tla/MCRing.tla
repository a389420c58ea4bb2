------------------------------- MODULE MCRing -------------------------------
(* Ring for TLC: small sets of producers and consumers. *)
EXTENDS Ring, TLC

CONSTANTS p1, p2, c1, c2, a, b

OneProducer == {p1}
TwoProducers == {p1, p2}
OneConsumer == {c1}
TwoConsumers == {c1, c2}
OneItem == {a}
TwoItems == {a, b}

\* Threads of one role are interchangeable.
Symmetry == Permutations(TwoProducers) \cup Permutations(TwoConsumers)
=============================================================================
