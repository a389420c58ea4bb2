----------------------------- MODULE Dictionary -----------------------------
(***************************************************************************)
(* What a dictionary promises: at most one value for each key.             *)
(***************************************************************************)
EXTENDS TLC

CONSTANTS Key, Val
VARIABLE dict

Init == dict = <<>>

Insert(k, v) == k \notin DOMAIN dict /\ dict' = dict @@ (k :> v)
Replace(k, v) == k \in DOMAIN dict /\ dict' = [dict EXCEPT ![k] = v]
Remove(k) == dict' = [j \in DOMAIN dict \ {k} |-> dict[j]]
Clear == dict' = <<>>

Next == \/ \E k \in Key, v \in Val : Insert(k, v) \/ Replace(k, v)
        \/ \E k \in Key : Remove(k)
        \/ Clear

Spec == Init /\ [][Next]_dict
=============================================================================
