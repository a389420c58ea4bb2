-------------------------------- MODULE Set ---------------------------------
(***************************************************************************)
(* kylin_set.c: an array of at most cap values, kept sorted on request.    *)
(* opts.compare compares integers, or what two pointers point at.          *)
(***************************************************************************)
EXTENDS Integers, Sequences, SequencesExt, BagsExt

CONSTANTS
    SetCap,     \* opts.cap
    SetVals     \* the values

VARIABLES
    set_val,     \* val[0 .. used - 1]
    set_opts,    \* is_order, and val_type: "int", or "others" for a pointer
    set_stage,   \* "ok", or "dangling": its pointers have been freed
    set_bag      \* history: the values inserted and not removed

set_vars == <<set_val, set_opts, set_stage, set_bag>>

kylin_set_create ==
    /\ set_val = <<>> /\ set_stage = "ok" /\ set_bag = EmptyBag
    /\ set_opts \in [is_order : BOOLEAN, val_type : {"int", "others"}]

kylin_set_count == Len(set_val)

\* Where a new value goes: before the first one that it is less than. compare is
\* given the address of the value: for an integer that is right, for a pointer
\* it compares the bytes of the pointer, with any result.
Place(v) ==
    LET above == {i \in DOMAIN set_val : v < set_val[i]}
    IN  IF ~set_opts.is_order THEN {Len(set_val) + 1}
        ELSE IF set_opts.val_type = "others" THEN 1..Len(set_val) + 1
        ELSE {IF above = {} THEN Len(set_val) + 1 ELSE CHOOSE i \in above : \A j \in above : i <= j}

\* (mutant of kylin_set_insert: the capacity is not tested)
kylin_set_insert_unbounded(v) ==
    /\ set_stage = "ok" /\ Len(set_val) <= SetCap
    /\ \E p \in Place(v) : set_val' = InsertAt(set_val, p, v)
    /\ set_bag' = set_bag (+) SetToBag({v}) /\ UNCHANGED <<set_opts, set_stage>>

\* (mutant of kylin_set_insert: the value goes after the one it is less than)
kylin_set_insert_late(v) ==
    /\ set_stage = "ok" /\ Len(set_val) # SetCap
    /\ \E p \in Place(v) :
         set_val' = InsertAt(set_val, IF p > Len(set_val) THEN p ELSE p + 1, v)
    /\ set_bag' = set_bag (+) SetToBag({v}) /\ UNCHANGED <<set_opts, set_stage>>

kylin_set_insert(v) ==
    /\ set_stage = "ok" /\ Len(set_val) # SetCap
    /\ \E p \in Place(v) : set_val' = InsertAt(set_val, p, v)
    /\ set_bag' = set_bag (+) SetToBag({v}) /\ UNCHANGED <<set_opts, set_stage>>

kylin_set_remove_by_index(i) ==
    /\ set_stage = "ok" /\ i \in DOMAIN set_val
    /\ set_val' = RemoveAt(set_val, i) /\ set_bag' = set_bag (-) SetToBag({set_val[i]})
    /\ UNCHANGED <<set_opts, set_stage>>

\* The first index with the value, 0 if there is none
FirstIndex(v) == IF v \in ToSet(set_val) THEN SelectInSeq(set_val, LAMBDA w : w = v) ELSE 0

kylin_set_remove(v) == FirstIndex(v) # 0 /\ kylin_set_remove_by_index(FirstIndex(v))

kylin_set_find(v) == IF FirstIndex(v) = 0 THEN {} ELSE {v}
kylin_set_find_by_index(i) == set_val[i]
kylin_set_random == ToSet(set_val)

kylin_set_first == set_val[1]
kylin_set_last == set_val[Len(set_val)]

\* (mutant of kylin_set_next: the last value is not reached)
kylin_set_next_short(v) ==
    IF FirstIndex(v) \in 1..Len(set_val) - 2 THEN set_val[FirstIndex(v) + 1] ELSE 0

\* 0 stands for NULL: the end
kylin_set_next(v) == IF FirstIndex(v) \in 1..Len(set_val) - 1 THEN set_val[FirstIndex(v) + 1] ELSE 0
kylin_set_prev(v) == IF FirstIndex(v) \in 2..Len(set_val) THEN set_val[FirstIndex(v) - 1] ELSE 0

\* The values are freed; used is not reset
kylin_set_clear ==
    /\ set_stage = "ok"
    /\ set_stage' = IF set_opts.val_type = "others" /\ set_val # <<>> THEN "dangling" ELSE "ok"
    /\ UNCHANGED <<set_val, set_opts, set_bag>>

\* Its two sorts are empty functions
kylin_set_order == set_stage = "ok" /\ UNCHANGED set_vars

SetNext == \/ kylin_set_clear \/ kylin_set_order
           \/ \E v \in SetVals : kylin_set_insert(v) \/ kylin_set_remove(v)
           \/ \E i \in 1..SetCap : kylin_set_remove_by_index(i)

-----------------------------------------------------------------------------
\* The first n values of a loop of the form v = first, next(v), next(next(v)) ...
Visited(n) == LET visit[i \in 1..n] == IF i = 1 THEN kylin_set_first
                                       ELSE IF visit[i - 1] = 0 THEN 0 ELSE kylin_set_next(visit[i - 1])
              IN  visit

(***************************************************************************)
(* The set never holds more than cap values, and holds each value as often *)
(* as it was inserted and not removed: nothing refuses a duplicate.        *)
(***************************************************************************)
SetHoldsTheBag == /\ Len(set_val) <= SetCap
                  /\ set_bag = [v \in ToSet(set_val) |-> Len(SelectSeq(set_val, LAMBDA w : w = v))]

(***************************************************************************)
(* An ordered set of integers is sorted after every insertion and removal. *)
(***************************************************************************)
SetSorted == set_opts.is_order /\ set_opts.val_type = "int" =>
                 \A i, j \in DOMAIN set_val : i < j => set_val[i] <= set_val[j]

(***************************************************************************)
(* A loop over kylin_set_first and kylin_set_next meets every value once   *)
(* and ends, exactly when no value is in the set twice: next looks its     *)
(* argument up and continues after the first one that is equal.            *)
(***************************************************************************)
SetWalkEnds ==
    set_val # <<>> =>
        LET n == Len(set_val) + 1
        IN  (Visited(n) = Append(set_val, 0)) <=> IsInjective(set_val)

(***************************************************************************)
(* kylin_set_insert and kylin_set_remove keep the values, their order and  *)
(* the end of a walk.                                                      *)
(***************************************************************************)
SetKeepsItsValues == SetHoldsTheBag /\ SetSorted /\ SetWalkEnds
=============================================================================
