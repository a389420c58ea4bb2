------------------------------ MODULE MCTimers ------------------------------
(* Three timers of one source, two of them with the same expire. *)
EXTENDS Timer

SrcDef == <<1, 1, 1>>
ExpireDef == <<1, 2, 1>>
=============================================================================
