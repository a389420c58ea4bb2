------------------------------ MODULE MCLogBuf ------------------------------
(* LogBuf for TLC: one or two logging threads. *)
EXTENDS LogBuf

CONSTANTS t1, t2

OneCaller == {t1}
TwoCallers == {t1, t2}
OneLevel == {0}
=============================================================================
