------------------------------ MODULE MCRwLock ------------------------------
(* RwLock for TLC: three threads, and a counter that is one bit wider than *)
(* they can fill.                                                          *)
EXTENDS RwLock

CONSTANTS t1, t2, t3

MCThreads == {t1, t2, t3}
MCMaxCnt == 7
=============================================================================
