---------------------------- MODULE LogBufProofs ----------------------------
(***************************************************************************)
(* Proof that a queued message is left without its flag by one race only,  *)
(* for any number of callers, log types, objects and any ring capacity.    *)
(***************************************************************************)
EXTENDS LogBuf, TLAPS

\* Why a message of type n may be without its flag
Excused(n) == raced[n] \/ \E t \in Callers : pc[t] = "mark" /\ idx[t] = n

\* The functions that the argument is about, by their domains
Shape == /\ pc = [t \in Callers |-> pc[t]]
         /\ idx = [t \in Callers |-> idx[t]]
         /\ ring = [n \in Types |-> ring[n]]
         /\ need_log = [n \in Types |-> need_log[n]]
         /\ raced = [n \in Types |-> raced[n]]

(***************************************************************************)
(* StrandedOnlyByThatRace is not inductive: when the flag is about to fall *)
(* nothing says that the ring is empty.  It need not be: a message may     *)
(* have come in since the ring was found empty, but only one whose caller  *)
(* has still to raise the flag, or has raised it in that very window.      *)
(***************************************************************************)
LInv == /\ Shape
        /\ \A n \in Types : ring[n] # <<>> /\ ~need_log[n] => Excused(n)
        /\ \A n \in Types : proc = "clear" /\ i = n /\ ring[n] # <<>> => Excused(n)

-----------------------------------------------------------------------------
LEMMA InitLInv == Init => LInv
  BY DEF Init, LInv, Shape

\* A step that leaves the rings, flags and callers alone, and does not reach
\* the clearing of a flag, keeps the invariant.
LEMMA Aside ==
    ASSUME LInv, UNCHANGED <<ring, need_log, pc, idx, raced>>,
           \/ UNCHANGED <<proc, i>>
           \/ proc' # "clear"
    PROVE  LInv'
  BY DEF LInv, Shape, Excused

LEMMA NextLInv == LInv /\ [Next]_vars => LInv'
<1> SUFFICES ASSUME LInv, [Next]_vars PROVE LInv'
  OBVIOUS
<1>1. CASE UNCHANGED vars
  BY <1>1, Aside DEF vars
<1>2. CASE Admin
  BY <1>2, Aside DEF Admin, Create, Destroy, Expand, Reduce, LevelSet, LoggerSet,
                     SetLoggers, callers, printer, tree
<1>3. ASSUME NEW t \in Callers, Log(t) PROVE LInv'
  BY <1>3 DEF Log, LInv, Shape, Excused, printer
<1>4. ASSUME NEW t \in Callers, Test(t) PROVE LInv'
  BY <1>4 DEF Test, NextType, LInv, Shape, Excused, printer
<1>5. ASSUME NEW t \in Callers, Enqueue(t) PROVE LInv'
  BY <1>5 DEF Enqueue, LInv, Shape, Excused, printer
<1>6. ASSUME NEW t \in Callers, Mark(t) PROVE LInv'
  BY <1>6 DEF Mark, NextType, LInv, Shape, Excused, printer
<1>7. CASE Scan
  BY <1>7, Aside DEF Scan, NextRound, callers
<1>8. CASE Dequeue
  BY <1>8 DEF Dequeue, LInv, Shape, Excused, callers
<1>9. CASE PrintMsg
  BY <1>9, Aside DEF PrintMsg, NextRound, callers
<1>10. CASE Peek
  BY <1>10 DEF Peek, NextRound, LInv, Shape, Excused, callers
<1>11. CASE Clear
  BY <1>11 DEF Clear, NextRound, LInv, Shape, Excused, callers
<1> QED
  BY <1>1, <1>2, <1>3, <1>4, <1>5, <1>6, <1>7, <1>8, <1>9, <1>10, <1>11
     DEF Next, Calling, Process

(***************************************************************************)
(* The flags of __buffer_process miss a message only by the race between   *)
(* `need_log[i] = KYLIN_TRUE' in buffer_enqueue and `need_log[type] =      *)
(* KYLIN_FALSE' in __buffer_dequeue.                                       *)
(***************************************************************************)
THEOREM LogBufStranded == Spec => []StrandedOnlyByThatRace
<1>1. LInv => StrandedOnlyByThatRace
  BY DEF LInv, Excused, StrandedOnlyByThatRace
<1> QED
  BY <1>1, InitLInv, NextLInv, PTL DEF Spec
=============================================================================
