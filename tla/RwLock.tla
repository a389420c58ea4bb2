------------------------------- MODULE RwLock -------------------------------
(***************************************************************************)
(* The spinning reader/writer lock of include/arch/kylin_rwlock.h.         *)
(*                                                                         *)
(* The whole lock is one 32-bit counter: the number of readers inside, or  *)
(* 0xFFFFFFFF while a writer is inside.  Both lock operations are loops    *)
(* around a plain read of the counter followed by a compare-and-set, so    *)
(* any number of steps of other threads fit between the two; both unlock   *)
(* operations are one locked increment or decrement of whatever the        *)
(* counter holds, with 32-bit wrap-around.                                 *)
(***************************************************************************)
EXTENDS Naturals, FiniteSets

CONSTANTS
    Threads,   \* the threads that use one lock
    MaxCnt     \* 0xFFFFFFFF in the code: the value that marks a writer

ASSUME ThreadsAssumption == IsFiniteSet(Threads)

\* One thread per reader: the counter cannot count up to the writer's mark.
ASSUME MaxCntAssumption == MaxCnt \in Nat /\ Cardinality(Threads) < MaxCnt

VARIABLES
    cnt,       \* rwl->cnt
    pc,        \* where each thread is
    x          \* each thread's local copy of the counter

vars == <<cnt, pc, x>>

PCs == {"idle", "read_load", "read_cas", "reading",
        "write_load", "write_cas", "writing"}

TypeOK == /\ cnt \in 0..MaxCnt
          /\ pc \in [Threads -> PCs]
          /\ x \in [Threads -> 0..MaxCnt]

Goto(t, l) == pc' = [pc EXCEPT ![t] = l]

Readers == {t \in Threads : pc[t] = "reading"}
Writers == {t \in Threads : pc[t] = "writing"}

-----------------------------------------------------------------------------
\* kylin_rwlock_init
Init == /\ cnt = 0
        /\ pc = [t \in Threads |-> "idle"]
        /\ x = [t \in Threads |-> 0]

\* (mutant of Inc: the counter does not wrap)
IncWide(c) == c + 1

\* kylin_atomic32_inc and kylin_atomic32_dec on an unsigned 32-bit counter
Inc(c) == (c + 1) % (MaxCnt + 1)
Dec(c) == IF c = 0 THEN MaxCnt ELSE c - 1

\* A thread enters kylin_rwlock_read_lock or kylin_rwlock_write_lock.
CallRead(t) == /\ pc[t] = "idle"
               /\ Goto(t, "read_load")
               /\ UNCHANGED <<cnt, x>>

CallWrite(t) == /\ pc[t] = "idle"
                /\ Goto(t, "write_load")
                /\ UNCHANGED <<cnt, x>>

\* x = rwl->cnt, and `continue' while the write lock is held
ReadLoad(t) == /\ pc[t] = "read_load"
               /\ x' = [x EXCEPT ![t] = cnt]
               /\ Goto(t, IF cnt = MaxCnt THEN "read_load" ELSE "read_cas")
               /\ UNCHANGED cnt

\* cmpset(&cnt, x, x + 1), looping when another thread moved the counter
ReadCas(t) == /\ pc[t] = "read_cas"
              /\ IF cnt = x[t]
                 THEN cnt' = Inc(x[t]) /\ Goto(t, "reading")
                 ELSE cnt' = cnt /\ Goto(t, "read_load")
              /\ UNCHANGED x

ReadUnlock(t) == /\ pc[t] = "reading"
                 /\ cnt' = Dec(cnt)
                 /\ Goto(t, "idle")
                 /\ UNCHANGED x

\* (mutant of WriteLoad: the test of read_lock, which lets x # 0 through)
WriteLoadAny(t) == /\ pc[t] = "write_load"
                   /\ x' = [x EXCEPT ![t] = cnt]
                   /\ Goto(t, IF cnt = 0 THEN "write_load" ELSE "write_cas")
                   /\ UNCHANGED cnt

\* x = rwl->cnt, and `continue' while any lock is held
WriteLoad(t) == /\ pc[t] = "write_load"
                /\ x' = [x EXCEPT ![t] = cnt]
                /\ Goto(t, IF cnt # 0 THEN "write_load" ELSE "write_cas")
                /\ UNCHANGED cnt

\* (mutant of WriteCas: a store instead of the compare-and-set)
WriteCasBlind(t) == /\ pc[t] = "write_cas"
                    /\ cnt' = MaxCnt
                    /\ Goto(t, "writing")
                    /\ UNCHANGED x

\* cmpset(&cnt, 0, 0xFFFFFFFF)
WriteCas(t) == /\ pc[t] = "write_cas"
               /\ IF cnt = 0
                  THEN cnt' = MaxCnt /\ Goto(t, "writing")
                  ELSE cnt' = cnt /\ Goto(t, "write_load")
               /\ UNCHANGED x

\* (mutant of WriteUnlock: the reader's decrement)
WriteUnlockDec(t) == /\ pc[t] = "writing"
                     /\ cnt' = Dec(cnt)
                     /\ Goto(t, "idle")
                     /\ UNCHANGED x

\* The writer's unlock wraps 0xFFFFFFFF around to 0.
WriteUnlock(t) == /\ pc[t] = "writing"
                  /\ cnt' = Inc(cnt)
                  /\ Goto(t, "idle")
                  /\ UNCHANGED x

Locking(t) == \/ ReadLoad(t) \/ ReadCas(t)
              \/ WriteLoad(t) \/ WriteCas(t)

Unlocking(t) == ReadUnlock(t) \/ WriteUnlock(t)

Next == \E t \in Threads :
          CallRead(t) \/ CallWrite(t) \/ Locking(t) \/ Unlocking(t)

Spec == Init /\ [][Next]_vars

(***************************************************************************)
(* A thread inside a lock operation keeps running, and a thread that holds *)
(* the lock releases it; nothing makes an idle thread ask for the lock.    *)
(***************************************************************************)
Fairness == \A t \in Threads : WF_vars(Locking(t)) /\ WF_vars(Unlocking(t))

FairSpec == Spec /\ Fairness

-----------------------------------------------------------------------------
(***************************************************************************)
(* kylin_rwlock_write_lock returns only when no other thread is inside,    *)
(* and no reader gets in while a writer is.                                *)
(***************************************************************************)
Exclusion == /\ Writers # {} => Readers = {}
             /\ \A s, t \in Writers : s = t

(***************************************************************************)
(* The comment on krwlock_t.cnt: the counter is 0xFFFFFFFF exactly while   *)
(* the write lock is held, and otherwise it is the number of read locks    *)
(* held, whatever stale copies the threads in the two loops carry.         *)
(***************************************************************************)
CntMeansHolders == cnt = IF Writers # {} THEN MaxCnt ELSE Cardinality(Readers)

(***************************************************************************)
(* A failed compare-and-set sends a thread round the loop again, but only  *)
(* because another thread changed the counter: if anybody wants the lock,  *)
(* somebody gets it (lock-freedom; a particular thread may starve).        *)
(***************************************************************************)
Wanted == \E t \in Threads :
            pc[t] \in {"read_load", "read_cas", "write_load", "write_cas"}

SomebodyGetsIn == Wanted ~> (Readers \cup Writers # {})

(***************************************************************************)
(* A writer starves only while others keep getting in: a thread that stays *)
(* in kylin_rwlock_write_lock for ever is outrun, again and again, by      *)
(* another thread that holds the lock.                                     *)
(***************************************************************************)
WriterStarvesOnlyIfOutrun ==
    \A t \in Threads :
        <>[](pc[t] \in {"write_load", "write_cas"})
            => []<>((Readers \cup Writers) \ {t} # {})
=============================================================================
