---------------------------- MODULE RwLockProofs ----------------------------
(***************************************************************************)
(* Exclusion and the meaning of the counter, for any finite set of threads *)
(* and any writer's mark larger than it.                                   *)
(***************************************************************************)
EXTENDS RwLock, FiniteSetTheorems, TLAPS

(***************************************************************************)
(* The inductive invariant: the counter means what its comment says, and   *)
(* a thread about to add a reader carries a copy that is not the writer's  *)
(* mark, so that adding one cannot wrap.                                   *)
(***************************************************************************)
IInv == /\ TypeOK
        /\ Exclusion
        /\ CntMeansHolders
        /\ \A t \in Threads : pc[t] = "read_cas" => x[t] # MaxCnt

(***************************************************************************)
(* The readers are a finite set that is smaller than the writer's mark.    *)
(***************************************************************************)
LEMMA ReadersFinite ==
    /\ IsFiniteSet(Readers)
    /\ Cardinality(Readers) \in Nat
    /\ Cardinality(Readers) < MaxCnt
<1>1. Readers \subseteq Threads
  BY DEF Readers
<1>2. /\ IsFiniteSet(Readers)
      /\ Cardinality(Readers) <= Cardinality(Threads)
  BY <1>1, ThreadsAssumption, FS_Subset
<1>3. Cardinality(Readers) \in Nat /\ Cardinality(Threads) \in Nat
  BY <1>2, ThreadsAssumption, FS_CardinalityType
<1> QED
  BY <1>2, <1>3, MaxCntAssumption

(***************************************************************************)
(* The locked increment and decrement, away from and at the wrap-around.   *)
(***************************************************************************)
LEMMA IncDec ==
    /\ \A c \in 0..MaxCnt : c # MaxCnt => Inc(c) = c + 1
    /\ Inc(MaxCnt) = 0
    /\ \A c \in 0..MaxCnt : c # 0 => Dec(c) = c - 1
<1>1. MaxCnt \in Nat
  BY MaxCntAssumption
<1>2. ASSUME NEW c \in 0..MaxCnt, c # MaxCnt PROVE Inc(c) = c + 1
  <2>1. c + 1 \in 0..MaxCnt /\ c + 1 < MaxCnt + 1
    BY <1>1, <1>2
  <2> QED
    BY <1>1, <2>1 DEF Inc
<1>3. Inc(MaxCnt) = 0
  BY <1>1 DEF Inc
<1> QED
  BY <1>1, <1>2, <1>3 DEF Dec

(***************************************************************************)
(* The counter is 0 after kylin_rwlock_init and nobody is inside.          *)
(***************************************************************************)
LEMMA InitIInv == Init => IInv
<1> SUFFICES ASSUME Init PROVE IInv
  OBVIOUS
<1>1. Readers = {} /\ Writers = {}
  BY DEF Init, Readers, Writers
<1>2. Cardinality(Readers) = 0
  BY <1>1, FS_EmptySet
<1>3. TypeOK
  BY MaxCntAssumption DEF Init, TypeOK, PCs
<1>4. \A t \in Threads : pc[t] # "read_cas"
  BY DEF Init
<1> QED
  BY <1>1, <1>2, <1>3, <1>4 DEF Init, IInv, Exclusion, CntMeansHolders

(***************************************************************************)
(* Every step of every thread keeps the inductive invariant.               *)
(***************************************************************************)
LEMMA NextIInv == IInv /\ [Next]_vars => IInv'
<1> SUFFICES ASSUME IInv, [Next]_vars PROVE IInv'
  OBVIOUS
<1>t. TypeOK /\ Exclusion /\ CntMeansHolders
  BY DEF IInv
<1>m. MaxCnt \in Nat /\ MaxCnt # 0
  BY MaxCntAssumption, ThreadsAssumption, FS_CardinalityType
<1>f. /\ IsFiniteSet(Readers)
      /\ Cardinality(Readers) \in Nat
      /\ Cardinality(Readers) < MaxCnt
  BY ReadersFinite
\* A step that neither enters nor leaves the lock keeps the counter.
<1>same. ASSUME NEW t \in Threads, NEW l \in PCs \ {"reading", "writing"},
                pc[t] \notin {"reading", "writing"},
                Goto(t, l), cnt' = cnt, x' \in [Threads -> 0..MaxCnt],
                \A s \in Threads \ {t} : x'[s] = x[s],
                l = "read_cas" => x'[t] # MaxCnt
         PROVE  IInv'
  <2>1. Readers' = Readers /\ Writers' = Writers
    BY <1>same, <1>t DEF Goto, TypeOK, Readers, Writers
  <2>2. TypeOK'
    BY <1>same, <1>t DEF Goto, TypeOK
  <2>3. \A s \in Threads : pc'[s] = "read_cas" => x'[s] # MaxCnt
    BY <1>same, <1>t DEF IInv, Goto, TypeOK
  <2> QED
    BY <2>1, <2>2, <2>3, <1>same, <1>t DEF IInv, Exclusion, CntMeansHolders
<1>1. ASSUME NEW t \in Threads, CallRead(t) \/ CallWrite(t)
      PROVE  IInv'
  BY <1>1, <1>same, <1>t DEF CallRead, CallWrite, PCs, TypeOK
<1>2. ASSUME NEW t \in Threads, ReadLoad(t) \/ WriteLoad(t)
      PROVE  IInv'
  <2>1. /\ x' \in [Threads -> 0..MaxCnt]
        /\ \A s \in Threads \ {t} : x'[s] = x[s]
        /\ x'[t] = cnt
    BY <1>2, <1>t DEF ReadLoad, WriteLoad, TypeOK
  <2>2. CASE ReadLoad(t)
    <3> DEFINE l == IF cnt = MaxCnt THEN "read_load" ELSE "read_cas"
    <3>1. l \in PCs \ {"reading", "writing"} /\ (l = "read_cas" => x'[t] # MaxCnt)
      BY <2>1 DEF PCs
    <3>2. Goto(t, l) /\ cnt' = cnt /\ pc[t] \notin {"reading", "writing"}
      BY <2>2 DEF ReadLoad
    <3> QED
      BY <3>1, <3>2, <2>1, <1>same
  <2>3. CASE WriteLoad(t)
    <3> DEFINE l == IF cnt # 0 THEN "write_load" ELSE "write_cas"
    <3>1. l \in PCs \ {"reading", "writing"} /\ l # "read_cas"
      BY DEF PCs
    <3>2. Goto(t, l) /\ cnt' = cnt /\ pc[t] \notin {"reading", "writing"}
      BY <2>3 DEF WriteLoad
    <3> QED
      BY <3>1, <3>2, <2>1, <1>same
  <2> QED
    BY <1>2, <2>2, <2>3
<1>3. ASSUME NEW t \in Threads, ReadCas(t)
      PROVE  IInv'
  <2>1. CASE cnt # x[t]
    BY <2>1, <1>3, <1>same, <1>t DEF ReadCas, PCs, TypeOK
  <2>2. CASE cnt = x[t]
    <3>1. /\ cnt # MaxCnt /\ cnt' = cnt + 1
          /\ Goto(t, "reading") /\ x' = x
      BY <2>2, <1>3, <1>t, IncDec DEF ReadCas, IInv, TypeOK
    <3>2. Writers = {} /\ cnt = Cardinality(Readers)
      BY <3>1, <1>t DEF CntMeansHolders
    <3>3. Readers' = Readers \cup {t} /\ t \notin Readers /\ Writers' = {}
      BY <3>1, <3>2, <1>3, <1>t DEF Goto, TypeOK, ReadCas, Readers, Writers
    <3>4. Cardinality(Readers') = Cardinality(Readers) + 1
      BY <3>3, <1>f, FS_AddElement
    <3>5. TypeOK'
      BY <3>1, <1>t, <1>m DEF Goto, TypeOK, PCs
    <3>6. \A s \in Threads : pc'[s] = "read_cas" => x'[s] # MaxCnt
      BY <3>1, <1>t DEF IInv, Goto, TypeOK
    <3> QED
      BY <3>1, <3>2, <3>3, <3>4, <3>5, <3>6
      DEF IInv, Exclusion, CntMeansHolders
  <2> QED
    BY <2>1, <2>2
<1>4. ASSUME NEW t \in Threads, WriteCas(t)
      PROVE  IInv'
  <2>1. CASE cnt # 0
    BY <2>1, <1>4, <1>same, <1>t DEF WriteCas, PCs, TypeOK
  <2>2. CASE cnt = 0
    <3>1. cnt' = MaxCnt /\ Goto(t, "writing") /\ x' = x
      BY <2>2, <1>4 DEF WriteCas
    <3>2. Writers = {} /\ Cardinality(Readers) = 0
      BY <2>2, <1>t, <1>m DEF CntMeansHolders
    <3>3. Readers = {}
      BY <3>2, <1>f, FS_EmptySet
    <3>4. Readers' = {} /\ Writers' = {t}
      BY <3>1, <3>2, <3>3, <1>t DEF Goto, TypeOK, Readers, Writers
    <3>5. TypeOK'
      BY <3>1, <1>t, <1>m DEF Goto, TypeOK, PCs
    <3>6. \A s \in Threads : pc'[s] = "read_cas" => x'[s] # MaxCnt
      BY <3>1, <1>t DEF IInv, Goto, TypeOK
    <3> QED
      BY <3>1, <3>4, <3>5, <3>6 DEF IInv, Exclusion, CntMeansHolders
  <2> QED
    BY <2>1, <2>2
<1>5. ASSUME NEW t \in Threads, ReadUnlock(t)
      PROVE  IInv'
  <2>1. t \in Readers
    BY <1>5 DEF ReadUnlock, Readers
  <2>2. Writers = {} /\ cnt = Cardinality(Readers)
    BY <2>1, <1>t DEF Exclusion, CntMeansHolders
  <2>3. Cardinality(Readers \ {t}) = Cardinality(Readers) - 1
    BY <2>1, <1>f, FS_RemoveElement
  <2>4. Cardinality(Readers \ {t}) \in Nat
    BY <1>f, FS_RemoveElement, FS_CardinalityType
  <2>5. cnt # 0 /\ cnt' = cnt - 1 /\ Goto(t, "idle") /\ x' = x
    BY <2>2, <2>3, <2>4, <1>5, <1>t, <1>f, IncDec DEF ReadUnlock, TypeOK
  <2>6. Readers' = Readers \ {t} /\ Writers' = {}
    BY <2>2, <2>5, <1>t DEF Goto, TypeOK, Readers, Writers
  <2>7. TypeOK'
    BY <2>5, <1>t, <1>m DEF Goto, TypeOK, PCs
  <2>8. \A s \in Threads : pc'[s] = "read_cas" => x'[s] # MaxCnt
    BY <2>5, <1>t DEF IInv, Goto, TypeOK
  <2> QED
    BY <2>2, <2>3, <2>5, <2>6, <2>7, <2>8 DEF IInv, Exclusion, CntMeansHolders
<1>6. ASSUME NEW t \in Threads, WriteUnlock(t)
      PROVE  IInv'
  <2>1. t \in Writers
    BY <1>6 DEF WriteUnlock, Writers
  <2>2. Writers = {t} /\ Readers = {} /\ cnt = MaxCnt
    BY <2>1, <1>t DEF Exclusion, CntMeansHolders
  <2>3. cnt' = 0 /\ Goto(t, "idle") /\ x' = x
    BY <2>2, <1>6, IncDec DEF WriteUnlock
  <2>4. Readers' = {} /\ Writers' = {}
    BY <2>2, <2>3, <1>t DEF Goto, TypeOK, Readers, Writers
  <2>5. Cardinality(Readers') = 0
    BY <2>4, FS_EmptySet
  <2>6. TypeOK'
    BY <2>3, <1>t, <1>m DEF Goto, TypeOK, PCs
  <2>7. \A s \in Threads : pc'[s] = "read_cas" => x'[s] # MaxCnt
    BY <2>3, <1>t DEF IInv, Goto, TypeOK
  <2> QED
    BY <2>3, <2>4, <2>5, <2>6, <2>7 DEF IInv, Exclusion, CntMeansHolders
<1>7. CASE UNCHANGED vars
  <2>1. Readers' = Readers /\ Writers' = Writers
    BY <1>7 DEF vars, Readers, Writers
  <2> QED
    BY <1>7, <2>1, <1>t
    DEF vars, IInv, TypeOK, Exclusion, CntMeansHolders
<1> QED
  BY <1>1, <1>2, <1>3, <1>4, <1>5, <1>6, <1>7 DEF Next, Locking, Unlocking

(***************************************************************************)
(* kylin_rwlock is a correct reader/writer lock for any number of threads  *)
(* below the writer's mark: a writer is alone inside.                      *)
(***************************************************************************)
THEOREM RwLockExclusion == Spec => []Exclusion
<1>1. IInv => Exclusion
  BY DEF IInv
<1> QED
  BY InitIInv, NextIInv, <1>1, PTL DEF Spec

(***************************************************************************)
(* The comment on krwlock_t.cnt holds in every reachable state: 0xFFFFFFFF *)
(* while a writer is inside, the number of readers otherwise.              *)
(***************************************************************************)
THEOREM RwLockCounter == Spec => []CntMeansHolders
<1>1. IInv => CntMeansHolders
  BY DEF IInv
<1> QED
  BY InitIInv, NextIInv, <1>1, PTL DEF Spec

(***************************************************************************)
(* The counter, the threads' positions and their copies of the counter     *)
(* keep their types: the counter never leaves 32 bits.                     *)
(***************************************************************************)
THEOREM RwLockTyped == Spec => []TypeOK
<1>1. IInv => TypeOK
  BY DEF IInv
<1> QED
  BY InitIInv, NextIInv, <1>1, PTL DEF Spec
=============================================================================
