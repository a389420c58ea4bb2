----------------------------- MODULE RingProofs -----------------------------
(***************************************************************************)
(* The ring with one producer and one consumer, for any capacity and any   *)
(* objects: no object is lost or invented, the ring is a queue of cap - 1  *)
(* objects, and a consumer loads what its producer stored.                 *)
(***************************************************************************)
EXTENDS Ring, SequenceTheorems, TLAPS

\* At most one producer and one consumer, and they are different threads
SingleEach == /\ \A s, t \in Producers : s = t
              /\ \A s, t \in Consumers : s = t
              /\ Producers \cap Consumers = {}

(***************************************************************************)
(* The inductive invariant.  The two sides' copies of their own index are  *)
(* always current; the other side's index can only have moved away since   *)
(* it was read, so the test for a full (empty) ring still stands when the  *)
(* compare-and-set comes; and nothing a producer does reaches the slot a   *)
(* consumer settled on, except the store that slot was waiting for.        *)
(***************************************************************************)
ProducerInv(p) ==
    /\ pc[p] \in {"idle"} \cup EnqPCs
    /\ pc[p] \in {"enq_tail", "enq_cas"} => lhead[p] = head
    /\ pc[p] = "enq_cas" => Succ(head) # tail
    /\ pc[p] = "enq_store" => Succ(lhead[p]) = head
    /\ pc[p] \in EnqPCs => item[p] \in Items

ConsumerInv(c) ==
    /\ pc[c] \in {"idle"} \cup DeqPCs \cup PeekPCs
    /\ pc[c] \in {"deq_head", "deq_cas", "peek_head", "peek_load"} => ltail[c] = tail
    /\ pc[c] \in {"deq_cas", "peek_load"} => tail # head
    /\ pc[c] = "deq_load" => Succ(ltail[c]) = tail
    /\ pc[c] \in {"deq_load", "peek_load"} => due[c] = Held(Succ(ltail[c]))

RInv == /\ TypeOK
        /\ live = Dist(tail, head)
        /\ \A p \in Producers : ProducerInv(p)
        /\ \A c \in Consumers : ConsumerInv(c)
        /\ stage = "closing" => \A t \in Threads : pc[t] = "idle"

-----------------------------------------------------------------------------
(***************************************************************************)
(* Arithmetic on slot numbers: the successor stays in range and is         *)
(* injective; moving head (tail) on adds (removes) one object.             *)
(***************************************************************************)
LEMMA SuccFacts ==
    /\ \A i \in Slots : Succ(i) \in Slots /\ Succ(i) # i
    /\ \A i, j \in Slots : Succ(i) = Succ(j) => i = j
  BY CapAssumption DEF Slots, Succ

LEMMA DistFacts ==
    ASSUME NEW i \in Slots, NEW j \in Slots
    PROVE  /\ Dist(i, j) \in 0..Cap - 1
           /\ Dist(i, j) = 0 <=> i = j
           /\ Succ(j) # i => Dist(i, Succ(j)) = Dist(i, j) + 1
           /\ i # j => Dist(Succ(i), j) = Dist(i, j) - 1
           /\ Succ(j) # i => Dist(i, j) < Cap - 1
  BY CapAssumption DEF Slots, Succ, Dist

(***************************************************************************)
(* The k-th slot after tail: all different from the slot after head while  *)
(* the ring is not full, and shifted by one when tail moves on.            *)
(***************************************************************************)
LEMMA SlotFacts ==
    ASSUME NEW i \in Slots, NEW j \in Slots
    PROVE  /\ \A k \in 1..Dist(i, j) : SlotAfter(i, k) \in Slots
           /\ Succ(j) # i => /\ \A k \in 1..Dist(i, j) : SlotAfter(i, k) # Succ(j)
                             /\ SlotAfter(i, Dist(i, j) + 1) = Succ(j)
           /\ i # j => \A k \in 1..Dist(i, j) - 1 :
                           SlotAfter(Succ(i), k) = SlotAfter(i, k + 1)
           /\ i # j => SlotAfter(i, 1) = Succ(i)
  BY CapAssumption DEF Slots, Succ, Dist, SlotAfter

-----------------------------------------------------------------------------
(***************************************************************************)
(* kylin_ring_create establishes the invariant.                            *)
(***************************************************************************)
LEMMA InitRInv == Init => RInv
<1> SUFFICES ASSUME Init PROVE RInv
  OBVIOUS
<1>1. 0 \in Slots
  BY CapAssumption DEF Slots
<1>2. TypeOK
  BY <1>1, OvertakeAssumption DEF Init, TypeOK
<1>3. live = Dist(tail, head)
  BY <1>1, DistFacts DEF Init
<1>4. \A t \in Threads : pc[t] = "idle"
  BY DEF Init
<1>5. \A p \in Producers : ProducerInv(p)
  BY <1>4 DEF Threads, ProducerInv, EnqPCs
<1>6. \A c \in Consumers : ConsumerInv(c)
  BY <1>4 DEF Threads, ConsumerInv, DeqPCs, PeekPCs
<1> QED
  BY <1>2, <1>3, <1>4, <1>5, <1>6 DEF RInv

(***************************************************************************)
(* The objects of the slots nobody claims or stores in do not change.      *)
(***************************************************************************)
LEMMA HeldSame ==
    ASSUME NEW s, Storing(s)' = Storing(s), val'[s] = val[s],
           \A p \in Storing(s) : item'[p] = item[p]
    PROVE  Held(s)' = Held(s)
  BY DEF Held, Storing

(***************************************************************************)
(* Every step keeps the types.                                             *)
(***************************************************************************)
LEMMA NextTyped == ASSUME TypeOK, [Next]_vars PROVE TypeOK'
<1>i. 0 \in Slots
  BY CapAssumption DEF Slots
<1>h. \A s \in Slots : Held(s) \in Items \cup {NULL}
  <2> SUFFICES ASSUME NEW s \in Slots PROVE Held(s) \in Items \cup {NULL}
    OBVIOUS
  <2>1. CASE Storing(s) = {}
    BY <2>1 DEF Held, TypeOK
  <2>2. CASE Storing(s) # {}
    <3>1. (CHOOSE p \in Storing(s) : TRUE) \in Threads
      BY <2>2 DEF Storing, Threads
    <3> QED
      BY <2>2, <3>1 DEF Held, TypeOK
  <2> QED
    BY <2>1, <2>2
<1>o. ASSUME NEW t, NEW P, Overtake(t, P)
      PROVE  passed' \in [Threads -> 0..MaxOvertake]
  BY <1>o, OvertakeAssumption DEF Overtake, TypeOK
<1>n. ASSUME NEW t \in Threads, NotPassed(t)
      PROVE  passed' \in [Threads -> 0..MaxOvertake]
  BY <1>n, OvertakeAssumption DEF NotPassed, TypeOK
<1>0. CASE UNCHANGED vars
  BY <1>0 DEF vars, TypeOK
<1>1. ASSUME NEW t \in Threads, EnqCall(t) \/ DeqCall(t) \/ PeekCall(t)
      PROVE  TypeOK'
  BY <1>1 DEF EnqCall, DeqCall, PeekCall, Goto, locals, TypeOK, EnqPCs, DeqPCs, PeekPCs
<1>2. ASSUME NEW t \in Threads, EnqHead(t) \/ DeqTail(t)
      PROVE  TypeOK'
  BY <1>2, <1>n DEF EnqHead, DeqTail, Goto, TypeOK, EnqPCs, DeqPCs
<1>3. ASSUME NEW t \in Threads, EnqTail(t) \/ DeqHead(t) \/ PeekTail(t)
      PROVE  TypeOK'
  BY <1>3 DEF EnqTail, DeqHead, PeekTail, Goto, TypeOK, EnqPCs, DeqPCs, PeekPCs
<1>4. ASSUME NEW t \in Threads, EnqCas(t)
      PROVE  TypeOK'
  BY <1>4, <1>o, SuccFacts DEF EnqCas, Goto, locals, TypeOK, EnqPCs
<1>5. ASSUME NEW t \in Threads, DeqCas(t)
      PROVE  TypeOK'
  BY <1>5, <1>o, <1>h, SuccFacts DEF DeqCas, Goto, TypeOK, DeqPCs
<1>6. ASSUME NEW t \in Threads, PeekHead(t)
      PROVE  TypeOK'
  BY <1>6, <1>h, SuccFacts DEF PeekHead, Goto, TypeOK, PeekPCs
<1>7. ASSUME NEW t \in Threads, EnqStore(t) \/ DeqLoad(t) \/ PeekLoad(t)
      PROVE  TypeOK'
  BY <1>7, SuccFacts DEF EnqStore, DeqLoad, PeekLoad, Goto, TypeOK
<1>8. CASE Destroy \/ Drain \/ Recreate
  BY <1>8, <1>i, SuccFacts DEF Destroy, Drain, Recreate, locals, TypeOK
<1>9. Producers \subseteq Threads /\ Consumers \subseteq Threads
  BY DEF Threads
<1> QED
  BY <1>0, <1>1, <1>2, <1>3, <1>4, <1>5, <1>6, <1>7, <1>8, <1>9
  DEF Next, Step, Enqueue, Dequeue, Peek

(***************************************************************************)
(* What a producer's step does to the objects held: a claim adds one at    *)
(* the slot after head and touches no other, and everything else, the      *)
(* store included, changes none.                                           *)
(***************************************************************************)
LEMMA ProducerHeld ==
    ASSUME SingleEach, RInv, NEW p \in Producers
    PROVE  /\ EnqCall(p) \/ EnqHead(p) \/ EnqTail(p) \/ EnqStore(p)
                => \A s \in Slots : Held(s)' = Held(s)
           /\ EnqCas(p) /\ head = lhead[p]
                => /\ \A s \in Slots \ {Succ(head)} : Held(s)' = Held(s)
                   /\ \A s \in Slots : s = Succ(head) => Held(s)' = item[p]
           /\ EnqCas(p) /\ head # lhead[p]
                => \A s \in Slots : Held(s)' = Held(s)
<1>t. TypeOK /\ p \in Threads /\ \A q \in Producers : q = p
  BY DEF RInv, SingleEach, Threads
<1>1. ASSUME EnqCall(p) \/ EnqHead(p) \/ EnqTail(p) \/ (EnqCas(p) /\ head # lhead[p]),
             NEW s \in Slots
      PROVE  Held(s)' = Held(s)
  <2>1. Storing(s) = {} /\ Storing(s)' = {} /\ val' = val
    BY <1>1, <1>t DEF EnqCall, EnqHead, EnqTail, EnqCas, Goto, locals, Storing, TypeOK
  <2> QED
    BY <2>1 DEF Held
<1>2. ASSUME EnqStore(p), NEW s \in Slots
      PROVE  Held(s)' = Held(s)
  <2>1. Storing(s)' = {}
    BY <1>2, <1>t DEF EnqStore, Goto, Storing, TypeOK
  <2>2. val' = [val EXCEPT ![Succ(lhead[p])] = item[p]] /\ lhead[p] \in Slots
    BY <1>2, <1>t DEF EnqStore, TypeOK
  <2>3. CASE s = Succ(lhead[p])
    <3>1. Storing(s) = {p}
      BY <2>3, <1>2, <1>t DEF EnqStore, Storing
    <3>2. (CHOOSE q \in Storing(s) : TRUE) = p
      BY <3>1
    <3>3. Held(s) = item[p]
      BY <3>1, <3>2 DEF Held
    <3>4. val'[s] = item[p]
      BY <2>2, <2>3, <1>t DEF TypeOK
    <3> QED
      BY <2>1, <3>3, <3>4 DEF Held
  <2>4. CASE s # Succ(lhead[p])
    <3>1. Storing(s) = {}
      BY <2>4, <1>t DEF Storing
    <3>2. val'[s] = val[s]
      BY <2>2, <2>4, <1>t DEF TypeOK
    <3> QED
      BY <2>1, <3>1, <3>2 DEF Held
  <2> QED
    BY <2>3, <2>4
<1>3. ASSUME EnqCas(p), head = lhead[p]
      PROVE  /\ \A s \in Slots \ {Succ(head)} : Held(s)' = Held(s)
             /\ \A s \in Slots : s = Succ(head) => Held(s)' = item[p]
  <2>1. /\ \A s : Storing(s) = {}
        /\ pc'[p] = "enq_store" /\ val' = val /\ lhead' = lhead /\ item' = item
    BY <1>3, <1>t DEF EnqCas, Goto, locals, Storing, TypeOK
  <2>2. ASSUME NEW s \in Slots \ {Succ(head)} PROVE Held(s)' = Held(s)
    <3>1. Storing(s)' = {}
      BY <2>1, <1>3, <1>t DEF Storing
    <3> QED
      BY <3>1, <2>1 DEF Held
  <2>3. ASSUME NEW s \in Slots, s = Succ(head) PROVE Held(s)' = item[p]
    <3>1. Storing(s)' = {p}
      BY <2>1, <2>3, <1>3, <1>t DEF Storing
    <3>2. (CHOOSE q \in Storing(s)' : TRUE) = p
      BY <3>1
    <3> QED
      BY <3>1, <3>2, <2>1 DEF Held
  <2> QED
    BY <2>2, <2>3
<1> QED
  BY <1>1, <1>2, <1>3

(***************************************************************************)
(* A consumer's step changes no object held.                               *)
(***************************************************************************)
LEMMA ConsumerHeld ==
    ASSUME SingleEach, RInv, NEW c \in Consumers,
           DeqCall(c) \/ PeekCall(c) \/ Dequeue(c) \/ Peek(c)
    PROVE  \A s : Held(s)' = Held(s)
<1>1. /\ val' = val /\ item' = item
      /\ \A p \in Producers : (pc'[p] = "enq_store" <=> pc[p] = "enq_store")
                              /\ lhead'[p] = lhead[p]
  BY DEF SingleEach, RInv, TypeOK, Threads, Goto, locals, DeqCall, PeekCall, Dequeue,
         DeqTail, DeqHead, DeqCas, DeqLoad, Peek, PeekTail, PeekHead, PeekLoad
<1>2. \A s : Storing(s)' = Storing(s)
  BY <1>1 DEF Storing
<1> QED
  BY <1>1, <1>2, HeldSame

-----------------------------------------------------------------------------
(***************************************************************************)
(* A step of the producer keeps the invariant.                             *)
(***************************************************************************)
LEMMA ProducerStep ==
    ASSUME SingleEach, RInv, NEW p \in Producers, EnqCall(p) \/ Enqueue(p)
    PROVE  RInv'
<1>t. TypeOK /\ p \in Threads /\ (\A q \in Producers : q = p) /\ ProducerInv(p)
  BY DEF RInv, SingleEach, Threads
<1>s. head \in Slots /\ tail \in Slots /\ Succ(head) \in Slots
  BY <1>t, SuccFacts DEF TypeOK
<1>y. TypeOK'
  BY <1>t, NextTyped DEF Next, Step, Threads
<1>g. stage = "open" /\ stage' = stage
  BY <1>t DEF RInv, TypeOK, EnqCall, Enqueue, EnqHead, EnqTail, EnqCas, EnqStore
<1>c. ASSUME NEW c \in Consumers
      PROVE  /\ c \in Threads /\ c # p /\ ConsumerInv(c)
             /\ pc'[c] = pc[c] /\ ltail'[c] = ltail[c] /\ due'[c] = due[c]
             /\ ltail[c] \in Slots /\ tail' = tail
  BY <1>t DEF RInv, SingleEach, Threads, TypeOK, Goto, locals,
              EnqCall, Enqueue, EnqHead, EnqTail, EnqCas, EnqStore
<1>1. CASE EnqCall(p) \/ EnqHead(p) \/ EnqTail(p) \/ EnqStore(p)
           \/ (EnqCas(p) /\ head # lhead[p])
  <2>1. head' = head /\ tail' = tail /\ live' = live
    BY <1>1 DEF EnqCall, EnqHead, EnqTail, EnqCas, EnqStore
  <2>2. ProducerInv(p)'
    BY <1>1, <2>1, <1>t
    DEF EnqCall, EnqHead, EnqTail, EnqCas, EnqStore, Goto, locals,
        TypeOK, ProducerInv, EnqPCs
  <2>3. \A r \in Slots : Held(r)' = Held(r)
    BY <1>1, ProducerHeld
  <2>4. ASSUME NEW c \in Consumers PROVE ConsumerInv(c)'
    <3>1. ASSUME NEW r \in Slots, r = Succ(ltail[c]), pc[c] \in {"deq_load", "peek_load"}
          PROVE  due'[c] = Held(r)'
      BY <3>1, <2>3, <1>c DEF ConsumerInv
    <3>2. pc[c] \in {"deq_load", "peek_load"} => due'[c] = Held(Succ(ltail[c]))'
      BY <3>1, <1>c, SuccFacts
    <3> QED
      BY <3>2, <2>1, <1>c DEF ConsumerInv
  <2>5. (\A q \in Producers : ProducerInv(q))'
    BY <2>2, <1>t
  <2>6. live' = Dist(tail', head')
    BY <2>1 DEF RInv
  <2> QED
    BY <2>4, <2>5, <2>6, <1>y, <1>g DEF RInv, Dist
<1>2. CASE EnqCas(p) /\ head = lhead[p]
  <2>1. /\ head' = Succ(head) /\ tail' = tail /\ live' = live + 1
        /\ pc'[p] = "enq_store" /\ lhead' = lhead /\ item' = item
        /\ Succ(head) # tail
    BY <1>2, <1>t DEF EnqCas, Goto, locals, TypeOK, ProducerInv
  <2>2. ProducerInv(p)'
    BY <1>2, <2>1, <1>t DEF ProducerInv, EnqCas, EnqPCs
  <2>3. \A r \in Slots \ {Succ(head)} : Held(r)' = Held(r)
    BY <1>2, ProducerHeld
  <2>4. ASSUME NEW c \in Consumers PROVE ConsumerInv(c)'
    <3>1. ASSUME NEW r \in Slots, r = Succ(ltail[c]), pc[c] \in {"deq_load", "peek_load"}
          PROVE  due'[c] = Held(r)'
      <4>1. r # Succ(head)
        BY <3>1, <2>1, <1>s, <1>c, SuccFacts DEF ConsumerInv
      <4> QED
        BY <3>1, <4>1, <2>3, <1>c DEF ConsumerInv
    <3>2. pc[c] \in {"deq_load", "peek_load"} => due'[c] = Held(Succ(ltail[c]))'
      BY <3>1, <1>c, SuccFacts
    <3> QED
      BY <3>2, <2>1, <1>c DEF ConsumerInv
  <2>5. (\A q \in Producers : ProducerInv(q))'
    BY <2>2, <1>t
  <2>6. live' = Dist(tail', head')
    BY <2>1, <1>s, DistFacts DEF RInv
  <2> QED
    BY <2>4, <2>5, <2>6, <1>y, <1>g DEF RInv, Dist
<1> QED
  BY <1>1, <1>2 DEF Enqueue

(***************************************************************************)
(* A step of the consumer keeps the invariant.                             *)
(***************************************************************************)
LEMMA ConsumerStep ==
    ASSUME SingleEach, RInv, NEW c \in Consumers,
           DeqCall(c) \/ PeekCall(c) \/ Dequeue(c) \/ Peek(c)
    PROVE  RInv'
<1>t. TypeOK /\ c \in Threads /\ (\A d \in Consumers : d = c) /\ ConsumerInv(c)
  BY DEF RInv, SingleEach, Threads
<1>s. head \in Slots /\ tail \in Slots /\ ltail[c] \in Slots
  BY <1>t DEF TypeOK
<1>y. TypeOK'
  BY <1>t, NextTyped DEF Next, Step, Threads
<1>g. stage = "open" /\ stage' = stage
  BY <1>t DEF RInv, TypeOK, DeqCall, PeekCall, Dequeue, DeqTail, DeqHead, DeqCas,
              DeqLoad, Peek, PeekTail, PeekHead, PeekLoad
<1>p. ASSUME NEW p \in Producers
      PROVE  /\ p \in Threads /\ p # c /\ ProducerInv(p)
             /\ pc'[p] = pc[p] /\ lhead'[p] = lhead[p] /\ item'[p] = item[p]
             /\ head' = head
  BY <1>t DEF RInv, SingleEach, Threads, TypeOK, Goto, locals, DeqCall, PeekCall,
              Dequeue, DeqTail, DeqHead, DeqCas, DeqLoad,
              Peek, PeekTail, PeekHead, PeekLoad
<1>h. \A r : Held(r)' = Held(r)
  BY ConsumerHeld
<1>1. CASE ~(DeqCas(c) /\ tail = ltail[c])
  <2>1. head' = head /\ tail' = tail /\ live' = live
    BY <1>1 DEF DeqCall, PeekCall, Dequeue, DeqTail, DeqHead, DeqCas, DeqLoad,
                Peek, PeekTail, PeekHead, PeekLoad
  <2>2. ConsumerInv(c)'
    <3>1. \/ /\ pc'[c] \notin {"deq_load", "peek_load"}
          \/ /\ pc'[c] = "peek_load" /\ ltail' = ltail /\ ltail[c] # head
             /\ ltail[c] = tail
             /\ due'[c] = Held(Succ(ltail[c]))
      BY <1>1, <1>t DEF DeqCall, PeekCall, Dequeue, DeqTail, DeqHead, DeqCas, DeqLoad,
                Peek, PeekTail, PeekHead, PeekLoad, Goto, TypeOK, ConsumerInv
    <3>2. pc'[c] \in {"deq_load", "peek_load"} => due'[c] = Held(Succ(ltail[c]))'
      <4>1. \A r : r = Succ(ltail[c]) => Held(r)' = Held(Succ(ltail[c]))
        BY <1>h
      <4> QED
        BY <3>1, <4>1
    <3>3. /\ pc'[c] \in {"idle"} \cup DeqPCs \cup PeekPCs
          /\ pc'[c] \in {"deq_head", "deq_cas", "peek_head", "peek_load"}
                => ltail'[c] = tail
          /\ pc'[c] \in {"deq_cas", "peek_load"} => tail # head
      BY <1>1, <1>t DEF DeqCall, PeekCall, Dequeue, DeqTail, DeqHead, DeqCas, DeqLoad,
                Peek, PeekTail, PeekHead, PeekLoad, Goto, locals, TypeOK, ConsumerInv,
                DeqPCs, PeekPCs
    <3> QED
      BY <3>1, <3>2, <3>3, <2>1 DEF ConsumerInv
  <2>3. (\A d \in Consumers : ConsumerInv(d))'
    BY <2>2, <1>t
  <2>4. (\A p \in Producers : ProducerInv(p))'
    BY <1>p, <2>1 DEF ProducerInv
  <2>5. live' = Dist(tail', head')
    BY <2>1 DEF RInv
  <2> QED
    BY <2>3, <2>4, <2>5, <1>y, <1>g DEF RInv, Dist
<1>2. CASE DeqCas(c) /\ tail = ltail[c]
  <2>1. /\ head' = head /\ tail' = Succ(tail) /\ live' = live - 1 /\ tail # head
        /\ pc'[c] = "deq_load" /\ ltail' = ltail
        /\ due'[c] = Held(Succ(ltail[c]))
    BY <1>2, <1>t DEF DeqCas, Goto, TypeOK, ConsumerInv
  <2>2. due'[c] = Held(Succ(ltail[c]))'
    <3>1. \A r : r = Succ(ltail[c]) => Held(r)' = Held(Succ(ltail[c]))
      BY <1>h
    <3> QED
      BY <3>1, <2>1
  <2>3. ConsumerInv(c)'
    BY <1>2, <2>1, <2>2 DEF ConsumerInv, DeqPCs
  <2>4. (\A d \in Consumers : ConsumerInv(d))'
    BY <2>3, <1>t
  <2>5. (\A p \in Producers : ProducerInv(p))'
    BY <1>p, <1>s, <2>1, SuccFacts DEF ProducerInv
  <2>6. live' = Dist(tail', head')
    BY <2>1, <1>s, DistFacts DEF RInv
  <2> QED
    BY <2>4, <2>5, <2>6, <1>y, <1>g DEF RInv, Dist
<1> QED
  BY <1>1, <1>2

(***************************************************************************)
(* Every step keeps the invariant: a step of a thread, and the three steps *)
(* of kylin_ring_destroy and kylin_ring_create, which meet idle threads.   *)
(***************************************************************************)
LEMMA NextRInv == ASSUME SingleEach, RInv, [Next]_vars PROVE RInv'
<1>t. TypeOK /\ head \in Slots /\ tail \in Slots
  BY DEF RInv, TypeOK
<1>1. CASE UNCHANGED vars
  <2>1. \A r : Held(r)' = Held(r)
    BY <1>1 DEF vars, Held, Storing
  <2>2. ASSUME NEW c \in Consumers PROVE ConsumerInv(c)'
    <3>1. ltail'[c] = ltail[c] /\ due' = due
      BY <1>1 DEF vars
    <3>2. Held(Succ(ltail[c]))' = Held(Succ(ltail[c]))
      <4>1. \A r : r = Succ(ltail[c]) => Held(r)' = Held(Succ(ltail[c]))
        BY <2>1
      <4> QED
        BY <4>1, <3>1
    <3> QED
      BY <1>1, <3>1, <3>2 DEF vars, RInv, ConsumerInv
  <2>3. (\A p \in Producers : ProducerInv(p))'
    BY <1>1 DEF vars, RInv, ProducerInv
  <2>4. TypeOK'
    BY <1>1, NextTyped, <1>t
  <2> QED
    BY <1>1, <2>2, <2>3, <2>4 DEF vars, RInv, Dist
<1>2. ASSUME NEW t \in Producers, EnqCall(t)
      PROVE  RInv'
  BY <1>2, ProducerStep
<1>3. ASSUME NEW t \in Consumers, DeqCall(t) \/ PeekCall(t)
      PROVE  RInv'
  BY <1>3, ConsumerStep
<1>4. ASSUME NEW t \in Threads, Step(t)
      PROVE  RInv'
  <2>1. CASE t \in Producers
    <3>1. Enqueue(t)
      BY <2>1, <1>4 DEF RInv, ProducerInv, Step, Dequeue, DeqTail, DeqHead, DeqCas, DeqLoad,
                Peek, PeekTail, PeekHead, PeekLoad, EnqPCs
    <3> QED
      BY <2>1, <3>1, ProducerStep
  <2>2. CASE t \in Consumers
    <3>1. Dequeue(t) \/ Peek(t)
      BY <2>2, <1>4 DEF RInv, ConsumerInv, Step, Enqueue, EnqHead, EnqTail, EnqCas, EnqStore,
                DeqPCs, PeekPCs
    <3> QED
      BY <2>2, <3>1, ConsumerStep
  <2> QED
    BY <2>1, <2>2 DEF Threads
<1>5. CASE Destroy \/ Drain \/ Recreate
  <2>1. \A t \in Threads : pc[t] = "idle" /\ pc'[t] = "idle"
    BY <1>5 DEF Destroy, Drain, Recreate, RInv
  <2>2. (\A p \in Producers : ProducerInv(p))'
    BY <2>1 DEF ProducerInv, Threads, EnqPCs
  <2>3. (\A c \in Consumers : ConsumerInv(c))'
    BY <2>1 DEF ConsumerInv, Threads
  <2>4. TypeOK'
    BY <1>5, <1>t, NextTyped DEF Next
  <2>5. live' = Dist(tail', head')
    <3>1. 0 \in Slots
      BY CapAssumption DEF Slots
    <3>2. CASE Destroy
      BY <3>2 DEF Destroy, RInv
    <3>3. CASE Drain
      BY <3>3, <1>t, DistFacts DEF Drain, RInv
    <3>4. CASE Recreate
      BY <3>1, <3>4, <1>t, DistFacts DEF Recreate, RInv
    <3> QED
      BY <1>5, <3>2, <3>3, <3>4
  <2> QED
    BY <2>1, <2>2, <2>3, <2>4, <2>5 DEF RInv, Dist
<1> QED
  BY <1>1, <1>2, <1>3, <1>4, <1>5 DEF Next

(***************************************************************************)
(* With one producer and one consumer every accepted object is in the ring *)
(* until it is taken, for every capacity.                                  *)
(***************************************************************************)
THEOREM RingNoneLost == SingleEach => (Spec => []NoneLost)
<1> SUFFICES ASSUME SingleEach PROVE Spec => []NoneLost
  OBVIOUS
<1>1. RInv => NoneLost
  <2> SUFFICES ASSUME RInv PROVE NoneLost
    OBVIOUS
  <2>1. Dist(tail, head) \in Nat
    BY CapAssumption, DistFacts DEF RInv, TypeOK
  <2>2. Len(Contents) = Dist(tail, head)
    BY <2>1 DEF Contents
  <2> QED
    BY <2>2 DEF RInv, NoneLost
<1>2. RInv /\ [Next]_vars => RInv'
  BY NextRInv
<1> QED
  BY InitRInv, <1>1, <1>2, PTL DEF Spec

(***************************************************************************)
(* With one producer and one consumer a dequeue or peek loads the object   *)
(* of its slot, unless that object's producer has not stored it yet.       *)
(***************************************************************************)
THEOREM RingLoadsItsObject == SingleEach => (Spec => LoadsItsObject)
<1> SUFFICES ASSUME SingleEach PROVE Spec => LoadsItsObject
  OBVIOUS
<1> DEFINE Loads == \A t \in Consumers :
                      pc[t] \in {"deq_load", "peek_load"} /\ pc'[t] = "idle"
                        => got'[t] = due[t] \/ Storing(Succ(ltail[t])) # {}
<1>1. ASSUME RInv, [Next]_vars PROVE [Loads]_vars
  <2> SUFFICES ASSUME NEW c \in Consumers, Next,
                      pc[c] \in {"deq_load", "peek_load"}, pc'[c] = "idle",
                      Storing(Succ(ltail[c])) = {}
               PROVE  got'[c] = due[c]
    BY <1>1 DEF vars
  <2>1. TypeOK /\ c \in Threads /\ due[c] = val[Succ(ltail[c])]
    BY <1>1 DEF RInv, ConsumerInv, Threads, Held
  <2>2. DeqLoad(c) \/ PeekLoad(c)
    <3>1. ASSUME NEW t \in Threads, t # c,
                 EnqCall(t) \/ DeqCall(t) \/ PeekCall(t) \/ Step(t)
          PROVE  pc'[c] = pc[c]
      BY <3>1, <2>1 DEF TypeOK, Goto, Step, EnqCall, DeqCall, PeekCall,
           Enqueue, EnqHead, EnqTail, EnqCas, EnqStore,
           Dequeue, DeqTail, DeqHead, DeqCas, DeqLoad,
           Peek, PeekTail, PeekHead, PeekLoad
    <3>2. ~(EnqCall(c) \/ DeqCall(c) \/ PeekCall(c))
      BY DEF EnqCall, DeqCall, PeekCall
    <3>3. ~(Destroy \/ Drain \/ Recreate)
      BY <2>1 DEF Destroy, Drain, Recreate
    <3>4. Step(c)
      BY <3>1, <3>2, <3>3, <2>1 DEF Next, Threads
    <3> QED
      BY <3>4 DEF Step, Enqueue, EnqHead, EnqTail, EnqCas, EnqStore,
           Dequeue, DeqTail, DeqHead, DeqCas, Peek, PeekTail, PeekHead
  <2> QED
    BY <2>1, <2>2 DEF DeqLoad, PeekLoad, TypeOK
<1>2. RInv /\ [Next]_vars => RInv'
  BY NextRInv
<1> QED
  BY InitRInv, <1>1, <1>2, PTL DEF Spec, LoadsItsObject

-----------------------------------------------------------------------------
(***************************************************************************)
(* The objects in the ring form a sequence of Dist(tail, head) objects.    *)
(***************************************************************************)
LEMMA ContentsSeq ==
    ASSUME RInv
    PROVE  /\ Dist(tail, head) \in Nat
           /\ Contents \in Seq(Items \cup {NULL})
           /\ Len(Contents) = Dist(tail, head)
           /\ \A k \in 1..Dist(tail, head) : Contents[k] = Held(SlotAfter(tail, k))
<1>t. TypeOK /\ head \in Slots /\ tail \in Slots
  BY DEF RInv, TypeOK
<1>1. Dist(tail, head) \in Nat
  BY <1>t, CapAssumption, DistFacts
<1>2. \A k \in 1..Dist(tail, head) : Held(SlotAfter(tail, k)) \in Items \cup {NULL}
  <2> SUFFICES ASSUME NEW s \in Slots PROVE Held(s) \in Items \cup {NULL}
    BY <1>t, SlotFacts
  <2>1. CASE Storing(s) = {}
    BY <2>1, <1>t DEF Held, TypeOK
  <2>2. CASE Storing(s) # {}
    <3>1. (CHOOSE p \in Storing(s) : TRUE) \in Threads
      BY <2>2 DEF Storing, Threads
    <3> QED
      BY <2>2, <3>1, <1>t DEF Held, TypeOK
  <2> QED
    BY <2>1, <2>2
<1> QED
  BY <1>1, <1>2 DEF Contents

(***************************************************************************)
(* A step that leaves the indices and the objects held alone leaves the    *)
(* queue alone.                                                            *)
(***************************************************************************)
LEMMA ContentsSame ==
    ASSUME RInv, head' = head, tail' = tail, \A s \in Slots : Held(s)' = Held(s)
    PROVE  Contents' = Contents
<1>1. \A k \in 1..Dist(tail, head) : SlotAfter(tail, k) \in Slots
  BY SlotFacts DEF RInv, TypeOK
<1>2. \A k \in 1..Dist(tail, head) : Held(SlotAfter(tail, k))' = Held(SlotAfter(tail, k))
  <2> SUFFICES ASSUME NEW k \in 1..Dist(tail, head), NEW s \in Slots,
                      s = SlotAfter(tail, k)
               PROVE  Held(SlotAfter(tail, k))' = Held(s)
    BY <1>1
  <2>1. SlotAfter(tail, k)' = s
    BY DEF SlotAfter
  <2>2. Held(SlotAfter(tail, k))' = Held(s)'
    BY <2>1 DEF Held, Storing
  <2> QED
    BY <2>2
<1>3. Dist(tail, head)' = Dist(tail, head)
  BY DEF Dist
<1> QED
  BY <1>2, <1>3 DEF Contents

(***************************************************************************)
(* Moving head on appends the object that goes into the slot after head.   *)
(***************************************************************************)
LEMMA ContentsPut ==
    ASSUME RInv, RInv', head' = Succ(head), tail' = tail, Succ(head) # tail,
           NEW v, \A s \in Slots \ {Succ(head)} : Held(s)' = Held(s),
           \A s \in Slots : s = Succ(head) => Held(s)' = v,
           v \in Items
    PROVE  Contents' = Append(Contents, v)
<1> DEFINE n == Dist(tail, head)
<1>t. head \in Slots /\ tail \in Slots /\ Succ(head) \in Slots
  BY SuccFacts DEF RInv, TypeOK
<1>1. /\ n \in Nat /\ Contents \in Seq(Items \cup {NULL}) /\ Len(Contents) = n
      /\ \A k \in 1..n : Contents[k] = Held(SlotAfter(tail, k))
  BY ContentsSeq
<1>2. Dist(tail, head)' = n + 1
  BY <1>t, DistFacts DEF Dist
<1>3. ASSUME NEW k \in 1..n + 1
      PROVE  Held(SlotAfter(tail, k))' = IF k = n + 1 THEN v ELSE Contents[k]
  <2>1. SlotAfter(tail, k)' = SlotAfter(tail, k)
    BY DEF SlotAfter
  <2>2. \A s : s = SlotAfter(tail, k) => Held(SlotAfter(tail, k))' = Held(s)'
    BY <2>1 DEF Held, Storing
  <2>3. CASE k = n + 1
    <3>1. SlotAfter(tail, k) = Succ(head)
      BY <2>3, <1>t, SlotFacts
    <3> QED
      BY <3>1, <2>2, <2>3, <1>t
  <2>4. CASE k # n + 1
    <3>1. k \in 1..n
      BY <2>4, <1>1
    <3>2. SlotAfter(tail, k) \in Slots \ {Succ(head)}
      BY <3>1, <1>t, SlotFacts
    <3> QED
      BY <3>1, <3>2, <2>2, <2>4, <1>1
  <2> QED
    BY <2>3, <2>4
<1> HIDE DEF n
<1>4. Contents' = [k \in 1..n + 1 |-> IF k = n + 1 THEN v ELSE Contents[k]]
  BY <1>2, <1>3 DEF Contents
<1>5. Append(Contents, v) = [k \in 1..n + 1 |-> IF k = n + 1 THEN v ELSE Contents[k]]
  <2>1. Append(Contents, v) \in Seq(Items \cup {NULL})
    BY <1>1
  <2>2. Len(Append(Contents, v)) = n + 1
    BY <1>1
  <2>3. \A k \in 1..n + 1 : Append(Contents, v)[k] = IF k = n + 1 THEN v ELSE Contents[k]
    BY <1>1
  <2> DEFINE f == [k \in 1..n + 1 |-> IF k = n + 1 THEN v ELSE Contents[k]]
             g == Append(Contents, v)
  <2>4. f \in Seq(Items \cup {NULL}) /\ Len(f) = n + 1
    BY <1>1
  <2>5. \A k \in 1..n + 1 : f[k] = g[k]
    BY <2>3
  <2>6. g \in Seq(Items \cup {NULL}) /\ Len(g) = n + 1
    BY <2>1, <2>2
  <2> HIDE DEF f, g
  <2>7. f = g
    BY <2>4, <2>5, <2>6, SeqEqual
  <2> QED
    BY <2>7 DEF f, g
<1> QED
  BY <1>4, <1>5

(***************************************************************************)
(* Moving tail on drops the oldest object.                                 *)
(***************************************************************************)
LEMMA ContentsTake ==
    ASSUME RInv, RInv', tail' = Succ(tail), head' = head, tail # head,
           \A s \in Slots : Held(s)' = Held(s)
    PROVE  Contents # <<>> /\ Contents' = Tail(Contents)
<1> DEFINE n == Dist(tail, head)
<1>t. head \in Slots /\ tail \in Slots
  BY DEF RInv, TypeOK
<1>1. /\ n \in Nat /\ Contents \in Seq(Items \cup {NULL}) /\ Len(Contents) = n
      /\ \A k \in 1..n : Contents[k] = Held(SlotAfter(tail, k))
  BY ContentsSeq
<1>2. Dist(tail, head)' = n - 1 /\ n # 0
  BY <1>t, DistFacts DEF Dist
<1>3. ASSUME NEW k \in 1..n - 1
      PROVE  Held(SlotAfter(tail, k))' = Contents[k + 1]
  <2>1. SlotAfter(tail, k)' = SlotAfter(tail, k + 1)
    BY <1>1, <1>t, SlotFacts DEF SlotAfter
  <2>2. \A s : s = SlotAfter(tail, k + 1) => Held(SlotAfter(tail, k))' = Held(s)'
    BY <2>1 DEF Held, Storing
  <2>3. k + 1 \in 1..n
    BY <1>1
  <2>4. SlotAfter(tail, k + 1) \in Slots
    BY <2>3, <1>t, SlotFacts
  <2> QED
    BY <2>2, <2>3, <2>4, <1>1
<1> HIDE DEF n
<1>4. Contents' = [k \in 1..n - 1 |-> Contents[k + 1]]
  BY <1>2, <1>3 DEF Contents
<1>5. Tail(Contents) = [k \in 1..n - 1 |-> Contents[k + 1]]
  <2>1. Contents # <<>>
    BY <1>1, <1>2
  <2>2. Tail(Contents) \in Seq(Items \cup {NULL})
    BY <1>1, <2>1
  <2>3. Len(Tail(Contents)) = n - 1
    BY <1>1, <2>1
  <2>4. \A k \in 1..n - 1 : Tail(Contents)[k] = Contents[k + 1]
    BY <1>1, <2>1
  <2> DEFINE f == [k \in 1..n - 1 |-> Contents[k + 1]]
             g == Tail(Contents)
  <2>5. f \in Seq(Items \cup {NULL}) /\ Len(f) = n - 1
    BY <1>1, <1>2
  <2>6. \A k \in 1..n - 1 : f[k] = g[k]
    BY <2>4
  <2>7. g \in Seq(Items \cup {NULL}) /\ Len(g) = n - 1
    BY <2>2, <2>3
  <2> HIDE DEF f, g
  <2>8. f = g
    BY <2>5, <2>6, <2>7, SeqEqual
  <2> QED
    BY <2>8 DEF f, g
<1> QED
  BY <1>1, <1>2, <1>4, <1>5

(***************************************************************************)
(* Every step of the ring is a step of the queue or leaves it alone.       *)
(***************************************************************************)
LEMMA NextQueue ==
    ASSUME SingleEach, RInv, [Next]_vars
    PROVE  [Queue!Next]_Contents
<1>r. RInv'
  BY NextRInv
<1>t. TypeOK /\ head \in Slots /\ tail \in Slots
  BY DEF RInv, TypeOK
<1>1. CASE UNCHANGED vars
  <2>1. \A s : Held(s)' = Held(s)
    BY <1>1 DEF vars, Held, Storing
  <2> QED
    BY <1>1, <2>1, ContentsSame DEF vars
<1>2. ASSUME NEW p \in Producers, EnqCall(p) \/ Enqueue(p)
      PROVE  [Queue!Next]_Contents
  <2>t. p \in Threads /\ ProducerInv(p)
    BY DEF RInv, Threads
  <2>1. CASE EnqCas(p) /\ head = lhead[p]
    <3>1. /\ head' = Succ(head) /\ tail' = tail /\ Succ(head) # tail
          /\ item[p] \in Items
      BY <2>1, <2>t DEF EnqCas, locals, ProducerInv, EnqPCs
    <3>2. /\ \A s \in Slots \ {Succ(head)} : Held(s)' = Held(s)
          /\ \A s \in Slots : s = Succ(head) => Held(s)' = item[p]
      BY <2>1, ProducerHeld
    <3>3. Contents' = Append(Contents, item[p])
      BY <3>1, <3>2, <1>r, ContentsPut
    <3>4. Len(Contents) < Cap - 1
      BY <3>1, <1>t, ContentsSeq, DistFacts
    <3>5. Queue!Put(item[p])
      BY <3>3, <3>4 DEF Queue!Put
    <3> QED
      BY <3>1, <3>5 DEF Queue!Next
  <2>2. CASE ~(EnqCas(p) /\ head = lhead[p])
    <3>1. head' = head /\ tail' = tail
      BY <1>2, <2>2 DEF EnqCall, Enqueue, EnqHead, EnqTail, EnqCas, EnqStore
    <3>2. \A s \in Slots : Held(s)' = Held(s)
      BY <1>2, <2>2, ProducerHeld DEF Enqueue
    <3> QED
      BY <3>1, <3>2, ContentsSame
  <2> QED
    BY <2>1, <2>2
<1>3. ASSUME NEW c \in Consumers, DeqCall(c) \/ PeekCall(c) \/ Dequeue(c) \/ Peek(c)
      PROVE  [Queue!Next]_Contents
  <2>h. \A s : Held(s)' = Held(s)
    BY <1>3, ConsumerHeld
  <2>1. CASE DeqCas(c) /\ tail = ltail[c]
    <3>1. tail' = Succ(tail) /\ head' = head /\ tail # head
      BY <2>1 DEF DeqCas, RInv, ConsumerInv
    <3>2. Queue!Take
      BY <3>1, <2>h, <1>r, ContentsTake DEF Queue!Take
    <3> QED
      BY <3>2 DEF Queue!Next
  <2>2. CASE ~(DeqCas(c) /\ tail = ltail[c])
    <3>1. head' = head /\ tail' = tail
      BY <1>3, <2>2 DEF DeqCall, PeekCall, Dequeue, DeqTail, DeqHead, DeqCas, DeqLoad,
                Peek, PeekTail, PeekHead, PeekLoad
    <3> QED
      BY <3>1, <2>h, ContentsSame
  <2> QED
    BY <2>1, <2>2
<1>4. ASSUME NEW t \in Threads, Step(t)
      PROVE  [Queue!Next]_Contents
  <2>1. CASE t \in Producers
    <3>1. Enqueue(t)
      BY <2>1, <1>4 DEF RInv, ProducerInv, Step, Dequeue, DeqTail, DeqHead, DeqCas, DeqLoad,
                Peek, PeekTail, PeekHead, PeekLoad, EnqPCs
    <3> QED
      BY <2>1, <3>1, <1>2
  <2>2. CASE t \in Consumers
    <3>1. Dequeue(t) \/ Peek(t)
      BY <2>2, <1>4 DEF RInv, ConsumerInv, Step, Enqueue, EnqHead, EnqTail, EnqCas, EnqStore,
                DeqPCs, PeekPCs
    <3> QED
      BY <2>2, <3>1, <1>3
  <2> QED
    BY <2>1, <2>2 DEF Threads
<1>5. CASE Destroy \/ Drain
  <2>0. pc' = pc /\ lhead' = lhead /\ item' = item /\ val' = val
    BY <1>5 DEF Destroy, Drain, locals
  <2>1. \A s : Held(s)' = Held(s)
    BY <2>0 DEF Held, Storing
  <2>2. CASE Destroy
    BY <2>1, <2>2, ContentsSame DEF Destroy
  <2>3. CASE Drain
    <3>1. Queue!Take
      BY <2>1, <2>3, <1>r, ContentsTake DEF Drain, Queue!Take
    <3> QED
      BY <3>1 DEF Queue!Next
  <2> QED
    BY <1>5, <2>2, <2>3
<1>6. CASE Recreate
  <2>1. Dist(tail, head) = 0 /\ Dist(tail, head)' = 0
    BY <1>6, <1>t, CapAssumption DEF Recreate, Dist, Slots
  <2>2. Contents = [k \in 1..0 |-> Held(SlotAfter(tail, k))] /\ Contents' = <<>>
    BY <2>1 DEF Contents
  <2>3. Contents = <<>>
    BY <2>2
  <2> QED
    BY <2>2, <2>3
<1> QED
  BY <1>1, <1>2, <1>3, <1>4, <1>5, <1>6 DEF Next

(***************************************************************************)
(* With one producer and one consumer kylin_ring implements a first-in     *)
(* first-out queue of cap - 1 objects, for every capacity.                 *)
(***************************************************************************)
THEOREM RingIsAQueue == SingleEach => (Spec => IsAQueue)
<1> SUFFICES ASSUME SingleEach PROVE Spec => IsAQueue
  OBVIOUS
<1>1. Init => Queue!Init
  <2> SUFFICES ASSUME Init PROVE Contents = <<>>
    BY DEF Queue!Init
  <2>1. Dist(tail, head) = 0
    BY DEF Init, Dist
  <2> QED
    BY <2>1 DEF Contents
<1>2. RInv /\ [Next]_vars => [Queue!Next]_Contents
  BY NextQueue
<1>3. RInv /\ [Next]_vars => RInv'
  BY NextRInv
<1> QED
  BY InitRInv, <1>1, <1>2, <1>3, PTL DEF Spec, IsAQueue, Queue!Spec
=============================================================================
