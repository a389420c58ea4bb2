-------------------------------- MODULE Ring --------------------------------
(***************************************************************************)
(* The lock-free ring buffer of lib/core/math/kylin_ring.c.                *)
(*                                                                         *)
(* head and tail are slot numbers, not running counters: the objects held  *)
(* are in slots tail+1 .. head (modulo cap), and one slot stays unused.    *)
(* An enqueue reads head, reads tail, claims the next slot by a compare-   *)
(* and-set of head and only then stores the object in it; a dequeue reads  *)
(* tail, reads head, claims by a compare-and-set of tail and only then     *)
(* loads the slot.  Each of these is a step of its own here.               *)
(*                                                                         *)
(* Because an index repeats after cap claims, a compare-and-set can        *)
(* succeed although the index moved right round the ring in between.       *)
(* MaxOvertake bounds how many claims of others may pass a thread that is  *)
(* inside an operation: below Cap the wrapped index cannot come back.      *)
(***************************************************************************)
EXTENDS Integers, Sequences, FiniteSets

CONSTANTS
    Producers,    \* threads that call kylin_ring_enqueue
    Consumers,    \* threads that call kylin_ring_dequeue and kylin_ring_peek
    Cap,          \* opts.cap
    Items,        \* the objects enqueued
    NULL,         \* what kylin_malloc leaves in a slot
    MaxOvertake   \* bound on the claims that pass a thread in an operation

ASSUME CapAssumption == Cap \in Nat /\ Cap >= 2
ASSUME ItemsAssumption == NULL \notin Items
ASSUME OvertakeAssumption == MaxOvertake \in Nat

VARIABLES
    head, tail,   \* the two shared indices
    val,          \* the slots
    pc,           \* where each thread is
    lhead, ltail, \* each thread's copies of head and tail
    item,         \* the argument of each thread's enqueue
    got,          \* the result of each thread's last dequeue or peek
    due,          \* history: the object in the slot a consumer is about to load
    passed,       \* history: claims by others since the thread's index read
    live,         \* history: objects accepted minus objects taken
    stage         \* "closing" while kylin_ring_destroy runs

locals == <<lhead, ltail, item, got, due>>
vars == <<head, tail, val, pc, lhead, ltail, item, got, due, passed, live, stage>>

Threads == Producers \cup Consumers
Slots == 0..Cap - 1

EnqPCs == {"enq_head", "enq_tail", "enq_cas", "enq_store"}
DeqPCs == {"deq_tail", "deq_head", "deq_cas", "deq_load"}
PeekPCs == {"peek_tail", "peek_head", "peek_load"}

TypeOK == /\ head \in Slots /\ tail \in Slots
          /\ val \in [Slots -> Items \cup {NULL}]
          /\ pc \in [Threads -> {"idle"} \cup EnqPCs \cup DeqPCs \cup PeekPCs]
          /\ lhead \in [Threads -> Slots] /\ ltail \in [Threads -> Slots]
          /\ item \in [Threads -> Items \cup {NULL}]
          /\ got \in [Threads -> Items \cup {NULL}]
          /\ due \in [Threads -> Items \cup {NULL}]
          /\ passed \in [Threads -> 0..MaxOvertake]
          /\ live \in Int
          /\ stage \in {"open", "closing"}

-----------------------------------------------------------------------------
\* new_head = (head == guard->mask ? 0 : head + 1)
Succ(i) == IF i = Cap - 1 THEN 0 ELSE i + 1

\* The number of slots after i up to and including j, and the k-th of them
Dist(i, j) == IF j >= i THEN j - i ELSE j - i + Cap
SlotAfter(i, k) == IF i + k >= Cap THEN i + k - Cap ELSE i + k

\* The producers that have claimed slot s and not stored in it yet
Storing(s) == {p \in Producers : pc[p] = "enq_store" /\ Succ(lhead[p]) = s}

\* What slot s holds, or will hold as soon as its producer stores
Held(s) == IF Storing(s) = {} THEN val[s]
           ELSE item[CHOOSE p \in Storing(s) : TRUE]

\* The objects in the ring, oldest first
Contents == [k \in 1..Dist(tail, head) |-> Held(SlotAfter(tail, k))]

Goto(t, l) == pc' = [pc EXCEPT ![t] = l]

-----------------------------------------------------------------------------
\* kylin_ring_create: the guard and its slots are zeroed by kylin_malloc
Init == /\ head = 0 /\ tail = 0
        /\ val = [s \in Slots |-> NULL]
        /\ pc = [t \in Threads |-> "idle"]
        /\ lhead = [t \in Threads |-> 0] /\ ltail = [t \in Threads |-> 0]
        /\ item = [t \in Threads |-> NULL]
        /\ got = [t \in Threads |-> NULL]
        /\ due = [t \in Threads |-> NULL]
        /\ passed = [t \in Threads |-> 0]
        /\ live = 0
        /\ stage = "open"

\* A claim by t of the index that the threads inside P work on: it passes
\* every other one of them.
Overtake(t, P) ==
    LET others == {s \in Threads \ {t} : pc[s] \in P}
    IN  /\ \A s \in others : passed[s] < MaxOvertake
        /\ passed' = [s \in Threads |->
                        IF s \in others THEN passed[s] + 1 ELSE passed[s]]

\* A thread's first read of its index starts the count anew.
NotPassed(t) == passed' = [passed EXCEPT ![t] = 0]

-----------------------------------------------------------------------------
\* kylin_ring_enqueue

EnqCall(t) == /\ pc[t] = "idle" /\ stage = "open"
              /\ \E i \in Items : item' = [item EXCEPT ![t] = i]
              /\ Goto(t, "enq_head")
              /\ UNCHANGED <<head, tail, val, lhead, ltail, got, due, passed, live, stage>>

EnqHead(t) == /\ pc[t] = "enq_head"
              /\ lhead' = [lhead EXCEPT ![t] = head]
              /\ Goto(t, "enq_tail")
              /\ NotPassed(t)
              /\ UNCHANGED <<head, tail, val, ltail, item, got, due, live, stage>>

\* (mutant of EnqTail: no test for a full ring)
EnqTailNoTest(t) == /\ pc[t] = "enq_tail"
                    /\ ltail' = [ltail EXCEPT ![t] = tail]
                    /\ Goto(t, "enq_cas")
                    /\ UNCHANGED <<head, tail, val, lhead, item, got, due, passed, live, stage>>

\* reading tail; new_head == tail: return KYLIN_ERROR_NOMEM
EnqTail(t) == /\ pc[t] = "enq_tail"
              /\ ltail' = [ltail EXCEPT ![t] = tail]
              /\ Goto(t, IF Succ(lhead[t]) = tail THEN "idle" ELSE "enq_cas")
              /\ UNCHANGED <<head, tail, val, lhead, item, got, due, passed, live, stage>>

\* (mutant of EnqCas: the expected value is the new one)
EnqCasWrong(t) ==
    /\ pc[t] = "enq_cas"
    /\ IF head = Succ(lhead[t])
       THEN /\ head' = Succ(lhead[t])
            /\ live' = live + 1
            /\ Overtake(t, EnqPCs)
            /\ Goto(t, "enq_store")
       ELSE /\ Goto(t, "enq_head")
            /\ UNCHANGED <<head, live, passed>>
    /\ UNCHANGED <<tail, val, locals, stage>>

\* cmpset(&guard->head.cnt, head, new_head), looping when it fails
EnqCas(t) ==
    /\ pc[t] = "enq_cas"
    /\ IF head = lhead[t]
       THEN /\ head' = Succ(lhead[t])
            /\ live' = live + 1
            /\ Overtake(t, EnqPCs)
            /\ Goto(t, "enq_store")
       ELSE /\ Goto(t, "enq_head")
            /\ UNCHANGED <<head, live, passed>>
    /\ UNCHANGED <<tail, val, locals, stage>>

\* kmath_val_ctor(&guard->val[new_head], buf, ...); return KYLIN_ERROR_OK
EnqStore(t) == /\ pc[t] = "enq_store"
               /\ val' = [val EXCEPT ![Succ(lhead[t])] = item[t]]
               /\ Goto(t, "idle")
               /\ UNCHANGED <<head, tail, lhead, ltail, item, got, due, passed, live, stage>>

Enqueue(t) == EnqHead(t) \/ EnqTail(t) \/ EnqCas(t) \/ EnqStore(t)

-----------------------------------------------------------------------------
\* kylin_ring_dequeue

DeqCall(t) == /\ pc[t] = "idle" /\ stage = "open"
              /\ Goto(t, "deq_tail")
              /\ UNCHANGED <<head, tail, val, locals, passed, live, stage>>

DeqTail(t) == /\ pc[t] = "deq_tail"
              /\ ltail' = [ltail EXCEPT ![t] = tail]
              /\ Goto(t, "deq_head")
              /\ NotPassed(t)
              /\ UNCHANGED <<head, tail, val, lhead, item, got, due, live, stage>>

\* (mutant of DeqHead: no test for an empty ring)
DeqHeadNoTest(t) ==
    /\ pc[t] = "deq_head"
    /\ lhead' = [lhead EXCEPT ![t] = head]
    /\ Goto(t, "deq_cas")
    /\ UNCHANGED <<head, tail, val, ltail, item, got, due, passed, live, stage>>

\* reading head; tail == head: return NULL
DeqHead(t) == /\ pc[t] = "deq_head"
              /\ lhead' = [lhead EXCEPT ![t] = head]
              /\ IF ltail[t] = head
                 THEN Goto(t, "idle") /\ got' = [got EXCEPT ![t] = NULL]
                 ELSE Goto(t, "deq_cas") /\ got' = got
              /\ UNCHANGED <<head, tail, val, ltail, item, due, passed, live, stage>>

\* cmpset(&guard->tail.cnt, tail, new_tail), looping when it fails
DeqCas(t) ==
    /\ pc[t] = "deq_cas"
    /\ IF tail = ltail[t]
       THEN /\ tail' = Succ(ltail[t])
            /\ live' = live - 1
            /\ due' = [due EXCEPT ![t] = Held(Succ(ltail[t]))]
            /\ Overtake(t, DeqPCs)
            /\ Goto(t, "deq_load")
       ELSE /\ Goto(t, "deq_tail")
            /\ UNCHANGED <<tail, live, due, passed>>
    /\ UNCHANGED <<head, val, lhead, ltail, item, got, stage>>

\* (mutant of DeqLoad: the slot before the one claimed)
DeqLoadOld(t) == /\ pc[t] = "deq_load"
                 /\ got' = [got EXCEPT ![t] = val[ltail[t]]]
                 /\ Goto(t, "idle")
                 /\ UNCHANGED <<head, tail, val, lhead, ltail, item, due, passed, live, stage>>

\* buf = kmath_val_get(&guard->val[new_tail], ...)
DeqLoad(t) == /\ pc[t] = "deq_load"
              /\ got' = [got EXCEPT ![t] = val[Succ(ltail[t])]]
              /\ Goto(t, "idle")
              /\ UNCHANGED <<head, tail, val, lhead, ltail, item, due, passed, live, stage>>

Dequeue(t) == DeqTail(t) \/ DeqHead(t) \/ DeqCas(t) \/ DeqLoad(t)

-----------------------------------------------------------------------------
\* kylin_ring_peek

PeekCall(t) == /\ pc[t] = "idle" /\ stage = "open"
               /\ Goto(t, "peek_tail")
               /\ UNCHANGED <<head, tail, val, locals, passed, live, stage>>

PeekTail(t) == /\ pc[t] = "peek_tail"
               /\ ltail' = [ltail EXCEPT ![t] = tail]
               /\ Goto(t, "peek_head")
               /\ UNCHANGED <<head, tail, val, lhead, item, got, due, passed, live, stage>>

PeekHead(t) == /\ pc[t] = "peek_head"
               /\ lhead' = [lhead EXCEPT ![t] = head]
               /\ IF ltail[t] = head
                  THEN /\ Goto(t, "idle")
                       /\ got' = [got EXCEPT ![t] = NULL]
                       /\ due' = due
                  ELSE /\ Goto(t, "peek_load")
                       /\ got' = got
                       /\ due' = [due EXCEPT ![t] = Held(Succ(ltail[t]))]
               /\ UNCHANGED <<head, tail, val, ltail, item, passed, live, stage>>

PeekLoad(t) == /\ pc[t] = "peek_load"
               /\ got' = [got EXCEPT ![t] = val[Succ(ltail[t])]]
               /\ Goto(t, "idle")
               /\ UNCHANGED <<head, tail, val, lhead, ltail, item, due, passed, live, stage>>

Peek(t) == PeekTail(t) \/ PeekHead(t) \/ PeekLoad(t)

-----------------------------------------------------------------------------
\* kylin_ring_destroy: once nobody else uses the ring, its loop takes and
\* frees the objects left one by one ...
Destroy == /\ stage = "open"
           /\ \A t \in Threads : pc[t] = "idle"
           /\ stage' = "closing"
           /\ UNCHANGED <<head, tail, val, pc, locals, passed, live>>

Drain == /\ stage = "closing"
         /\ tail # head
         /\ tail' = Succ(tail)
         /\ live' = live - 1
         /\ UNCHANGED <<head, val, pc, locals, passed, stage>>

\* ... and frees the ring; the next kylin_ring_create starts from zeroed slots.
Recreate == /\ stage = "closing"
            /\ tail = head
            /\ head' = 0 /\ tail' = 0
            /\ val' = [s \in Slots |-> NULL]
            /\ stage' = "open"
            /\ UNCHANGED <<pc, locals, passed, live>>

Step(t) == Enqueue(t) \/ Dequeue(t) \/ Peek(t)

Next == \/ \E t \in Producers : EnqCall(t)
        \/ \E t \in Consumers : DeqCall(t) \/ PeekCall(t)
        \/ \E t \in Threads : Step(t)
        \/ Destroy \/ Drain \/ Recreate

Spec == Init /\ [][Next]_vars

\* A thread inside a ring operation keeps running.
FairSpec == Spec /\ \A t \in Threads : WF_vars(Step(t))

-----------------------------------------------------------------------------
(***************************************************************************)
(* Every object that kylin_ring_enqueue accepted and no dequeue claimed is *)
(* between tail and head: no accepted object is lost by head running into  *)
(* tail, and none is invented by tail running past head.                   *)
(***************************************************************************)
NoneLost == live = Len(Contents)

(***************************************************************************)
(* A dequeue or peek hands out the object of the slot it settled on; the   *)
(* one exception is a slot whose producer has moved head and not stored    *)
(* yet (kylin_ring.c publishes before it writes), and then the consumer    *)
(* sees what the slot held before.  In particular no later enqueue may     *)
(* overwrite a slot between its claim by a consumer and the load.          *)
(***************************************************************************)
LoadsItsObject ==
    [][\A t \in Consumers :
         pc[t] \in {"deq_load", "peek_load"} /\ pc'[t] = "idle"
           => got'[t] = due[t] \/ Storing(Succ(ltail[t])) # {}]_vars

(***************************************************************************)
(* With several threads on one side a call may retry, but only because     *)
(* another call moved the index: while somebody is inside an operation,    *)
(* somebody finishes one.                                                  *)
(***************************************************************************)
SomeCallReturns ==
    []<>(\A t \in Threads : pc[t] = "idle")
      \/ []<><<\E t \in Threads : pc[t] # "idle" /\ pc'[t] = "idle">>_vars

(***************************************************************************)
(* The ring is a first-in first-out queue of cap - 1 objects: an accepted  *)
(* enqueue takes effect when it moves head, a dequeue when it moves tail.  *)
(***************************************************************************)
Queue == INSTANCE BoundedQueue
           WITH q <- Contents, Object <- Items, Capacity <- Cap - 1

IsAQueue == Queue!Spec

(***************************************************************************)
(* include/math/kylin_ring.h says that cap is the number of objects: the   *)
(* ring never holds more than cap objects.                                 *)
(***************************************************************************)
HoldsAtMostCap == live <= Cap
=============================================================================
