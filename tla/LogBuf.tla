------------------------------- MODULE LogBuf -------------------------------
(***************************************************************************)
(* The logging path of lib/core/log: any thread that calls kylin_log_info  *)
(* and its kin queues a copy of the message for every log type its object  *)
(* logs to, and one thread (__buffer_process) prints the queued messages.  *)
(* Each log type has a ring buffer and a flag need_log, which tells the    *)
(* printing thread to look at that ring; the flag is written by both sides *)
(* without any lock.                                                       *)
(*                                                                         *)
(* The rings are queues of RingCap - 1 messages here, which is what module *)
(* Ring shows of kylin_ring.c; its window between claiming and storing a   *)
(* slot is studied there.  kylin_rb_insert makes every new object the root *)
(* of the tree of objects, with nothing below it, so that object_find can  *)
(* find the last one created only.                                         *)
(***************************************************************************)
EXTENDS Integers, Sequences

CONSTANTS
    Callers,   \* the threads that log
    NTypes,    \* KYLIN_LOG_MAX
    Levels,    \* klog_level_t
    MaxObj,    \* bound on the number of log objects created
    RingCap    \* log_ring_opts.cap

ASSUME LogAssumption == /\ NTypes \in Nat /\ MaxObj \in Nat
                        /\ RingCap \in Nat /\ RingCap >= 2
                        /\ Levels \subseteq Nat

VARIABLES
    log_id,     \* the id of the last object created
    live,       \* the objects created and not destroyed
    root,       \* the object at the root of obj_rb, 0 when it is empty
    under,      \* the root's parent: the root that it replaced
    level,      \* obj->logger[i].level, or Off when no logger of type i
    ring,       \* log_ring
    need_log,
    pc, buf, idx,            \* each caller of buffer_enqueue: i is idx
    proc, i, need_sleep,     \* __buffer_process and __buffer_dequeue
    cur,                     \* the message the printing thread holds
    raced       \* history: the flag was raised while it was about to fall

callers == <<pc, buf, idx>>
printer == <<proc, i, need_sleep, cur>>
tree == <<log_id, live, root, under>>
objects == <<tree, level>>
vars == <<log_id, live, root, under, level, ring, need_log, pc, buf, idx,
          proc, i, need_sleep, cur, raced>>

Types == 0..NTypes - 1
Objects == 1..MaxObj
Off == -1                     \* logger[i].type == KYLIN_LOG_MAX
Messages == [obj : Objects, level : Levels]
NoLogger == [n \in Types |-> Off]
None == [obj |-> 0, level |-> 0]

TypeOK == /\ log_id \in 0..MaxObj
          /\ live \subseteq Objects
          /\ root \in 0..MaxObj /\ under \in 0..MaxObj
          /\ level \in [Objects -> [Types -> Levels \cup {Off}]]
          /\ ring \in [Types -> Seq(Messages)]
          /\ \A n \in Types : Len(ring[n]) < RingCap
          /\ need_log \in [Types -> BOOLEAN]
          /\ pc \in [Callers -> {"idle", "test", "enqueue", "mark"}]
          /\ buf \in [Callers -> Messages \cup {None}]
          /\ idx \in [Callers -> 0..NTypes]
          /\ proc \in {"scan", "dequeue", "print", "peek", "clear"}
          /\ i \in 0..NTypes
          /\ need_sleep \in BOOLEAN
          /\ cur \in Messages \cup {None}
          /\ raced \in [Types -> BOOLEAN]

-----------------------------------------------------------------------------
\* buffer_init has created the rings and the printing thread.
Init == /\ log_id = 0 /\ live = {} /\ root = 0 /\ under = 0
        /\ level = [o \in Objects |-> NoLogger]
        /\ ring = [n \in Types |-> <<>>]
        /\ need_log = [n \in Types |-> FALSE]
        /\ pc = [t \in Callers |-> "idle"]
        /\ buf = [t \in Callers |-> None]
        /\ idx = [t \in Callers |-> 0]
        /\ proc = "scan" /\ i = 0 /\ need_sleep = TRUE /\ cur = None
        /\ raced = [n \in Types |-> FALSE]

object_find(o) == o = root

-----------------------------------------------------------------------------
\* The log objects and their loggers

\* kylin_log_create: a new id, inserted before its loggers are added
Create == /\ log_id < MaxObj
          /\ log_id' = log_id + 1
          /\ live' = live \cup {log_id + 1}
          /\ root' = log_id + 1
          /\ under' = root
          /\ UNCHANGED <<level, ring, need_log, callers, printer, raced>>

\* kylin_log_destroy, by the object's owner once no thread logs to it: the node
\* is removed and the object freed if it is found, and otherwise nothing is.  (The
\* removal of a root that has a parent dereferences NULL in _remove_color.)
Destroy(o) == /\ o \in live
              /\ \A t \in Callers : pc[t] # "idle" => buf[t].obj # o
              /\ object_find(o) => under = 0
              /\ live' = live \ {o}
              /\ IF object_find(o)
                 THEN root' = 0 /\ level' = [level EXCEPT ![o] = NoLogger]
                 ELSE UNCHANGED <<root, level>>
              /\ UNCHANGED <<log_id, under, ring, need_log, callers, printer, raced>>

\* What kylin_log_expand leaves of the loggers lg: a type that is there stays
Expanded(lg, n, l) == IF lg[n] = Off THEN [lg EXCEPT ![n] = l] ELSE lg

\* What kylin_log_reduce leaves of them
Reduced(lg, n) == [lg EXCEPT ![n] = Off]

SetLoggers(o, lg) == /\ level' = [level EXCEPT ![o] = lg]
                     /\ UNCHANGED <<tree, ring, need_log, callers, printer, raced>>

\* kylin_log_expand, kylin_log_reduce, kylin_log_level_set, kylin_log_logger_set
Expand(o, n, l) == SetLoggers(o, Expanded(level[o], n, l))

Reduce(o, n) == SetLoggers(o, Reduced(level[o], n))

LevelSet(o, n, l) == /\ level[o][n] # Off
                     /\ SetLoggers(o, [level[o] EXCEPT ![n] = l])

LoggerSet(o, n, m, l) == SetLoggers(o, Expanded(Reduced(level[o], n), m, l))

Admin == \/ Create
         \/ \E o \in live :
               \/ Destroy(o)
               \/ \E n \in Types : Reduce(o, n)
               \/ \E n \in Types, l \in Levels : Expand(o, n, l) \/ LevelSet(o, n, l)
               \/ \E n, m \in Types, l \in Levels : LoggerSet(o, n, m, l)

-----------------------------------------------------------------------------
\* KYLIN_LOG_LEVEL and buffer_enqueue

\* The message is built; an object that is not found ends the call at once.
Log(t) == /\ pc[t] = "idle"
          /\ \E o \in live, l \in Levels :
                /\ object_find(o)
                /\ buf' = [buf EXCEPT ![t] = [obj |-> o, level |-> l]]
          /\ pc' = [pc EXCEPT ![t] = "test"]
          /\ idx' = [idx EXCEPT ![t] = 0]
          /\ UNCHANGED <<objects, ring, need_log, printer, raced>>

\* The loop's next round
NextType(t) == /\ idx' = [idx EXCEPT ![t] = @ + 1]
               /\ pc' = [pc EXCEPT ![t] = "test"]

\* The loop test, and `continue' for a type the object does not log to
Test(t) == /\ pc[t] = "test"
           /\ IF idx[t] = NTypes
              THEN pc' = [pc EXCEPT ![t] = "idle"] /\ UNCHANGED idx
              ELSE IF \/ level[buf[t].obj][idx[t]] = Off
                      \/ buf[t].level > level[buf[t].obj][idx[t]]
                   THEN NextType(t)
                   ELSE pc' = [pc EXCEPT ![t] = "enqueue"] /\ UNCHANGED idx
           /\ UNCHANGED <<objects, ring, need_log, buf, printer, raced>>

\* (mutant of Enqueue: the ring's last slot is used too)
EnqueueOver(t) == /\ pc[t] = "enqueue"
                  /\ ring' = IF Len(ring[idx[t]]) < RingCap
                             THEN [ring EXCEPT ![idx[t]] = Append(@, buf[t])]
                             ELSE ring
                  /\ pc' = [pc EXCEPT ![t] = "mark"]
                  /\ UNCHANGED <<objects, need_log, buf, idx, printer, raced>>

\* kylin_ring_enqueue, whose result is ignored: a full ring drops the message
Enqueue(t) == /\ pc[t] = "enqueue"
              /\ ring' = IF Len(ring[idx[t]]) < RingCap - 1
                         THEN [ring EXCEPT ![idx[t]] = Append(@, buf[t])]
                         ELSE ring
              /\ pc' = [pc EXCEPT ![t] = "mark"]
              /\ UNCHANGED <<objects, need_log, buf, idx, printer, raced>>

\* need_log[i] = KYLIN_TRUE
Mark(t) == /\ pc[t] = "mark"
           /\ need_log' = [need_log EXCEPT ![idx[t]] = TRUE]
           /\ raced' = [raced EXCEPT ![idx[t]] = proc = "clear" /\ i = idx[t]]
           /\ NextType(t)
           /\ UNCHANGED <<objects, ring, buf, printer>>

Calling(t) == Test(t) \/ Enqueue(t) \/ Mark(t)

-----------------------------------------------------------------------------
\* __buffer_process and __buffer_dequeue

NextRound == i' = i + 1 /\ proc' = "scan"

\* (mutant of Scan: the pass starts over as soon as one ring was served)
ScanRestart == /\ proc = "scan"
               /\ IF i = NTypes \/ (i > 0 /\ ~need_sleep)
                  THEN i' = 0 /\ need_sleep' = TRUE /\ UNCHANGED proc
                  ELSE IF need_log[i]
                       THEN proc' = "dequeue" /\ need_sleep' = FALSE /\ UNCHANGED i
                       ELSE NextRound /\ UNCHANGED need_sleep
               /\ UNCHANGED <<objects, ring, need_log, callers, cur, raced>>

\* One test of need_log[i]; after the last type the pass ends, with a sleep
\* when it found nothing to do.
Scan == /\ proc = "scan"
        /\ IF i = NTypes
           THEN i' = 0 /\ need_sleep' = TRUE /\ UNCHANGED proc
           ELSE IF need_log[i]
                THEN proc' = "dequeue" /\ need_sleep' = FALSE /\ UNCHANGED i
                ELSE NextRound /\ UNCHANGED need_sleep
        /\ UNCHANGED <<objects, ring, need_log, callers, cur, raced>>

\* kylin_ring_dequeue; NULL: the flag is to be cleared
Dequeue == /\ proc = "dequeue"
           /\ IF ring[i] = <<>>
              THEN proc' = "clear" /\ UNCHANGED <<ring, cur>>
              ELSE /\ proc' = "print"
                   /\ cur' = Head(ring[i])
                   /\ ring' = [ring EXCEPT ![i] = Tail(@)]
           /\ UNCHANGED <<objects, need_log, callers, i, need_sleep, raced>>

\* The object is looked up again: the message is dropped when it is not found,
\* and printed (if the object still has a logger) when it is.
PrintMsg == /\ proc = "print"
            /\ IF object_find(cur.obj)
               THEN proc' = "peek" /\ UNCHANGED i
               ELSE NextRound
            /\ cur' = None
            /\ UNCHANGED <<objects, ring, need_log, callers, need_sleep, raced>>

\* (mutant of Peek: the flag falls after every message)
PeekAlways == /\ proc = "peek"
              /\ proc' = "clear" /\ UNCHANGED i
              /\ UNCHANGED <<objects, ring, need_log, callers, need_sleep, cur, raced>>

\* kylin_ring_peek
Peek == /\ proc = "peek"
        /\ IF ring[i] = <<>>
           THEN proc' = "clear" /\ UNCHANGED i
           ELSE NextRound
        /\ UNCHANGED <<objects, ring, need_log, callers, need_sleep, cur, raced>>

\* need_log[type] = KYLIN_FALSE
Clear == /\ proc = "clear"
         /\ need_log' = [need_log EXCEPT ![i] = FALSE]
         /\ NextRound
         /\ UNCHANGED <<objects, ring, callers, need_sleep, cur, raced>>

Process == Scan \/ Dequeue \/ PrintMsg \/ Peek \/ Clear

Next == \/ Admin
        \/ \E t \in Callers : Log(t) \/ Calling(t)
        \/ Process

Spec == Init /\ [][Next]_vars

\* The printing thread runs for ever, and a call that has begun goes on.
FairSpec == /\ Spec
            /\ WF_vars(Process)
            /\ \A t \in Callers : WF_vars(Calling(t))

-----------------------------------------------------------------------------
(***************************************************************************)
(* A queued message that the printing thread is not told of is there for   *)
(* one of two reasons: its caller is about to raise the flag, or the flag  *)
(* was raised in the window between the printing thread's finding the ring *)
(* empty and its clearing the flag.  No other interleaving, full ring,     *)
(* vanished object or removed logger strands a message.                    *)
(***************************************************************************)
StrandedOnlyByThatRace ==
    \A n \in Types :
        ring[n] # <<>> /\ ~need_log[n]
          => raced[n] \/ \E t \in Callers : pc[t] = "mark" /\ idx[t] = n

(***************************************************************************)
(* A queued message gets its ring looked at, however busy the other types  *)
(* are and whatever happens to its object: __buffer_process takes at most  *)
(* one message of each type in a pass.  The same race is the exception.    *)
(***************************************************************************)
EveryTypeServed ==
    \A n \in Types :
        ring[n] # <<>> ~> \/ proc = "dequeue" /\ i = n
                          \/ raced[n]

(***************************************************************************)
(* "标记当前时刻有哪些日志缓冲区有值" (kylin_log_buf.c: need_log marks which log    *)
(* buffers have values at the moment), at moments when no thread is in the *)
(* middle of changing a ring or a flag.                                    *)
(***************************************************************************)
Quiet == /\ \A t \in Callers : pc[t] = "idle"
         /\ proc = "scan"

NeedLogMarksValues ==
    Quiet => \A n \in Types : ring[n] # <<>> => need_log[n]

(***************************************************************************)
(* "根据id找到相应的日志对象" (kylin_log_obj.h: object_find finds the log object  *)
(* of an id): it finds every object that was created and not destroyed.    *)
(***************************************************************************)
FindsEveryObject == \A o \in live : object_find(o)
=============================================================================
