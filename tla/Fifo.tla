-------------------------------- MODULE Fifo --------------------------------
(***************************************************************************)
(* kylin_fifo.c: a queue of bytes in a circular buffer whose indices in    *)
(* and out are equal both when it is empty and when it is full; is_full is *)
(* there to tell the two apart.                                            *)
(*                                                                         *)
(* kylin_fifo_put does not compare len with the capacity: its callers do.  *)
(***************************************************************************)
EXTENDS Integers, Sequences, SequencesExt

CONSTANTS
    FifoCap,     \* opts.cap, a power of two
    FifoBytes,   \* kbyte_t
    MaxBytes     \* bound on the bytes put and not yet got

ASSUME FifoAssumption == /\ FifoCap \in Nat /\ FifoCap > 0
                         /\ MaxBytes \in Nat

VARIABLES
    in, out, is_full, fifo_val,   \* struct kylin_fifo
    fifo_ret,                     \* what the last call returned: see below
    fifo_q,                       \* history: the bytes put and not yet got
    fifo_due,                     \* history: what a queue of FifoCap bytes would return
    flush                         \* history: a put has filled the buffer up without
                                  \* wrapping round

fifo_vars == <<in, out, is_full, fifo_val, fifo_ret, fifo_q, fifo_due, flush>>

fifo_mask == FifoCap - 1
FifoIndex == 0..fifo_mask
Lengths == 0..FifoCap

\* A call returns -1, or the length put, or the bytes got or peeked at.
Refused == <<>>
Accepted(len) == <<len>>

FifoTypeOK ==
    /\ in \in FifoIndex /\ out \in FifoIndex
    /\ is_full \in BOOLEAN
    /\ fifo_val \in [1..FifoCap -> FifoBytes \cup {0}]
    /\ fifo_ret \in Seq(FifoBytes \cup Lengths)
    /\ fifo_q \in Seq(FifoBytes) /\ Len(fifo_q) <= MaxBytes
    /\ fifo_due \in Seq(FifoBytes \cup Lengths)
    /\ flush \in BOOLEAN

kylin_fifo_create ==
    /\ in = 0 /\ out = 0 /\ is_full = FALSE
    /\ fifo_val = [p \in 1..FifoCap |-> 0]
    /\ fifo_ret = <<>> /\ fifo_q = <<>> /\ fifo_due = <<>> /\ flush = FALSE

-----------------------------------------------------------------------------
\* memcpy(fifo_val + at, bytes, Len(bytes))
FifoWritten(v, at, bytes) == [p \in 1..FifoCap |-> IF p - at \in 1..Len(bytes)
                                           THEN bytes[p - at] ELSE v[p]]

\* The early return of kylin_fifo_put
NoRoom(len) == \/ len = 0
               \/ is_full
               \/ in < out /\ in + len > out
               \/ in >= out /\ in + len > fifo_mask /\ (in + len) % FifoCap > out

PutRefused(len) == /\ NoRoom(len)
                   /\ fifo_ret' = Refused
                   /\ fifo_due' = IF len \in 1..FifoCap - Len(fifo_q) THEN Accepted(len) ELSE Refused
                   /\ UNCHANGED <<in, out, is_full, fifo_val, fifo_q, flush>>

\* (mutant of PutWrapped: is_full is not set)
PutWrappedNoFlag(bytes) ==
    LET rest == FifoCap - in
    IN  /\ in + Len(bytes) > FifoCap
        /\ fifo_val' = FifoWritten(FifoWritten(fifo_val, in, SubSeq(bytes, 1, rest)),
                          0, SubSeq(bytes, rest + 1, Len(bytes)))
        /\ in' = Len(bytes) - rest
        /\ UNCHANGED is_full

\* The copy in two pieces
PutWrapped(bytes) ==
    LET rest == FifoCap - in
    IN  /\ in + Len(bytes) > FifoCap
        /\ fifo_val' = FifoWritten(FifoWritten(fifo_val, in, SubSeq(bytes, 1, rest)),
                          0, SubSeq(bytes, rest + 1, Len(bytes)))
        /\ in' = Len(bytes) - rest
        /\ is_full' = IF in' = out THEN TRUE ELSE is_full

\* (mutant of PutStraight: in is not masked)
PutStraightNoMask(bytes) == /\ in + Len(bytes) <= FifoCap
                            /\ fifo_val' = FifoWritten(fifo_val, in, bytes)
                            /\ in' = in + Len(bytes)
                            /\ UNCHANGED is_full

\* The copy in one piece
PutStraight(bytes) == /\ in + Len(bytes) <= FifoCap
                      /\ fifo_val' = FifoWritten(fifo_val, in, bytes)
                      /\ in' = (in + Len(bytes)) % FifoCap
                      /\ UNCHANGED is_full

Fills(bytes) == Len(fifo_q) + Len(bytes) = FifoCap

kylin_fifo_put(bytes) ==
    /\ ~NoRoom(Len(bytes))
    /\ Len(fifo_q) + Len(bytes) <= MaxBytes
    /\ PutWrapped(bytes) \/ PutStraight(bytes)
    /\ fifo_ret' = Accepted(Len(bytes))
    /\ fifo_due' = IF Len(bytes) <= FifoCap - Len(fifo_q) THEN Accepted(Len(bytes)) ELSE Refused
    /\ fifo_q' = fifo_q \o bytes
    /\ flush' = (flush \/ (Fills(bytes) /\ in + Len(bytes) <= FifoCap))
    /\ UNCHANGED out

-----------------------------------------------------------------------------
\* The bytes that in and out say are there
Available == IF is_full THEN FifoCap
             ELSE IF in >= out THEN in - out ELSE FifoCap - (out - in)

TooFew(len) == len = 0 \/ len > FifoCap \/ len > Available

\* (mutant of FifoCopied: the second piece starts where the first did)
FifoCopiedTwice(len) ==
    IF out + len > FifoCap
    THEN SubSeq(fifo_val, out + 1, FifoCap) \o SubSeq(fifo_val, out + 1, out + len - (FifoCap - out))
    ELSE SubSeq(fifo_val, out + 1, out + len)

\* What kylin_fifo_get and kylin_fifo_peek copy out, in one piece or two
FifoCopied(len) == IF out + len > FifoCap
               THEN SubSeq(fifo_val, out + 1, FifoCap) \o SubSeq(fifo_val, 1, len - (FifoCap - out))
               ELSE SubSeq(fifo_val, out + 1, out + len)

Due(len) == IF len \in 1..Len(fifo_q) THEN SubSeq(fifo_q, 1, len) ELSE Refused

GetRefused(len) == /\ TooFew(len)
                   /\ fifo_ret' = Refused /\ fifo_due' = Due(len)
                   /\ UNCHANGED <<in, out, is_full, fifo_val, fifo_q, flush>>

kylin_fifo_get(len) ==
    /\ ~TooFew(len)
    /\ fifo_ret' = FifoCopied(len) /\ fifo_due' = Due(len)
    /\ out' = IF out + len > FifoCap THEN len - (FifoCap - out) ELSE (out + len) % FifoCap
    /\ is_full' = FALSE
    /\ fifo_q' = SubSeq(fifo_q, len + 1, Len(fifo_q))
    /\ UNCHANGED <<in, fifo_val, flush>>

kylin_fifo_peek(len) ==
    /\ fifo_ret' = IF TooFew(len) THEN Refused ELSE FifoCopied(len)
    /\ fifo_due' = Due(len)
    /\ UNCHANGED <<in, out, is_full, fifo_val, fifo_q, flush>>

FifoNext == \E len \in Lengths :
            \/ PutRefused(len) \/ GetRefused(len) \/ kylin_fifo_get(len) \/ kylin_fifo_peek(len)
            \/ \E bytes \in [1..len -> FifoBytes] : kylin_fifo_put(bytes)

-----------------------------------------------------------------------------
(***************************************************************************)
(* "先进先出队列，队列存储的是字节流" (kylin_fifo.h: a first-in first-out queue  *)
(* of bytes): every put, get and peek returns what a queue of cap bytes    *)
(* would, the refusals included, unless a put has ended exactly at out     *)
(* without wrapping round, the one case in which is_full is forgotten.     *)
(***************************************************************************)
IsAFifo == flush \/ fifo_ret = fifo_due

(***************************************************************************)
(* Whatever the calls, the bytes that can be got are the latest ones put,  *)
(* in their order: kylin_fifo_put and kylin_fifo_get never make up, repeat *)
(* or reorder bytes across the wrap; what is lost is lost from the front.  *)
(***************************************************************************)
ReadableIsLatest == IsSuffix(FifoCopied(Available), fifo_q)

(***************************************************************************)
(* "处理in = out的情况" (kylin_fifo.c: is_full deals with in = out): when the    *)
(* indices meet and bytes are there, is_full is set.                       *)
(***************************************************************************)
FullIsMarked == in = out /\ fifo_q # <<>> => is_full

(***************************************************************************)
(* What kylin_fifo_put takes, kylin_fifo_get delivers, in order, and what  *)
(* the indices say can be read is never anything else.                     *)
(***************************************************************************)
FifoKeepsBytes == FifoTypeOK /\ IsAFifo /\ ReadableIsLatest
=============================================================================
