-------------------------------- MODULE Lifo --------------------------------
(***************************************************************************)
(* kylin_lifo.c: a stack of bytes. top is a size_t, of LifoWidth values.   *)
(***************************************************************************)
EXTENDS Integers, Sequences

CONSTANTS
    LifoCap,     \* opts.cap
    LifoWidth,   \* the number of values of a size_t
    Bytes        \* the values of a byte

ASSUME LifoAssumption ==
    LifoCap \in Nat \ {0} /\ LifoWidth \in Nat /\ 2 * LifoCap < LifoWidth

VARIABLES
    top,        \* the stack's top
    buf,        \* buf[0 .. cap - 1]
    lifo_got,   \* history: what the last pop delivered
    pushed,     \* history: the bytes pushed and not popped
    emptied     \* history: a pop has asked for more than there was, and the
                \* memory before the buffer has been read (nothing follows)

lifo_vars == <<top, buf, lifo_got, pushed, emptied>>

kylin_lifo_create ==
    /\ top = 0 /\ buf = [i \in 0..LifoCap - 1 |-> 0]
    /\ lifo_got = <<>> /\ pushed = <<>> /\ emptied = FALSE

\* (mutant of kylin_lifo_push: the guard is off by two)
kylin_lifo_push_past(s) ==
    /\ ~emptied
    /\ (top + Len(s)) % LifoWidth <= LifoCap + 1
    /\ buf' = [i \in 0..LifoCap - 1 |-> IF i \in top..top + Len(s) - 1 THEN s[i - top + 1] ELSE buf[i]]
    /\ top' = (top + Len(s)) % LifoWidth
    /\ pushed' = pushed \o s /\ UNCHANGED <<lifo_got, emptied>>

kylin_lifo_push(s) ==
    /\ ~emptied
    /\ (top + Len(s)) % LifoWidth <= LifoCap - 1
    /\ buf' = [i \in 0..LifoCap - 1 |-> IF i \in top..top + Len(s) - 1 THEN s[i - top + 1] ELSE buf[i]]
    /\ top' = (top + Len(s)) % LifoWidth
    /\ pushed' = pushed \o s /\ UNCHANGED <<lifo_got, emptied>>

\* (mutant of LifoTaken: the bytes above the top)
LifoTakenAbove(n) == [i \in 1..n |-> IF top + i - 1 < LifoCap THEN buf[top + i - 1] ELSE 0]

\* The n bytes below the top
LifoTaken(n) == [i \in 1..n |-> buf[top - n + i - 1]]

\* The guard is top - n < 0 on size_t: always false. When there are fewer than n
\* bytes the copy starts before the buffer, and top wraps around.
kylin_lifo_pop(n) ==
    /\ ~emptied
    /\ top' = (top - n) % LifoWidth
    /\ IF n <= top
       THEN /\ lifo_got' = LifoTaken(n) /\ UNCHANGED emptied
            /\ pushed' = SubSeq(pushed, 1, Len(pushed) - n)
       ELSE lifo_got' = <<>> /\ pushed' = <<>> /\ emptied' = TRUE
    /\ UNCHANGED buf

\* A pop that leaves the top where it is
kylin_lifo_top(n) ==
    /\ ~emptied
    /\ IF n <= top THEN lifo_got' = LifoTaken(n) /\ UNCHANGED <<pushed, emptied>>
       ELSE lifo_got' = <<>> /\ pushed' = <<>> /\ emptied' = TRUE
    /\ UNCHANGED <<top, buf>>

LifoNext == \/ \E n \in 1..LifoCap : \/ \E s \in [1..n -> Bytes] : kylin_lifo_push(s)
                                     \/ kylin_lifo_pop(n) \/ kylin_lifo_top(n)

LifoSpec == kylin_lifo_create /\ [][LifoNext]_lifo_vars

-----------------------------------------------------------------------------
(***************************************************************************)
(* Until a pop asks for more bytes than there are, the buffer up to top    *)
(* holds the bytes pushed and not popped, and top stays below cap.         *)
(***************************************************************************)
LifoHoldsThePushed ==
    ~emptied => /\ top = Len(pushed) /\ top < LifoCap
                /\ \A i \in 0..top - 1 : buf[i] = pushed[i + 1]

(***************************************************************************)
(* A pop delivers the bytes that were pushed last, in the order of the     *)
(* push, and takes exactly these off the stack.                            *)
(***************************************************************************)
LifoPopsTheLast ==
    [][Len(pushed') < Len(pushed) /\ ~emptied' => pushed = pushed' \o lifo_got']_lifo_vars
=============================================================================
