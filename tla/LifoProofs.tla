----------------------------- MODULE LifoProofs -----------------------------
(***************************************************************************)
(* Theorems about the lifo, for any capacity and any bytes.                *)
(***************************************************************************)
EXTENDS Lifo, SequenceTheorems, TLAPS

\* The stack is the bytes pushed and not popped, until it is emptied.
Stacked == /\ pushed \in Seq(Bytes) /\ top = Len(pushed) /\ top < LifoCap
           /\ \A i \in 0..top - 1 : buf[i] = pushed[i + 1]

LifoInv == emptied \in BOOLEAN /\ (~emptied => Stacked)

-----------------------------------------------------------------------------
\* The size_t arithmetic is exact as far as the guards let it go.
LEMMA Exact == ASSUME NEW a \in Nat, NEW w \in Nat, a < w PROVE a % w = a
OBVIOUS

LEMMA PushKeeps ==
    ASSUME NEW n \in 1..LifoCap, NEW s \in [1..n -> Bytes], LifoInv, kylin_lifo_push(s)
    PROVE  LifoInv' /\ ~emptied /\ Len(pushed) < Len(pushed')
<1> USE LifoAssumption
<1>1. ~emptied /\ Stacked /\ n \in Nat \ {0} /\ top \in Nat
    BY DEF kylin_lifo_push, LifoInv, Stacked
<1>2. s \in Seq(Bytes) /\ Len(s) = n
    BY <1>1
<1>3. (top + n) % LifoWidth = top + n
  <2>1. top + n \in Nat /\ top + n < LifoWidth
      BY <1>1 DEF Stacked
  <2> QED  BY <2>1, Exact
<1>4. /\ top' = top + n /\ top + n < LifoCap /\ pushed' = pushed \o s /\ emptied' = emptied
      /\ buf' = [i \in 0..LifoCap - 1 |-> IF i \in top..top + n - 1 THEN s[i - top + 1] ELSE buf[i]]
    BY <1>1, <1>2, <1>3 DEF kylin_lifo_push
<1>5. /\ pushed' \in Seq(Bytes) /\ Len(pushed') = top + n
      /\ \A j \in 1..top + n : pushed'[j] = IF j <= top THEN pushed[j] ELSE s[j - top]
  <2>1. pushed \in Seq(Bytes) /\ Len(pushed) = top
      BY <1>1 DEF Stacked
  <2>2. /\ pushed \o s \in Seq(Bytes) /\ Len(pushed \o s) = Len(pushed) + Len(s)
        /\ \A j \in 1..Len(pushed) + Len(s) : (pushed \o s)[j] = IF j <= Len(pushed) THEN pushed[j]
                                                                ELSE s[j - Len(pushed)]
      BY <2>1, <1>2, ConcatProperties
  <2> QED  BY <1>2, <1>4, <2>1, <2>2
<1>6. ASSUME NEW i \in 0..top + n - 1 PROVE buf'[i] = pushed'[i + 1]
  <2>1. /\ i \in 0..LifoCap - 1 /\ i \in Nat /\ i + 1 \in 1..top + n
        /\ (i \in top..top + n - 1) <=> (i >= top)
        /\ (i + 1 <= top) <=> (i < top)
        /\ i - top + 1 = (i + 1) - top
      BY <1>1, <1>4, <1>6
  <2>2. buf'[i] = IF i >= top THEN s[i - top + 1] ELSE buf[i]
      BY <1>4, <2>1
  <2>3. pushed'[i + 1] = IF i < top THEN pushed[i + 1] ELSE s[(i + 1) - top]
      BY <1>5, <2>1
  <2>4. CASE i < top
    <3>1. i \in 0..top - 1 /\ ~(i >= top)
        BY <2>4, <2>1, <1>1
    <3> QED  BY <3>1, <2>2, <2>3, <2>4, <1>1 DEF Stacked
  <2>5. CASE ~(i < top)
    <3>1. i >= top
        BY <2>5, <2>1, <1>1
    <3> QED  BY <3>1, <2>1, <2>2, <2>3, <2>5
  <2> QED  BY <2>4, <2>5
<1>7. Stacked'
  <2>1. \A i \in 0..top' - 1 : buf'[i] = pushed'[i + 1]
    <3>1. \A i \in 0..top + n - 1 : buf'[i] = pushed'[i + 1]
        BY <1>6
    <3>2. top' = top + n
        BY <1>4
    <3>3. top \in Nat /\ n \in Nat
        BY <1>1
    <3> QED  BY <3>1, <3>2, <3>3
  <2> QED  BY <1>4, <1>5, <2>1 DEF Stacked
<1>8. Len(pushed) < Len(pushed')
    BY <1>1, <1>5 DEF Stacked
<1> QED  BY <1>1, <1>4, <1>7, <1>8 DEF LifoInv

\* What a pop or a top copies out
LEMMA TakenAre ==
    ASSUME NEW n \in 1..LifoCap, Stacked, n <= top
    PROVE  LifoTaken(n) = SubSeq(pushed, top - n + 1, top)
<1> USE LifoAssumption
<1>1. /\ n \in Nat \ {0} /\ top \in Nat /\ top - n \in Nat /\ pushed \in Seq(Bytes)
      /\ top = Len(pushed) /\ \A j \in 1..top : pushed[j] \in Bytes
    BY DEF Stacked
<1> DEFINE u == SubSeq(pushed, top - n + 1, top)
<1>2. /\ u \in Seq(Bytes) /\ Len(u) = n
      /\ \A i \in 1..n : u[i] = pushed[top - n + i]
  <2>1. \A j \in (top - n + 1)..top : pushed[j] \in Bytes
      BY <1>1
  <2>2. /\ u \in Seq(Bytes) /\ Len(u) = IF top - n + 1 <= top THEN top - (top - n + 1) + 1 ELSE 0
        /\ \A i \in 1..top - (top - n + 1) + 1 : u[i] = pushed[(top - n + 1) + i - 1]
      BY <1>1, <2>1, SubSeqProperties
  <2>3. /\ top - n + 1 <= top /\ top - (top - n + 1) + 1 = n
        /\ \A i \in 1..n : (top - n + 1) + i - 1 = top - n + i
      BY <1>1
  <2> HIDE DEF u
  <2> QED  BY <2>2, <2>3
<1> HIDE DEF u
<1>3. ASSUME NEW i \in 1..n PROVE buf[top - n + i - 1] = u[i]
  <2>1. top - n + i - 1 \in 0..top - 1 /\ (top - n + i - 1) + 1 = top - n + i
      BY <1>1
  <2>2. buf[top - n + i - 1] = pushed[top - n + i]
      BY <2>1 DEF Stacked
  <2> QED  BY <1>2, <2>2
<1>4. LifoTaken(n) = [i \in 1..n |-> u[i]]
    BY <1>3 DEF LifoTaken
<1>5. u = [i \in 1..n |-> u[i]]
    BY <1>2
<1> QED  BY <1>4, <1>5 DEF u

LEMMA PopKeeps ==
    ASSUME NEW n \in 1..LifoCap, LifoInv, kylin_lifo_pop(n)
    PROVE  LifoInv' /\ (~emptied' => pushed = pushed' \o lifo_got')
<1> USE LifoAssumption
<1>1. ~emptied /\ Stacked /\ n \in Nat \ {0} /\ top \in Nat /\ pushed \in Seq(Bytes) /\ top = Len(pushed)
    BY DEF kylin_lifo_pop, LifoInv, Stacked
<1>2. CASE ~(n <= top)
  <2>1. emptied' = TRUE
      BY <1>2 DEF kylin_lifo_pop
  <2> QED  BY <2>1 DEF LifoInv
<1>3. CASE n <= top
  <2>1. /\ lifo_got' = SubSeq(pushed, top - n + 1, top) /\ emptied' = emptied /\ buf' = buf
        /\ pushed' = SubSeq(pushed, 1, top - n)
      BY <1>1, <1>3, TakenAre DEF kylin_lifo_pop
  <2>2. top - n \in Nat /\ top - n < LifoWidth /\ top' = top - n
    <3>1. top - n \in Nat /\ top - n < LifoWidth /\ top' = (top - n) % LifoWidth
        BY <1>1, <1>3 DEF kylin_lifo_pop, Stacked
    <3> QED  BY <3>1, Exact
  <2>3. /\ pushed' \in Seq(Bytes) /\ Len(pushed') = top - n
        /\ \A i \in 1..top - n : pushed'[i] = pushed[i]
    <3>1. \A j \in 1..top - n : pushed[j] \in Bytes
        BY <1>1, <1>3
    <3>2. /\ SubSeq(pushed, 1, top - n) \in Seq(Bytes)
          /\ Len(SubSeq(pushed, 1, top - n)) = IF 1 <= top - n THEN (top - n) - 1 + 1 ELSE 0
          /\ \A i \in 1..(top - n) - 1 + 1 : SubSeq(pushed, 1, top - n)[i] = pushed[1 + i - 1]
        BY <2>2, <3>1, SubSeqProperties
    <3>3. /\ (IF 1 <= top - n THEN (top - n) - 1 + 1 ELSE 0) = top - n /\ (top - n) - 1 + 1 = top - n
          /\ \A i \in 1..top - n : 1 + i - 1 = i
        BY <2>2
    <3> QED  BY <2>1, <3>2, <3>3
  <2>4. Stacked'
    <3>1. top - n < LifoCap
        BY <1>1, <1>3 DEF Stacked
    <3>2. ASSUME NEW i \in 0..(top - n) - 1 PROVE buf[i] = pushed'[i + 1]
      <4>1. i \in 0..top - 1 /\ i + 1 \in 1..top - n
          BY <1>1, <1>3, <2>2
      <4> QED  BY <4>1, <1>1, <2>3 DEF Stacked
    <3>3. \A i \in 0..top' - 1 : buf'[i] = pushed'[i + 1]
        BY <3>2, <2>1, <2>2
    <3> QED  BY <3>1, <3>3, <2>2, <2>3 DEF Stacked
  <2>5. pushed = pushed' \o lifo_got'
    <3>1. SubSeq(pushed, 1, top) = SubSeq(pushed, 1, top - n) \o SubSeq(pushed, top - n + 1, top)
      <4>1. 1 \in 1..Len(pushed) + 1 /\ top - n \in 1 - 1..Len(pushed) /\ top \in top - n..Len(pushed)
          BY <1>1, <1>3, <2>2
      <4> QED  BY <1>1, <4>1, ConcatAdjacentSubSeq, Zenon
    <3>2. pushed = SubSeq(pushed, 1, top)
        BY <1>1, SubSeqFull
    <3> QED  BY <3>1, <3>2, <2>1
  <2> QED  BY <1>1, <2>1, <2>4, <2>5 DEF LifoInv
<1> QED  BY <1>2, <1>3

LEMMA TopKeeps ==
    ASSUME NEW n \in 1..LifoCap, LifoInv, kylin_lifo_top(n)
    PROVE  LifoInv' /\ (~emptied' => UNCHANGED pushed)
<1>1. CASE n <= top
    BY <1>1 DEF kylin_lifo_top, LifoInv, Stacked
<1>2. CASE ~(n <= top)
    BY <1>2 DEF kylin_lifo_top, LifoInv
<1> QED  BY <1>1, <1>2

LEMMA LifoInitially == kylin_lifo_create => LifoInv
<1> SUFFICES ASSUME kylin_lifo_create PROVE LifoInv
    OBVIOUS
<1>1. top = 0 /\ pushed = <<>> /\ emptied = FALSE
    BY DEF kylin_lifo_create
<1>2. <<>> \in Seq(Bytes) /\ Len(<<>>) = 0
    BY EmptySeq
<1>3. 0 < LifoCap /\ 0..0 - 1 = {}
    BY LifoAssumption
<1> QED  BY <1>1, <1>2, <1>3 DEF LifoInv, Stacked

LEMMA LifoStep == LifoInv /\ [LifoNext]_lifo_vars => LifoInv'
<1> SUFFICES ASSUME LifoInv, [LifoNext]_lifo_vars PROVE LifoInv'
    OBVIOUS
<1>1. CASE LifoNext
    BY <1>1, PushKeeps, PopKeeps, TopKeeps DEF LifoNext
<1>2. CASE UNCHANGED lifo_vars
    BY <1>2 DEF lifo_vars, LifoInv, Stacked
<1> QED  BY <1>1, <1>2

-----------------------------------------------------------------------------
(***************************************************************************)
(* For any capacity: kylin_lifo_push writes below cap only, and what lies  *)
(* below top is what was pushed, until a pop asks for more than there is.  *)
(***************************************************************************)
THEOREM LifoHolds == LifoSpec => []LifoHoldsThePushed
<1>1. LifoInv => LifoHoldsThePushed
    BY DEF LifoInv, Stacked, LifoHoldsThePushed
<1> QED  BY <1>1, LifoInitially, LifoStep, PTL DEF LifoSpec

(***************************************************************************)
(* For any capacity: kylin_lifo_pop delivers, and takes off the stack, the *)
(* bytes that were pushed last.                                            *)
(***************************************************************************)
THEOREM LifoPops == LifoSpec => LifoPopsTheLast
<1> DEFINE Pops == Len(pushed') < Len(pushed) /\ ~emptied' => pushed = pushed' \o lifo_got'
<1>1. LifoInv /\ [LifoNext]_lifo_vars => [Pops]_lifo_vars
  <2> SUFFICES ASSUME LifoInv, LifoNext PROVE Pops
      OBVIOUS
  <2>1. ASSUME NEW n \in 1..LifoCap, NEW s \in [1..n -> Bytes], kylin_lifo_push(s) PROVE Pops
    <3>1. Len(pushed) \in Nat /\ Len(pushed') \in Nat /\ Len(pushed) < Len(pushed')
        BY <2>1, PushKeeps DEF LifoInv, Stacked, kylin_lifo_push
    <3> QED  BY <3>1
  <2>2. ASSUME NEW n \in 1..LifoCap, kylin_lifo_pop(n) PROVE Pops
      BY <2>2, PopKeeps
  <2>3. ASSUME NEW n \in 1..LifoCap, kylin_lifo_top(n) PROVE Pops
    <3>1. CASE ~emptied'
      <4>1. UNCHANGED pushed /\ Len(pushed) \in Nat
          BY <2>3, <3>1, TopKeeps DEF LifoInv, Stacked, kylin_lifo_top
      <4> QED  BY <4>1
    <3> QED  BY <3>1
  <2> QED  BY <2>1, <2>2, <2>3 DEF LifoNext
<1> QED  BY <1>1, LifoInitially, LifoStep, PTL DEF LifoSpec, LifoPopsTheLast
=============================================================================
