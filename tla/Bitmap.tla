------------------------------- MODULE Bitmap -------------------------------
(***************************************************************************)
(* kylin_bitmap.c: bitmaps of whole words. A bitmap is the set of its bits *)
(* that are one; a word, or a mask of one, is a set of positions in a word.*)
(***************************************************************************)
EXTENDS Integers, Sequences

CONSTANTS
    BITS_PER_WORD,
    BmSizes     \* the number of words of each bitmap, a sequence

Maps == DOMAIN BmSizes
WordBits == 0..BITS_PER_WORD - 1
Bits(b) == 0..BmSizes[b] * BITS_PER_WORD - 1

VARIABLE bm     \* the bits of each bitmap

\* kylin_bitmap_create, for each: kylin_malloc clears what it returns.
BmInit == bm = [b \in Maps |-> {}]

-----------------------------------------------------------------------------
BITS_TO_WORDS(n) == (n + BITS_PER_WORD - 1) \div BITS_PER_WORD
BITMAP_WORD_INDEX(nr) == nr \div BITS_PER_WORD

\* (mutant of BITMAP_FIRST_WORD_MASK: one bit too low)
BITMAP_FIRST_WORD_MASK_low(start) == {b \in WordBits : b + 1 >= start % BITS_PER_WORD}
BITMAP_FIRST_WORD_MASK(start) == {b \in WordBits : b >= start % BITS_PER_WORD}
BITMAP_LAST_WORD_MASK(nbits) == {b \in WordBits : b < BITS_PER_WORD - ((-nbits) % BITS_PER_WORD)}

Word(b, i) == {j \in WordBits : i * BITS_PER_WORD + j \in bm[b]}
AsBits(i, w) == {i * BITS_PER_WORD + j : j \in w}
Words(b, F(_)) == UNION {AsBits(i, F(i)) : i \in 0..BmSizes[b] - 1}

\* The bits that the loop of kylin_bitmap_set and kylin_bitmap_clear writes, from
\* word i on. The last mask is made of start plus the length that is left.
RECURSIVE RangeFrom(_, _, _, _, _)
RangeFrom(start, i, mask, bits, len) ==
    IF len - bits >= 0
    THEN AsBits(i, mask) \cup RangeFrom(start, i + 1, WordBits, BITS_PER_WORD, len - bits)
    ELSE IF len # 0 THEN AsBits(i, mask \cap BITMAP_LAST_WORD_MASK(start + len)) ELSE {}

RangeOf(start, len) == RangeFrom(start, BITMAP_WORD_INDEX(start), BITMAP_FIRST_WORD_MASK(start),
                                 BITS_PER_WORD - (start % BITS_PER_WORD), len)

set_bits(b, start, len) == bm[b] \cup RangeOf(start, len)
clear_bits(b, start, len) == bm[b] \ RangeOf(start, len)

InRange(b, start, len) == BITS_TO_WORDS(start) <= BmSizes[b] /\ BITS_TO_WORDS(start + len) <= BmSizes[b]

Least2(m, n) == IF m < n THEN m ELSE n

\* The words of dst: the first ones as given, the others left as they are
FirstWords(dst, first) ==
    LET word(i) == IF i \in DOMAIN first THEN first[i] ELSE Word(dst, i) IN Words(dst, word)

\* (mutant of shift_right: nothing comes down from the word above)
shift_right_alone(b, shift) ==
    LET offset == shift \div BITS_PER_WORD
        rest   == shift % BITS_PER_WORD
        lower(i) == {j - rest : j \in {x \in Word(b, offset + i) : x >= rest}}
    IN  Words(b, lower)

shift_right(b, shift) ==
    LET size   == BmSizes[b]
        offset == shift \div BITS_PER_WORD
        rest   == shift % BITS_PER_WORD
        upper(i) == IF rest = 0 \/ offset + i + 1 >= size THEN {}
                    ELSE {j + BITS_PER_WORD - rest : j \in {x \in Word(b, offset + i + 1) : x < rest}}
        lower(i) == {j - rest : j \in {x \in Word(b, offset + i) : x >= rest}}
        word(i)  == IF i + offset < size THEN lower(i) \cup upper(i) ELSE {}
    IN  Words(b, word)

shift_left(b, shift) ==
    LET offset == shift \div BITS_PER_WORD
        rest   == shift % BITS_PER_WORD
        lower(i) == IF rest = 0 \/ i = 0 THEN {}
                    ELSE {j - (BITS_PER_WORD - rest) : j \in {x \in Word(b, i - 1) : x >= BITS_PER_WORD - rest}}
        upper(i) == {j + rest : j \in {x \in Word(b, i) : x + rest < BITS_PER_WORD}}
        word(i)  == IF i >= offset THEN lower(i - offset) \cup upper(i - offset) ELSE {}
    IN  Words(b, word)

kylin_bitmap_is_equal(s, t) == BmSizes[s] = BmSizes[t] /\ bm[s] = bm[t]
kylin_bitmap_is_intersects(s, t) ==
    \E i \in 0..Least2(BmSizes[s], BmSizes[t]) - 1 : Word(s, i) \cap Word(t, i) # {}

\* (mutant of kylin_bitmap_is_subset: the two bitmaps are exchanged)
kylin_bitmap_is_subset_swapped(parent, child) ==
    \A i \in 0..Least2(BmSizes[parent], BmSizes[child]) - 1 : Word(parent, i) \ Word(child, i) = {}
kylin_bitmap_is_subset(parent, child) ==
    \A i \in 0..Least2(BmSizes[parent], BmSizes[child]) - 1 : Word(child, i) \ Word(parent, i) = {}
kylin_bitmap_is_empty(b) == bm[b] = {}
kylin_bitmap_is_full(b) == Bits(b) \ bm[b] = {}

-----------------------------------------------------------------------------
SetBm(b, v) == bm' = [bm EXCEPT ![b] = v]

kylin_bitmap_set(b, start, len) == InRange(b, start, len) /\ SetBm(b, set_bits(b, start, len))
kylin_bitmap_clear(b, start, len) == InRange(b, start, len) /\ SetBm(b, clear_bits(b, start, len))

kylin_bitmap_copy(dst, src, size) ==
    /\ size <= BmSizes[src] /\ size <= BmSizes[dst]
    /\ SetBm(dst, FirstWords(dst, [i \in 0..size - 1 |-> Word(src, i)]))

\* A new bitmap with src's options takes the place of another of that size
kylin_bitmap_dup(dst, src) == BmSizes[dst] = BmSizes[src] /\ kylin_bitmap_copy(dst, src, BmSizes[src])

Shiftable(b, shift) == shift <= BmSizes[b] * BITS_PER_WORD
kylin_bitmap_shift_right(b, shift) == Shiftable(b, shift) /\ SetBm(b, shift_right(b, shift))
kylin_bitmap_shift_left(b, shift) == Shiftable(b, shift) /\ SetBm(b, shift_left(b, shift))

Common(dst, s, t) == 0..Least2(BmSizes[dst], Least2(BmSizes[s], BmSizes[t])) - 1

kylin_bitmap_and(dst, s, t) ==
    SetBm(dst, FirstWords(dst, [i \in Common(dst, s, t) |-> Word(s, i) \cap Word(t, i)]))
kylin_bitmap_or(dst, s, t) ==
    /\ BmSizes[s] <= BmSizes[dst] /\ BmSizes[t] <= BmSizes[dst]
    /\ LET part(b, i) == IF i < BmSizes[b] THEN Word(b, i) ELSE {}
       IN  SetBm(dst, FirstWords(dst, [i \in 0..BmSizes[dst] - 1 |-> part(s, i) \cup part(t, i)]))
kylin_bitmap_xor(dst, s, t) ==
    LET word(i) == (Word(s, i) \cup Word(t, i)) \ (Word(s, i) \cap Word(t, i))
    IN  SetBm(dst, FirstWords(dst, [i \in Common(dst, s, t) |-> word(i)]))
kylin_bitmap_andnot(dst, s, t) ==
    SetBm(dst, FirstWords(dst, [i \in Common(dst, s, t) |-> Word(s, i) \ Word(t, i)]))
kylin_bitmap_complement(dst, s) ==
    SetBm(dst, FirstWords(dst, [i \in Common(dst, s, s) |-> WordBits \ Word(s, i)]))

BmNext ==
    \E b, s \in Maps :
        \/ \E n \in Bits(b) : kylin_bitmap_shift_right(b, n) \/ kylin_bitmap_shift_left(b, n)
        \/ \E n, len \in Bits(b) : kylin_bitmap_set(b, n, len) \/ kylin_bitmap_clear(b, n, len)
        \/ \E n \in 0..BmSizes[b] : kylin_bitmap_copy(b, s, n)
        \/ kylin_bitmap_dup(b, s) \/ kylin_bitmap_complement(b, s)
        \/ \E t \in Maps : \/ kylin_bitmap_and(b, s, t) \/ kylin_bitmap_or(b, s, t)
                           \/ kylin_bitmap_xor(b, s, t) \/ kylin_bitmap_andnot(b, s, t)

-----------------------------------------------------------------------------
(***************************************************************************)
(* A range that starts at a word, ends with one or lies inside one word is *)
(* set and cleared exactly. Any other range has the wrong bits of its last *)
(* word written, because the last mask is made after len was reduced, but  *)
(* never a bit of another word.                                            *)
(***************************************************************************)
BitmapRangeExact ==
    \A b \in Maps : \A start, len \in Bits(b) : InRange(b, start, len) =>
        LET end   == start + len
            range == start..end - 1
            last  == IF \/ start % BITS_PER_WORD = 0 \/ end % BITS_PER_WORD = 0
                        \/ BITMAP_WORD_INDEX(start) = BITMAP_WORD_INDEX(end)
                     THEN {} ELSE AsBits(BITMAP_WORD_INDEX(end), WordBits)
        IN  /\ set_bits(b, start, len) \subseteq Bits(b)
            /\ set_bits(b, start, len) \ last = (bm[b] \cup range) \ last
            /\ clear_bits(b, start, len) \ last = (bm[b] \ range) \ last

(***************************************************************************)
(* The shifts move every bit by the distance asked for, across words, and  *)
(* drop exactly those that leave the bitmap.                               *)
(***************************************************************************)
BitmapShiftsExact ==
    \A b \in Maps : \A n \in Bits(b) :
        /\ shift_right(b, n) = {x - n : x \in {y \in bm[b] : y >= n}}
        /\ shift_left(b, n) = {x + n : x \in bm[b]} \cap Bits(b)

(***************************************************************************)
(* The tests agree with the sets of bits, with one exception: a child with *)
(* more words than its parent is called a subset whatever these words hold.*)
(***************************************************************************)
BitmapTestsAgree ==
    \A s, t \in Maps :
        /\ kylin_bitmap_is_intersects(s, t) <=> bm[s] \cap bm[t] # {}
        /\ BmSizes[t] <= BmSizes[s] => (kylin_bitmap_is_subset(s, t) <=> bm[t] \subseteq bm[s])
        /\ kylin_bitmap_is_equal(s, t) => kylin_bitmap_is_subset(s, t)
        /\ kylin_bitmap_is_full(s) => kylin_bitmap_is_subset(s, t)
        /\ kylin_bitmap_is_empty(t) => kylin_bitmap_is_subset(s, t) /\ ~kylin_bitmap_is_intersects(s, t)

(***************************************************************************)
(* Ranges, shifts and tests do to the words of a bitmap what they should   *)
(* do to the set of its bits, but for what the properties except.          *)
(***************************************************************************)
BitmapIsASet == BitmapRangeExact /\ BitmapShiftsExact /\ BitmapTestsAgree
=============================================================================
