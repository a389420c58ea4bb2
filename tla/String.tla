------------------------------- MODULE String -------------------------------
(***************************************************************************)
(* kylin_string.c: strings with a capacity and a length. A string's val    *)
(* has cap + 1 bytes; 0 is the byte '\0'. A char * argument is a C string, *)
(* written as the sequence of its bytes without the '\0'.                  *)
(***************************************************************************)
EXTENDS Integers, Sequences, SequencesExt

CONSTANTS
    StrCap,   \* opts.cap, of both strings
    Chars     \* the bytes other than 0

Strs == {1, 2}
CStrings == BoundedSeq(Chars, StrCap)

VARIABLES
    str,        \* each string: used and val
    str_over,   \* kylin_strncat_raw has written past the end of val
    residue     \* history: the strings that may have bytes beyond used

str_vars == <<str, str_over, residue>>

\* kylin_string_create, twice
StrInit ==
    /\ str = [s \in Strs |-> [used |-> 0, val |-> [i \in 1..StrCap + 1 |-> 0]]]
    /\ str_over = FALSE /\ residue = {}

-----------------------------------------------------------------------------
\* memcpy of the bytes b into val from index at on; bytes past the end are lost
\* here, and overwrite what follows the string there.
Copied(val, at, b) == [i \in 1..StrCap + 1 |-> IF i \in at + 1..at + Len(b) THEN b[i - at] ELSE val[i]]

Text(s) == SubSeq(str[s].val, 1, str[s].used)

LesserOf(a, b) == IF a < b THEN a ELSE b

\* The sign of memcmp over n bytes
memcmp(a, b, n) ==
    LET off == {i \in 1..n : a[i] # b[i]}
        at  == CHOOSE i \in off : \A j \in off : i <= j
    IN  IF off = {} THEN 0 ELSE IF a[at] < b[at] THEN -1 ELSE 1

kylin_strlen(s) == str[s].used

kylin_strndup(s, n) ==
    [used |-> LesserOf(str[s].used, n),
     val  |-> Copied([i \in 1..StrCap + 1 |-> 0], 0, SubSeq(str[s].val, 1, LesserOf(str[s].used, n)))]
kylin_strdup(s) == kylin_strndup(s, str[s].used)
kylin_strndup_raw(s, n) == SubSeq(str[s].val, 1, LesserOf(str[s].used, n))
kylin_strdup_raw(s) == kylin_strndup_raw(s, str[s].used)

kylin_strcmp(s, t) == memcmp(str[s].val, str[t].val, LesserOf(str[s].used, str[t].used))
kylin_strcmp_raw(s, c) == memcmp(str[s].val, c, LesserOf(str[s].used, Len(c)))
kylin_strncmp(s, t, n) == memcmp(str[s].val, str[t].val, n)
kylin_strncmp_raw(s, c, n) == memcmp(str[s].val, c, n)

\* An index of val, or 0 for NULL
kylin_strpbrk(s, acpt) == SelectInSeq(Text(s), LAMBDA c : c \in ToSet(acpt))
kylin_strchr(s, c) == kylin_strpbrk(s, <<c>>)
kylin_strrchr(s, c) == SelectLastInSeq(Text(s), LAMBDA d : c = d)


\* The loop ends at the first byte that is not the first one looked for
kylin_strstr_raw(s, acpt) ==
    LET fits(i)  == \A j \in DOMAIN acpt : i + j - 1 <= StrCap + 1 /\ str[s].val[i + j - 1] = acpt[j]
        tried(i) == \A j \in 1..i : str[s].val[j] = Append(acpt, 0)[1]
        hits     == {i \in 1..StrCap + 1 : tried(i) /\ fits(i)}
    IN  IF Len(acpt) > str[s].used \/ hits = {} THEN 0
        ELSE CHOOSE i \in hits : \A j \in hits : i <= j
kylin_strstr(s, t) == kylin_strstr_raw(s, Text(t))

\* The copy has a '\0' in the place of each separator
kylin_strtok(s, acpt) ==
    [kylin_strdup(s) EXCEPT !.val = [i \in 1..StrCap + 1 |-> IF @[i] \in ToSet(acpt) THEN 0 ELSE @[i]]]

-----------------------------------------------------------------------------
kylin_string_zero(s) ==
    /\ str' = [str EXCEPT ![s] = [used |-> 0, val |-> [i \in 1..StrCap + 1 |->
                                     IF i <= @.used THEN 0 ELSE @.val[i]]]]
    /\ UNCHANGED <<str_over, residue>>

\* The bytes that are left behind when a string gets shorter stay in val.
PutText(s, b) ==
    /\ str' = [str EXCEPT ![s] = [used |-> Len(b), val |-> Copied(@.val, 0, b)]]
    /\ residue' = IF Len(b) < str[s].used THEN residue \cup {s} ELSE residue
    /\ UNCHANGED str_over

\* (mutant of kylin_strncpy_raw: the capacity is not tested)
kylin_strncpy_raw_unbounded(dest, c, n) == n <= Len(c) /\ PutText(dest, SubSeq(c, 1, n))

kylin_strncpy_raw(dest, c, n) ==
    /\ n <= Len(c) /\ n <= StrCap
    /\ PutText(dest, SubSeq(c, 1, n))
kylin_strncpy(dest, src, n) == kylin_strncpy_raw(dest, Text(src), n)
kylin_strcpy_raw(dest, c) == Len(c) <= StrCap /\ PutText(dest, c)
kylin_strcpy(dest, src) == kylin_strcpy_raw(dest, Text(src))

\* used is not updated
AddText(s, b) ==
    /\ str' = [str EXCEPT ![s].val = Copied(@, str[s].used, b)]
    /\ residue' = IF b = <<>> THEN residue ELSE residue \cup {s}
    /\ str_over' = (str_over \/ str[s].used + Len(b) > StrCap + 1)

kylin_strncat(dest, src, n) ==
    /\ n <= str[src].used /\ n <= StrCap - str[dest].used
    /\ AddText(dest, SubSeq(str[src].val, 1, n))
kylin_strcat(dest, src) == kylin_strncat(dest, src, str[src].used)

\* The test is of n, the copy is of all of c.
kylin_strncat_raw(dest, c, n) ==
    /\ n <= Len(c) /\ n <= StrCap - str[dest].used
    /\ AddText(dest, c)
kylin_strcat_raw(dest, c) == kylin_strncat_raw(dest, c, Len(c))

StrNext ==
    /\ ~str_over
    /\ \E s \in Strs :
         \/ kylin_string_zero(s)
         \/ \E t \in Strs \ {s} : \/ kylin_strcpy(s, t) \/ kylin_strcat(s, t)
                                  \/ \E n \in 0..StrCap : kylin_strncpy(s, t, n) \/ kylin_strncat(s, t, n)
         \/ \E c \in BoundedSeq(Chars, StrCap + 1) :
               \/ kylin_strcpy_raw(s, c) \/ kylin_strcat_raw(s, c)
               \/ \E n \in 0..StrCap + 1 : kylin_strncpy_raw(s, c, n) \/ kylin_strncat_raw(s, c, n)

-----------------------------------------------------------------------------
(***************************************************************************)
(* used never exceeds cap, and beyond used there are only '\0' bytes, so   *)
(* that kylin_string_val is the string as a C string, unless the string    *)
(* has been concatenated to (used does not count what was added) or        *)
(* overwritten by a shorter one (the old bytes are left).                  *)
(***************************************************************************)
StringIsItsText ==
    \A s \in Strs : /\ str[s].used <= StrCap
                    /\ s \notin residue => \A i \in str[s].used + 1..StrCap + 1 : str[s].val[i] = 0

(***************************************************************************)
(* What kylin_strstr_raw finds in a string without residue is an           *)
(* occurrence inside the string, and the first one; it overlooks an        *)
(* occurrence only when an earlier byte differs from the first byte sought.*)
(***************************************************************************)
StringFindsAnOccurrence ==
    \A s \in Strs \ residue, c \in CStrings \ {<<>>} :
        LET i    == kylin_strstr_raw(s, c)
            t    == Text(s)
            hits == {j \in 1..Len(t) - Len(c) + 1 : SubSeq(t, j, j + Len(c) - 1) = c}
        IN  IF i # 0 THEN i \in hits /\ \A j \in hits : i <= j
            ELSE \A h \in hits : \E j \in 1..h - 1 : t[j] # c[1]

=============================================================================
