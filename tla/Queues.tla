------------------------------- MODULE Queues -------------------------------
(***************************************************************************)
(* The four intrusive lists of kylin_list_hpi.h: SLIST, STAILQ, LIST and   *)
(* TAILQ.  A head and the entry of an element are laid out alike, first    *)
(* the pointer to an element (nxt), then, where there is one, the address  *)
(* of a pointer to an element (ref: tqh_last of a head, tqe_prev of an     *)
(* element).  The address of a head's or an element's pointer is written   *)
(* as the head or the element, so that *p is nxt[p].                       *)
(***************************************************************************)
EXTENDS Integers, Sequences, SequencesExt

CONSTANT QElems      \* the elements, numbers above 0

QHeads == {-1, -2}
QNull == 0

VARIABLES
    links,    \* the memory: nxt and ref
    q_kind,   \* which of the four
    q_order   \* history: the elements of each head in order

queue_vars == <<links, q_kind, q_order>>

\* SLIST_INIT, STAILQ_INIT, LIST_INIT, TAILQ_INIT
QueuesInit ==
    /\ links = [nxt |-> [a \in QHeads \cup QElems |-> QNull],
                ref |-> [a \in QHeads \cup QElems |-> IF a \in QHeads THEN a ELSE QNull]]
    /\ q_kind \in {"SLIST", "STAILQ", "LIST", "TAILQ"}
    /\ q_order = [h \in QHeads |-> <<>>]

-----------------------------------------------------------------------------
\* The macros, as functions of the memory.  INSERT_HEAD is INSERT_AFTER with the
\* head for the element.

SLIST_INSERT_AFTER(m, a, elm) == [m EXCEPT !.nxt[elm] = m.nxt[a], !.nxt[a] = elm]
SLIST_INSERT_HEAD(m, h, elm) == SLIST_INSERT_AFTER(m, h, elm)

SLIST_REMOVE_AFTER(m, a) == [m EXCEPT !.nxt[a] = m.nxt[m.nxt[a]]]
SLIST_REMOVE_HEAD(m, h) == SLIST_REMOVE_AFTER(m, h)

\* The element before elm
CurElm(m, elm) == CHOOSE c \in QElems : m.nxt[c] = elm

SLIST_REMOVE(m, h, elm) == IF m.nxt[h] = elm THEN SLIST_REMOVE_HEAD(m, h)
                           ELSE SLIST_REMOVE_AFTER(m, CurElm(m, elm))

SLIST_SWAP(m, h1, h2) == [m EXCEPT !.nxt[h1] = m.nxt[h2], !.nxt[h2] = m.nxt[h1]]

STAILQ_INIT(m, h) == [m EXCEPT !.nxt[h] = QNull, !.ref[h] = h]

STAILQ_INSERT_AFTER(m, h, a, elm) ==
    [SLIST_INSERT_AFTER(m, a, elm) EXCEPT !.ref[h] = IF m.nxt[a] = QNull THEN elm ELSE @]
STAILQ_INSERT_HEAD(m, h, elm) == STAILQ_INSERT_AFTER(m, h, h, elm)

STAILQ_INSERT_TAIL(m, h, elm) ==
    [m EXCEPT !.nxt = [@ EXCEPT ![elm] = QNull, ![m.ref[h]] = elm], !.ref[h] = elm]

\* (mutant of STAILQ_REMOVE_AFTER: the address of the last pointer is left)
STAILQ_REMOVE_AFTER_Stale(m, h, a) == SLIST_REMOVE_AFTER(m, a)

STAILQ_REMOVE_AFTER(m, h, a) ==
    [SLIST_REMOVE_AFTER(m, a) EXCEPT !.ref[h] = IF m.nxt[m.nxt[a]] = QNull THEN a ELSE @]
STAILQ_REMOVE_HEAD(m, h) == STAILQ_REMOVE_AFTER(m, h, h)

STAILQ_REMOVE(m, h, elm) == IF m.nxt[h] = elm THEN STAILQ_REMOVE_HEAD(m, h)
                            ELSE STAILQ_REMOVE_AFTER(m, h, CurElm(m, elm))

STAILQ_CONCAT(m, h1, h2) ==
    IF m.nxt[h2] = QNull THEN m
    ELSE STAILQ_INIT([m EXCEPT !.nxt[m.ref[h1]] = m.nxt[h2], !.ref[h1] = m.ref[h2]], h2)

STAILQ_SWAP(m, h1, h2) ==
    LET m1 == [SLIST_SWAP(m, h1, h2) EXCEPT !.ref[h1] = m.ref[h2], !.ref[h2] = m.ref[h1]]
    IN  [m1 EXCEPT !.ref[h1] = IF m1.nxt[h1] = QNull THEN h1 ELSE @,
                   !.ref[h2] = IF m1.nxt[h2] = QNull THEN h2 ELSE @]

STAILQ_LAST(m, h) == IF m.nxt[h] = QNull THEN QNull ELSE m.ref[h]

-----------------------------------------------------------------------------
\* e's pointer back is a, if there is an e
Backed(m, e, a) == IF e = QNull THEN m ELSE [m EXCEPT !.ref[e] = a]

LIST_INSERT_AFTER(m, a, elm) ==
    [Backed(SLIST_INSERT_AFTER(m, a, elm), m.nxt[a], elm) EXCEPT !.ref[elm] = a]
LIST_INSERT_HEAD(m, h, elm) == LIST_INSERT_AFTER(m, h, elm)

\* (mutant of LIST_INSERT_BEFORE: the element after keeps its pointer back)
LIST_INSERT_BEFORE_Stale(m, e, elm) ==
    [m EXCEPT !.nxt = [@ EXCEPT ![elm] = e, ![m.ref[e]] = elm], !.ref[elm] = m.ref[e]]

LIST_INSERT_BEFORE(m, e, elm) ==
    [m EXCEPT !.nxt = [@ EXCEPT ![elm] = e, ![m.ref[e]] = elm],
              !.ref = [@ EXCEPT ![elm] = m.ref[e], ![e] = elm]]

LIST_REMOVE(m, elm) ==
    [Backed(m, m.nxt[elm], m.ref[elm]) EXCEPT !.nxt[m.ref[elm]] = m.nxt[elm]]

LIST_SWAP(m, h1, h2) == Backed(Backed(SLIST_SWAP(m, h1, h2), m.nxt[h2], h1), m.nxt[h1], h2)

\* "*(elm)->field.le_prev": the pointer that points to elm
LIST_PREV(m, elm) == m.nxt[m.ref[elm]]

TAILQ_INIT(m, h) == STAILQ_INIT(m, h)

TAILQ_INSERT_AFTER(m, h, a, elm) ==
    [LIST_INSERT_AFTER(m, a, elm) EXCEPT !.ref[h] = IF m.nxt[a] = QNull THEN elm ELSE @]
TAILQ_INSERT_HEAD(m, h, elm) == TAILQ_INSERT_AFTER(m, h, h, elm)
TAILQ_INSERT_BEFORE(m, e, elm) == LIST_INSERT_BEFORE(m, e, elm)
TAILQ_INSERT_TAIL(m, h, elm) == [STAILQ_INSERT_TAIL(m, h, elm) EXCEPT !.ref[elm] = m.ref[h]]

TAILQ_REMOVE(m, h, elm) ==
    [LIST_REMOVE(m, elm) EXCEPT !.ref[h] = IF m.nxt[elm] = QNull THEN m.ref[elm] ELSE @]

TAILQ_CONCAT(m, h1, h2) == Backed(STAILQ_CONCAT(m, h1, h2), m.nxt[h2], m.ref[h1])

TAILQ_SWAP(m, h1, h2) == Backed(Backed(STAILQ_SWAP(m, h1, h2), m.nxt[h2], h1), m.nxt[h1], h2)

\* The address is read as that of a head
TAILQ_LAST(m, h) == m.nxt[m.ref[m.ref[h]]]
TAILQ_PREV(m, elm) == m.nxt[m.ref[m.ref[elm]]]

-----------------------------------------------------------------------------
Queued == UNION {ToSet(q_order[h]) : h \in QHeads}

QPlace(h, e) == CHOOSE p \in DOMAIN q_order[h] : q_order[h][p] = e

QDo(m, q) == links' = m /\ q_order' = q /\ UNCHANGED q_kind

QInsertHead(h, elm) ==
    /\ elm \in QElems \ Queued
    /\ QDo(CASE q_kind = "SLIST" -> SLIST_INSERT_HEAD(links, h, elm)
            [] q_kind = "STAILQ" -> STAILQ_INSERT_HEAD(links, h, elm)
            [] q_kind = "LIST" -> LIST_INSERT_HEAD(links, h, elm)
            [] q_kind = "TAILQ" -> TAILQ_INSERT_HEAD(links, h, elm),
          [q_order EXCEPT ![h] = <<elm>> \o @])

QInsertAfter(h, e, elm) ==
    /\ elm \in QElems \ Queued /\ e \in ToSet(q_order[h])
    /\ QDo(CASE q_kind = "SLIST" -> SLIST_INSERT_AFTER(links, e, elm)
            [] q_kind = "STAILQ" -> STAILQ_INSERT_AFTER(links, h, e, elm)
            [] q_kind = "LIST" -> LIST_INSERT_AFTER(links, e, elm)
            [] q_kind = "TAILQ" -> TAILQ_INSERT_AFTER(links, h, e, elm),
          [q_order EXCEPT ![h] = InsertAt(@, QPlace(h, e) + 1, elm)])

QInsertBefore(h, e, elm) ==
    /\ q_kind \in {"LIST", "TAILQ"} /\ elm \in QElems \ Queued /\ e \in ToSet(q_order[h])
    /\ QDo(IF q_kind = "LIST" THEN LIST_INSERT_BEFORE(links, e, elm)
                           ELSE TAILQ_INSERT_BEFORE(links, e, elm),
          [q_order EXCEPT ![h] = InsertAt(@, QPlace(h, e), elm)])

QInsertTail(h, elm) ==
    /\ q_kind \in {"STAILQ", "TAILQ"} /\ elm \in QElems \ Queued
    /\ QDo(IF q_kind = "STAILQ" THEN STAILQ_INSERT_TAIL(links, h, elm)
                             ELSE TAILQ_INSERT_TAIL(links, h, elm),
          [q_order EXCEPT ![h] = Append(@, elm)])

\* TAILQ_ENTRY_INIT: the fields of an element outside the lists, which nothing
\* reads before they are written, are abstracted to what this makes them.
ENTRY_INIT(m, elm) == [m EXCEPT !.nxt[elm] = QNull, !.ref[elm] = QNull]

\* REMOVE and REMOVE_INIT
QRemove(h, elm) ==
    /\ elm \in ToSet(q_order[h])
    /\ QDo(ENTRY_INIT(CASE q_kind = "SLIST" -> SLIST_REMOVE(links, h, elm)
                       [] q_kind = "STAILQ" -> STAILQ_REMOVE(links, h, elm)
                       [] q_kind = "LIST" -> LIST_REMOVE(links, elm)
                       [] q_kind = "TAILQ" -> TAILQ_REMOVE(links, h, elm), elm),
          [q_order EXCEPT ![h] = RemoveAt(@, QPlace(h, elm))])

QSwap == QDo(CASE q_kind = "SLIST" -> SLIST_SWAP(links, -1, -2)
             [] q_kind = "STAILQ" -> STAILQ_SWAP(links, -1, -2)
             [] q_kind = "LIST" -> LIST_SWAP(links, -1, -2)
             [] q_kind = "TAILQ" -> TAILQ_SWAP(links, -1, -2),
           [h \in QHeads |-> q_order[-3 - h]])

QConcat == /\ q_kind \in {"STAILQ", "TAILQ"}
          /\ QDo(IF q_kind = "STAILQ" THEN STAILQ_CONCAT(links, -1, -2)
                                   ELSE TAILQ_CONCAT(links, -1, -2),
                [h \in QHeads |-> IF h = -1 THEN q_order[-1] \o q_order[-2] ELSE <<>>])

QueuesNext == \/ QSwap \/ QConcat
              \/ \E h \in QHeads, elm \in QElems :
                    \/ QInsertHead(h, elm) \/ QInsertTail(h, elm) \/ QRemove(h, elm)
                    \/ \E e \in QElems : QInsertAfter(h, e, elm) \/ QInsertBefore(h, e, elm)

-----------------------------------------------------------------------------
\* *a, or what a NULL pointer leads to
QAt(m, a) == IF a = QNull THEN QNull ELSE m.nxt[a]

(***************************************************************************)
(* FOREACH over each head visits the elements inserted and not removed in  *)
(* the order that the insertions, swaps and concatenations give them: the  *)
(* pointers of the four kinds never skip, repeat or cross the lists.       *)
(***************************************************************************)
QueuesInOrder ==
    \A h \in QHeads : LET walk == <<h>> \o q_order[h]
                      IN  \A p \in DOMAIN walk :
                             links.nxt[walk[p]] = IF p < Len(walk) THEN walk[p + 1] ELSE QNull

(***************************************************************************)
(* What QMD_LIST_CHECK_* and QMD_TAILQ_CHECK_* would panic about never     *)
(* happens, and the tail is right: the pointer back of every element is    *)
(* the address of the pointer to it (so that LIST_PREV returns the element *)
(* itself), INSERT_TAIL appends to the last element, and TAILQ_LAST and    *)
(* TAILQ_PREV, which read an entry as if it were a head, find their way.   *)
(***************************************************************************)
QueuesTailRight ==
    \A h \in QHeads : LET q == q_order[h]
                          final == IF q = <<>> THEN QNull ELSE Last(q)
                      IN  /\ q_kind \in {"LIST", "TAILQ"} =>
                                \A p \in DOMAIN q : LIST_PREV(links, q[p]) = q[p]
                          /\ q_kind \in {"STAILQ", "TAILQ"} => QAt(links, links.ref[h]) = QNull
                          /\ q_kind = "STAILQ" => STAILQ_LAST(links, h) = final
                          /\ q_kind = "TAILQ" => /\ TAILQ_LAST(links, h) = final
                                               /\ \A p \in DOMAIN q : TAILQ_PREV(links, q[p]) =
                                                     IF p = 1 THEN QNull ELSE q[p - 1]

(***************************************************************************)
(* The pointers forward and those back of the list macros agree, for every *)
(* order of insertions, removals, swaps and concatenations.                *)
(***************************************************************************)
QueuesKeepTheirElements == QueuesInOrder /\ QueuesTailRight
=============================================================================
