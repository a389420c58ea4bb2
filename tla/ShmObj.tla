-------------------------------- MODULE ShmObj ------------------------------
(***************************************************************************)
(* kylin_shm_obj.c: the overview of the shared memory objects, an array    *)
(* that the processes share. Each operation holds the overview's lock from *)
(* its first access to its last, and is one step here. A pointer to an     *)
(* object is its index, and stays what it is when objects are moved.       *)
(***************************************************************************)
EXTENDS Integers, FiniteSetsExt

CONSTANTS
    OBJ_MAX,  \* KYLIN_SHM_OBJ_MAX
    RefMod    \* refcnt counts modulo this, 2^32 in the code

NoObj == [name |-> "", cap |-> 0, refcnt |-> 0]

\* The overview of the first process: memory of zeros
object_init == [count |-> 0, obj |-> [i \in 1..OBJ_MAX |-> NoObj]]

Indices(ov, n) == {i \in 1..ov.count : ov.obj[i].name = n}

\* The index of the first object of that name, 0 for none
object_find(ov, n) == IF Indices(ov, n) = {} THEN 0 ELSE Min(Indices(ov, n))

object_insert(ov, o) ==
    IF ov.count > OBJ_MAX - 1 THEN ov
    ELSE [count |-> ov.count + 1, obj |-> [ov.obj EXCEPT ![ov.count + 1] = o]]

\* (mutant of object_delete: one object more than there are is moved down)
object_delete_short(ov, n) ==
    LET i == object_find(ov, n)
    IN  IF i = 0 THEN ov
        ELSE [count |-> ov.count - 1,
              obj |-> [j \in 1..OBJ_MAX |-> IF j >= i /\ j < ov.count - 1 THEN ov.obj[j + 1] ELSE ov.obj[j]]]

\* The objects behind it move down; the last one's place keeps what it has
object_delete(ov, n) ==
    LET i == object_find(ov, n)
    IN  IF i = 0 THEN ov
        ELSE [count |-> ov.count - 1,
              obj |-> [j \in 1..OBJ_MAX |-> IF j >= i /\ j < ov.count THEN ov.obj[j + 1] ELSE ov.obj[j]]]
=============================================================================
