---------------------------------- MODULE Shm -------------------------------
(***************************************************************************)
(* kylin_shm.c: processes that create, open, close and destroy shared      *)
(* memory objects, as the header says: the process that creates an object  *)
(* uses create and destroy, the others use open and close. object_find     *)
(* gives up the lock of the overview before the object it returns is used. *)
(* A process may die between any two steps. Names are in zeroed arrays.    *)
(***************************************************************************)
EXTENDS ShmObj, Sequences, TLC

CONSTANTS
    Procs, ShmNames,
    Creator,   \* the process that creates an object
    CapOf,     \* and the size it gives it
    MaxShmOps  \* bound on the calls of each process, and its deaths

VARIABLES
    overview,  \* the overview
    shm_call,  \* of a process: the call it is in
    handles,   \* of a process: what it has opened, by name
    shm_ops,   \* of a process: how many calls it has begun
    net,       \* history: what the refcnt of an object should be
    overlap    \* history: the objects whose refcnt two processes changed at a time

shm_vars == <<overview, shm_call, handles, shm_ops, net, overlap>>

Out == [at |-> "out", op |-> "", name |-> "", obj |-> 0, val |-> 0, cap |-> 0, moved |-> FALSE]

ShmInit ==
    /\ overview = object_init /\ shm_call = [p \in Procs |-> Out]
    /\ handles = [p \in Procs |-> <<>>] /\ shm_ops = [p \in Procs |-> 0]
    /\ net = [n \in ShmNames |-> 0] /\ overlap = {}

Is(p, at) == shm_call[p].at = at
In(p, op, at) == shm_call[p].op = op /\ Is(p, at)
Go(p, at) == shm_call' = [shm_call EXCEPT ![p].at = at]
Leave(p) == shm_call' = [shm_call EXCEPT ![p] = Out]
Obj(p) == overview.obj[shm_call[p].obj]

Begin(p, op, n) ==
    /\ Is(p, "out") /\ shm_ops[p] < MaxShmOps[p] /\ shm_ops' = [shm_ops EXCEPT ![p] = @ + 1]
    /\ LET i == object_find(overview, n)
       IN  \/ /\ (i = 0) = (op = "create")
              /\ shm_call' = [shm_call EXCEPT ![p] = [Out EXCEPT !.op = op, !.name = n, !.obj = i, !.at =
                                CASE op = "create" -> "insert" [] op = "open" -> "size" [] OTHER -> "load"]]
           \/ (i = 0) # (op = "create") /\ UNCHANGED shm_call
    /\ UNCHANGED <<overview, handles, net, overlap>>

-----------------------------------------------------------------------------

\* kylin_shm_create after object_find returned NULL, and with EXIST else
Insert(p) ==
    /\ In(p, "create", "insert") /\ Leave(p)
    /\ LET n == shm_call[p].name
       IN  /\ overview' = object_insert(overview, [name |-> n, cap |-> CapOf[n], refcnt |-> 0])
           /\ IF overview' # overview THEN net' = [net EXCEPT ![n] = 0] /\ overlap' = overlap \ {n}
              ELSE UNCHANGED <<net, overlap>>
    /\ UNCHANGED <<handles, shm_ops>>

\* (mutant of kylin_shm_create: it does not look for the name)
kylin_shm_create_blind(p, n) ==
    \/ /\ Is(p, "out") /\ p = Creator[n] /\ shm_ops[p] < MaxShmOps[p]
       /\ shm_ops' = [shm_ops EXCEPT ![p] = @ + 1]
       /\ shm_call' = [shm_call EXCEPT ![p] = [Out EXCEPT !.op = "create", !.name = n, !.at = "insert"]]
       /\ UNCHANGED <<overview, handles, net, overlap>>
    \/ shm_call[p].name = n /\ Insert(p)

kylin_shm_create(p, n) ==
    \/ p = Creator[n] /\ Begin(p, "create", n)
    \/ shm_call[p].name = n /\ Insert(p)

\* refcnt++ and --: the value is read, and the new one is written later
LoadRefcnt(p) ==
    /\ Is(p, "load") /\ shm_call' = [shm_call EXCEPT ![p].at = "store", ![p].val = Obj(p).refcnt]
    /\ UNCHANGED <<overview, handles, shm_ops, net, overlap>>

Busy(p) == \E q \in Procs \ {p} : Is(q, "store") /\ shm_call[q].obj = shm_call[p].obj

StoreRefcnt(p, by) ==
    LET c == shm_call[p]
    IN  /\ overview' = [overview EXCEPT !.obj[c.obj].refcnt = (c.val + by) % RefMod]
        /\ net' = [net EXCEPT ![c.name] = @ + by]
        /\ overlap' = IF c.moved THEN ShmNames ELSE IF Busy(p) THEN overlap \cup {c.name} ELSE overlap

\* --obj->refcnt == 0
Decrement(p) ==
    /\ In(p, "destroy", "store") /\ StoreRefcnt(p, -1)
    /\ IF (shm_call[p].val - 1) % RefMod = 0 THEN Go(p, "delete") ELSE Leave(p)
    /\ UNCHANGED <<handles, shm_ops>>

\* The name of the object to delete is read from the overview. Pointers that other
\* processes hold now point to what was moved there.
Delete(p) ==
    /\ In(p, "destroy", "delete") /\ overview' = object_delete(overview, Obj(p).name)
    /\ shm_call' = [q \in Procs |-> IF q = p THEN Out ELSE [shm_call[q] EXCEPT !.moved = @ \/ shm_call[q].obj # 0]]
    /\ UNCHANGED <<handles, shm_ops, net, overlap>>

kylin_shm_destroy(p, n) ==
    \/ p = Creator[n] /\ Begin(p, "destroy", n)
    \/ shm_call[p].name = n /\ shm_call[p].op = "destroy" /\ (LoadRefcnt(p) \/ Decrement(p) \/ Delete(p))

-----------------------------------------------------------------------------
\* The file gets the size of the object, or an error removes its name
Size(p) ==
    /\ In(p, "open", "size")
    /\ \/ shm_call' = [shm_call EXCEPT ![p].at = "map", ![p].cap = Obj(p).cap]
       \/ Leave(p)
    /\ UNCHANGED <<overview, handles, shm_ops, net, overlap>>

\* mmap, and memset of the size that the object has now: a file that is too short ends
\* the process
Map(p) ==
    /\ In(p, "open", "map")
    /\ IF Obj(p).cap > shm_call[p].cap THEN Go(p, "bus_error")
       ELSE shm_call' = [shm_call EXCEPT ![p].at = "load", ![p].cap = Obj(p).cap]
    /\ UNCHANGED <<overview, handles, shm_ops, net, overlap>>

\* (mutant of Opened: refcnt is not changed)
OpenedUncounted(p) ==
    LET c == shm_call[p]
    IN  /\ In(p, "open", "store") /\ Leave(p) /\ net' = [net EXCEPT ![c.name] = @ + 1]
        /\ handles' = [handles EXCEPT ![p] = c.name :> [cap |-> c.cap, moved |-> c.moved] @@ @]
        /\ UNCHANGED <<overview, shm_ops, overlap>>

\* refcnt++ is the last
Opened(p) ==
    LET c == shm_call[p]
    IN  /\ In(p, "open", "store") /\ StoreRefcnt(p, 1) /\ Leave(p)
        /\ handles' = [handles EXCEPT ![p] = c.name :> [cap |-> c.cap, moved |-> c.moved] @@ @]
        /\ UNCHANGED shm_ops

kylin_shm_open(p, n) ==
    \/ n \notin DOMAIN handles[p] /\ Begin(p, "open", n)
    \/ /\ shm_call[p].name = n /\ shm_call[p].op = "open"
       /\ (Size(p) \/ Map(p) \/ LoadRefcnt(p) \/ Opened(p))

\* When the object is gone, kylin_shm_close does nothing
Closed(p) ==
    /\ In(p, "close", "store") /\ StoreRefcnt(p, -1) /\ Leave(p)
    /\ handles' = [handles EXCEPT ![p] = [n \in DOMAIN @ \ {shm_call[p].name} |-> @[n]]]
    /\ UNCHANGED shm_ops

kylin_shm_close(p, n) ==
    \/ n \in DOMAIN handles[p] /\ Begin(p, "close", n)
    \/ shm_call[p].name = n /\ shm_call[p].op = "close" /\ (LoadRefcnt(p) \/ Closed(p))

\* A process dies, and another of the same kind is started; this counts as a call
Die(p) ==
    /\ shm_call[p] # Out \/ handles[p] # <<>>
    /\ shm_ops[p] < MaxShmOps[p] /\ shm_ops' = [shm_ops EXCEPT ![p] = @ + 1]
    /\ Leave(p) /\ handles' = [handles EXCEPT ![p] = <<>>]
    /\ UNCHANGED <<overview, net, overlap>>

ShmNext == \E p \in Procs :
    \/ Die(p)
    \/ \E n \in ShmNames : \/ kylin_shm_create(p, n) \/ kylin_shm_destroy(p, n)
                           \/ kylin_shm_open(p, n) \/ kylin_shm_close(p, n)

-----------------------------------------------------------------------------
Listed == {overview.obj[i].name : i \in 1..overview.count}

(***************************************************************************)
(* When one process creates an object, as the header asks for, no two      *)
(* objects have its name, though kylin_shm_create gives up the lock between*)
(* looking for the name and inserting it.                                  *)
(***************************************************************************)
ShmNamesUnique == Cardinality(Listed) = overview.count

(***************************************************************************)
(* An object's refcnt is the number of times it was opened, less the times *)
(* it was closed or destroyed, whoever died meanwhile, until two processes *)
(* change it at a time or one that held a pointer to an object changes what*)
(* was moved to its place: refcnt is not protected by the lock.            *)
(***************************************************************************)
ShmRefcntExact ==
    \A i \in 1..overview.count :
       LET o == overview.obj[i] IN o.name \notin overlap => o.refcnt = net[o.name] % RefMod

(***************************************************************************)
(* kylin_shm_destroy takes the object of its own name, and no other, out of*)
(* the overview, but when another was deleted since it looked for it.      *)
(***************************************************************************)
ShmDestroysItsOwn ==
    [][\A p \in Procs :
         In(p, "destroy", "delete") /\ ~shm_call[p].moved /\ shm_call'[p] = Out /\ overview' # overview
           => Listed' = Listed \ {shm_call[p].name}]_shm_vars

(***************************************************************************)
(* What is opened has the size that it was created with, and opening ends  *)
(* in no bus error, but when objects were moved while it was opened.       *)
(***************************************************************************)
ShmSizedAsCreated ==
    \A p \in Procs :
       /\ \A n \in DOMAIN handles[p] : handles[p][n].moved \/ handles[p][n].cap = CapOf[n]
       /\ Is(p, "bus_error") => shm_call[p].moved

=============================================================================
