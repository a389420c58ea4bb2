---------------------------- MODULE MCContainers ----------------------------
(***************************************************************************)
(* The containers, for TLC. A program uses one of them; the others stay as *)
(* they were created. The hashes of the keys collide in the small tables.  *)
(***************************************************************************)
EXTENDS Fifo, Lifo, List, Queues, Set, String, Bitmap, Map, Index, Rb, RbHpi

VARIABLE container

TwoMaps == <<3, 2>>
OneOpts == [is_order |-> FALSE, val_type |-> "int"]
HashThree == <<0, 2, 3>>

Init == /\ container \in {"fifo", "lifo", "list", "queues", "set", "string", "bitmap", "map", "index", "rb", "rb_hpi"}
        /\ kylin_fifo_create /\ kylin_lifo_create /\ ListInit /\ StrInit
        /\ QueuesInit /\ (container # "queues" => q_kind = "SLIST")
        /\ kylin_set_create /\ (container # "set" => set_opts = OneOpts)
        /\ BmInit
        /\ MapInit /\ IndexInit /\ RB_INIT
        /\ RbInit /\ (container # "rb" => val_type = "others")

\* What a step leaves alone: the containers other than c
Others(c) ==
    /\ UNCHANGED container
    /\ c # "fifo" => UNCHANGED fifo_vars
    /\ c # "lifo" => UNCHANGED lifo_vars
    /\ c # "list" => UNCHANGED list_vars
    /\ c # "queues" => UNCHANGED queue_vars
    /\ c # "set" => UNCHANGED set_vars
    /\ c # "string" => UNCHANGED str_vars
    /\ c # "bitmap" => UNCHANGED bm
    /\ c # "map" => UNCHANGED map
    /\ c # "index" => UNCHANGED index_vars
    /\ c # "rb" => UNCHANGED rb_vars
    /\ c # "rb_hpi" => UNCHANGED hpi_vars

Next ==
    \/ container = "fifo" /\ FifoNext /\ Others("fifo")
    \/ container = "lifo" /\ LifoNext /\ Others("lifo")
    \/ container = "list" /\ ListNext /\ Others("list")
    \/ container = "queues" /\ QueuesNext /\ Others("queues")
    \/ container = "set" /\ SetNext /\ Others("set")
    \/ container = "string" /\ StrNext /\ Others("string")
    \/ container = "bitmap" /\ BmNext /\ Others("bitmap")
    \/ container = "map" /\ MapNext /\ Others("map")
    \/ container = "index" /\ IndexNext /\ Others("index")
    \/ container = "rb" /\ RbNext /\ Others("rb")
    \/ container = "rb_hpi" /\ HpiNext /\ Others("rb_hpi")

vars == <<container, fifo_vars, lifo_vars, list_vars, queue_vars, set_vars, str_vars, bm, map, index_vars, rb_vars, hpi_vars>>

Spec == Init /\ [][Next]_vars
=============================================================================
