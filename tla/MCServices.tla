----------------------------- MODULE MCServices -----------------------------
(***************************************************************************)
(* What lets a program talk to the system and to other programs, for TLC:  *)
(* events, sockets, the loader of modules and the files it reads, shared   *)
(* memory, and what a daemon leaves for debugging. One of them is at work; *)
(* the others stay as they began.                                          *)
(***************************************************************************)
EXTENDS Event, Socket, Loader, Elf, Shm, Ddb

VARIABLE service

\* Modules: b is needed by a, and c by both, directly or through b; c by a and b; and a
\* circle
Depends(a, b) == [m \in Mods |-> CASE m = "a" -> a [] m = "b" -> b [] OTHER -> <<>>]
Graphs == {Depends(<<"b", "c">>, <<"c">>), Depends(<<"c", "b">>, <<"c">>),
           Depends(<<"c">>, <<"c">>), Depends(<<"b">>, <<"a">>)}
Sound == [m \in Mods |-> "none"]
FaultyFiles == {Sound} \cup {[Sound EXCEPT !["c"] = f] : f \in {"missing", "broken", "refusing"}}
                \cup {[Sound EXCEPT !["b"] = f] : f \in {"missing", "broken"}}
Conf == <<"b", "a">>

\* A value with the lower 32 bits zero is a value
SymbolValues == {<<0>>, <<5>>, <<0, 0, 0, 0, 1>>}

\* x is created by one process, y and z, of which y is smaller, by the other
CreatorOf == [n \in ShmNames |-> IF n = "x" THEN "p" ELSE "q"]
Sizes == [n \in ShmNames |-> IF n = "y" THEN 1 ELSE 2]
Calls == [p \in Procs |-> IF p = "p" THEN 3 ELSE 4]

Init == /\ service \in {"event", "socket", "loader", "elf", "shm", "ddb"}
        /\ kylin_event_init /\ kylin_socket_init /\ ShmInit /\ DdbInit
        /\ kylin_module_session_create
        /\ (service # "loader" => files = [depends |-> Depends(<<"c">>, <<"c">>), fault |-> Sound])
        /\ ElfInit /\ (service # "elf" => image.class = 64 /\ image.data = "LSB")

Next == \/ service = "event" /\ EventNext
           /\ UNCHANGED <<service, socket_vars, loader_vars, elf_vars, shm_vars, ddb_vars>>
        \/ service = "socket" /\ SocketNext
           /\ UNCHANGED <<service, event_vars, loader_vars, elf_vars, shm_vars, ddb_vars>>
        \/ service = "loader" /\ LoaderNext
           /\ UNCHANGED <<service, event_vars, socket_vars, elf_vars, shm_vars, ddb_vars>>
        \/ service = "elf" /\ ElfNext
           /\ UNCHANGED <<service, event_vars, socket_vars, loader_vars, shm_vars, ddb_vars>>
        \/ service = "shm" /\ ShmNext
           /\ UNCHANGED <<service, event_vars, socket_vars, loader_vars, elf_vars, ddb_vars>>
        \/ service = "ddb" /\ DdbNext
           /\ UNCHANGED <<service, event_vars, socket_vars, loader_vars, elf_vars, shm_vars>>

vars == <<service, event_vars, socket_vars, loader_vars, elf_vars, shm_vars, ddb_vars>>

Spec == Init /\ [][Next]_vars
=============================================================================
