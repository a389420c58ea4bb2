-------------------------------- MODULE Socket ------------------------------
(***************************************************************************)
(* kylin_socket.c, kylin_socket_plugin.c and the plugins for TCP, UDP and  *)
(* Unix sockets. The sockets are in a kylin_list, as are the connections of*)
(* a TCP or Unix server; module List shows that such a list of pointers can*)
(* be destroyed when it is empty only. Memory does not run out.            *)
(***************************************************************************)
EXTENDS Integers, Sequences, FiniteSetsExt, TLC

CONSTANTS
    SockTypes,  \* the types that the program creates
    SockUser,   \* the types that it registers and unregisters
    SockFds,    \* the file descriptors there are, 0 may be one of them
    Peers,      \* the addresses of peers
    Backlogs,   \* the values of config.server.backlog
    MaxSid,     \* bound on sid
    MaxConns    \* bound on the connections of a server

VARIABLES
    splugin,      \* of each type: type, the functions registered, and ref
    slist,        \* the sockets by id
    sid,          \* the next id
    sock_open,    \* the file descriptors that are open
    socket_stage, \* "ok", "fini", or "fault": a list that is not empty was destroyed
    accepted      \* history: the ids of the sockets that accepted a connection

socket_vars == <<splugin, slist, sid, sock_open, socket_stage, accepted>>

SERVER_UDP == 1
SOCK_MAX == 32
TYPE_DEF_CNT == 3
TYPE_MAX_CNT == 15
Servers == 0..2

\* splugin as the program text has it: the entries it leaves out are zero
Declared(t) ==
    [type |-> IF t \in 0..2 \cup 16..18 THEN t ELSE IF t \in 3..15 THEN SOCK_MAX ELSE 0,
     reg |-> CASE t \in {0, 16} -> "tcp" [] t \in {1, 17} -> "udp" [] t \in {2, 18} -> "unix" [] OTHER -> "null",
     ref |-> 0]

\* The types that kylin_socket_plugin_init marks as free
Cleared == TYPE_DEF_CNT..TYPE_MAX_CNT - 1 \cup {i + TYPE_MAX_CNT : i \in TYPE_DEF_CNT..TYPE_MAX_CNT - 1}

kylin_socket_plugin_init == [t \in 0..SOCK_MAX - 1 |->
    IF t \in Cleared THEN [Declared(t) EXCEPT !.type = SOCK_MAX] ELSE Declared(t)]

kylin_socket_init ==
    /\ splugin = kylin_socket_plugin_init /\ slist = <<>> /\ sid = 0 /\ sock_open = {}
    /\ socket_stage = "ok" /\ accepted = {}

kylin_socket_register(t) ==
    /\ socket_stage = "ok" /\ splugin[t].type = SOCK_MAX
    /\ splugin' = [splugin EXCEPT ![t] = [type |-> t, reg |-> "user", ref |-> 0]]
    /\ UNCHANGED <<slist, sid, sock_open, socket_stage, accepted>>

kylin_socket_unregister(t) ==
    /\ socket_stage = "ok" /\ splugin[t].type # SOCK_MAX /\ splugin[t].ref = 0
    /\ splugin' = [splugin EXCEPT ![t] = [type |-> SOCK_MAX, reg |-> "null", ref |-> 0]]
    /\ UNCHANGED <<slist, sid, sock_open, socket_stage, accepted>>

-----------------------------------------------------------------------------
FreeFds == SockFds \ sock_open
NewFd == Min(FreeFds)

\* What the create functions of the plugins may end in: whether there is a socket, and
\* the file descriptors that are open then. socket() fails when there is none left; bind
\* and listen are for servers and may fail.
NoSocket == {[ok |-> FALSE, open |-> sock_open]}
ASocket == {[ok |-> TRUE, open |-> sock_open \cup {NewFd}]}

\* (mutant of tcp_create: the file descriptor is not closed)
tcp_create_leak(t) ==
    IF FreeFds = {} THEN NoSocket
    ELSE ASocket \cup (IF t \in Servers THEN {[ok |-> FALSE, open |-> sock_open \cup {NewFd}]} ELSE {})

\* An error closes the file descriptor when it is not 0
tcp_create(t) ==
    IF FreeFds = {} THEN NoSocket
    ELSE ASocket \cup (IF t \notin Servers THEN {} ELSE
                       IF NewFd = 0 THEN {[ok |-> FALSE, open |-> sock_open \cup {0}]} ELSE NoSocket)

udp_create(t) ==
    IF FreeFds = {} THEN NoSocket ELSE ASocket \cup (IF t \in Servers THEN NoSocket ELSE {})

\* A server for datagrams always fails in listen
unix_create(t) ==
    IF FreeFds = {} THEN NoSocket ELSE ASocket \cup (IF t \in Servers THEN NoSocket ELSE {})

\* A type without functions gets a socket without private data; so does, as far as file
\* descriptors go, one of the program's own types
reg_create(t) ==
    CASE splugin[t].reg = "tcp" -> tcp_create(t)
      [] splugin[t].reg = "udp" -> udp_create(t)
      [] splugin[t].reg = "unix" -> unix_create(t)
      [] OTHER -> {[ok |-> TRUE, open |-> sock_open]}

\* A socket: its type, functions and file descriptor; conns counts the connections in
\* its list; config.client.remote, which is in the same memory as config.server.
Created(t, open, backlog) ==
    [type |-> t, made |-> splugin[t].reg, conns |-> 0,
     fd |-> IF open = sock_open THEN -1 ELSE CHOOSE fd \in open : fd \notin sock_open,
     remote |-> [len |-> backlog, addr |-> "none", from |-> "none"]]

\* (mutant of kylin_socket_create: the socket is not counted)
kylin_socket_create_uncounted(t) ==
    /\ socket_stage = "ok" /\ splugin[t].type # SOCK_MAX /\ sid < MaxSid /\ sid' = sid + 1
    /\ \E r \in reg_create(t), backlog \in Backlogs :
         /\ sock_open' = r.open
         /\ slist' = IF r.ok THEN sid :> Created(t, r.open, backlog) @@ slist ELSE slist
    /\ UNCHANGED <<splugin, socket_stage, accepted>>

kylin_socket_create(t) ==
    /\ socket_stage = "ok" /\ splugin[t].type # SOCK_MAX /\ sid < MaxSid /\ sid' = sid + 1
    /\ \E r \in reg_create(t), backlog \in Backlogs :
         /\ sock_open' = r.open
         /\ slist' = IF r.ok THEN sid :> Created(t, r.open, backlog) @@ slist ELSE slist
         /\ splugin' = IF r.ok THEN [splugin EXCEPT ![t].ref = @ + 1] ELSE splugin
    /\ UNCHANGED <<socket_stage, accepted>>

-----------------------------------------------------------------------------
\* What the destroy functions close, 0 never, and whether they destroy a list that is
\* not empty
\* (mutant of tcp_destroy: it destroys the list that a client does not have)
tcp_destroy_always(s) == [closed |-> {s.fd} \ {0}, fault |-> s.conns # 0 \/ s.type \notin Servers]

tcp_destroy(s) == [closed |-> {s.fd} \ {0}, fault |-> s.conns # 0]
udp_destroy(s) == [closed |-> {s.fd} \ {0}, fault |-> FALSE]
unix_destroy(s) == [closed |-> {s.fd} \ {0}, fault |-> s.conns # 0]

reg_destroy(s) ==
    CASE splugin[s.type].reg = "tcp" -> tcp_destroy(s)
      [] splugin[s.type].reg = "udp" -> udp_destroy(s)
      [] splugin[s.type].reg = "unix" -> unix_destroy(s)
      [] OTHER -> [closed |-> {}, fault |-> FALSE]

kylin_socket_destroy(g) ==
    LET r == reg_destroy(slist[g])
    IN  /\ socket_stage = "ok" /\ sock_open' = sock_open \ r.closed
        /\ slist' = [h \in DOMAIN slist \ {g} |-> slist[h]]
        /\ splugin' = [splugin EXCEPT ![slist[g].type].ref = @ - 1]
        /\ socket_stage' = IF r.fault THEN "fault" ELSE "ok"
        /\ UNCHANGED <<sid, accepted>>

\* The list of sockets itself is destroyed with the sockets in it
kylin_socket_fini ==
    /\ socket_stage = "ok" /\ sock_open' = sock_open \ UNION {reg_destroy(slist[g]).closed : g \in DOMAIN slist}
    /\ splugin' = [t \in DOMAIN splugin |->
                     [splugin[t] EXCEPT !.ref = @ - Cardinality({g \in DOMAIN slist : slist[g].type = t})]]
    /\ socket_stage' = IF DOMAIN slist # {} THEN "fault" ELSE "fini"
    /\ UNCHANGED <<slist, sid, accepted>>

\* A plugin's accept put the connection into the list. kylin_list_insert_head returned
\* its node, which is not KYLIN_ERROR_OK: so the file descriptor of the connection is
\* closed, the connection is freed, and NULL is returned.
tcp_accept(s) == [s EXCEPT !.conns = @ + 1]
unix_accept(s) == [s EXCEPT !.conns = @ + 1]

kylin_socket_accept(g) ==
    /\ socket_stage = "ok" /\ slist[g].type \in Servers /\ FreeFds # {} /\ slist[g].conns < MaxConns
    /\ \/ slist[g].made = "tcp" /\ slist' = [slist EXCEPT ![g] = tcp_accept(@)]
       \/ slist[g].made = "unix" /\ slist' = [slist EXCEPT ![g] = unix_accept(@)]
    /\ accepted' = accepted \cup {g} /\ UNCHANGED <<splugin, sid, sock_open, socket_stage>>

-----------------------------------------------------------------------------
\* The length of an address
ADDRLEN == 16

\* recvfrom copies as much of the peer's address as there is room for, and returns
\* its length
recvfrom(r, p) == [len |-> ADDRLEN, from |-> p, addr |-> IF r.len >= ADDRLEN THEN p ELSE "cut"]

\* (mutant of udp_recv: the length of the address is passed in a copy)
udp_recv_copy(g, p) ==
    /\ socket_stage = "ok" /\ slist[g].type = SERVER_UDP /\ slist[g].made = "udp"
    /\ slist' = [slist EXCEPT ![g].remote = [recvfrom(@, p) EXCEPT !.len = slist[g].remote.len]]
    /\ UNCHANGED <<splugin, sid, sock_open, socket_stage, accepted>>

\* kylin_socket_recv of a UDP server: the room for the address is remote.len, which is
\* the backlog as long as nothing was received
udp_recv(g, p) ==
    /\ socket_stage = "ok" /\ slist[g].type = SERVER_UDP /\ slist[g].made = "udp"
    /\ slist' = [slist EXCEPT ![g].remote = recvfrom(@, p)]
    /\ UNCHANGED <<splugin, sid, sock_open, socket_stage, accepted>>

\* Where a UDP server's kylin_socket_send sends
udp_send(s) == s.remote.addr

SocketNext ==
    \/ kylin_socket_fini
    \/ \E t \in SockTypes : kylin_socket_create(t)
    \/ \E t \in SockUser : kylin_socket_register(t) \/ kylin_socket_unregister(t)
    \/ \E g \in DOMAIN slist : \/ kylin_socket_destroy(g) \/ kylin_socket_accept(g)
                               \/ \E p \in Peers : udp_recv(g, p)

-----------------------------------------------------------------------------
(***************************************************************************)
(* A type's reference count is the number of its sockets, so that a socket *)
(* keeps the functions it was created with until it is destroyed.          *)
(***************************************************************************)
SocketPluginStays ==
    socket_stage = "ok" =>
        /\ \A t \in DOMAIN splugin : splugin[t].ref = Cardinality({g \in DOMAIN slist : slist[g].type = t})
        /\ \A g \in DOMAIN slist : splugin[slist[g].type].reg = slist[g].made

(***************************************************************************)
(* The open file descriptors are those of the sockets, one each, on the    *)
(* paths where creating a socket fails as well. 0 may be open for nothing: *)
(* the plugins take it for no file descriptor, and do not close it.        *)
(***************************************************************************)
SocketFdsAccounted ==
    socket_stage = "ok" =>
        LET real == {g \in DOMAIN slist : slist[g].fd # -1}
        IN  /\ sock_open \ {0} = {slist[g].fd : g \in real} \ {0}
            /\ \A g, h \in real : slist[g].fd = slist[h].fd => g = h

(***************************************************************************)
(* Destroying a socket is harmful only after it has accepted a connection: *)
(* tcp_accept and unix_accept leave a freed connection in its list.        *)
(***************************************************************************)
SocketFaultsOnlyAfterAccept ==
    [][socket_stage' = "fault" => \/ kylin_socket_fini
                                  \/ \E g \in accepted : g \in DOMAIN slist /\ g \notin DOMAIN slist']_socket_vars

(***************************************************************************)
(* What a UDP server sends goes to the peer it has received from last,     *)
(* however many there are, but for the first time when the backlog it was  *)
(* created with, which it takes for a length, was less than an address.    *)
(***************************************************************************)
SocketRepliesToLast ==
    [][\A g \in DOMAIN slist \cap DOMAIN slist' : slist'[g].remote # slist[g].remote =>
         LET r == slist'[g].remote
         IN  udp_send(slist'[g]) = r.from \/ (slist[g].remote.from = "none" /\ slist[g].remote.len < ADDRLEN)]_socket_vars

(***************************************************************************)
(* kylin_socket keeps account of its descriptors and of who uses a plugin, *)
(* on every path that fails half way.                                      *)
(***************************************************************************)
SocketBooksRight == SocketPluginStays /\ SocketFdsAccounted

(***************************************************************************)
(* Only a socket that has accepted is harmed by its end, and a UDP server  *)
(* replies to whom it heard last.                                          *)
(***************************************************************************)
SocketStepsRight == SocketFaultsOnlyAfterAccept /\ SocketRepliesToLast
=============================================================================
