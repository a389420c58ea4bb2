-------------------------------- MODULE Event -------------------------------
(***************************************************************************)
(* kylin_event.c, kylin_event_plugin.c and the plugins kylin_epoll.c and   *)
(* kylin_poll.c: guards that watch file descriptors, on top of a plugin.   *)
(*                                                                         *)
(* A guard keeps its events in a kylin_set that is not ordered (module     *)
(* Set): a value goes to the end, the first with the fd is found, and a    *)
(* loop over the values goes on after the first with the same fd. The      *)
(* interest list of an epoll descriptor is the kernel's: it has a file     *)
(* descriptor at most once, and drops it when it is closed.                *)
(***************************************************************************)
EXTENDS Integers, Sequences, SequencesExt, FiniteSetsExt, TLC

CONSTANTS
    Fds,        \* file descriptors: numbers
    EventCap,   \* 4096, the capacity of the set of events
    FlagSets,   \* the flags given by callers: subsets of {"READ", "WRITE", "ERROR"}
    MaxGuards,  \* bound on the guards ever created
    UserTypes   \* the types that the program registers and unregisters

VARIABLES
    eplugin,     \* of each type: the functions that are registered, and ref
    elist,       \* the guards by id: type, events, and the kernel's interest list
    eid,         \* the next id
    open,        \* the open file descriptors
    batch,       \* the callbacks still to make of the kylin_event_process that runs
    dropped,     \* history: fds deleted or closed since it waited
    odd,         \* history: whether neither or both of READ and WRITE were ever given
    twice,       \* history: an fd was added to a guard that had it
    event_stage  \* "ok", or "overrun": kpoll_proc has left the array of pollfds

event_vars == <<eplugin, elist, eid, open, batch, dropped, odd, twice, event_stage>>

NoBatch == [guard |-> -1, calls |-> <<>>]

kylin_event_init ==
    /\ eplugin = [poll |-> [reg |-> "poll", ref |-> 0], epoll |-> [reg |-> "epoll", ref |-> 0],
                  kqueue |-> [reg |-> "none", ref |-> 0]]
    /\ elist = <<>> /\ eid = 0 /\ open = {} /\ batch = NoBatch
    /\ dropped = {} /\ odd = {} /\ twice = FALSE /\ event_stage = "ok"

\* The program opens and closes file descriptors
Open(fd) == /\ event_stage = "ok" /\ fd \notin open /\ open' = open \cup {fd}
            /\ UNCHANGED <<eplugin, elist, eid, batch, dropped, odd, twice, event_stage>>

Close(fd) == /\ event_stage = "ok" /\ fd \in open /\ open' = open \ {fd}
             /\ elist' = [g \in DOMAIN elist |-> [elist[g] EXCEPT !.interest[fd] = {}]]
             /\ dropped' = IF batch = NoBatch THEN {} ELSE dropped \cup {fd}
             /\ UNCHANGED <<eplugin, eid, batch, odd, twice, event_stage>>

-----------------------------------------------------------------------------
\* kylin_event_plugin.c. What a program registers has only the function proc.
kylin_event_register(type) ==
    /\ event_stage = "ok" /\ eplugin[type].reg = "none"
    /\ eplugin' = [eplugin EXCEPT ![type] = [reg |-> "user", ref |-> 0]]
    /\ UNCHANGED <<elist, eid, open, batch, dropped, odd, twice, event_stage>>

kylin_event_unregister(type) ==
    /\ event_stage = "ok" /\ eplugin[type].reg # "none" /\ eplugin[type].ref = 0
    /\ eplugin' = [eplugin EXCEPT ![type] = [reg |-> "none", ref |-> 0]]
    /\ UNCHANGED <<elist, eid, open, batch, dropped, odd, twice, event_stage>>

-----------------------------------------------------------------------------
\* epoll_ctl of a guard's interest list k, which holds the events of each fd: the
\* new list, and whether the call succeeded.
epoll_ctl_add(k, fd, ev) == IF fd \in open /\ k[fd] = {} THEN [k |-> [k EXCEPT ![fd] = ev], ok |-> TRUE]
                            ELSE [k |-> k, ok |-> FALSE]
epoll_ctl_del(k, fd) == IF fd \in open /\ k[fd] # {} THEN [k |-> [k EXCEPT ![fd] = {}], ok |-> TRUE]
                        ELSE [k |-> k, ok |-> FALSE]

\* READ and WRITE are added one after the other, though for the kernel they are
\* the same fd
kepoll_add(k, fd, flags) ==
    LET in == IF "READ" \in flags THEN epoll_ctl_add(k, fd, {"IN", "RDHUP"}) ELSE [k |-> k, ok |-> TRUE]
    IN  IF in.ok /\ "WRITE" \in flags THEN epoll_ctl_add(in.k, fd, {"OUT", "RDHUP"}) ELSE in

\* (mutant of kepoll_del: an event for WRITE alone is forgotten)
kepoll_del_read(k, fd, flags) == IF "READ" \in flags THEN epoll_ctl_del(k, fd) ELSE [k |-> k, ok |-> TRUE]

kepoll_del(k, fd, flags) ==
    LET in == IF "READ" \in flags THEN epoll_ctl_del(k, fd) ELSE [k |-> k, ok |-> TRUE]
    IN  IF in.ok /\ "WRITE" \in flags THEN epoll_ctl_del(in.k, fd) ELSE in

kepoll_mod(k, fd, old, flags) ==
    LET del == kepoll_del(k, fd, old)
    IN  IF del.ok THEN kepoll_add(del.k, fd, flags) ELSE del

\* The functions of a guard's plugin: those of poll return OK
reg_add(g, fd, flags) == IF eplugin[elist[g].type].reg # "epoll" THEN [k |-> elist[g].interest, ok |-> TRUE]
                         ELSE kepoll_add(elist[g].interest, fd, flags)
reg_del(g, fd, flags) == IF eplugin[elist[g].type].reg # "epoll" THEN [k |-> elist[g].interest, ok |-> TRUE]
                         ELSE kepoll_del(elist[g].interest, fd, flags)
reg_mod(g, fd, old, flags) ==
    IF eplugin[elist[g].type].reg # "epoll" THEN [k |-> elist[g].interest, ok |-> TRUE]
    ELSE kepoll_mod(elist[g].interest, fd, old, flags)

-----------------------------------------------------------------------------
\* The first event of a guard with the fd, 0 if there is none
Find(g, fd) == IF \E i \in DOMAIN elist[g].events : elist[g].events[i].efd = fd
               THEN SelectInSeq(elist[g].events, LAMBDA e : e.efd = fd) ELSE 0
FdsOf(g) == {elist[g].events[i].efd : i \in DOMAIN elist[g].events}
Odd(flags) == odd' = odd \cup (IF {"READ", "WRITE"} \subseteq flags THEN {"both"} ELSE {})
                        \cup (IF {"READ", "WRITE"} \cap flags = {} THEN {"neither"} ELSE {})

\* (mutant of kylin_event_create: the reference is not counted)
kylin_event_create_uncounted(type) ==
    /\ event_stage = "ok" /\ eplugin[type].reg # "none" /\ eid < MaxGuards
    /\ elist' = eid :> [type |-> type, made |-> eplugin[type].reg, events |-> <<>>,
                        interest |-> [fd \in Fds |-> {}]] @@ elist
    /\ eid' = eid + 1
    /\ UNCHANGED <<eplugin, open, batch, dropped, odd, twice, event_stage>>

kylin_event_create(type) ==
    /\ event_stage = "ok" /\ eplugin[type].reg # "none" /\ eid < MaxGuards
    /\ elist' = eid :> [type |-> type, made |-> eplugin[type].reg, events |-> <<>>,
                        interest |-> [fd \in Fds |-> {}]] @@ elist
    /\ eplugin' = [eplugin EXCEPT ![type].ref = @ + 1]
    /\ eid' = eid + 1
    /\ UNCHANGED <<open, batch, dropped, odd, twice, event_stage>>

\* A callback does not destroy the guard that calls it
kylin_event_destroy(g) ==
    /\ event_stage = "ok" /\ batch.guard # g
    /\ elist' = [h \in DOMAIN elist \ {g} |-> elist[h]]
    /\ eplugin' = [eplugin EXCEPT ![elist[g].type].ref = @ - 1]
    /\ UNCHANGED <<eid, open, batch, dropped, odd, twice, event_stage>>

\* The event is in the set before the plugin is asked, and stays when it refuses
kylin_event_add(g, fd, flags) ==
    LET add == reg_add(g, fd, flags)
    IN  /\ event_stage = "ok" /\ Len(elist[g].events) # EventCap
        /\ elist' = [elist EXCEPT ![g].events = Append(@, [efd |-> fd, flags |-> flags]),
                                  ![g].interest = add.k]
        /\ twice' = (twice \/ fd \in FdsOf(g)) /\ Odd(flags)
        /\ UNCHANGED <<eplugin, eid, open, batch, dropped, event_stage>>

\* The flags of the event are given: it is deleted
DelEvent(g, fd, flags) ==
    LET del == reg_del(g, fd, flags)
    IN  /\ elist' = [elist EXCEPT ![g].interest = del.k,
                                  ![g].events = IF del.ok THEN RemoveAt(@, Find(g, fd)) ELSE @]
        /\ dropped' = IF batch = NoBatch THEN {} ELSE dropped \cup {fd}

\* Other flags are given: it is changed
ModEvent(g, fd, flags) ==
    LET mod == reg_mod(g, fd, elist[g].events[Find(g, fd)].flags, flags)
    IN  /\ elist' = [elist EXCEPT ![g].interest = mod.k,
                                  ![g].events[Find(g, fd)].flags = IF mod.ok THEN flags ELSE @]
        /\ UNCHANGED dropped

kylin_event_del(g, fd, flags) ==
    /\ event_stage = "ok" /\ Find(g, fd) # 0
    /\ IF elist[g].events[Find(g, fd)].flags = flags THEN DelEvent(g, fd, flags)
       ELSE ModEvent(g, fd, flags)
    /\ Odd(flags)
    /\ UNCHANGED <<eplugin, eid, open, batch, twice, event_stage>>

-----------------------------------------------------------------------------
\* The callbacks for what the kernel has reported of an fd
EpollCalls(fd, rev) ==
    IF "HUP" \in rev THEN << <<fd, "error">> >>
    ELSE SelectSeq(<< <<fd, "recv">>, <<fd, "send">>, <<fd, "error">> >>,
                   LAMBDA c : CASE c[2] = "recv" -> "IN" \in rev [] c[2] = "send" -> "OUT" \in rev
                                [] c[2] = "error" -> "RDHUP" \in rev)
PollCalls(fd, rev) ==
    SelectSeq(<< <<fd, "recv">>, <<fd, "send">>, <<fd, "error">> >>,
              LAMBDA c : CASE c[2] = "recv" -> "IN" \in rev [] c[2] = "send" -> "OUT" \in rev
                           [] c[2] = "error" -> "HUP" \in rev)

\* epoll_wait reports what the kernel likes of its interest list
kepoll_proc(g) ==
    /\ eplugin[elist[g].type].reg = "epoll"
    /\ \E ready \in SUBSET {fd \in Fds : elist[g].interest[fd] # {}} :
       \E rev \in [ready -> (SUBSET {"IN", "OUT", "RDHUP", "HUP"}) \ {{}}] :
         /\ \A fd \in ready : rev[fd] \subseteq elist[g].interest[fd] \cup {"HUP"}
         /\ batch' = [guard |-> g, calls |-> FlattenSeq([i \in 1..Cardinality(ready) |->
                         EpollCalls(SetToSortSeq(ready, <)[i], rev[SetToSortSeq(ready, <)[i]])])]
    /\ UNCHANGED event_stage


\* By index; 0 at the end
kylin_event_event_get_next(g, i) ==
    IF Find(g, elist[g].events[i].efd) = Len(elist[g].events) THEN 0
    ELSE Find(g, elist[g].events[i].efd) + 1

\* What KYLIN_EVENT_EVENT_FOREACH visits, as often as the array has room and once
\* more: 0 once it has ended
Visits(g) ==
    LET visit[i \in 1..Len(elist[g].events) + 1] ==
            IF i = 1 THEN 1
            ELSE IF visit[i - 1] = 0 THEN 0 ELSE kylin_event_event_get_next(g, visit[i - 1])
    IN  visit

kpoll_proc(g) ==
    LET n == Len(elist[g].events)
    IN  /\ eplugin[elist[g].type].reg = "poll" /\ n # 0
        /\ IF Visits(g)[n + 1] # 0 THEN event_stage' = "overrun" /\ UNCHANGED batch
           ELSE /\ \E rev \in [1..n -> SUBSET {"IN", "OUT", "HUP"}] :
                     /\ \A i \in 1..n : rev[i] \subseteq
                          LET e == elist[g].events[Visits(g)[i]]
                          IN  IF e.efd \in open
                              THEN {"HUP"} \cup (IF "READ" \in e.flags THEN {"IN"} ELSE {})
                                           \cup (IF "WRITE" \in e.flags THEN {"OUT"} ELSE {})
                              ELSE {"HUP"}
                     /\ batch' = [guard |-> g, calls |-> FlattenSeq([i \in 1..n |->
                                    PollCalls(elist[g].events[Visits(g)[i]].efd, rev[i])])]
                /\ UNCHANGED event_stage

kylin_event_process(g) ==
    /\ event_stage = "ok" /\ batch = NoBatch /\ (kepoll_proc(g) \/ kpoll_proc(g)) /\ dropped' = {}
    /\ UNCHANGED <<eplugin, elist, eid, open, odd, twice>>

\* One callback is made; what it does are actions of its own
Callback == /\ event_stage = "ok" /\ batch # NoBatch
            /\ batch' = IF Len(batch.calls) <= 1 THEN NoBatch ELSE [batch EXCEPT !.calls = Tail(@)]
            /\ dropped' = IF batch' = NoBatch THEN {} ELSE dropped
            /\ UNCHANGED <<eplugin, elist, eid, open, odd, twice, event_stage>>

EventNext ==
    \/ Callback
    \/ \E fd \in Fds : Open(fd) \/ Close(fd)
    \/ \E type \in UserTypes : kylin_event_register(type) \/ kylin_event_unregister(type)
    \/ \E type \in DOMAIN eplugin : kylin_event_create(type)
    \/ \E g \in DOMAIN elist :
          \/ kylin_event_destroy(g) \/ kylin_event_process(g)
          \/ \E fd \in Fds, flags \in FlagSets : kylin_event_add(g, fd, flags) \/ kylin_event_del(g, fd, flags)

-----------------------------------------------------------------------------
(***************************************************************************)
(* A plugin's reference count is the number of guards that use it, so that *)
(* the functions of a guard are those it was created with until it is      *)
(* destroyed, whatever is unregistered and registered in between.          *)
(***************************************************************************)
EventPluginStays ==
    /\ \A type \in DOMAIN eplugin :
         eplugin[type].ref = Cardinality({g \in DOMAIN elist : elist[g].type = type})
    /\ \A g \in DOMAIN elist : eplugin[elist[g].type].reg = elist[g].made

(***************************************************************************)
(* What the kernel watches for an epoll guard is in the guard's set of     *)
(* events, so that kylin_event_del can reach it, whatever addition,        *)
(* deletion or change was left half done. Only flags with neither READ nor *)
(* WRITE break this. And the kernel watches for no more than the flags of  *)
(* the event say, unless READ and WRITE were given together.               *)
(***************************************************************************)
EventKernelIsRecorded ==
    "neither" \notin odd => \A g \in DOMAIN elist, fd \in Fds : elist[g].interest[fd] # {} =>
        \E i \in DOMAIN elist[g].events :
            LET e == elist[g].events[i]
            IN  /\ e.efd = fd
                /\ "both" \notin odd => /\ "IN" \in elist[g].interest[fd] => "READ" \in e.flags
                                        /\ "OUT" \in elist[g].interest[fd] => "WRITE" \in e.flags

(***************************************************************************)
(* A callback is only made for an fd that the guard has, or had when it    *)
(* waited: what a callback deletes or closes may still be called back in   *)
(* the same kylin_event_process.                                           *)
(***************************************************************************)
EventCallsBackItsOwn ==
    "neither" \notin odd => \A i \in DOMAIN batch.calls : batch.calls[i][1] \in FdsOf(batch.guard) \cup dropped

(***************************************************************************)
(* kpoll_proc stays within its array and ends its loop, and polls every    *)
(* event of the guard, unless an fd was added twice.                       *)
(***************************************************************************)
EventOverrunOnlyTwice ==
    /\ event_stage = "overrun" => twice
    /\ ~twice => \A g \in DOMAIN elist : \A i \in DOMAIN elist[g].events : Visits(g)[i] = i

=============================================================================
