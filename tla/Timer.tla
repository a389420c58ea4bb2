-------------------------------- MODULE Timer -------------------------------
(***************************************************************************)
(* kylin_timer.c: threads start, stop and destroy timers, and the thread   *)
(* of kylin_timer_init goes through the pending timers of each source.     *)
(*                                                                         *)
(* The pending timers of a source are in a kylin_rb tree ordered by expire,*)
(* which is used as module Rb shows it to work: a timer that is inserted   *)
(* becomes the root, only the root is found, a removal from a tree with    *)
(* more than one node stops the program, and kylin_rb_min returns NULL.    *)
(* get_cycle returns 0 for every source, so that expire does not change.   *)
(***************************************************************************)
EXTENDS Integers, Sequences, FiniteSets

CONSTANTS
    Timers,
    Callers,    \* the threads that use timers
    Src,        \* the source of each timer, in 1..NSrc
    NSrc,       \* KTIMER_SRC_MAX
    Expire,     \* the expire of each timer
    MaxCalls    \* bound on the calls of a thread

ASSUME TimerAssumption == /\ NSrc \in Nat /\ MaxCalls \in Nat /\ Timers # {}
                          /\ Src \in [Timers -> 1..NSrc] /\ Expire \in [Timers -> Nat]

VARIABLES
    timer_pending_rb,   \* of each source: its timers, the root first
    lock,               \* of each source: whether the spinlock is held
    state,              \* of each timer
    call,               \* of each caller: what it does, to which timer
    calls,              \* of each caller: the calls it has made
    schedule,           \* the source that __kylin_timer_schedule is at
    live,               \* the timers that have not been freed
    timer_stage,        \* "ok", "crashed", "fini"; "freed": freed memory has been used;
                        \* "twice": a timer was started twice
    estranged           \* history: timers unlinked by a call for another timer,
                        \* or before the call that started them was over

timer_vars == <<timer_pending_rb, lock, state, call, calls, schedule, live, timer_stage, estranged>>

Idle == [at |-> "idle", timer |-> CHOOSE t \in Timers : TRUE]

\* kylin_timer_init, and kylin_timer_create for each timer
kylin_timer_init ==
    /\ timer_pending_rb = [s \in 1..NSrc |-> <<>>] /\ lock = [s \in 1..NSrc |-> FALSE]
    /\ state = [t \in Timers |-> "init"] /\ live = Timers
    /\ call = [c \in Callers |-> Idle] /\ calls = [c \in Callers |-> 0]
    /\ schedule = 1 /\ timer_stage = "ok" /\ estranged = {}

-----------------------------------------------------------------------------
Goto(c, at) == call' = [call EXCEPT ![c].at = at]
At(c, at) == timer_stage = "ok" /\ call[c].at = at

\* A step that reads or writes the caller's timer
Uses(c) == timer_stage' = IF call[c].timer \in live THEN "ok" ELSE "freed"

\* The caller starts a call for timer t: a timer that is not in use by another
\* call may be destroyed, and is not used any more after that by its program.
Enter(c, t, at) ==
    /\ At(c, "idle") /\ calls[c] < MaxCalls
    /\ state[t] # "destroyed"
    /\ \A d \in Callers : call[d].at \in {"destroy", "destroy_locked"} => call[d].timer # t
    /\ call' = [call EXCEPT ![c] = [at |-> at, timer |-> t]]
    /\ calls' = [calls EXCEPT ![c] = @ + 1]
    /\ timer_stage' = IF t \in live THEN "ok" ELSE "freed"
    /\ UNCHANGED <<timer_pending_rb, lock, state, schedule, live, estranged>>

\* (mutant of kylin_spinlock_lock: the lock is taken whether it is free or not)
kylin_spinlock_lock_forced(s) == lock' = [lock EXCEPT ![s] = TRUE]
kylin_spinlock_lock(s) == ~lock[s] /\ lock' = [lock EXCEPT ![s] = TRUE]
kylin_spinlock_unlock(s) == lock' = [lock EXCEPT ![s] = FALSE]

Lock(c, from, to) ==
    /\ At(c, from) /\ kylin_spinlock_lock(Src[call[c].timer]) /\ Goto(c, to) /\ Uses(c)
    /\ UNCHANGED <<timer_pending_rb, state, calls, schedule, live, estranged>>

\* (mutant of Found: the expires are not compared)
FoundAny(tree, t) == tree # <<>>

\* kylin_rb looks no further than the root
Found(tree, t) == tree # <<>> /\ Expire[Head(tree)] = Expire[t]

-----------------------------------------------------------------------------
kylin_timer_start(c, t) == state[t] = "init" /\ Enter(c, t, "start")

\* A timer with the root's expire is refused, and freed by kylin_rb_insert; its
\* expire is then restored in the freed memory.
StartInsert(c) ==
    LET t == call[c].timer
        tree == timer_pending_rb[Src[t]]
    IN  /\ At(c, "start_locked") /\ kylin_spinlock_unlock(Src[t])
        /\ IF Found(tree, t)
           THEN /\ live' = live \ {t} /\ timer_stage' = IF Head(tree) = t THEN "twice" ELSE "freed"
                /\ UNCHANGED timer_pending_rb /\ Goto(c, "idle")
           ELSE /\ timer_pending_rb' = [timer_pending_rb EXCEPT ![Src[t]] = <<t>> \o @]
                /\ UNCHANGED <<live, timer_stage>> /\ Goto(c, "start_state")
        /\ UNCHANGED <<state, calls, schedule, estranged>>

\* (mutant of Become: a timer that was stopped is not marked so)
BecomeUnlessStopped(c, from, s) ==
    /\ At(c, from) /\ Uses(c) /\ Goto(c, "idle")
    /\ state' = [state EXCEPT ![call[c].timer] = IF s = "stop" THEN @ ELSE s]
    /\ UNCHANGED <<timer_pending_rb, lock, calls, schedule, live, estranged>>

\* The state is written after the lock has been released
Become(c, from, s) ==
    /\ At(c, from) /\ Uses(c) /\ Goto(c, "idle")
    /\ state' = [state EXCEPT ![call[c].timer] = s]
    /\ UNCHANGED <<timer_pending_rb, lock, calls, schedule, live, estranged>>

kylin_timer_stop(c, t) == state[t] # "running" /\ Enter(c, t, "stop")
kylin_timer_destroy(c, t) == /\ state[t] # "running" /\ Enter(c, t, "destroy")
                             /\ \A d \in Callers : call[d].at # "idle" => call[d].timer # t

\* What the unlinked timer r, found for timer t, is noted as
Estranged(r, t) ==
    estranged' = IF r # t \/ \E c \in Callers : call[c] = [at |-> "start_state", timer |-> r]
                 THEN estranged \cup {r} ELSE estranged


StopUnlink(c) ==
    LET t == call[c].timer
        tree == timer_pending_rb[Src[t]]
    IN  /\ At(c, "stop_locked") /\ kylin_spinlock_unlock(Src[t])
        /\ IF ~Found(tree, t)
           THEN Goto(c, "idle") /\ UNCHANGED <<timer_pending_rb, timer_stage, estranged>>
           ELSE /\ timer_pending_rb' = [timer_pending_rb EXCEPT ![Src[t]] = Tail(@)]
                /\ timer_stage' = IF Len(tree) = 1 THEN "ok" ELSE "crashed"
                /\ Goto(c, "stop_state") /\ Estranged(Head(tree), t)
        /\ UNCHANGED <<state, calls, schedule, live>>

\* kylin_rb_remove frees the timer that it finds. A timer that is not found is not
\* freed at all.
DestroyRemove(c) ==
    LET t == call[c].timer
        tree == timer_pending_rb[Src[t]]
    IN  /\ At(c, "destroy_locked") /\ kylin_spinlock_unlock(Src[t]) /\ Goto(c, "idle")
        /\ IF ~Found(tree, t)
           THEN UNCHANGED <<timer_pending_rb, timer_stage, live, estranged>>
           ELSE /\ timer_pending_rb' = [timer_pending_rb EXCEPT ![Src[t]] = Tail(@)]
                /\ timer_stage' = IF Len(tree) = 1 THEN "ok" ELSE "crashed"
                /\ live' = live \ {Head(tree)} /\ Estranged(Head(tree), t)
        /\ state' = [state EXCEPT ![t] = "destroyed"]
        /\ UNCHANGED <<calls, schedule>>

\* The loop over the pending timers ends at once, with the lock held.
__kylin_timer_schedule ==
    /\ timer_stage = "ok" /\ schedule <= NSrc
    /\ kylin_spinlock_lock(schedule) /\ schedule' = schedule + 1
    /\ UNCHANGED <<timer_pending_rb, state, call, calls, live, timer_stage, estranged>>

\* kylin_rb_destroy of any tree of pointers stops the program
kylin_timer_fini == /\ timer_stage = "ok" /\ \A c \in Callers : call[c].at = "idle"
                    /\ timer_stage' = "fini"
                    /\ UNCHANGED <<timer_pending_rb, lock, state, call, calls, schedule, live, estranged>>

Progress(c) ==
    \/ Lock(c, "start", "start_locked") \/ Lock(c, "stop", "stop_locked")
    \/ Lock(c, "destroy", "destroy_locked")
    \/ StartInsert(c) \/ Become(c, "start_state", "pending")
    \/ StopUnlink(c) \/ Become(c, "stop_state", "stop") \/ DestroyRemove(c)

TimerNext ==
    \/ __kylin_timer_schedule \/ kylin_timer_fini
    \/ \E c \in Callers :
          \/ Progress(c)
          \/ \E t \in Timers : \/ kylin_timer_start(c, t) \/ kylin_timer_stop(c, t)
                              \/ kylin_timer_destroy(c, t)

\* The threads run: a call that was made goes on, and so does the schedule. Nobody
\* has to make a call.
TimerFairness == WF_timer_vars(__kylin_timer_schedule) /\ \A c \in Callers : WF_timer_vars(Progress(c))

TimerSpec == kylin_timer_init /\ [][TimerNext]_timer_vars /\ TimerFairness

-----------------------------------------------------------------------------
Inside(s) == {c \in Callers : /\ call[c].at \in {"start_locked", "stop_locked", "destroy_locked"}
                              /\ Src[call[c].timer] = s}

(***************************************************************************)
(* The lock of a source is held exactly while one caller is between lock   *)
(* and unlock, on every path, or for ever once the schedule has been there:*)
(* __kylin_timer_schedule leaves each source with its lock taken.          *)
(***************************************************************************)
TimerLocksAccounted ==
    timer_stage = "ok" => \A s \in 1..NSrc :
        /\ lock[s] <=> Inside(s) # {} \/ schedule > s
        /\ Cardinality(Inside(s)) + (IF schedule > s THEN 1 ELSE 0) <= 1

(***************************************************************************)
(* A pending timer is in the tree of its source (or being stopped), unless *)
(* another timer with the same expire was stopped or destroyed, or a stop  *)
(* came between the insertion and the state that kylin_timer_start writes  *)
(* after it has released the lock.                                         *)
(***************************************************************************)
TimerPendingIsQueued ==
    \A t \in Timers : timer_stage = "ok" /\ state[t] = "pending" =>
        \/ \E i \in DOMAIN timer_pending_rb[Src[t]] : timer_pending_rb[Src[t]][i] = t
        \/ t \in estranged
        \/ \E c \in Callers : call[c] = [at |-> "stop_state", timer |-> t]

(***************************************************************************)
(* A timer is freed when it is destroyed, or in place of or because of     *)
(* another timer of its source with the same expire: kylin_rb compares     *)
(* expires, not timers. Or two threads have started it at the same time.   *)
(***************************************************************************)
TimerFreedOnlyByAlias ==
    \A t \in Timers \ live : \/ state[t] = "destroyed" \/ timer_stage = "twice"
                            \/ \E u \in Timers \ {t} : Src[t] = Src[u] /\ Expire[t] = Expire[u]

=============================================================================
