----------------------------- MODULE TimerProofs ----------------------------
(***************************************************************************)
(* Theorems about the timer, for any timers, threads and sources.          *)
(***************************************************************************)
EXTENDS Timer, FiniteSetTheorems, SequenceTheorems, TLAPS

Locked == {"start_locked", "stop_locked", "destroy_locked"}
Steps == {"idle", "start", "stop", "destroy", "start_state", "stop_state"} \cup Locked
States == {"init", "pending", "stop", "destroyed"}

TimerTyped ==
    /\ call \in [Callers -> [at : Steps, timer : Timers]]
    /\ lock \in [1..NSrc -> BOOLEAN] /\ schedule \in Nat \ {0}
    /\ timer_pending_rb \in [1..NSrc -> Seq(Timers)]
    /\ state \in [Timers -> States] /\ live \subseteq Timers /\ estranged \subseteq Timers

\* c is between lock and unlock of source s
Holds(c, s) == call[c].at \in Locked /\ Src[call[c].timer] = s

\* A lock that is taken has one holder: a caller, or the schedule that was there.
OneHolder ==
    \A s \in 1..NSrc :
        /\ lock[s] <=> schedule > s \/ \E c \in Callers : Holds(c, s)
        /\ \A c, d \in Callers : Holds(c, s) /\ Holds(d, s) => c = d
        /\ \A c \in Callers : Holds(c, s) => schedule <= s

\* The tree of a source has timers of this source only.
TreesApart == \A s \in 1..NSrc : \A i \in DOMAIN timer_pending_rb[s] : Src[timer_pending_rb[s][i]] = s

\* No call is made for a timer that is destroyed, or that another call destroys.
DestroyedAlone ==
    \A c \in Callers : call[c].at # "idle" =>
        /\ state[call[c].timer] # "destroyed"
        /\ \A d \in Callers \ {c} : call[d].at \in {"destroy", "destroy_locked"} => call[d].timer # call[c].timer

Queued(t) == \E i \in DOMAIN timer_pending_rb[Src[t]] : timer_pending_rb[Src[t]][i] = t

\* A timer whose start is still to write its state is queued, or was unlinked since.
StartedQueued ==
    \A c \in Callers : call[c].at = "start_state" => Queued(call[c].timer) \/ call[c].timer \in estranged

Good == /\ TimerTyped /\ OneHolder /\ TreesApart /\ DestroyedAlone /\ StartedQueued
        /\ TimerPendingIsQueued

\* Nothing follows once the stage is not "ok".
TimerInv == (timer_stage = "ok" => Good) /\ TimerFreedOnlyByAlias

-----------------------------------------------------------------------------
LEMMA TimerInitially == kylin_timer_init => TimerInv
<1> SUFFICES ASSUME kylin_timer_init PROVE TimerInv
    OBVIOUS
<1> USE TimerAssumption
<1>1. \A c \in Callers : call[c] = Idle /\ call[c].at = "idle"
    BY DEF kylin_timer_init, Idle
<1>2. TimerTyped
  <2>1. (CHOOSE t \in Timers : TRUE) \in Timers
      OBVIOUS
  <2>2. Idle \in [at : Steps, timer : Timers]
      BY <2>1 DEF Idle, Steps
  <2> QED  BY <2>2 DEF kylin_timer_init, TimerTyped, States
<1>3. OneHolder
    BY <1>1 DEF kylin_timer_init, OneHolder, Holds, Locked
<1>4. TreesApart /\ DestroyedAlone /\ StartedQueued
    BY <1>1 DEF kylin_timer_init, TreesApart, DestroyedAlone, StartedQueued
<1>5. TimerPendingIsQueued /\ TimerFreedOnlyByAlias
    BY DEF kylin_timer_init, TimerPendingIsQueued, TimerFreedOnlyByAlias
<1> QED  BY <1>2, <1>3, <1>4, <1>5 DEF TimerInv, Good

LEMMA EnterKeeps ==
    ASSUME NEW c \in Callers, NEW t \in Timers, NEW at \in {"start", "stop", "destroy"},
           TimerInv, Enter(c, t, at),
           at = "destroy" => \A d \in Callers : call[d].at # "idle" => call[d].timer # t
    PROVE  TimerInv'
<1> USE TimerAssumption
<1>1. Good /\ At(c, "idle")
    BY DEF Enter, At, TimerInv
<1>2. \A d \in Callers : call'[d] = IF d = c THEN [at |-> at, timer |-> t] ELSE call[d]
    BY <1>1 DEF Enter, Good, TimerTyped
<1>3. UNCHANGED <<timer_pending_rb, lock, state, schedule, live, estranged>>
    BY DEF Enter
<1>4. TimerTyped'
    BY <1>1, <1>3 DEF Good, TimerTyped, Enter, Steps
<1>5. OneHolder'
  <2>1. \A d \in Callers, s \in 1..NSrc : Holds(d, s)' <=> Holds(d, s)
      BY <1>1, <1>2 DEF Holds, Locked, At
  <2> QED  BY <1>1, <1>3, <2>1 DEF Good, OneHolder
<1>6. TreesApart'
    BY <1>1, <1>3 DEF Good, TreesApart
<1>7. DestroyedAlone'
    BY <1>1, <1>2, <1>3 DEF Good, DestroyedAlone, Enter
<1>8. StartedQueued'
    BY <1>1, <1>2, <1>3 DEF Good, StartedQueued, Queued
<1>9. TimerPendingIsQueued'
    BY <1>1, <1>2, <1>3 DEF Good, TimerPendingIsQueued, At
<1>10. TimerFreedOnlyByAlias'
    BY <1>1, <1>3 DEF TimerInv, TimerFreedOnlyByAlias, At
<1> QED  BY <1>4, <1>5, <1>6, <1>7, <1>8, <1>9, <1>10 DEF TimerInv, Good

LEMMA LockKeeps ==
    ASSUME NEW c \in Callers, TimerInv,
           NEW from, NEW to,
           <<from, to>> \in {<<"start", "start_locked">>, <<"stop", "stop_locked">>,
                             <<"destroy", "destroy_locked">>},
           Lock(c, from, to)
    PROVE  TimerInv'
<1> USE TimerAssumption
<1> DEFINE t == call[c].timer
<1>1. Good /\ At(c, from) /\ to \in Locked /\ from \notin Locked /\ from \in {"start", "stop", "destroy"}
    BY DEF Lock, At, TimerInv, Locked
<1>2. \A d \in Callers : call'[d] = IF d = c THEN [at |-> to, timer |-> t] ELSE call[d]
    BY <1>1 DEF Lock, Goto, Good, TimerTyped
<1>3. UNCHANGED <<timer_pending_rb, state, schedule, live, estranged>>
    BY DEF Lock
<1>4. /\ t \in Timers /\ Src[t] \in 1..NSrc /\ ~lock[Src[t]]
      /\ \A s \in 1..NSrc : lock'[s] = IF s = Src[t] THEN TRUE ELSE lock[s]
      /\ lock' \in [1..NSrc -> BOOLEAN]
    BY <1>1 DEF Lock, Good, TimerTyped, kylin_spinlock_lock
<1>5. TimerTyped'
  <2>1. [at |-> to, timer |-> t] \in [at : Steps, timer : Timers]
      BY <1>1, <1>4 DEF Steps
  <2>2. call' \in [Callers -> [at : Steps, timer : Timers]]
      BY <1>1, <1>2, <2>1 DEF Lock, Goto, Good, TimerTyped
  <2> QED  BY <1>1, <1>3, <1>4, <2>2 DEF Good, TimerTyped
<1>6. OneHolder'
  <2>1. \A d \in Callers, s \in 1..NSrc : Holds(d, s)' <=> IF d = c THEN s = Src[t] ELSE Holds(d, s)
      BY <1>1, <1>2 DEF Holds
  <2>2. \A s \in 1..NSrc : ~Holds(c, s)
      BY <1>1 DEF Holds, At
  <2>3. /\ schedule <= Src[t] /\ schedule' = schedule
        /\ \A d \in Callers : ~Holds(d, Src[t])
      BY <1>1, <1>3, <1>4 DEF Good, OneHolder, TimerTyped
  <2> SUFFICES ASSUME NEW s \in 1..NSrc
               PROVE  /\ lock'[s] <=> schedule > s \/ \E d \in Callers : Holds(d, s)'
                      /\ \A d, e \in Callers : Holds(d, s)' /\ Holds(e, s)' => d = e
                      /\ \A d \in Callers : Holds(d, s)' => schedule <= s
      BY <2>3 DEF OneHolder
  <2>4. CASE s = Src[t]
      BY <2>4, <2>1, <2>3, <1>4
  <2>5. CASE s # Src[t]
    <3>1. (lock'[s] <=> lock[s]) /\ \A d \in Callers : Holds(d, s)' <=> Holds(d, s)
        BY <2>5, <2>1, <2>2, <1>4
    <3> QED  BY <3>1, <1>1 DEF Good, OneHolder
  <2> QED  BY <2>4, <2>5
<1>7. TreesApart'
    BY <1>1, <1>3 DEF Good, TreesApart
<1>8. DestroyedAlone'
  <2>1. to = "destroy_locked" <=> from = "destroy"
      OBVIOUS
  <2> QED  BY <1>1, <1>2, <1>3, <2>1 DEF Good, DestroyedAlone, At, Locked
<1>9. StartedQueued'
    BY <1>1, <1>2, <1>3 DEF Good, StartedQueued, Queued, Locked
<1>10. TimerPendingIsQueued'
    BY <1>1, <1>2, <1>3 DEF Good, TimerPendingIsQueued, At
<1>11. TimerFreedOnlyByAlias'
    BY <1>1, <1>3 DEF TimerInv, TimerFreedOnlyByAlias, At
<1> QED  BY <1>5, <1>6, <1>7, <1>8, <1>9, <1>10, <1>11 DEF TimerInv, Good

LEMMA BecomeKeeps ==
    ASSUME NEW c \in Callers, TimerInv,
           NEW from, NEW new,
           <<from, new>> \in {<<"start_state", "pending">>, <<"stop_state", "stop">>},
           Become(c, from, new)
    PROVE  TimerInv'
<1> USE TimerAssumption
<1> DEFINE t == call[c].timer
<1>1. Good /\ At(c, from) /\ from \in {"start_state", "stop_state"} /\ new \in {"pending", "stop"}
    BY DEF Become, At, TimerInv
<1>2. \A d \in Callers : call'[d] = IF d = c THEN [at |-> "idle", timer |-> t] ELSE call[d]
    BY <1>1 DEF Become, Goto, Good, TimerTyped
<1>3. UNCHANGED <<timer_pending_rb, lock, schedule, live, estranged>>
    BY DEF Become
<1>4. t \in Timers /\ \A u \in Timers : state'[u] = IF u = t THEN new ELSE state[u]
    BY <1>1 DEF Become, Good, TimerTyped
<1>5. TimerTyped'
  <2>1. call' \in [Callers -> [at : Steps, timer : Timers]]
    <3>1. [at |-> "idle", timer |-> t] \in [at : Steps, timer : Timers]
        BY <1>4 DEF Steps
    <3> QED  BY <1>1, <1>2, <3>1 DEF Become, Goto, Good, TimerTyped
  <2>2. state' \in [Timers -> States]
      BY <1>1, <1>4 DEF Become, Good, TimerTyped, States
  <2> QED  BY <1>1, <1>3, <2>1, <2>2 DEF Good, TimerTyped
<1>6. OneHolder'
  <2>1. \A d \in Callers, s \in 1..NSrc : Holds(d, s)' <=> Holds(d, s)
      BY <1>1, <1>2 DEF Holds, Locked, At
  <2> QED  BY <1>1, <1>3, <2>1 DEF Good, OneHolder
<1>7. TreesApart'
    BY <1>1, <1>3 DEF Good, TreesApart
<1>8. DestroyedAlone'
  <2> SUFFICES ASSUME NEW d \in Callers, call'[d].at # "idle"
               PROVE  /\ state'[call'[d].timer] # "destroyed"
                      /\ \A e \in Callers \ {d} : call'[e].at \in {"destroy", "destroy_locked"}
                                                    => call'[e].timer # call'[d].timer
      BY DEF DestroyedAlone
  <2>1. d # c /\ call'[d] = call[d] /\ call[d].timer \in Timers /\ call[d].at # "idle"
      BY <1>1, <1>2 DEF Good, TimerTyped
  <2>2. state[call[d].timer] # "destroyed"
      BY <1>1, <2>1 DEF Good, DestroyedAlone
  <2>3. state'[call[d].timer] # "destroyed"
      BY <1>1, <1>4, <2>1, <2>2
  <2>4. ASSUME NEW e \in Callers \ {d}, call'[e].at \in {"destroy", "destroy_locked"}
        PROVE  call'[e].timer # call[d].timer
    <3>1. e # c /\ call'[e] = call[e]
        BY <1>2, <2>4
    <3> QED  BY <1>1, <2>1, <2>4, <3>1 DEF Good, DestroyedAlone
  <2> QED  BY <2>1, <2>3, <2>4
<1>9. StartedQueued'
    BY <1>1, <1>2, <1>3 DEF Good, StartedQueued, Queued
<1>10. TimerPendingIsQueued'
  <2> SUFFICES ASSUME NEW u \in Timers, state'[u] = "pending"
               PROVE  \/ Queued(u) \/ u \in estranged
                      \/ \E d \in Callers : call'[d] = [at |-> "stop_state", timer |-> u]
      BY <1>3 DEF TimerPendingIsQueued, Queued
  <2>1. CASE u = t
      BY <2>1, <1>1, <1>4 DEF Good, StartedQueued, At
  <2>2. CASE u # t
    <3>1. \/ Queued(u) \/ u \in estranged
          \/ \E d \in Callers : call[d] = [at |-> "stop_state", timer |-> u]
        BY <2>2, <1>1, <1>4 DEF Good, TimerPendingIsQueued, Queued, At
    <3> QED  BY <3>1, <2>2, <1>2
  <2> QED  BY <2>1, <2>2
<1>11. TimerFreedOnlyByAlias'
  <2>1. state[t] # "destroyed"
      BY <1>1 DEF Good, DestroyedAlone, At
  <2> QED  BY <2>1, <1>1, <1>3, <1>4 DEF TimerInv, TimerFreedOnlyByAlias, At
<1> QED  BY <1>5, <1>6, <1>7, <1>8, <1>9, <1>10, <1>11 DEF TimerInv, Good

-----------------------------------------------------------------------------
\* A caller that holds a lock gives it back.
LEMMA UnlockKeeps ==
    ASSUME NEW c \in Callers, NEW at \in Steps \ Locked, Good, call[c].at \in Locked,
           Goto(c, at), kylin_spinlock_unlock(Src[call[c].timer]), UNCHANGED schedule
    PROVE  /\ \A d \in Callers : call'[d] = IF d = c THEN [at |-> at, timer |-> call[c].timer] ELSE call[d]
           /\ call' \in [Callers -> [at : Steps, timer : Timers]]
           /\ lock' \in [1..NSrc -> BOOLEAN]
           /\ OneHolder'
<1> USE TimerAssumption
<1> DEFINE t == call[c].timer
<1>1. \A d \in Callers : call'[d] = IF d = c THEN [at |-> at, timer |-> t] ELSE call[d]
    BY DEF Goto, Good, TimerTyped
<1>2. call' \in [Callers -> [at : Steps, timer : Timers]]
  <2>1. [at |-> at, timer |-> t] \in [at : Steps, timer : Timers]
      BY DEF Good, TimerTyped
  <2> QED  BY <1>1, <2>1 DEF Goto, Good, TimerTyped
<1>3. /\ t \in Timers /\ Src[t] \in 1..NSrc /\ lock' \in [1..NSrc -> BOOLEAN]
      /\ \A s \in 1..NSrc : lock'[s] = IF s = Src[t] THEN FALSE ELSE lock[s]
    BY DEF Good, TimerTyped, kylin_spinlock_unlock
<1>4. OneHolder'
  <2>1. \A d \in Callers, s \in 1..NSrc : Holds(d, s)' <=> d # c /\ Holds(d, s)
      BY <1>1 DEF Holds
  <2>2. Holds(c, Src[t])
      BY DEF Holds
  <2>3. /\ schedule <= Src[t] /\ schedule' = schedule
        /\ \A d \in Callers, s \in 1..NSrc : s = Src[t] => ~Holds(d, s)'
    <3>1. schedule <= Src[t]
        BY <1>3, <2>2 DEF Good, OneHolder
    <3>2. \A d \in Callers : Holds(d, Src[t]) => d = c
        BY <1>3, <2>2 DEF Good, OneHolder
    <3> QED  BY <3>1, <3>2, <2>1
  <2> SUFFICES ASSUME NEW s \in 1..NSrc
               PROVE  /\ lock'[s] <=> schedule > s \/ \E d \in Callers : Holds(d, s)'
                      /\ \A d, e \in Callers : Holds(d, s)' /\ Holds(e, s)' => d = e
                      /\ \A d \in Callers : Holds(d, s)' => schedule <= s
      BY <2>3 DEF OneHolder
  <2>4. CASE s = Src[t]
    <3>1. schedule \in Nat /\ Src[t] \in Nat /\ ~(schedule > Src[t])
        BY <1>3, <2>3 DEF Good, TimerTyped
    <3>2. ~lock'[s] /\ \A d \in Callers : ~Holds(d, s)'
        BY <2>4, <2>3, <1>3
    <3> QED  BY <2>4, <3>1, <3>2
  <2>5. CASE s # Src[t]
    <3>1. (lock'[s] <=> lock[s]) /\ \A d \in Callers : Holds(d, s)' <=> Holds(d, s)
        BY <2>5, <2>1, <1>3 DEF Holds
    <3> QED  BY <3>1 DEF Good, OneHolder
  <2> QED  BY <2>4, <2>5
<1> QED  BY <1>1, <1>2, <1>3, <1>4

LEMMA Prepended ==
    ASSUME NEW S, NEW q \in Seq(S), NEW x \in S
    PROVE  /\ <<x>> \o q \in Seq(S) /\ DOMAIN (<<x>> \o q) = 1..Len(q) + 1
           /\ (<<x>> \o q)[1] = x /\ \A i \in 1..Len(q) : (<<x>> \o q)[i + 1] = q[i]
OBVIOUS

LEMMA InsertKeeps ==
    ASSUME NEW c \in Callers, TimerInv, StartInsert(c)
    PROVE  TimerInv'
<1> USE TimerAssumption
<1> DEFINE t == call[c].timer
           tree == timer_pending_rb[Src[t]]
<1>1. /\ Good /\ timer_stage = "ok" /\ call[c].at = "start_locked" /\ call[c].at \in Locked
      /\ t \in Timers /\ Src[t] \in 1..NSrc /\ tree \in Seq(Timers)
    BY DEF StartInsert, At, TimerInv, Good, TimerTyped, Locked
<1>2. kylin_spinlock_unlock(Src[t]) /\ UNCHANGED <<state, schedule, estranged>>
    BY DEF StartInsert
<1>3. CASE Found(tree, t)
  <2>1. live' = live \ {t} /\ timer_stage' = IF Head(tree) = t THEN "twice" ELSE "freed"
      BY <1>3 DEF StartInsert
  <2>2. Head(tree) \in Timers /\ Src[Head(tree)] = Src[t] /\ Expire[Head(tree)] = Expire[t]
      BY <1>1, <1>3 DEF Found, Good, TreesApart
  <2>3. TimerFreedOnlyByAlias'
      BY <1>1, <1>2, <2>1, <2>2 DEF TimerInv, TimerFreedOnlyByAlias
  <2> QED  BY <2>1, <2>3 DEF TimerInv
<1>4. CASE ~Found(tree, t)
  <2>1. /\ timer_pending_rb' = [timer_pending_rb EXCEPT ![Src[t]] = <<t>> \o @]
        /\ UNCHANGED <<live, timer_stage>> /\ Goto(c, "start_state")
      BY <1>4 DEF StartInsert
  <2>2. /\ \A d \in Callers : call'[d] = IF d = c THEN [at |-> "start_state", timer |-> t] ELSE call[d]
        /\ call' \in [Callers -> [at : Steps, timer : Timers]]
        /\ lock' \in [1..NSrc -> BOOLEAN] /\ OneHolder'
    <3>1. "start_state" \in Steps \ Locked
        BY DEF Steps, Locked
    <3> QED  BY <3>1, <1>1, <1>2, <2>1, UnlockKeeps
  <2> DEFINE new == <<t>> \o tree
  <2>3. /\ \A s \in 1..NSrc : timer_pending_rb'[s] = IF s = Src[t] THEN new ELSE timer_pending_rb[s]
        /\ timer_pending_rb' \in [1..NSrc -> Seq(Timers)]
        /\ new \in Seq(Timers) /\ DOMAIN new = 1..Len(tree) + 1
        /\ new[1] = t /\ \A i \in 1..Len(tree) : new[i + 1] = tree[i]
    <3>1. /\ new \in Seq(Timers) /\ DOMAIN new = 1..Len(tree) + 1
          /\ new[1] = t /\ \A i \in 1..Len(tree) : new[i + 1] = tree[i]
        BY <1>1, Prepended
    <3>2. timer_pending_rb' = [timer_pending_rb EXCEPT ![Src[t]] = new]
        BY <2>1
    <3>3. timer_pending_rb \in [1..NSrc -> Seq(Timers)]
        BY <1>1 DEF Good, TimerTyped
    <3> HIDE DEF new
    <3>4. /\ \A s \in 1..NSrc : timer_pending_rb'[s] = IF s = Src[t] THEN new ELSE timer_pending_rb[s]
          /\ timer_pending_rb' \in [1..NSrc -> Seq(Timers)]
        BY <1>1, <3>1, <3>2, <3>3
    <3> QED  BY <3>1, <3>4
  <2> HIDE DEF new
  <2>4. TimerTyped'
      BY <1>1, <1>2, <2>1, <2>2, <2>3 DEF Good, TimerTyped
  <2>5. TreesApart'
    <3> SUFFICES ASSUME NEW s \in 1..NSrc, NEW i \in DOMAIN timer_pending_rb'[s]
                 PROVE  Src[timer_pending_rb'[s][i]] = s
        BY DEF TreesApart
    <3>1. CASE s # Src[t]
      <4>1. timer_pending_rb'[s] = timer_pending_rb[s]
          BY <3>1, <2>3
      <4> QED  BY <4>1, <1>1 DEF Good, TreesApart
    <3>2. CASE s = Src[t] /\ i = 1
        BY <3>2, <2>3
    <3>3. CASE s = Src[t] /\ i # 1
      <4> DEFINE k == i - 1
      <4>1. Len(tree) \in Nat /\ DOMAIN tree = 1..Len(tree)
          BY <1>1
      <4>2. timer_pending_rb'[s] = new /\ i \in 1..Len(tree) + 1
          BY <3>3, <2>3
      <4>3. k \in 1..Len(tree) /\ k + 1 = i
          BY <3>3, <4>1, <4>2
      <4> HIDE DEF k
      <4>4. timer_pending_rb'[s][i] = tree[k]
          BY <4>2, <4>3, <2>3
      <4>5. Src[tree[k]] = Src[t]
          BY <1>1, <4>1, <4>3 DEF Good, TreesApart
      <4> QED  BY <3>3, <4>4, <4>5
    <3> QED  BY <3>1, <3>2, <3>3
  <2>6. \A u \in Timers : u = t \/ Queued(u) => Queued(u)'
    <3>1. ASSUME NEW u \in Timers, u = t PROVE Queued(u)'
      <4>1. timer_pending_rb'[Src[u]] = new
          BY <3>1, <1>1, <2>3
      <4>2. 1 \in DOMAIN new /\ new[1] = u
        <5>1. Len(tree) \in Nat
            BY <1>1
        <5>2. 1 \in 1..Len(tree) + 1
            BY <5>1
        <5> QED  BY <5>2, <3>1, <2>3
      <4> QED  BY <4>1, <4>2 DEF Queued
    <3>2. ASSUME NEW u \in Timers, Queued(u) PROVE Queued(u)'
      <4>1. CASE Src[u] # Src[t]
          BY <4>1, <3>2, <2>3 DEF Queued
      <4>2. CASE Src[u] = Src[t]
        <5>1. PICK i \in 1..Len(tree) : tree[i] = u
            BY <4>2, <3>2, <1>1 DEF Queued
        <5>2. i + 1 \in DOMAIN timer_pending_rb'[Src[u]] /\ timer_pending_rb'[Src[u]][i + 1] = u
          <6>1. timer_pending_rb'[Src[u]] = new
              BY <4>2, <1>1, <2>3
          <6>2. i + 1 \in 1..Len(tree) + 1
            <7>1. Len(tree) \in Nat
                BY <1>1
            <7> HIDE DEF tree
            <7> QED  BY <5>1, <7>1
          <6>3. i + 1 \in DOMAIN new /\ new[i + 1] = u
              BY <5>1, <6>2, <2>3
          <6> QED  BY <6>1, <6>3
        <5> QED  BY <5>2 DEF Queued
      <4> QED  BY <4>1, <4>2
    <3> QED  BY <3>1, <3>2
  <2>7. DestroyedAlone'
    <3> SUFFICES ASSUME NEW d \in Callers, call'[d].at # "idle"
                 PROVE  /\ state[call'[d].timer] # "destroyed"
                        /\ \A e \in Callers \ {d} : call'[e].at \in {"destroy", "destroy_locked"}
                                                      => call'[e].timer # call'[d].timer
        BY <1>2 DEF DestroyedAlone
    <3>1. \A e \in Callers : call'[e].timer = call[e].timer /\ (e # c => call'[e].at = call[e].at)
        BY <2>2
    <3>2. call'[c].at = "start_state" /\ call[d].at # "idle"
      <4>1. call'[c] = [at |-> "start_state", timer |-> t]
          BY <2>2
      <4>2. CASE d = c
          BY <4>1, <4>2, <1>1
      <4>3. CASE d # c
          BY <4>1, <4>3, <2>2
      <4> QED  BY <4>2, <4>3
    <3>3. /\ state[call[d].timer] # "destroyed"
          /\ \A e \in Callers \ {d} : call[e].at \in {"destroy", "destroy_locked"}
                                        => call[e].timer # call[d].timer
        BY <1>1, <3>2 DEF Good, DestroyedAlone
    <3> QED  BY <3>1, <3>2, <3>3
  <2>8. StartedQueued'
      BY <1>1, <1>2, <2>2, <2>6 DEF Good, StartedQueued, TimerTyped
  <2>9. TimerPendingIsQueued'
    <3> SUFFICES ASSUME NEW u \in Timers, state[u] = "pending"
                 PROVE  \/ Queued(u)' \/ u \in estranged
                        \/ \E d \in Callers : call'[d] = [at |-> "stop_state", timer |-> u]
        BY <1>2 DEF TimerPendingIsQueued, Queued
    <3>1. \/ Queued(u) \/ u \in estranged
          \/ \E d \in Callers : call[d] = [at |-> "stop_state", timer |-> u]
        BY <1>1 DEF Good, TimerPendingIsQueued, Queued
    <3> QED  BY <3>1, <1>1, <2>2, <2>6
  <2>10. TimerFreedOnlyByAlias'
      BY <1>1, <1>2, <2>1 DEF TimerInv, TimerFreedOnlyByAlias
  <2> QED  BY <2>2, <2>4, <2>5, <2>7, <2>8, <2>9, <2>10 DEF TimerInv, Good
<1> QED  BY <1>3, <1>4

-----------------------------------------------------------------------------
Root(c) == Head(timer_pending_rb[Src[call[c].timer]])

LEMMA OfLengthOne ==
    ASSUME NEW S, NEW q \in Seq(S), Len(q) = 1
    PROVE  DOMAIN q = {1} /\ q[1] = Head(q) /\ Head(q) \in S /\ Tail(q) = <<>>
<1>1. DOMAIN q = 1..1 /\ q # <<>>
    OBVIOUS
<1>2. Head(q) = q[1] /\ Head(q) \in S /\ Tail(q) \in Seq(S) /\ Len(Tail(q)) = Len(q) - 1
    BY <1>1, HeadTailProperties
<1>3. Tail(q) = <<>>
  <2>1. \A p \in Seq(S) : Len(p) = 0 => p = <<>>
      BY EmptySeq, Zenon
  <2>2. Len(Tail(q)) = 0
      BY <1>2
  <2> QED  BY <1>2, <2>1, <2>2
<1> QED  BY <1>1, <1>2, <1>3

\* The only timer of a tree is unlinked.
LEMMA UnlinkKeeps ==
    ASSUME NEW c \in Callers, Good, Found(timer_pending_rb[Src[call[c].timer]], call[c].timer),
           Len(timer_pending_rb[Src[call[c].timer]]) = 1,
           timer_pending_rb' = [timer_pending_rb EXCEPT ![Src[call[c].timer]] = Tail(@)],
           Estranged(Root(c), call[c].timer)
    PROVE  /\ timer_pending_rb' \in [1..NSrc -> Seq(Timers)] /\ TreesApart'
           /\ \A u \in Timers : Queued(u) => Queued(u)' \/ u = Root(c)
           /\ estranged' \subseteq Timers /\ estranged \subseteq estranged'
           /\ Root(c) # call[c].timer => Root(c) \in estranged'
           /\ \A d \in Callers : call[d].at = "start_state" /\ call[d].timer = Root(c) => Root(c) \in estranged'
<1> USE TimerAssumption
<1> DEFINE t == call[c].timer
           tree == timer_pending_rb[Src[t]]
<1>1. /\ t \in Timers /\ Src[t] \in 1..NSrc /\ tree \in Seq(Timers)
      /\ timer_pending_rb \in [1..NSrc -> Seq(Timers)] /\ estranged \subseteq Timers
    BY DEF Good, TimerTyped
<1>2. DOMAIN tree = {1} /\ tree[1] = Root(c) /\ Root(c) \in Timers
    BY <1>1, OfLengthOne DEF Root
<1>3. Tail(tree) = <<>>
    BY <1>1, OfLengthOne
<1>4. /\ \A s \in 1..NSrc : timer_pending_rb'[s] = IF s = Src[t] THEN <<>> ELSE timer_pending_rb[s]
      /\ timer_pending_rb' \in [1..NSrc -> Seq(Timers)]
  <2>1. timer_pending_rb' = [timer_pending_rb EXCEPT ![Src[t]] = <<>>]
      BY <1>3
  <2>2. <<>> \in Seq(Timers)
      OBVIOUS
  <2> QED  BY <1>1, <2>1, <2>2
<1>5. TreesApart'
  <2> SUFFICES ASSUME NEW s \in 1..NSrc, NEW i \in DOMAIN timer_pending_rb'[s]
               PROVE  Src[timer_pending_rb'[s][i]] = s
      BY DEF TreesApart
  <2>1. s # Src[t]
    <3>1. DOMAIN <<>> = {}
        OBVIOUS
    <3> QED  BY <1>4, <3>1
  <2>2. timer_pending_rb'[s] = timer_pending_rb[s]
      BY <1>4, <2>1
  <2> QED  BY <2>2 DEF Good, TreesApart
<1>6. ASSUME NEW u \in Timers, Queued(u), u # Root(c) PROVE Queued(u)'
  <2>1. Src[u] # Src[t]
      BY <1>6, <1>2 DEF Queued
  <2>2. timer_pending_rb'[Src[u]] = timer_pending_rb[Src[u]]
      BY <2>1, <1>4
  <2> QED  BY <1>6, <2>2 DEF Queued
<1>7. /\ estranged' \subseteq Timers /\ estranged \subseteq estranged'
      /\ Root(c) # t => Root(c) \in estranged'
    BY <1>1, <1>2 DEF Estranged
<1>8. ASSUME NEW d \in Callers, call[d].at = "start_state", call[d].timer = Root(c)
      PROVE  Root(c) \in estranged'
  <2>1. call[d] = [at |-> "start_state", timer |-> Root(c)]
      BY <1>8 DEF Good, TimerTyped
  <2> QED  BY <2>1 DEF Estranged
<1> QED  BY <1>4, <1>5, <1>6, <1>7, <1>8

\* What remains to be shown of a step that takes c out of a lock
LEMMA LeaveKeeps ==
    ASSUME NEW c \in Callers, NEW at \in {"idle", "stop_state"}, Good, timer_stage = "ok", call[c].at \in Locked,
           \A d \in Callers : call'[d] = IF d = c THEN [at |-> at, timer |-> call[c].timer] ELSE call[d],
           \A u \in Timers : state'[u] = state[u] \/ u = call[c].timer,
           \/ call[c].at = "destroy_locked" /\ at = "idle" /\ state'[call[c].timer] = "destroyed"
           \/ state'[call[c].timer] = state[call[c].timer],
           estranged \subseteq estranged',
           \A u \in Timers : Queued(u) => \/ Queued(u)' \/ u \in estranged'
                                          \/ /\ u = call[c].timer
                                             /\ at = "stop_state" \/ state'[u] = "destroyed"
                                             /\ \A d \in Callers : call[d].at = "start_state" => call[d].timer # u
    PROVE  DestroyedAlone' /\ StartedQueued' /\ TimerPendingIsQueued'
<1> DEFINE t == call[c].timer
<1>1. t \in Timers /\ \A d \in Callers : call[d].timer \in Timers
    BY DEF Good, TimerTyped
<1>2. call'[c] = [at |-> at, timer |-> t] /\ \A d \in Callers \ {c} : call'[d] = call[d]
    OBVIOUS
<1>3. DestroyedAlone'
  <2> SUFFICES ASSUME NEW d \in Callers, call'[d].at # "idle"
               PROVE  /\ state'[call'[d].timer] # "destroyed"
                      /\ \A e \in Callers \ {d} : call'[e].at \in {"destroy", "destroy_locked"}
                                                    => call'[e].timer # call'[d].timer
      BY DEF DestroyedAlone
  <2>1. call'[d].timer = call[d].timer /\ call[d].at # "idle"
    <3>1. CASE d = c
        BY <3>1, <1>2 DEF Locked
    <3>2. CASE d # c
        BY <3>2, <1>2
    <3> QED  BY <3>1, <3>2
  <2>2. /\ state[call[d].timer] # "destroyed"
        /\ \A e \in Callers \ {d} : call[e].at \in {"destroy", "destroy_locked"} => call[e].timer # call[d].timer
      BY <2>1 DEF Good, DestroyedAlone
  <2>3. ASSUME NEW e \in Callers \ {d}, call'[e].at \in {"destroy", "destroy_locked"}
        PROVE  call'[e].timer # call'[d].timer
    <3>1. e # c
        BY <2>3, <1>2
    <3> QED  BY <3>1, <2>1, <2>2, <2>3, <1>2
  <2>4. state'[call[d].timer] # "destroyed"
    <3>1. CASE state'[t] = state[t]
        BY <3>1, <2>2, <1>1
    <3>2. CASE call[c].at = "destroy_locked" /\ at = "idle"
      <4>1. d # c
          BY <3>2, <1>2
      <4>2. call[d].timer # t
          BY <4>1, <3>2, <2>2
      <4> QED  BY <4>2, <2>2, <1>1
    <3> QED  BY <3>1, <3>2
  <2> QED  BY <2>1, <2>3, <2>4
<1>4. StartedQueued'
  <2> SUFFICES ASSUME NEW d \in Callers, call'[d].at = "start_state"
               PROVE  Queued(call[d].timer)' \/ call'[d].timer \in estranged'
      BY DEF StartedQueued
  <2> QED  BY <1>1, <1>2 DEF Good, StartedQueued
<1>5. TimerPendingIsQueued'
  <2> SUFFICES ASSUME NEW u \in Timers, state'[u] = "pending"
               PROVE  \/ Queued(u)' \/ u \in estranged'
                      \/ \E d \in Callers : call'[d] = [at |-> "stop_state", timer |-> u]
      BY DEF TimerPendingIsQueued, Queued
  <2>1. state[u] = "pending"
      BY <1>1
  <2>2. \/ Queued(u) \/ u \in estranged
        \/ \E d \in Callers : call[d] = [at |-> "stop_state", timer |-> u]
      BY <2>1 DEF Good, TimerPendingIsQueued, Queued
  <2>3. CASE Queued(u)
      BY <2>3, <1>2
  <2>4. ASSUME NEW d \in Callers, call[d] = [at |-> "stop_state", timer |-> u]
        PROVE  call'[d] = [at |-> "stop_state", timer |-> u]
    <3>1. d # c
        BY <2>4 DEF Locked
    <3> QED  BY <3>1, <2>4, <1>2
  <2> QED  BY <2>2, <2>3, <2>4
<1> QED  BY <1>3, <1>4, <1>5

LEMMA StopKeeps ==
    ASSUME NEW c \in Callers, TimerInv, StopUnlink(c)
    PROVE  TimerInv'
<1> DEFINE t == call[c].timer
           tree == timer_pending_rb[Src[t]]
<1>1. Good /\ timer_stage = "ok" /\ call[c].at = "stop_locked" /\ call[c].at \in Locked /\ t \in Timers
    BY DEF StopUnlink, At, TimerInv, Good, TimerTyped, Locked
<1>2. kylin_spinlock_unlock(Src[t]) /\ UNCHANGED <<state, schedule, live>>
    BY DEF StopUnlink
<1>3. "idle" \in Steps \ Locked /\ "stop_state" \in Steps \ Locked
    BY DEF Steps, Locked
<1>4. TimerFreedOnlyByAlias'
    BY <1>1, <1>2 DEF TimerInv, TimerFreedOnlyByAlias
<1>5. CASE ~Found(tree, t)
  <2>1. Goto(c, "idle") /\ UNCHANGED <<timer_pending_rb, timer_stage, estranged>>
      BY <1>5 DEF StopUnlink
  <2>2. /\ \A d \in Callers : call'[d] = IF d = c THEN [at |-> "idle", timer |-> t] ELSE call[d]
        /\ call' \in [Callers -> [at : Steps, timer : Timers]]
        /\ lock' \in [1..NSrc -> BOOLEAN] /\ OneHolder'
      BY <1>1, <1>2, <1>3, <2>1, UnlockKeeps
  <2>3. TimerTyped' /\ TreesApart'
      BY <1>1, <1>2, <2>1, <2>2 DEF Good, TimerTyped, TreesApart
  <2>4. \A u \in Timers : Queued(u) => Queued(u)'
      BY <2>1 DEF Queued
  <2>5. DestroyedAlone' /\ StartedQueued' /\ TimerPendingIsQueued'
      BY <1>1, <1>2, <2>1, <2>2, <2>4, LeaveKeeps
  <2> QED  BY <1>4, <2>2, <2>3, <2>5 DEF TimerInv, Good
<1>6. CASE Found(tree, t) /\ Len(tree) # 1
  <2>1. timer_stage' = "crashed"
      BY <1>6 DEF StopUnlink
  <2> QED  BY <1>4, <2>1 DEF TimerInv
<1>7. CASE Found(tree, t) /\ Len(tree) = 1
  <2>1. /\ timer_pending_rb' = [timer_pending_rb EXCEPT ![Src[t]] = Tail(@)]
        /\ timer_stage' = "ok" /\ Goto(c, "stop_state") /\ Estranged(Root(c), t)
      BY <1>7 DEF StopUnlink, Root
  <2>2. /\ \A d \in Callers : call'[d] = IF d = c THEN [at |-> "stop_state", timer |-> t] ELSE call[d]
        /\ call' \in [Callers -> [at : Steps, timer : Timers]]
        /\ lock' \in [1..NSrc -> BOOLEAN] /\ OneHolder'
      BY <1>1, <1>2, <1>3, <2>1, UnlockKeeps
  <2>3. /\ timer_pending_rb' \in [1..NSrc -> Seq(Timers)] /\ TreesApart'
        /\ \A u \in Timers : Queued(u) => Queued(u)' \/ u = Root(c)
        /\ estranged' \subseteq Timers /\ estranged \subseteq estranged'
        /\ Root(c) # t => Root(c) \in estranged'
        /\ \A d \in Callers : call[d].at = "start_state" /\ call[d].timer = Root(c) => Root(c) \in estranged'
      BY <1>1, <1>7, <2>1, UnlinkKeeps
  <2>4. TimerTyped'
      BY <1>1, <1>2, <2>2, <2>3 DEF Good, TimerTyped
  <2>5. \A u \in Timers : Queued(u) => \/ Queued(u)' \/ u \in estranged'
                                       \/ /\ u = t
                                          /\ \A d \in Callers : call[d].at = "start_state" => call[d].timer # u
      BY <2>3
  <2>6. DestroyedAlone' /\ StartedQueued' /\ TimerPendingIsQueued'
      BY <1>1, <1>2, <2>2, <2>3, <2>5, LeaveKeeps
  <2> QED  BY <1>4, <2>2, <2>3, <2>4, <2>6 DEF TimerInv, Good
<1> QED  BY <1>5, <1>6, <1>7

LEMMA DestroyKeeps ==
    ASSUME NEW c \in Callers, TimerInv, DestroyRemove(c)
    PROVE  TimerInv'
<1> USE TimerAssumption
<1> DEFINE t == call[c].timer
           tree == timer_pending_rb[Src[t]]
<1>1. Good /\ timer_stage = "ok" /\ call[c].at = "destroy_locked" /\ call[c].at \in Locked /\ t \in Timers
    BY DEF DestroyRemove, At, TimerInv, Good, TimerTyped, Locked
<1>2. kylin_spinlock_unlock(Src[t]) /\ Goto(c, "idle") /\ UNCHANGED schedule
    BY DEF DestroyRemove
<1>3. /\ \A u \in Timers : state'[u] = IF u = t THEN "destroyed" ELSE state[u]
      /\ state' \in [Timers -> States]
    BY <1>1 DEF DestroyRemove, Good, TimerTyped, States
<1>4. /\ \A d \in Callers : call'[d] = IF d = c THEN [at |-> "idle", timer |-> t] ELSE call[d]
      /\ call' \in [Callers -> [at : Steps, timer : Timers]]
      /\ lock' \in [1..NSrc -> BOOLEAN] /\ OneHolder'
  <2>1. "idle" \in Steps \ Locked
      BY DEF Steps, Locked
  <2> QED  BY <1>1, <1>2, <2>1, UnlockKeeps
<1>5. CASE ~Found(tree, t)
  <2>1. UNCHANGED <<timer_pending_rb, timer_stage, live, estranged>>
      BY <1>5 DEF DestroyRemove
  <2>2. TimerTyped' /\ TreesApart'
      BY <1>1, <1>2, <1>3, <1>4, <2>1 DEF Good, TimerTyped, TreesApart
  <2>3. \A u \in Timers : Queued(u) => Queued(u)'
      BY <2>1 DEF Queued
  <2>4. DestroyedAlone' /\ StartedQueued' /\ TimerPendingIsQueued'
      BY <1>1, <1>3, <1>4, <2>1, <2>3, LeaveKeeps
  <2>5. TimerFreedOnlyByAlias'
      BY <1>1, <1>3, <2>1 DEF TimerInv, TimerFreedOnlyByAlias
  <2> QED  BY <1>4, <2>2, <2>4, <2>5 DEF TimerInv, Good
<1>6. CASE Found(tree, t)
  <2>1. /\ timer_pending_rb' = [timer_pending_rb EXCEPT ![Src[t]] = Tail(@)]
        /\ timer_stage' = IF Len(tree) = 1 THEN "ok" ELSE "crashed"
        /\ live' = live \ {Root(c)} /\ Estranged(Root(c), t)
      BY <1>6 DEF DestroyRemove, Root
  <2>2. Root(c) \in Timers /\ Src[Root(c)] = Src[t] /\ Expire[Root(c)] = Expire[t]
      BY <1>1, <1>6 DEF Found, Root, Good, TreesApart, TimerTyped
  <2>3. TimerFreedOnlyByAlias'
      BY <1>1, <1>3, <2>1, <2>2 DEF TimerInv, TimerFreedOnlyByAlias
  <2>4. CASE Len(tree) # 1
      BY <2>1, <2>3, <2>4 DEF TimerInv
  <2>5. CASE Len(tree) = 1
    <3>1. /\ timer_pending_rb' \in [1..NSrc -> Seq(Timers)] /\ TreesApart'
          /\ \A u \in Timers : Queued(u) => Queued(u)' \/ u = Root(c)
          /\ estranged' \subseteq Timers /\ estranged \subseteq estranged'
          /\ Root(c) # t => Root(c) \in estranged'
          /\ \A d \in Callers : call[d].at = "start_state" /\ call[d].timer = Root(c) => Root(c) \in estranged'
        BY <1>1, <1>6, <2>1, <2>5, UnlinkKeeps
    <3>2. TimerTyped'
        BY <1>1, <1>2, <1>3, <1>4, <2>1, <3>1 DEF Good, TimerTyped
    <3>3. \A u \in Timers : Queued(u) => \/ Queued(u)' \/ u \in estranged'
                                         \/ /\ u = t /\ state'[u] = "destroyed"
                                            /\ \A d \in Callers : call[d].at = "start_state" => call[d].timer # u
        BY <3>1, <1>3
    <3>4. DestroyedAlone' /\ StartedQueued' /\ TimerPendingIsQueued'
        BY <1>1, <1>3, <1>4, <3>1, <3>3, LeaveKeeps
    <3> QED  BY <1>4, <2>3, <3>1, <3>2, <3>4 DEF TimerInv, Good
  <2> QED  BY <2>4, <2>5
<1> QED  BY <1>5, <1>6

LEMMA ScheduleKeeps ==
    ASSUME TimerInv, __kylin_timer_schedule
    PROVE  TimerInv'
<1> USE TimerAssumption
<1>1. Good /\ timer_stage = "ok" /\ UNCHANGED <<timer_pending_rb, state, call, live, timer_stage, estranged>>
    BY DEF __kylin_timer_schedule, TimerInv
<1>2. /\ schedule \in 1..NSrc /\ ~lock[schedule] /\ schedule' = schedule + 1
      /\ \A s \in 1..NSrc : lock'[s] = IF s = schedule THEN TRUE ELSE lock[s]
      /\ lock' \in [1..NSrc -> BOOLEAN]
    BY <1>1 DEF __kylin_timer_schedule, kylin_spinlock_lock, Good, TimerTyped
<1>3. TimerTyped'
  <2>1. schedule' \in Nat \ {0}
      BY <1>2
  <2> QED  BY <1>1, <1>2, <2>1 DEF Good, TimerTyped
<1>4. OneHolder'
  <2>1. \A c \in Callers, s \in 1..NSrc : Holds(c, s)' <=> Holds(c, s)
      BY <1>1 DEF Holds
  <2>2. \A c \in Callers : ~Holds(c, schedule)
      BY <1>1, <1>2 DEF Good, OneHolder
  <2>3. \A s \in 1..NSrc : /\ schedule' > s <=> schedule > s \/ s = schedule
                           /\ schedule <= s /\ s # schedule => schedule' <= s
      BY <1>2
  <2> QED  BY <1>1, <1>2, <2>1, <2>2, <2>3 DEF Good, OneHolder
<1>5. TreesApart' /\ DestroyedAlone' /\ StartedQueued' /\ TimerPendingIsQueued'
    BY <1>1 DEF Good, TreesApart, DestroyedAlone, StartedQueued, Queued, TimerPendingIsQueued
<1>6. TimerFreedOnlyByAlias'
    BY <1>1 DEF TimerInv, TimerFreedOnlyByAlias
<1> QED  BY <1>3, <1>4, <1>5, <1>6 DEF TimerInv, Good

LEMMA TimerStep == TimerInv /\ [TimerNext]_timer_vars => TimerInv'
<1> SUFFICES ASSUME TimerInv, [TimerNext]_timer_vars PROVE TimerInv'
    OBVIOUS
<1>1. CASE __kylin_timer_schedule
    BY <1>1, ScheduleKeeps
<1>2. CASE kylin_timer_fini
  <2>1. timer_stage' = "fini" /\ timer_stage = "ok" /\ UNCHANGED <<state, live>>
      BY <1>2 DEF kylin_timer_fini
  <2> QED  BY <2>1 DEF TimerInv, TimerFreedOnlyByAlias
<1>3. ASSUME NEW c \in Callers, NEW t \in Timers,
             kylin_timer_start(c, t) \/ kylin_timer_stop(c, t) \/ kylin_timer_destroy(c, t)
      PROVE  TimerInv'
    BY <1>3, EnterKeeps DEF kylin_timer_start, kylin_timer_stop, kylin_timer_destroy
<1>4. ASSUME NEW c \in Callers, Progress(c)
      PROVE  TimerInv'
    BY <1>4, LockKeeps, BecomeKeeps, InsertKeeps, StopKeeps, DestroyKeeps DEF Progress
<1>5. CASE UNCHANGED timer_vars
  <2>1. /\ UNCHANGED <<timer_pending_rb, lock, state, call, schedule, live, timer_stage, estranged>>
      BY <1>5 DEF timer_vars
  <2>2. (\A c \in Callers, s \in 1..NSrc : Holds(c, s)' <=> Holds(c, s))
      BY <2>1 DEF Holds
  <2>3. OneHolder => OneHolder'
      BY <2>1, <2>2 DEF OneHolder
  <2>4. TimerTyped /\ TreesApart /\ DestroyedAlone /\ StartedQueued
          => TimerTyped' /\ TreesApart' /\ DestroyedAlone' /\ StartedQueued'
      BY <2>1 DEF TimerTyped, TreesApart, DestroyedAlone, StartedQueued, Queued
  <2>5. /\ TimerPendingIsQueued => TimerPendingIsQueued'
        /\ TimerFreedOnlyByAlias => TimerFreedOnlyByAlias'
      BY <2>1 DEF TimerPendingIsQueued, TimerFreedOnlyByAlias
  <2> QED  BY <2>1, <2>3, <2>4, <2>5 DEF TimerInv, Good
<1> QED  BY <1>1, <1>2, <1>3, <1>4, <1>5 DEF TimerNext

-----------------------------------------------------------------------------
(***************************************************************************)
(* For any threads, timers and sources: a source's lock is held exactly by *)
(* one caller between lock and unlock in kylin_timer_start, _stop and      *)
(* _destroy, or for ever by __kylin_timer_schedule.                        *)
(***************************************************************************)
THEOREM TimerLocks == TimerSpec => []TimerLocksAccounted
<1>1. TimerInv => TimerLocksAccounted
  <2> SUFFICES ASSUME Good, NEW s \in 1..NSrc
               PROVE  /\ lock[s] <=> Inside(s) # {} \/ schedule > s
                      /\ Cardinality(Inside(s)) + (IF schedule > s THEN 1 ELSE 0) <= 1
      BY DEF TimerInv, TimerLocksAccounted
  <2>1. \A c : c \in Inside(s) <=> c \in Callers /\ Holds(c, s)
      BY DEF Inside, Holds, Locked
  <2>2. /\ lock[s] <=> schedule > s \/ \E c \in Callers : Holds(c, s)
        /\ \A c, d \in Callers : Holds(c, s) /\ Holds(d, s) => c = d
        /\ \A c \in Callers : Holds(c, s) => schedule <= s
      BY DEF Good, OneHolder
  <2>3. lock[s] <=> Inside(s) # {} \/ schedule > s
      BY <2>1, <2>2
  <2>4. CASE Inside(s) = {}
    <3>1. Cardinality(Inside(s)) = 0
        BY <2>4, FS_EmptySet
    <3> QED  BY <2>3, <3>1
  <2>5. CASE Inside(s) # {}
    <3>1. PICK c : c \in Inside(s)
        BY <2>5
    <3>2. Inside(s) = {c}
        BY <3>1, <2>1, <2>2
    <3>3. Cardinality(Inside(s)) = 1
        BY <3>2, FS_Singleton
    <3>4. s \in Nat /\ schedule \in Nat /\ schedule <= s
        BY <3>1, <2>1, <2>2, TimerAssumption DEF Good, TimerTyped
    <3> QED  BY <2>3, <3>3, <3>4
  <2> QED  BY <2>4, <2>5
<1> QED  BY <1>1, TimerInitially, TimerStep, PTL DEF TimerSpec

(***************************************************************************)
(* For any threads, timers and sources: the state that kylin_timer_start   *)
(* writes after it has released the lock is true of the tree, but for the  *)
(* named races and equal expires.                                          *)
(***************************************************************************)
THEOREM TimerQueued == TimerSpec => []TimerPendingIsQueued
<1>1. TimerInv => TimerPendingIsQueued
    BY DEF TimerInv, Good, TimerPendingIsQueued
<1> QED  BY <1>1, TimerInitially, TimerStep, PTL DEF TimerSpec

(***************************************************************************)
(* For any threads, timers and sources: kylin_rb_insert and _remove free a *)
(* timer that was not destroyed only if another one has its expire, or it  *)
(* was started twice.                                                      *)
(***************************************************************************)
THEOREM TimerFreed == TimerSpec => []TimerFreedOnlyByAlias
<1>1. TimerInv => TimerFreedOnlyByAlias
    BY DEF TimerInv
<1> QED  BY <1>1, TimerInitially, TimerStep, PTL DEF TimerSpec
=============================================================================
