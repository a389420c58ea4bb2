---------------------------------- MODULE Ddb -------------------------------
(***************************************************************************)
(* lib/core/ddb: what a daemon leaves behind for debugging. A run of the   *)
(* daemon begins with kylin_ddb_init and ends with kylin_ddb_fini, with a  *)
(* signal that __signal_process_normal handles, or with one that cannot be *)
(* handled. It composes the overview of shared memory objects (ShmObj) with*)
(* one object's memory, the log files and their archives, and the list of  *)
(* services.                                                               *)
(***************************************************************************)
EXTENDS ShmObj, Sequences, SequencesExt

CONSTANTS
    ARCH_MAX,    \* KYLIN_LOGFILE_ARCH_MAX
    Execs,       \* the functions that services execute
    MaxServices, \* bound on the services of a run
    MaxRuns      \* bound on the runs of the daemon

VARIABLES
    ov,          \* the overview of shared memory objects
    memory,      \* the object's memory: a kddb_t; name, status and so on of a run
    named,       \* whether there is a file for it
    ddb_log,     \* the number of the run that made <name>-ddb.log and its archives
    daemon_log,  \* the same for <name>.log, which the daemon itself writes
    services,    \* service_list
    ddb_stage,   \* "down", "up", "fault", or "looping" in the handler of a signal
    run,         \* the number of the run
    ended,       \* history: how the last run ended
    executed,    \* history: what the handler of a signal executed
    unclosed     \* history: how many runs ended without kylin_ddb_fini

ddb_vars == <<ov, memory, named, ddb_log, daemon_log, services, ddb_stage, run, ended, executed, unclosed>>

Zeros == [runs |-> 0, current |-> "NONE", before |-> "NONE"]
NoFile == 0

DdbInit ==
    /\ ov = object_init /\ memory = Zeros /\ named = FALSE
    /\ ddb_log = [i \in 0..ARCH_MAX |-> NoFile] /\ daemon_log = [i \in 0..ARCH_MAX |-> NoFile]
    /\ services = <<>> /\ ddb_stage = "down" /\ run = 0 /\ ended = "NONE" /\ executed = <<>> /\ unclosed = 0

-----------------------------------------------------------------------------
\* rename: the source is gone, and there may be none
Rename(files, src, dst) ==
    IF files[src] = NoFile THEN files ELSE [files EXCEPT ![dst] = files[src], ![src] = NoFile]

\* cp: the source stays
Copy(files, src, dst) == IF files[src] = NoFile THEN files ELSE [files EXCEPT ![dst] = files[src]]

Unlink(files, i) == [files EXCEPT ![i] = NoFile]

\* (mutant of Downwards: the archives are renamed from the first to the last)
Upwards == [i \in 1..ARCH_MAX |-> i]

\* The archives are renamed from the last to the first
Downwards == [i \in 1..ARCH_MAX |-> ARCH_MAX + 1 - i]

\* <name>-ddb.log is created if there is none, and renamed as well
__logfile_ddb_init(files) ==
    FoldLeft(LAMBDA f, i : Rename(f, i - 1, i),
             Unlink([files EXCEPT ![0] = IF @ = NoFile THEN run + 1 ELSE @], ARCH_MAX), Downwards)

__logfile_daemon_init(files) ==
    FoldLeft(LAMBDA f, i : IF i = 1 THEN Copy(f, 0, 1) ELSE Rename(f, i - 1, i),
             Unlink(files, ARCH_MAX), Downwards)

-----------------------------------------------------------------------------
\* kylin_shm_create and kylin_shm_open, which clears the memory, found or not
ShmName == "ddb"
Counted(o, by) ==
    [o EXCEPT !.obj[object_find(o, ShmName)].refcnt = (@ + by) % RefMod]

CreatedAndOpened ==
    Counted(IF object_find(ov, ShmName) # 0 THEN ov
            ELSE object_insert(ov, [name |-> ShmName, cap |-> 1, refcnt |-> 0]), 1)

\* What the memory that was opened then holds: the first run sets it up, a later one
\* counts and keeps what there is as the run before
FirstRun == [runs |-> 1, current |-> "RUNNING", before |-> "NONE"]
LaterRun(found) == [runs |-> found.runs + 1, current |-> "RUNNING", before |-> found.current]

__shm_init ==
    /\ ov' = CreatedAndOpened /\ named' = TRUE
    /\ memory' = IF object_find(ov, ShmName) = 0 THEN FirstRun ELSE LaterRun(Zeros)

kylin_ddb_init ==
    /\ ddb_stage \in {"down", "fault", "looping"} /\ run < MaxRuns /\ run' = run + 1
    /\ services' = <<>> /\ executed' = <<>> /\ ddb_stage' = "up"
    /\ ddb_log' = __logfile_ddb_init(ddb_log)
    /\ daemon_log' = [__logfile_daemon_init(daemon_log) EXCEPT ![0] = run + 1]
    /\ __shm_init
    /\ UNCHANGED <<ended, unclosed>>

\* (mutant of __shm_fini: the shared memory is not closed)
__shm_fini_open == named' = FALSE /\ memory' = [memory EXCEPT !.current = "STOPPED"] /\ UNCHANGED ov

\* kylin_shm_close also removes the name of the file
__shm_fini == named' = FALSE /\ memory' = [memory EXCEPT !.current = "STOPPED"] /\ ov' = Counted(ov, -1)

\* service_fini destroys the list, which is harmful when it is not empty
kylin_ddb_fini ==
    /\ ddb_stage = "up" /\ __shm_fini /\ ended' = "STOPPED"
    /\ ddb_stage' = IF services = <<>> THEN "down" ELSE "fault"
    /\ UNCHANGED <<ddb_log, daemon_log, services, run, executed, unclosed>>

-----------------------------------------------------------------------------
kylin_ddb_service_register(e) ==
    /\ ddb_stage = "up" /\ Len(services) < MaxServices /\ services' = <<e>> \o services
    /\ UNCHANGED <<ov, memory, named, ddb_log, daemon_log, ddb_stage, run, ended, executed, unclosed>>

\* kylin_list_remove takes the first that matches
kylin_ddb_service_unregister(e) ==
    /\ ddb_stage = "up" /\ e \in ToSet(services) /\ services' = RemoveAt(services, SelectInSeq(services, LAMBDA x : x = e))
    /\ UNCHANGED <<ov, memory, named, ddb_log, daemon_log, ddb_stage, run, ended, executed, unclosed>>


\* The place after the first service that matches, 0 when there is none
service_get_next(e) ==
    LET i == SelectInSeq(services, LAMBDA x : x = e) IN IF i < Len(services) THEN i + 1 ELSE 0

\* The places that service_foreach visits, up to one more than there are
ServiceVisits[k \in 0..MaxServices] ==
    IF k = 0 THEN (IF services = <<>> THEN <<>> ELSE <<1>>)
    ELSE LET before == ServiceVisits[k - 1]
             next == service_get_next(services[Last(before)])
         IN  IF before = <<>> \/ Len(before) < k THEN before ELSE IF next = 0 THEN before ELSE Append(before, next)

\* The places of a walk that does not end
Endless == Len(ServiceVisits[MaxServices]) > Len(services)

\* (mutant of __signal_process_normal: the status of the run is not set)
__signal_process_silent ==
    /\ ddb_stage = "up" /\ ~Endless /\ executed' = [i \in DOMAIN ServiceVisits[MaxServices] |-> services[ServiceVisits[MaxServices][i]]]
    /\ ddb_stage' = "down" /\ ended' = "CORE" /\ unclosed' = unclosed + 1
    /\ UNCHANGED <<ov, named, ddb_log, daemon_log, services, run, memory>>

__signal_process_normal ==
    /\ ddb_stage = "up"
    /\ IF Endless THEN ddb_stage' = "looping" /\ ended' = "RUNNING" /\ UNCHANGED <<executed, memory>>
       ELSE /\ ddb_stage' = "down" /\ ended' = "CORE" /\ memory' = [memory EXCEPT !.current = "CORE"]
            /\ executed' = [i \in DOMAIN ServiceVisits[MaxServices] |-> services[ServiceVisits[MaxServices][i]]]
    /\ unclosed' = unclosed + 1 /\ UNCHANGED <<ov, named, ddb_log, daemon_log, services, run>>

\* SIGKILL, for which there can be no handler, or the machine is switched off
Killed ==
    /\ ddb_stage = "up" /\ ddb_stage' = "down" /\ ended' = "RUNNING" /\ unclosed' = unclosed + 1
    /\ UNCHANGED <<ov, memory, named, ddb_log, daemon_log, services, run, executed>>

DdbNext ==
    \/ kylin_ddb_init \/ kylin_ddb_fini \/ __signal_process_normal \/ Killed
    \/ \E e \in Execs : kylin_ddb_service_register(e) \/ kylin_ddb_service_unregister(e)

-----------------------------------------------------------------------------
(***************************************************************************)
(* The i-th archive is of the i-th last run, for as many as there are, and *)
(* no archive is lost or kept for longer: <name>-ddb.log of a run becomes  *)
(* its first archive at once, <name>.log when the next run begins.         *)
(***************************************************************************)
DdbArchivesInOrder ==
    \A i \in 1..ARCH_MAX :
       /\ ddb_log[i] = (IF i <= run THEN run - i + 1 ELSE NoFile)
       /\ daemon_log[i] = (IF i < run THEN run - i ELSE NoFile)

(***************************************************************************)
(* What is in the shared memory between two runs tells how the last of them*)
(* ended, as long as the memory has a name: CORE for a signal that was     *)
(* handled, RUNNING for one that could not be. A run that follows does not *)
(* know, as kylin_shm_open clears the memory: it is always the first.      *)
(***************************************************************************)
DdbTellsTheEnd ==
    IF ddb_stage = "up" THEN memory = FirstRun
    ELSE named => memory.current = ended

(***************************************************************************)
(* The object's reference count is the number of the runs that did not end *)
(* with kylin_ddb_fini, and of the one that goes on.                       *)
(***************************************************************************)
DdbRefcntIsUnclosed ==
    run > 0 => ov.obj[object_find(ov, ShmName)].refcnt =
                 (unclosed + (IF ddb_stage = "up" THEN 1 ELSE 0)) % RefMod

(***************************************************************************)
(* The handler of a signal executes every service once, the one registered *)
(* last first. It does not come to an end only when a function is in the   *)
(* list twice, as service_get_next then finds the first of the two again.  *)
(***************************************************************************)
DdbServicesExecuted ==
    /\ ddb_stage = "looping" => ~IsInjective(services)
    /\ ddb_stage = "down" /\ ended = "CORE" => executed = services

=============================================================================
