-------------------------------- MODULE Loader ------------------------------
(***************************************************************************)
(* kylin_core_module.c: loading and unloading modules and what they depend *)
(* on. A module's file has a symbol <mod>_depend_on_<dep> for every module *)
(* it depends on; module Elf shows that kylin_elf_symbol finds them. Any   *)
(* error in a hook ends the program: both callers of kylin_elf_symbol call *)
(* exit(1). Destroying the list of modules is safe when it is empty only,  *)
(* as module List shows. Memory does not run out.                          *)
(***************************************************************************)
EXTENDS Integers, Sequences, SequencesExt, FiniteSets

CONSTANTS
    Mods,         \* the modules
    DependsOf,    \* the dependencies there may be: sets of functions Mods -> Seq(Mods)
    FaultsOf,     \* what may be wrong with files: functions from Mods to
                  \* "none", "missing", "broken" and "refusing"
    MaxRefcnt,    \* bound on refcnt
    modules_conf  \* the modules of the configuration file, in its order

VARIABLES
    files,    \* the files: depends, and fault
    session,  \* of the modules: list, refcnt, and which are loaded
    mod_stage,\* "ok", "exit", "crash", "fault", or "gone" after kylin_module_unload_all
    past      \* history: modules that failed to load, were loaded twice, unloaded by
              \* name, loaded without a look at what they depend on, and whether
              \* kylin_module_unload_all was refused

loader_vars == <<files, session, mod_stage, past>>

kylin_module_session_create ==
    /\ files \in [depends : DependsOf, fault : FaultsOf]
    /\ session = [list |-> <<>>, refcnt |-> [m \in Mods |-> 0], loaded |-> {}]
    /\ mod_stage = "ok"
    /\ past = [failed |-> {}, again |-> {}, named |-> {}, blind |-> {}, refused |-> FALSE]

\* Where a call stands: the session, the history and the stage, and its result
Start == [s |-> session, past |-> past, stage |-> "ok", ret |-> "OK"]
Returns(r) == session' = r.s /\ past' = r.past /\ mod_stage' = r.stage /\ UNCHANGED files
Ended(r, how) == [r EXCEPT !.stage = how]

__module_exist(r, m) == m \in ToSet(r.s.list)

\* dlopen, dlsym or the module's function fail, or it refuses KMOD_ACTION_LOAD
__module_load(r, m) ==
    CASE files.fault[m] = "broken" -> [r EXCEPT !.past.failed = @ \cup {m}, !.ret = "ERROR"]
      [] OTHER -> [r EXCEPT !.s.loaded = @ \cup {m}, !.past.again = IF m \in r.s.loaded THEN @ \cup {m} ELSE @,
                            !.ret = IF files.fault[m] = "refusing" THEN "ERROR" ELSE "OK"]

\* (mutant of LinkedBefore: the new module goes behind the one that depends on it)
LinkedBehind(r, m, d) ==
    [r EXCEPT !.s.list = InsertAt(@, 1 + CHOOSE i \in DOMAIN @ : @[i] = m, d), !.s.refcnt[d] = 1]

\* kylin_list_insert_before
LinkedBefore(r, m, d) ==
    [r EXCEPT !.s.list = InsertAt(@, CHOOSE i \in DOMAIN @ : @[i] = m, d), !.s.refcnt[d] = 1]

\* (mutant of Referred: a module that exists is not counted again)
ReferredOnce(r, d) == r

Referred(r, d) == [r EXCEPT !.s.refcnt[d] = @ + 1]

\* (mutant of LoadedIfNew: refcnt is not looked at)
LoadedAlways(r, d) == __module_load(r, d)

LoadedIfNew(r, d) == IF r.s.refcnt[d] = 1 THEN __module_load(r, d) ELSE r

\* __module_depend_process for the symbol that says that m depends on d; memory says what
\* the name of m is followed by, and depth how many modules are being looked at. When
\* these are more than there are, one of them comes back for ever.
RECURSIVE __module_depend_process(_, _, _, _, _)
__module_depend_process(r, m, d, memory, depth) ==
    LET known == __module_exist(r, d)
        counted == IF known THEN Referred(r, d) ELSE LinkedBefore(r, m, d)
        walked == FoldLeft(LAMBDA q, e : __module_depend_process(q, d, e, "zero", depth + 1),
                           counted, files.depends[d])
        done == LoadedIfNew(walked, d)
    IN  CASE r.stage # "ok" -> r
          [] depth > Cardinality(Mods) -> Ended(r, "crash")
          [] ~known /\ memory # "zero" -> Ended(r, "exit")
          [] files.fault[d] = "missing" -> Ended(counted, "exit")
          [] walked.stage # "ok" -> walked
          [] done.ret # "OK" -> Ended(done, "exit")
          [] OTHER -> done

\* kylin_module_load copies the name to where param.mod_name points to, which was never
\* set. The copy may crash the program; else what follows the name there is the zeros of
\* a name, a zero and other bytes, so that the name is not found in the list, or bytes
\* other than zero, so that no symbol is one of m's.
Memory == {"zero", "bytes", "text", "crash"}

kylin_module_load_of(r, m, memory) ==
    LET listed == [r EXCEPT !.s.list = Append(@, m), !.s.refcnt[m] = 1]
        walked == FoldLeft(LAMBDA q, d : __module_depend_process(q, m, d, memory, 1),
                           listed, IF memory = "text" THEN <<>> ELSE files.depends[m])
        blind == IF memory = "text" THEN [walked EXCEPT !.past.blind = @ \cup {m}] ELSE walked
    IN  CASE __module_exist(r, m) -> [r EXCEPT !.ret = "EXIST"]
          [] files.fault[m] = "missing" -> [listed EXCEPT !.past.failed = @ \cup {m}, !.ret = "ERROR"]
          [] memory = "crash" -> Ended(listed, "crash")
          [] walked.stage # "ok" -> walked
          [] OTHER -> LoadedIfNew(blind, m)

kylin_module_load(m) ==
    /\ mod_stage = "ok" /\ \A d \in Mods : session.refcnt[d] < MaxRefcnt
    /\ \E memory \in Memory : Returns(kylin_module_load_of(Start, m, memory))

\* The modules of the file up to the first that is not loaded and did not exist
kylin_module_load_all ==
    /\ mod_stage = "ok" /\ \A d \in Mods : session.refcnt[d] < MaxRefcnt
    /\ \E memory \in Memory :
         Returns(FoldLeft(LAMBDA r, m : IF r.stage # "ok" \/ r.ret = "ERROR" THEN r
                                        ELSE kylin_module_load_of([r EXCEPT !.ret = "OK"], m, memory),
                          Start, modules_conf))

-----------------------------------------------------------------------------
\* __module_unload: a module that is listed and not loaded, or that was closed before,
\* crashes the program; else it may refuse KMOD_ACTION_UNLOAD.
__module_unload(r, m, refuses) ==
    CASE m \notin r.s.loaded -> Ended(r, "crash")
      [] refuses -> [r EXCEPT !.ret = "ERROR"]
      [] OTHER -> [r EXCEPT !.s.loaded = @ \ {m}]

\* (mutant of kylin_module_unload: the module is left in the list)
kylin_module_unload_listed(m) ==
    /\ mod_stage = "ok" /\ __module_exist(Start, m)
    /\ \E refuses \in BOOLEAN : Returns(__module_unload(Start, m, refuses))

kylin_module_unload(m) ==
    /\ mod_stage = "ok" /\ __module_exist(Start, m)
    /\ \E refuses \in BOOLEAN :
         LET r == __module_unload(Start, m, refuses)
         IN  IF r.stage # "ok" \/ r.ret # "OK" THEN Returns(r)
             ELSE Returns([r EXCEPT !.s.list = SelectSeq(@, LAMBDA x : x # m), !.s.refcnt[m] = 0,
                                    !.past.named = @ \cup {m}])

\* From the last of the list to the first; refuser is the module that refuses, if any
kylin_module_unload_all ==
    /\ mod_stage = "ok"
    /\ \E refuser \in Mods \cup {"none"} :
         LET r == FoldLeft(LAMBDA q, m : IF q.stage # "ok" \/ q.ret # "OK" THEN q
                                         ELSE __module_unload(q, m, m = refuser),
                           Start, Reverse(session.list))
         IN  CASE r.stage # "ok" -> Returns(r)
               [] r.ret # "OK" -> Returns([r EXCEPT !.past.refused = TRUE])
               [] OTHER -> Returns(Ended(r, IF session.list = <<>> THEN "gone" ELSE "fault"))

LoaderNext ==
    \/ kylin_module_load_all \/ kylin_module_unload_all
    \/ \E m \in Mods : kylin_module_load(m) \/ kylin_module_unload(m)

-----------------------------------------------------------------------------
Position(m) == CHOOSE i \in DOMAIN session.list : session.list[i] = m
Needs(m, d) == d \in ToSet(files.depends[m])

(***************************************************************************)
(* What a loaded module depends on is loaded and stands before it in the   *)
(* list, so that kylin_module_unload_all unloads it later, however the     *)
(* modules share what they depend on and in whatever order they are loaded.*)
(* Not so for a module that failed to load, that was unloaded by name, as  *)
(* kylin_module_unload does not look at refcnt, or whose dependencies were *)
(* not seen as its name was read with bytes that are not part of it.       *)
(***************************************************************************)
LoaderDependsFirst ==
    mod_stage = "ok" /\ ~past.refused =>
        \A m \in session.loaded, d \in Mods :
           Needs(m, d) => \/ d \in past.failed \cup past.named \/ m \in past.blind
                          \/ d \in session.loaded /\ Position(d) < Position(m)

(***************************************************************************)
(* A module's reference count is never less than the number of the loaded  *)
(* modules that depend on it, but for one that was unloaded by name.       *)
(***************************************************************************)
LoaderRefcntCovers ==
    mod_stage = "ok" =>
        \A d \in Mods \ past.named :
           session.refcnt[d] >= Cardinality({m \in session.loaded \ past.blind : Needs(m, d)})

(***************************************************************************)
(* No module is told to load while it is loaded: refcnt is 1 only for the  *)
(* call that put it into the list.                                         *)
(***************************************************************************)
LoaderLoadsOnce == past.again = {}

(***************************************************************************)
(* Unloading crashes only after a module failed to load, which leaves it in*)
(* the list, or after kylin_module_unload_all gave up half way, which      *)
(* leaves the modules it closed in the list.                               *)
(***************************************************************************)
LoaderUnloadsSafely ==
    [][(kylin_module_unload_all \/ \E m \in Mods : kylin_module_unload(m)) /\
         mod_stage' = "crash" => past.failed # {} \/ past.refused]_loader_vars

(***************************************************************************)
(* Modules are loaded once, after what they depend on, and are counted by  *)
(* those that depend on them.                                              *)
(***************************************************************************)
LoaderKeepsOrder == LoaderDependsFirst /\ LoaderRefcntCovers /\ LoaderLoadsOnce
=============================================================================
