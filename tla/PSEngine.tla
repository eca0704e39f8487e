------------------------------ MODULE PSEngine ------------------------------
(***************************************************************************)
(* The PS engine plugin: PSEngine, PSEFuncImpl and the life of PSModule    *)
(* objects (src/src/ps_engine).                                            *)
(*                                                                         *)
(* Server threads create function objects, execute them and reload the     *)
(* user module, all at once.  A function object keeps a raw entry address  *)
(* (exec_proc) and a weak pointer to the module that the address belongs   *)
(* to; an execution promotes the weak pointer and keeps the module alive.  *)
(* Two kinds of mutex protect the rest: engine_mutex, and a func_mutex per *)
(* function object.                                                        *)
(*                                                                         *)
(* One action is one stretch of code between two points where another      *)
(* thread can interfere.  Reference counts are not stored: the strong      *)
(* references of a module are the places that name it (StrongRef).         *)
(***************************************************************************)
EXTENDS Integers, FiniteSets

CONSTANTS
    Threads,    \* server threads; each runs one engine call at a time
    Modules,    \* identities of PSModule objects, reused once nothing names them
    Functions,  \* names of user functions
    Versions,   \* builds of libps_module.so, numbered in the order of installation
    Exports,    \* Exports[v]: the functions in the entry table of build v
    ReloadFn,   \* the special name pse_reload_module
    InfoFn,     \* the special name pse_get_module_info
    None        \* a null pointer, a free mutex, no name

ASSUME ConstantsAssumption ==
    /\ Versions \subseteq Int
    /\ Exports \in [Versions -> SUBSET Functions]
    /\ ReloadFn \notin Functions
    /\ InfoFn \notin Functions
    /\ ReloadFn # InfoFn
    /\ None \notin Threads \cup Modules \cup Functions \cup Versions
    /\ None \notin {ReloadFn, InfoFn}

Names == Functions \cup {ReloadFn, InfoFn}

VARIABLES
    disk,             \* the build now installed in the plugins directory
    boot,             \* how many of the reloads of initialize() are still to do
    state,            \* state[m]: life of PSModule m, "free" when there is no such object
    build,            \* build[m]: the build m was read from
    module,           \* PSEngine::module
    funcs,            \* names that have an object in PSEngine::funcs
    exec_proc,        \* exec_proc[n]: the module whose code the raw address points into
    weak_module_ptr,  \* weak_module_ptr[n]: the module the weak pointer was taken from
    engine_mutex,     \* owner
    func_mutex,       \* owner, per user function object
    pc,               \* where each thread is
    fn,               \* the function name of the thread's call
    mod,              \* local raw PSModule pointer (mod, newmod)
    eproc,            \* local raw address, as the module it points into
    temp,             \* local shared_ptr: temp_shared_ptr, or the old value inside reset()
    dying,            \* the PSModule whose destructor the thread runs
    exc               \* the module that threw the exception in flight

globals == <<state, build, module>>
bindings == <<funcs, exec_proc, weak_module_ptr>>
locks == <<engine_mutex, func_mutex>>
locals == <<fn, mod, eproc, temp, dying, exc>>
vars == <<disk, boot, globals, bindings, locks, pc, locals>>

Labels == {"idle",
           "make", "make_locked",                       \* makeFunction
           "lock_module", "promote", "run", "drop",     \* execute
           "rebind", "rebind_check", "rebind_proc", "rebind_weak",
           "fini", "close",                             \* ~PSModule
           "catch",                                     \* catch(...) of the vtables
           "load", "open", "init", "publish", "count",  \* reloadModule
           "info", "info_locked"}                       \* doGetModuleInfo

TypeOK ==
    /\ disk \in Versions
    /\ boot \in 0..2
    /\ state \in [Modules -> {"free", "read", "mapped", "live", "finished"}]
    /\ build \in [Modules -> Versions \cup {None}]
    /\ module \in Modules \cup {None}
    /\ funcs \in SUBSET Names
    /\ exec_proc \in [Functions -> Modules \cup {None}]
    /\ weak_module_ptr \in [Functions -> Modules \cup {None}]
    /\ \A n \in Functions \ funcs :    \* bindings are those of objects in the map
          exec_proc[n] = None /\ weak_module_ptr[n] = None
    /\ engine_mutex \in Threads \cup {None}
    /\ func_mutex \in [Functions -> Threads \cup {None}]
    /\ pc \in [Threads -> Labels]
    /\ fn \in [Threads -> Names \cup {None}]
    /\ mod \in [Threads -> Modules \cup {None}]
    /\ eproc \in [Threads -> Modules \cup {None}]
    /\ temp \in [Threads -> Modules \cup {None}]
    /\ dying \in [Threads -> Modules \cup {None}]
    /\ exc \in [Threads -> Modules \cup {None}]

Init ==
    /\ disk \in Versions
    /\ boot = 2
    /\ state = [m \in Modules |-> "free"]
    /\ build = [m \in Modules |-> None]
    /\ module = None
    /\ funcs = {}
    /\ exec_proc = [n \in Functions |-> None]
    /\ weak_module_ptr = [n \in Functions |-> None]
    /\ engine_mutex = None
    /\ func_mutex = [n \in Functions |-> None]
    /\ pc = [t \in Threads |-> "idle"]
    /\ fn = [t \in Threads |-> None]
    /\ mod = [t \in Threads |-> None]
    /\ eproc = [t \in Threads |-> None]
    /\ temp = [t \in Threads |-> None]
    /\ dying = [t \in Threads |-> None]
    /\ exc = [t \in Threads |-> None]

-----------------------------------------------------------------------------
(* Helpers *)

Goto(t, l) == pc' = [pc EXCEPT ![t] = l]

\* Mutant: no lock_guard on engine_mutex.
LockEngineUnguarded(t) == engine_mutex' = t

LockEngine(t) ==
    /\ engine_mutex = None
    /\ engine_mutex' = t
UnlockEngine == engine_mutex' = None

\* Mutant: no lock_guard on func_mutex.
LockFuncUnguarded(t, n) == func_mutex' = [func_mutex EXCEPT ![n] = t]

LockFunc(t, n) ==
    /\ func_mutex[n] = None
    /\ func_mutex' = [func_mutex EXCEPT ![n] = t]
UnlockFunc(n) == func_mutex' = [func_mutex EXCEPT ![n] = None]

\* A shared_ptr to m exists: the engine's, or one on the stack of a thread.
StrongRef(m) == module = m \/ \E t \in Threads : temp[t] = m

\* mod->execPocs.count(n)
Provides(m, n) == m # None /\ n \in Exports[build[m]]

\* No pointer, raw or weak, still names the identity m.
Fresh(m) ==
    /\ state[m] = "free"
    /\ \A n \in Functions : exec_proc[n] # m /\ weak_module_ptr[n] # m
    /\ \A t \in Threads : eproc[t] # m /\ exc[t] # m

-----------------------------------------------------------------------------
(* The environment: a developer installs a newer build of the library. *)

Install ==
    /\ \E v \in Versions : v > disk /\ disk' = v
    /\ UNCHANGED <<boot, globals, bindings, locks, pc, locals>>

-----------------------------------------------------------------------------
(* Calls from the Firebird core.  Executing needs a function object that   *)
(* makeFunction has returned before; objects are never disposed of.        *)

CallMakeFunction(t, n) ==
    /\ pc[t] = "idle" /\ boot = 0
    /\ fn' = [fn EXCEPT ![t] = n]
    /\ Goto(t, "make")
    /\ UNCHANGED <<disk, boot, globals, bindings, locks, mod, eproc, temp, dying, exc>>

\* PSEFuncImpl::execute, its switch on spec_type
CallExecute(t, n) ==
    /\ pc[t] = "idle" /\ boot = 0
    /\ n \in funcs
    /\ fn' = [fn EXCEPT ![t] = n]
    /\ \/ n \in Functions /\ Goto(t, "lock_module")
       \/ n = ReloadFn /\ Goto(t, "load")
       \/ n = InfoFn /\ Goto(t, "info")
    /\ UNCHANGED <<disk, boot, globals, bindings, locks, mod, eproc, temp, dying, exc>>

\* The two reloads of PSEngine::initialize, before the plugin is registered:
\* one after the other, whatever the first one returned.
Initialize(t) ==
    /\ boot > 0
    /\ \A u \in Threads : pc[u] = "idle"
    /\ Goto(t, "load")
    /\ UNCHANGED <<disk, boot, globals, bindings, locks, locals>>

-----------------------------------------------------------------------------
(* makeFunction and getOrAddFunc *)

MakeLock(t) ==
    /\ pc[t] = "make"
    /\ LockEngine(t)
    /\ mod' = [mod EXCEPT ![t] = module]
    /\ Goto(t, "make_locked")
    /\ UNCHANGED <<disk, boot, globals, bindings, func_mutex, fn, eproc, temp, dying, exc>>

EndMake(t, l) ==
    /\ UnlockEngine
    /\ mod' = [mod EXCEPT ![t] = None]
    /\ fn' = [fn EXCEPT ![t] = None]
    /\ Goto(t, l)
    /\ UNCHANGED <<disk, boot, globals, func_mutex, eproc, temp, dying, exc>>

\* The name is already in the map: the object is returned as it is.
MakeFound(t) ==
    /\ pc[t] = "make_locked"
    /\ fn[t] \in funcs
    /\ EndMake(t, "idle")
    /\ UNCHANGED bindings

\* Mutant: the map is not asked first, an object in use is bound again.
MakeAddOverwrites(t) ==
    /\ pc[t] = "make_locked"
    /\ funcs' = funcs \cup {fn[t]}
    /\ \/ /\ fn[t] \notin Functions
          /\ UNCHANGED <<exec_proc, weak_module_ptr>>
       \/ /\ fn[t] \in Functions
          /\ Provides(mod[t], fn[t])
          /\ exec_proc' = [exec_proc EXCEPT ![fn[t]] = mod[t]]
          /\ weak_module_ptr' = [weak_module_ptr EXCEPT ![fn[t]] = module]
    /\ EndMake(t, "idle")

\* Mutant: the new object is bound, but not put into the map.
MakeAddUnrecorded(t) ==
    /\ pc[t] = "make_locked"
    /\ fn[t] \notin funcs
    /\ UNCHANGED funcs
    /\ \/ /\ fn[t] \notin Functions
          /\ UNCHANGED <<exec_proc, weak_module_ptr>>
       \/ /\ fn[t] \in Functions
          /\ Provides(mod[t], fn[t])
          /\ exec_proc' = [exec_proc EXCEPT ![fn[t]] = mod[t]]
          /\ weak_module_ptr' = [weak_module_ptr EXCEPT ![fn[t]] = module]
    /\ EndMake(t, "idle")

\* A special function needs no module; a user function is bound to the
\* current module, its address taken from that module's table.
MakeAdd(t) ==
    /\ pc[t] = "make_locked"
    /\ fn[t] \notin funcs
    /\ funcs' = funcs \cup {fn[t]}
    /\ \/ /\ fn[t] \notin Functions
          /\ UNCHANGED <<exec_proc, weak_module_ptr>>
       \/ /\ fn[t] \in Functions
          /\ Provides(mod[t], fn[t])
          /\ exec_proc' = [exec_proc EXCEPT ![fn[t]] = mod[t]]
          /\ weak_module_ptr' = [weak_module_ptr EXCEPT ![fn[t]] = module]
    /\ EndMake(t, "idle")

\* Nothing is inserted: no module, no such entry ("Invalid entry point"), or
\* the metadata calls of the PSERoutineMeta constructor threw.
MakeFail(t) ==
    /\ pc[t] = "make_locked"
    /\ fn[t] \notin funcs
    /\ EndMake(t, "catch")
    /\ UNCHANGED bindings

-----------------------------------------------------------------------------
(* PSEFuncImpl::execute of a user function *)

\* lock_module: lock_guard, then *p = exec_proc
LockModule(t) ==
    /\ pc[t] = "lock_module"
    /\ LockFunc(t, fn[t])
    /\ eproc' = [eproc EXCEPT ![t] = exec_proc[fn[t]]]
    /\ Goto(t, "promote")
    /\ UNCHANGED <<disk, boot, globals, bindings, engine_mutex, fn, mod, temp, dying, exc>>

\* Mutant: the weak pointer is tested, the shared_ptr not kept during the call.
PromoteUnheld(t) ==
    /\ pc[t] = "promote"
    /\ UnlockFunc(fn[t])
    /\ LET m == weak_module_ptr[fn[t]] IN
          \/ m # None /\ StrongRef(m) /\ Goto(t, "run") /\ UNCHANGED eproc
          \/ /\ ~(m # None /\ StrongRef(m))
             /\ eproc' = [eproc EXCEPT ![t] = None]
             /\ Goto(t, "rebind")
    /\ UNCHANGED <<disk, boot, globals, bindings, engine_mutex, fn, mod, temp, dying, exc>>

\* weak_module_ptr.lock(), then the lock_guard ends
Promote(t) ==
    /\ pc[t] = "promote"
    /\ UnlockFunc(fn[t])
    /\ LET m == weak_module_ptr[fn[t]] IN
          \/ /\ m # None /\ StrongRef(m)
             /\ temp' = [temp EXCEPT ![t] = m]
             /\ Goto(t, "run")
             /\ UNCHANGED eproc
          \/ /\ ~(m # None /\ StrongRef(m))
             /\ eproc' = [eproc EXCEPT ![t] = None]
             /\ Goto(t, "rebind")
             /\ UNCHANGED temp
    /\ UNCHANGED <<disk, boot, globals, bindings, engine_mutex, fn, mod, dying, exc>>

\* eproc() ends, by returning or by throwing an exception of the module
RunEnd(t) ==
    /\ pc[t] = "run"
    /\ exc' \in {exc, [exc EXCEPT ![t] = eproc[t]]}
    /\ eproc' = [eproc EXCEPT ![t] = None]
    /\ Goto(t, "drop")
    /\ UNCHANGED <<disk, boot, globals, bindings, locks, fn, mod, temp, dying>>

\* rebindFunction: lock_guard on engine_mutex, mod = module.get()
Rebind(t) ==
    /\ pc[t] = "rebind"
    /\ LockEngine(t)
    /\ mod' = [mod EXCEPT ![t] = module]
    /\ Goto(t, "rebind_check")
    /\ UNCHANGED <<disk, boot, globals, bindings, func_mutex, fn, eproc, temp, dying, exc>>

\* Mutant: the failing return leaves engine_mutex locked.
RebindFailLocked(t) ==
    /\ pc[t] = "rebind_check"
    /\ ~Provides(mod[t], fn[t])
    /\ mod' = [mod EXCEPT ![t] = None]
    /\ Goto(t, "catch")
    /\ UNCHANGED <<disk, boot, globals, bindings, locks, fn, eproc, temp, dying, exc>>

\* returns false: execute throws "PSE: could not rebind function"
RebindFail(t) ==
    /\ pc[t] = "rebind_check"
    /\ ~Provides(mod[t], fn[t])
    /\ UnlockEngine
    /\ mod' = [mod EXCEPT ![t] = None]
    /\ Goto(t, "catch")
    /\ UNCHANGED <<disk, boot, globals, bindings, func_mutex, fn, eproc, temp, dying, exc>>

\* Mutant: engine_mutex is given up before func_mutex is taken.
RebindLockHandOver(t) ==
    /\ pc[t] = "rebind_check"
    /\ Provides(mod[t], fn[t])
    /\ UnlockEngine
    /\ LockFunc(t, fn[t])
    /\ Goto(t, "rebind_proc")
    /\ UNCHANGED <<disk, boot, globals, bindings, locals>>

\* lock_guard on fn->func_mutex, inside engine_mutex
RebindLock(t) ==
    /\ pc[t] = "rebind_check"
    /\ Provides(mod[t], fn[t])
    /\ LockFunc(t, fn[t])
    /\ Goto(t, "rebind_proc")
    /\ UNCHANGED <<disk, boot, globals, bindings, engine_mutex, locals>>

RebindProc(t) ==
    /\ pc[t] = "rebind_proc"
    /\ exec_proc' = [exec_proc EXCEPT ![fn[t]] = mod[t]]
    /\ Goto(t, "rebind_weak")
    /\ UNCHANGED <<disk, boot, globals, funcs, weak_module_ptr, locks, locals>>

\* Mutant: the weak pointer is not refreshed with the address.
RebindWeakForgotten(t) ==
    /\ pc[t] = "rebind_weak"
    /\ UnlockFunc(fn[t])
    /\ UnlockEngine
    /\ mod' = [mod EXCEPT ![t] = None]
    /\ Goto(t, "lock_module")
    /\ UNCHANGED <<disk, boot, globals, bindings, fn, eproc, temp, dying, exc>>

\* fn->weak_module_ptr = module, both guards end, execute loops
RebindWeak(t) ==
    /\ pc[t] = "rebind_weak"
    /\ weak_module_ptr' = [weak_module_ptr EXCEPT ![fn[t]] = module]
    /\ UnlockFunc(fn[t])
    /\ UnlockEngine
    /\ mod' = [mod EXCEPT ![t] = None]
    /\ Goto(t, "lock_module")
    /\ UNCHANGED <<disk, boot, globals, funcs, exec_proc, fn, eproc, temp, dying, exc>>

\* catch(...) of the vtable entry: the exception in flight is read and stored
\* in the caller's status.
Catch(t) ==
    /\ pc[t] = "catch"
    /\ exc' = [exc EXCEPT ![t] = None]
    /\ fn' = [fn EXCEPT ![t] = None]
    /\ Goto(t, "idle")
    /\ UNCHANGED <<disk, boot, globals, bindings, locks, mod, eproc, temp, dying>>

-----------------------------------------------------------------------------
(* Release of a shared_ptr, and ~PSModule in whichever thread held the last *)

\* Where a thread goes on once its reference is gone: a reload under
\* engine_mutex, an unwinding call, or the end of a call that returned.
Released(t) ==
    /\ Goto(t, IF mod[t] # None THEN "count"
               ELSE IF exc[t] # None THEN "catch" ELSE "idle")
    /\ fn' = [fn EXCEPT ![t] = IF mod[t] = None /\ exc[t] = None THEN None ELSE @]

\* Mutant: the module is destroyed as soon as the engine has replaced it.
DropDestroysReplaced(t) ==
    /\ pc[t] = "drop"
    /\ temp' = [temp EXCEPT ![t] = None]
    /\ LET m == temp[t]
           last == m # None /\ module # m
       IN \/ last /\ dying' = [dying EXCEPT ![t] = m] /\ Goto(t, "fini") /\ UNCHANGED fn
          \/ ~last /\ Released(t) /\ UNCHANGED dying
    /\ UNCHANGED <<disk, boot, globals, bindings, locks, mod, eproc, exc>>

\* Mutant: a reload never destroys what it replaces (a pointer without owner).
DropLeaksInReload(t) ==
    /\ pc[t] = "drop"
    /\ temp' = [temp EXCEPT ![t] = None]
    /\ LET m == temp[t]
           last == m # None /\ module # m /\ \A u \in Threads \ {t} : temp[u] # m
       IN \/ last /\ mod[t] = None /\ dying' = [dying EXCEPT ![t] = m]
             /\ Goto(t, "fini") /\ UNCHANGED fn
          \/ ~(last /\ mod[t] = None) /\ Released(t) /\ UNCHANGED dying
    /\ UNCHANGED <<disk, boot, globals, bindings, locks, mod, eproc, exc>>

Drop(t) ==
    /\ pc[t] = "drop"
    /\ temp' = [temp EXCEPT ![t] = None]
    /\ LET m == temp[t]
           last == m # None /\ module # m /\ \A u \in Threads \ {t} : temp[u] # m
       IN \/ last /\ dying' = [dying EXCEPT ![t] = m] /\ Goto(t, "fini") /\ UNCHANGED fn
          \/ ~last /\ Released(t) /\ UNCHANGED dying
    /\ UNCHANGED <<disk, boot, globals, bindings, locks, mod, eproc, exc>>

\* pmod(false, NULL, NULL)
Fini(t) ==
    /\ pc[t] = "fini"
    /\ state' = [state EXCEPT ![dying[t]] = "finished"]
    /\ Goto(t, "close")
    /\ UNCHANGED <<disk, boot, build, module, bindings, locks, locals>>

\* dlclose(handle); close(memfd); the object is gone
Close(t) ==
    /\ pc[t] = "close"
    /\ state' = [state EXCEPT ![dying[t]] = "free"]
    /\ build' = [build EXCEPT ![dying[t]] = None]
    /\ dying' = [dying EXCEPT ![t] = None]
    /\ Released(t)
    /\ UNCHANGED <<disk, boot, module, bindings, locks, mod, eproc, temp, exc>>

-----------------------------------------------------------------------------
(* reloadModule: the whole load happens before engine_mutex is taken *)

\* reloadModule returns; during initialize() one reload less is left.
EndReload(t) ==
    /\ mod' = [mod EXCEPT ![t] = None]
    /\ fn' = [fn EXCEPT ![t] = None]
    /\ boot' = IF boot > 0 THEN boot - 1 ELSE 0
    /\ Goto(t, "idle")

\* new PSModule; the file is copied into a memfd
ReadFile(t) ==
    /\ pc[t] = "load"
    /\ \E m \in Modules :
          /\ Fresh(m)
          /\ state' = [state EXCEPT ![m] = "read"]
          /\ build' = [build EXCEPT ![m] = disk]
          /\ mod' = [mod EXCEPT ![t] = m]
    /\ Goto(t, "open")
    /\ UNCHANGED <<disk, boot, module, bindings, locks, fn, eproc, temp, dying, exc>>

\* the file cannot be read, or memfd_create or write fails
ReadFail(t) ==
    /\ pc[t] = "load"
    /\ EndReload(t)
    /\ UNCHANGED <<disk, globals, bindings, locks, eproc, temp, dying, exc>>

\* dlopen maps the copy, dlsym finds pse_module
Open(t) ==
    /\ pc[t] = "open"
    /\ state' = [state EXCEPT ![mod[t]] = "mapped"]
    /\ Goto(t, "init")
    /\ UNCHANGED <<disk, boot, build, module, bindings, locks, locals>>

\* Mutant: no delete newmod after a failed load.
OpenFailKeeps(t) ==
    /\ pc[t] = "open"
    /\ EndReload(t)
    /\ UNCHANGED <<disk, globals, bindings, locks, eproc, temp, dying, exc>>

\* either fails: the copy is closed, the PSModule deleted
OpenFail(t) ==
    /\ pc[t] = "open"
    /\ state' = [state EXCEPT ![mod[t]] = "free"]
    /\ build' = [build EXCEPT ![mod[t]] = None]
    /\ EndReload(t)
    /\ UNCHANGED <<disk, module, bindings, locks, eproc, temp, dying, exc>>

\* pmod(true, ...): the module initializes and hands out its entry table
InitModule(t) ==
    /\ pc[t] = "init"
    /\ state' = [state EXCEPT ![mod[t]] = "live"]
    /\ Goto(t, "publish")
    /\ UNCHANGED <<disk, boot, build, module, bindings, locks, locals>>

\* lock_guard on engine_mutex, module.reset(newmod): the old pointer moves
\* into a temporary that Drop releases
Publish(t) ==
    /\ pc[t] = "publish"
    /\ LockEngine(t)
    /\ module' = mod[t]
    /\ temp' = [temp EXCEPT ![t] = module]
    /\ Goto(t, "drop")
    /\ UNCHANGED <<disk, boot, state, build, bindings, func_mutex, fn, mod, eproc, dying, exc>>

\* module_reload_count++, getModuleInfo(newmod), the lock_guard ends
Count(t) ==
    /\ pc[t] = "count"
    /\ UnlockEngine
    /\ EndReload(t)
    /\ UNCHANGED <<disk, globals, bindings, func_mutex, eproc, temp, dying, exc>>

-----------------------------------------------------------------------------
(* doGetModuleInfo *)

InfoLock(t) ==
    /\ pc[t] = "info"
    /\ LockEngine(t)
    /\ mod' = [mod EXCEPT ![t] = module]
    /\ Goto(t, "info_locked")
    /\ UNCHANGED <<disk, boot, globals, bindings, func_mutex, fn, eproc, temp, dying, exc>>

\* the text is built from *mod (or NULL is returned when there is none)
InfoRead(t) ==
    /\ pc[t] = "info_locked"
    /\ UnlockEngine
    /\ mod' = [mod EXCEPT ![t] = None]
    /\ fn' = [fn EXCEPT ![t] = None]
    /\ Goto(t, "idle")
    /\ UNCHANGED <<disk, boot, globals, bindings, func_mutex, eproc, temp, dying, exc>>

-----------------------------------------------------------------------------

Call(t) == \E n \in Names : CallMakeFunction(t, n) \/ CallExecute(t, n)

Make(t) == MakeLock(t) \/ MakeFound(t) \/ MakeAdd(t) \/ MakeFail(t)

Execute(t) ==
    \/ LockModule(t) \/ Promote(t) \/ RunEnd(t) \/ Catch(t)
    \/ Rebind(t) \/ RebindFail(t) \/ RebindLock(t) \/ RebindProc(t) \/ RebindWeak(t)

Release(t) == Drop(t) \/ Fini(t) \/ Close(t)

Reload(t) ==
    \/ ReadFile(t) \/ ReadFail(t) \/ Open(t) \/ OpenFail(t)
    \/ InitModule(t) \/ Publish(t) \/ Count(t)

Info(t) == InfoLock(t) \/ InfoRead(t)

\* A step of a call already begun
Step(t) == Make(t) \/ Execute(t) \/ Release(t) \/ Reload(t) \/ Info(t)

Next ==
    \/ Install
    \/ \E t \in Threads : Call(t) \/ Initialize(t) \/ Step(t)

Spec == Init /\ [][Next]_vars

\* A thread inside a call goes on; nobody has to call, or install anything.
FairSpec == Spec /\ \A t \in Threads : WF_vars(Step(t))
-----------------------------------------------------------------------------
(* Safety *)

\* The thread is inside a critical section of engine_mutex.
InEngine(t) ==
    \/ pc[t] \in {"make_locked", "rebind_check", "rebind_proc", "rebind_weak",
                  "info_locked", "count"}
    \/ pc[t] \in {"drop", "fini", "close"} /\ mod[t] # None

\* Code that runs is mapped: a user function executes at the address of a
\* module that is initialized, not finalized, held by the thread itself, and
\* whose entry table has that very function (execute calling eproc).
RunsLiveCode ==
    \A t \in Threads : pc[t] = "run" =>
        /\ eproc[t] # None
        /\ eproc[t] = temp[t]
        /\ state[eproc[t]] = "live"
        /\ fn[t] \in Exports[build[eproc[t]]]

\* Raw PSModule pointers (mod, newmod) are only followed while they point to
\* a live object: under engine_mutex the engine's own reference keeps it
\* (getOrAddFunc, rebindFunction, doGetModuleInfo, end of reloadModule).
RawPointersLive ==
    \A t \in Threads : InEngine(t) /\ mod[t] # None => state[mod[t]] = "live"

\* The address and the weak pointer of a function object name the same
\* module, except for a thread between the two assignments of rebindFunction.
PairAgrees ==
    \A n \in Functions :
        \/ exec_proc[n] = weak_module_ptr[n]
        \/ \E t \in Threads : pc[t] = "rebind_weak" /\ fn[t] = n

\* A module is destroyed by one thread only and with no reference left, and
\* pmod(false) and dlclose follow each other in that thread (~PSModule).
DestroyedOnce ==
    \A t \in Threads : dying[t] # None =>
        /\ ~StrongRef(dying[t])
        /\ \A u \in Threads \ {t} : dying[u] # dying[t] /\ mod[u] # dying[t]
        /\ state[dying[t]] = IF pc[t] = "fini" THEN "live" ELSE "finished"

\* Every copy of the library still mapped has an owner that will unmap it:
\* the engine, a running call, a destructor, or the reload that loads it.
NothingLeaks ==
    \A m \in Modules : state[m] # "free" =>
        \/ StrongRef(m)
        \/ \E t \in Threads : dying[t] = m \/ mod[t] = m

\* A function object is only ever bound to the module that is the engine's
\* current one at that moment: a rebind cannot store a module that another
\* reload has replaced since (rebindFunction reads module twice).
BindsToCurrent ==
    [][\A n \in Functions :
          weak_module_ptr'[n] # weak_module_ptr[n] =>
              /\ weak_module_ptr'[n] = module
              /\ exec_proc'[n] = module]_vars

\* Once promoted, a module is not finalized under the call: from the start of
\* eproc to its end pmod(false) is never run on it, whoever replaces it.
NoFinalizeUnderCall ==
    [][\A t \in Threads :
          pc[t] = "run" /\ eproc[t] # None => state'[eproc[t]] = state[eproc[t]]]_vars

-----------------------------------------------------------------------------
(* What the documents say and the code does not do *)

\* An exception thrown by a module can still be read when it is caught: its
\* type information and its status wrapper's code are the module's.
ExceptionReadable ==
    \A t \in Threads : pc[t] = "catch" /\ exc[t] # None => state[exc[t]] = "live"

\* The current module is never replaced by one of an older build.
CurrentNeverOlder ==
    [][module # None /\ module' # None => build'[module'] >= build[module]]_vars
=============================================================================
