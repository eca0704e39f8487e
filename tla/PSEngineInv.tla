----------------------------- MODULE PSEngineInv ----------------------------
(***************************************************************************)
(* The inductive invariant behind the safety properties of PSEngine, part  *)
(* by part: who holds which mutex, which modules each pointer may point    *)
(* to, and who owns a module at each stage of its life.                    *)
(***************************************************************************)
EXTENDS PSEngine

\* A reload has a module that it has not published.
Loading(t) == pc[t] \in {"open", "init", "publish"}

\* The critical sections belong to the owner of their mutex.
MutexInv ==
    \A t \in Threads :
        /\ InEngine(t) => engine_mutex = t
        /\ pc[t] \in {"promote", "rebind_proc", "rebind_weak"} => func_mutex[fn[t]] = t

\* What the name of a call may be: an execution has a function object.
NameInv ==
    \A t \in Threads :
        /\ pc[t] \in {"lock_module", "promote", "run", "rebind", "rebind_check",
                      "rebind_proc", "rebind_weak"} => fn[t] \in Functions \cap funcs
        /\ pc[t] \in {"make", "make_locked"} => fn[t] \in Names

\* Raw pointers: the thread's own new module, or the engine's current one.
RawInv ==
    \A t \in Threads :
        /\ mod[t] # None => InEngine(t) \/ Loading(t)
        /\ InEngine(t) => mod[t] = module
        /\ pc[t] = "count" => mod[t] # None
        /\ pc[t] \in {"rebind_proc", "rebind_weak"} => Provides(mod[t], fn[t])

\* A module being loaded is known to one thread only.
LoadingInv ==
    \A t \in Threads : Loading(t) =>
        /\ mod[t] # None
        /\ state[mod[t]] = IF pc[t] = "open" THEN "read"
                           ELSE IF pc[t] = "init" THEN "mapped" ELSE "live"
        /\ ~StrongRef(mod[t])
        /\ \A u \in Threads : dying[u] # mod[t] /\ (u # t => mod[u] # mod[t])

\* A module with a strong reference is live.
StrongInv ==
    /\ module # None => state[module] = "live"
    /\ \A t \in Threads : temp[t] # None =>
          state[temp[t]] = "live" /\ pc[t] \in {"run", "drop"}

\* A module being destroyed has no reference left and one destroyer.
DyingInv ==
    \A t \in Threads :
        /\ pc[t] \in {"fini", "close"} <=> dying[t] # None
        /\ dying[t] # None =>
              /\ state[dying[t]] = IF pc[t] = "fini" THEN "live" ELSE "finished"
              /\ ~StrongRef(dying[t])
              /\ \A u \in Threads \ {t} : dying[u] # dying[t]

\* The address and the weak pointer of a function object belong together.
BindingInv ==
    /\ PairAgrees
    /\ \A n \in Functions :
          exec_proc[n] # None /\ state[exec_proc[n]] # "free" =>
              /\ state[exec_proc[n]] \in {"live", "finished"}
              /\ n \in Exports[build[exec_proc[n]]]
    /\ \A t \in Threads :
          /\ pc[t] = "promote" => eproc[t] = exec_proc[fn[t]]
          /\ pc[t] = "rebind_weak" => exec_proc[fn[t]] = mod[t]
          /\ pc[t] = "run" =>
                eproc[t] # None /\ eproc[t] = temp[t] /\ fn[t] \in Exports[build[eproc[t]]]

IInv ==
    /\ TypeOK
    /\ MutexInv
    /\ NameInv
    /\ RawInv
    /\ LoadingInv
    /\ StrongInv
    /\ DyingInv
    /\ BindingInv
    /\ NothingLeaks
=============================================================================
