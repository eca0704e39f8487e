--------------------------- MODULE PSEngineRefines --------------------------
(***************************************************************************)
(* PSEngine implements HotReload.  A copy counts as loaded from the end of *)
(* pmod(true) to pmod(false); a thread pins the copy its local shared_ptr  *)
(* refers to.                                                              *)
(***************************************************************************)
EXTENDS PSEngine

phaseOf ==
    [m \in Modules |->
        IF state[m] # "live" THEN "absent"
        ELSE IF module = m THEN "current"
        ELSE IF \E t \in Threads : pc[t] = "publish" /\ mod[t] = m THEN "staged"
        ELSE "retired"]

Promise == INSTANCE HotReload WITH phase <- phaseOf, pinned <- temp

\* Every execution of the engine is one of HotReload: calls pin one copy from
\* their first to their last instruction, a copy is unloaded only when it has
\* been replaced and nobody pins it.
ImplementsHotReload == Promise!HRSpec

\* ... and under the engine's scheduling a retired copy nobody pins is indeed
\* unloaded (the destructor runs in the thread that dropped the last reference).
UnloadsRetired == Promise!RetiredUnloaded
=============================================================================
