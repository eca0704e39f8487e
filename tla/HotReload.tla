----------------------------- MODULE HotReload ------------------------------
(***************************************************************************)
(* What replacing a module under running calls promises: the life of each  *)
(* loaded copy, and the threads that pin one.  The engine's mutexes, weak  *)
(* pointers and destructors are not seen here; PSEngine implements this    *)
(* specification (module PSEngineRefines).                                 *)
(***************************************************************************)
CONSTANTS Threads, Modules, None

VARIABLES
    phase,   \* phase[m]: "absent", "staged", "current" or "retired"
    pinned   \* pinned[t]: the copy thread t keeps loaded, or None

hrVars == <<phase, pinned>>

HRInit ==
    /\ phase = [m \in Modules |-> "absent"]
    /\ pinned = [t \in Threads |-> None]

Pinned(m) == \E t \in Threads : pinned[t] = m

\* A reload has loaded and initialized a copy nobody else knows yet.
Stage(m) ==
    /\ phase[m] = "absent"
    /\ phase' = [phase EXCEPT ![m] = "staged"]
    /\ UNCHANGED pinned

\* The copy becomes the current one; the copy it replaces retires, pinned by
\* the publishing thread until that lets go of it.
Publish(t, m) ==
    /\ phase[m] = "staged"
    /\ pinned[t] = None
    /\ phase' = [c \in Modules |->
                    IF c = m THEN "current"
                    ELSE IF phase[c] = "current" THEN "retired" ELSE phase[c]]
    /\ \/ \E c \in Modules : phase[c] = "current" /\ pinned' = [pinned EXCEPT ![t] = c]
       \/ (\A c \in Modules : phase[c] # "current") /\ UNCHANGED pinned

\* A call pins the copy it is going to execute: the current one, or a retired
\* one that somebody still pins.
Pin(t, m) ==
    /\ pinned[t] = None
    /\ phase[m] = "current" \/ (phase[m] = "retired" /\ Pinned(m))
    /\ pinned' = [pinned EXCEPT ![t] = m]
    /\ UNCHANGED phase

Unpin(t) ==
    /\ pinned[t] # None
    /\ pinned' = [pinned EXCEPT ![t] = None]
    /\ UNCHANGED phase

\* Only a retired copy nobody pins is finalized and unloaded.
Unload(m) ==
    /\ phase[m] = "retired"
    /\ ~Pinned(m)
    /\ phase' = [phase EXCEPT ![m] = "absent"]
    /\ UNCHANGED pinned

HRNext ==
    \/ \E m \in Modules : Stage(m) \/ Unload(m)
    \/ \E t \in Threads : Unpin(t)
    \/ \E t \in Threads, m \in Modules : Publish(t, m) \/ Pin(t, m)

HRSpec == HRInit /\ [][HRNext]_hrVars

\* A pinned copy is initialized and was published; one copy at most is current.
HRSafe ==
    /\ \A t \in Threads : pinned[t] # None => phase[pinned[t]] \in {"current", "retired"}
    /\ \A m, c \in Modules : phase[m] = "current" /\ phase[c] = "current" => m = c

\* A retired copy is unloaded once the last call that pins it has returned.
RetiredUnloaded ==
    \A m \in Modules : (phase[m] = "retired" /\ ~Pinned(m)) ~> (phase[m] = "absent")
=============================================================================
