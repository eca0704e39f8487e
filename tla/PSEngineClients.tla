--------------------------- MODULE PSEngineClients --------------------------
(***************************************************************************)
(* PSEngine together with the Firebird core that calls it: each thread     *)
(* makes a bounded number of calls.  The bound makes the questions of      *)
(* liveness fair ones: std::mutex is not FIFO and execute retries while    *)
(* reloads win, so without it a call may wait as long as others keep       *)
(* coming.                                                                 *)
(***************************************************************************)
EXTENDS PSEngine

CONSTANT MaxCalls   \* calls a thread makes

ASSUME MaxCallsAssumption == MaxCalls \in Nat \ {0}

VARIABLE budget     \* budget[t]: calls thread t may still begin

clientVars == <<vars, budget>>

ClientInit == Init /\ budget = [t \in Threads |-> MaxCalls]

BeginCall(t) ==
    /\ budget[t] > 0
    /\ Call(t)
    /\ budget' = [budget EXCEPT ![t] = @ - 1]

ClientStep(t) == Step(t) /\ UNCHANGED budget

ClientNext ==
    \/ Install /\ UNCHANGED budget
    \/ \E t \in Threads :
          \/ BeginCall(t)
          \/ ClientStep(t)
          \/ Initialize(t) /\ UNCHANGED budget

ClientSpec ==
    /\ ClientInit
    /\ [][ClientNext]_clientVars
    /\ \A t \in Threads : WF_clientVars(ClientStep(t))

-----------------------------------------------------------------------------

\* Every call returns to the Firebird core, whatever it waits for on the way:
\* engine_mutex, a func_mutex inside it, or a rebind that must be tried again.
CallsReturn == \A t \in Threads : (pc[t] # "idle") ~> (pc[t] = "idle")

\* When the calls have ended, at most the current copy of the library is
\* still loaded: every superseded one has been finalized and unloaded.
OnlyCurrentStays ==
    <>[](\A m \in Modules : state[m] # "free" => m = module)
=============================================================================
