-------------------------- MODULE PSEngineHistory ---------------------------
(***************************************************************************)
(* PSEngineClients with a history variable: the build that was current     *)
(* when a call began.                                                      *)
(***************************************************************************)
EXTENDS PSEngineClients

VARIABLE since   \* since[t]: the current build when t's call began

historyVars == <<clientVars, since>>

HistoryInit == ClientInit /\ since = [t \in Threads |-> None]

CurrentBuild == IF module = None THEN None ELSE build[module]

\* since is set with the call and forgotten with it
HistoryNext ==
    \/ \E t \in Threads :
          \/ BeginCall(t) /\ since' = [since EXCEPT ![t] = CurrentBuild]
          \/ ClientStep(t) /\ since' = [since EXCEPT ![t] = IF pc'[t] = "idle" THEN None ELSE @]
          \/ Initialize(t) /\ UNCHANGED <<budget, since>>
    \/ Install /\ UNCHANGED <<budget, since>>

HistorySpec == HistoryInit /\ [][HistoryNext]_historyVars
-----------------------------------------------------------------------------
\* A call begun while a build was current does not execute an older build.
NewCallsRunNewBuild ==
    \A t \in Threads : pc[t] = "run" /\ since[t] # None => build[temp[t]] >= since[t]
=============================================================================
