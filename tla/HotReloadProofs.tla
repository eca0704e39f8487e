-------------------------- MODULE HotReloadProofs ---------------------------
(***************************************************************************)
(* HotReload keeps its promise: HRSafe holds in every state, for any       *)
(* numbers of threads and copies.  With EngineRefines (module              *)
(* PSEngineRefinesProofs) it follows for the engine, which implements it.  *)
(***************************************************************************)
EXTENDS HotReload, TLAPS

\* Nothing is assumed of the constants.
HRTypeOK ==
    /\ phase \in [Modules -> {"absent", "staged", "current", "retired"}]
    /\ pinned \in [Threads -> Modules \cup {None}]

HRInv == HRTypeOK /\ HRSafe

\* A publication leaves one current copy, and the one it retires is pinned at
\* most by those who pinned it before and by the publisher.
LEMMA PublishSafe ==
  ASSUME HRInv, NEW t \in Threads, NEW m \in Modules, Publish(t, m)
  PROVE  HRInv'
<1> USE DEF HRInv, HRTypeOK, HRSafe
<1>1. phase' = [c \in Modules |-> IF c = m THEN "current"
                  ELSE IF phase[c] = "current" THEN "retired" ELSE phase[c]]
  BY DEF Publish
<1>2. pinned' = pinned \/ \E c \in Modules : phase[c] = "current" /\ pinned' = [pinned EXCEPT ![t] = c]
  BY DEF Publish
<1>3. HRTypeOK'
  BY <1>1, <1>2
<1>4. \A u \in Threads : pinned'[u] # None => pinned[u] = pinned'[u] \/ phase[pinned'[u]] = "current"
  BY <1>2
<1>5. \A u \in Threads : pinned'[u] # None => phase'[pinned'[u]] \in {"current", "retired"}
  <2> SUFFICES ASSUME NEW u \in Threads, pinned'[u] # None
               PROVE  phase'[pinned'[u]] \in {"current", "retired"}
    OBVIOUS
  <2>1. pinned'[u] \in Modules
    BY <1>3
  <2>2. phase[pinned'[u]] \in {"current", "retired"}
    BY <1>4
  <2> QED BY <1>1, <2>1, <2>2
<1>6. \A c, d \in Modules : phase'[c] = "current" /\ phase'[d] = "current" => c = d
  BY <1>1
<1> QED BY <1>3, <1>5, <1>6

\* HRSafe is inductive: a pinned copy is published and initialized, and one copy
\* at most is current.
THEOREM HotReloadIsSafe == HRSpec => []HRSafe
<1> USE DEF HRInv, HRTypeOK, HRSafe
<1>1. HRInit => HRInv
  BY DEF HRInit
<1>2. HRInv /\ [HRNext]_hrVars => HRInv'
  <2> SUFFICES ASSUME HRInv, [HRNext]_hrVars PROVE HRInv'
    OBVIOUS
  <2>1. ASSUME NEW m \in Modules, Stage(m) PROVE HRInv'
    BY <2>1 DEF Stage
  <2>2. ASSUME NEW m \in Modules, Unload(m) PROVE HRInv'
    BY <2>2 DEF Unload, Pinned
  <2>3. ASSUME NEW t \in Threads, Unpin(t) PROVE HRInv'
    BY <2>3 DEF Unpin
  <2>4. ASSUME NEW t \in Threads, NEW m \in Modules, Pin(t, m) PROVE HRInv'
    BY <2>4 DEF Pin
  <2>5. CASE UNCHANGED hrVars
    BY <2>5 DEF hrVars
  <2> QED BY <2>1, <2>2, <2>3, <2>4, <2>5, PublishSafe DEF HRNext
<1>3. HRInv => HRSafe
  OBVIOUS
<1> QED BY <1>1, <1>2, <1>3, PTL DEF HRSpec
=============================================================================
