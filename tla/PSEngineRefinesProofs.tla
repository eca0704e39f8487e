------------------------ MODULE PSEngineRefinesProofs -----------------------
(***************************************************************************)
(* Proof that PSEngine implements HotReload, for every number of threads,  *)
(* modules, functions and builds: the refinement mapping of                *)
(* PSEngineRefines takes each step of the engine to a step of HotReload or *)
(* to none.                                                                *)
(***************************************************************************)
EXTENDS PSEngineRefines, PSEngineProofs

USE DEF globals, bindings, locks, locals, Goto

\* A reload has m ready to publish.
StagedBy(t, m) == pc[t] = "publish" /\ mod[t] = m
Staged(m) == \E t \in Threads : StagedBy(t, m)

\* The phase of a copy depends on three things only.
LEMMA PhaseSame ==
  ASSUME UNCHANGED module,
         \A m \in Modules : (state'[m] = "live") <=> (state[m] = "live"),
         \A m \in Modules : Staged(m)' <=> Staged(m)
  PROVE  UNCHANGED phaseOf
<1>1. ASSUME NEW m \in Modules PROVE phaseOf'[m] = phaseOf[m]
  BY DEF phaseOf, Staged, StagedBy
<1> QED BY <1>1 DEF phaseOf

\* Both are functions on the copies, which the publication below rewrites.
LEMMA PhaseIsFunction ==
  /\ phaseOf = [m \in Modules |-> phaseOf[m]]
  /\ phaseOf' = [m \in Modules |-> phaseOf'[m]]
BY DEF phaseOf

\* A thread that neither comes to "publish" nor leaves it stages what it did.
LEMMA StagedSame ==
  ASSUME NEW t \in Threads, IInv,
         \A u \in Threads \ {t} : pc'[u] = pc[u] /\ mod'[u] = mod[u],
         pc[t] # "publish", pc'[t] # "publish"
  PROVE  \A m \in Modules : Staged(m)' <=> Staged(m)
BY DEF Staged, StagedBy

HRStep == Promise!HRNext \/ UNCHANGED Promise!hrVars

\* Most steps leave the modules and the references of the thread alone.
LEMMA QuietStep ==
  ASSUME NEW t \in Threads, IInv, UNCHANGED <<state, module, temp>>,
         \A u \in Threads \ {t} : pc'[u] = pc[u] /\ mod'[u] = mod[u],
         pc[t] # "publish", pc'[t] # "publish"
  PROVE  HRStep
BY PhaseSame, StagedSame DEF HRStep, Promise!hrVars

\* A module of a reload: nobody else's, with no reference, not the current one.
LEMMA LoadedIsPrivate ==
  ASSUME NEW t \in Threads, IInv, Loading(t)
  PROVE  /\ mod[t] \in Modules
         /\ module # mod[t]
         /\ \A u \in Threads : temp[u] # mod[t] /\ (u # t => mod[u] # mod[t])
BY DEF IInv, TypeOK, LoadingInv, StrongRef

\* The calls begin, make function objects and ask for the module info.
LEMMA QuietCalls ==
  ASSUME NEW t \in Threads, IInv, Call(t) \/ Initialize(t) \/ Make(t) \/ Info(t)
  PROVE  HRStep
<1>1. /\ UNCHANGED <<state, module, temp>>
      /\ \A u \in Threads \ {t} : pc'[u] = pc[u] /\ mod'[u] = mod[u]
      /\ pc[t] # "publish" /\ pc'[t] # "publish"
  <2>1. pc \in [Threads -> Labels] /\ mod \in [Threads -> Modules \cup {None}]
    BY DEF IInv, TypeOK
  <2>2. CASE Call(t)
    BY <2>1, <2>2 DEF Call, CallMakeFunction, CallExecute
  <2>3. CASE Initialize(t)
    BY <2>1, <2>3 DEF Initialize
  <2>4. CASE Make(t)
    BY <2>1, <2>4 DEF Make, MakeLock, MakeFound, MakeAdd, MakeFail, EndMake
  <2>5. CASE Info(t)
    BY <2>1, <2>5 DEF Info, InfoLock, InfoRead
  <2> QED BY <2>2, <2>3, <2>4, <2>5
<1> QED BY <1>1, QuietStep

\* A call pins the module it promotes, which is the current one or is pinned.
LEMMA PromotePins ==
  ASSUME NEW t \in Threads, IInv, Promote(t)
  PROVE  HRStep
<1> DEFINE m == weak_module_ptr[fn[t]]
<1>1. /\ pc \in [Threads -> Labels] /\ temp \in [Threads -> Modules \cup {None}]
      /\ UNCHANGED <<state, module, mod>>
      /\ \A u \in Threads \ {t} : pc'[u] = pc[u]
      /\ pc[t] # "publish" /\ pc'[t] # "publish"
  BY DEF IInv, TypeOK, Promote
<1>2. UNCHANGED phaseOf
  BY <1>1, PhaseSame, StagedSame
<1>3. CASE UNCHANGED temp
  BY <1>2, <1>3 DEF HRStep, Promise!hrVars
<1>4. CASE m # None /\ StrongRef(m) /\ temp' = [temp EXCEPT ![t] = m]
  <2>1. temp[t] = None
    BY <1>1 DEF IInv, StrongInv, Promote
  <2>2. m \in Modules /\ state[m] = "live"
    BY <1>4 DEF IInv, TypeOK, NameInv, StrongInv, StrongRef, Promote
  <2>3. ~Staged(m)
    BY <1>4 DEF IInv, LoadingInv, Loading, Staged, StagedBy
  <2>4. \/ phaseOf[m] = "current"
        \/ phaseOf[m] = "retired" /\ Promise!Pinned(m)
    BY <1>4, <2>2, <2>3 DEF phaseOf, StrongRef, Promise!Pinned, Staged, StagedBy
  <2>5. Promise!Pin(t, m)
    BY <1>2, <1>4, <2>1, <2>4 DEF Promise!Pin
  <2> QED BY <2>2, <2>5 DEF HRStep, Promise!HRNext
<1> QED BY <1>3, <1>4 DEF Promote

\* Executing and rebinding pin nothing else.
LEMMA ExecuteRefines ==
  ASSUME NEW t \in Threads, IInv, Execute(t)
  PROVE  HRStep
<1>1. CASE Promote(t)
  BY <1>1, PromotePins
<1>2. CASE ~Promote(t)
  <2>1. /\ UNCHANGED <<state, module, temp>>
        /\ \A u \in Threads \ {t} : pc'[u] = pc[u] /\ mod'[u] = mod[u]
        /\ pc[t] # "publish" /\ pc'[t] # "publish"
    BY <1>2 DEF IInv, TypeOK, Execute, LockModule, RunEnd, Catch, Rebind, RebindFail,
         RebindLock, RebindProc, RebindWeak
  <2> QED BY <2>1, QuietStep
<1> QED BY <1>1, <1>2

\* Dropping a reference unpins; pmod(false) unloads; dlclose is not seen.
LEMMA ReleaseRefines ==
  ASSUME NEW t \in Threads, IInv, Release(t)
  PROVE  HRStep
<1>1. /\ pc \in [Threads -> Labels] /\ mod \in [Threads -> Modules \cup {None}]
      /\ temp \in [Threads -> Modules \cup {None}] /\ dying \in [Threads -> Modules \cup {None}]
      /\ state \in [Modules -> {"free", "read", "mapped", "live", "finished"}]
  BY DEF IInv, TypeOK
<1>2. /\ UNCHANGED <<module, mod>>
      /\ \A u \in Threads \ {t} : pc'[u] = pc[u]
      /\ pc[t] # "publish" /\ pc'[t] # "publish"
  BY <1>1 DEF Release, Drop, Fini, Close, Released
<1>3. CASE Drop(t)
  <2>1. UNCHANGED phaseOf
    BY <1>2, <1>3, PhaseSame, StagedSame DEF Drop
  <2>2. CASE temp[t] = None
    <3>1. UNCHANGED temp
      BY <1>1, <1>3, <2>2 DEF Drop
    <3> QED BY <2>1, <3>1 DEF HRStep, Promise!hrVars
  <2>3. CASE temp[t] # None
    BY <1>3, <2>1, <2>3 DEF Drop, HRStep, Promise!HRNext, Promise!Unpin
  <2> QED BY <2>2, <2>3
<1>4. CASE Fini(t)
  <2> DEFINE m == dying[t]
  <2>1. m \in Modules /\ state[m] = "live" /\ module # m /\ \A u \in Threads : temp[u] # m
    BY <1>1, <1>4 DEF IInv, DyingInv, StrongRef, Fini
  <2>2. ~Staged(m)
    BY DEF IInv, LoadingInv, Loading, Staged, StagedBy
  <2>3. phaseOf[m] = "retired" /\ ~Promise!Pinned(m)
    BY <2>1, <2>2 DEF phaseOf, Promise!Pinned, Staged, StagedBy
  <2>4. \A c \in Modules : Staged(c)' <=> Staged(c)
    BY <1>2, StagedSame
  <2>5. ASSUME NEW c \in Modules
        PROVE  phaseOf'[c] = IF c = m THEN "absent" ELSE phaseOf[c]
    BY <1>1, <1>2, <1>4, <2>1, <2>4 DEF phaseOf, Fini, Staged, StagedBy
  <2>6. phaseOf' = [phaseOf EXCEPT ![m] = "absent"]
    BY <2>5, PhaseIsFunction
  <2>7. Promise!Unload(m)
    BY <1>4, <2>3, <2>6 DEF Promise!Unload, Fini
  <2> QED BY <2>1, <2>7 DEF HRStep, Promise!HRNext
<1>5. CASE Close(t)
  <2>1. \A m \in Modules : (state'[m] = "live") <=> (state[m] = "live")
    BY <1>1, <1>5 DEF IInv, DyingInv, Close
  <2>2. UNCHANGED <<phaseOf, temp>>
    BY <1>2, <1>5, <2>1, PhaseSame, StagedSame DEF Close
  <2> QED BY <2>2 DEF HRStep, Promise!hrVars
<1> QED BY <1>3, <1>4, <1>5 DEF Release

\* A reload stages its module when it is initialized: nobody else has it yet.
LEMMA InitModuleStages ==
  ASSUME NEW t \in Threads, IInv, InitModule(t)
  PROVE  HRStep
<1> DEFINE m == mod[t]
<1>1. /\ pc \in [Threads -> Labels]
      /\ state \in [Modules -> {"free", "read", "mapped", "live", "finished"}]
  BY DEF IInv, TypeOK
<1>2. m \in Modules /\ module # m /\ state[m] = "mapped"
  BY LoadedIsPrivate DEF InitModule, Loading, IInv, LoadingInv
<1>3. phaseOf[m] = "absent"
  BY <1>2 DEF phaseOf
<1>4. ASSUME NEW c \in Modules
      PROVE  phaseOf'[c] = IF c = m THEN "staged" ELSE phaseOf[c]
  BY <1>1, <1>2 DEF phaseOf, InitModule
<1>5. phaseOf' = [phaseOf EXCEPT ![m] = "staged"]
  BY <1>4, PhaseIsFunction
<1>6. Promise!Stage(m)
  BY <1>3, <1>5 DEF Promise!Stage, InitModule
<1> QED BY <1>2, <1>6 DEF HRStep, Promise!HRNext

\* Publishing makes the staged copy current and retires the one before, which
\* the publisher pins.
LEMMA PublishRefines ==
  ASSUME NEW t \in Threads, IInv, Publish(t)
  PROVE  HRStep
<1> DEFINE m == mod[t]
<1>1. pc \in [Threads -> Labels] /\ temp \in [Threads -> Modules \cup {None}]
      /\ module \in Modules \cup {None}
  BY DEF IInv, TypeOK
<1>2. /\ m \in Modules /\ state[m] = "live" /\ module # m /\ temp[t] = None
      /\ \A u \in Threads \ {t} : mod[u] # m
  BY LoadedIsPrivate DEF Publish, Loading, IInv, LoadingInv, StrongInv
<1>3. \A c \in Modules : phaseOf[c] = "current" <=> c = module
  BY ConstantsAssumption DEF phaseOf, IInv, StrongInv
<1>4. phaseOf[m] = "staged"
  BY <1>2 DEF phaseOf, Publish
<1>5. module # None => ~Staged(module)
  BY DEF IInv, LoadingInv, Loading, StrongRef, Staged, StagedBy
<1>6. \A c \in Modules \ {m} : Staged(c)' <=> Staged(c)
  BY <1>1 DEF Publish, Staged, StagedBy
<1>7. ASSUME NEW c \in Modules
      PROVE  phaseOf'[c] = IF c = m THEN "current"
                           ELSE IF phaseOf[c] = "current" THEN "retired" ELSE phaseOf[c]
  <2>1. CASE c = m
    BY <1>2, <2>1 DEF phaseOf, Publish
  <2>2. CASE c # m /\ c = module
    <3>1. phaseOf[c] = "current" /\ ~Staged(c)'
      BY <1>3, <1>5, <1>6, <2>2, ConstantsAssumption
    <3>2. state'[c] = "live" /\ module' = m
      BY <1>1, <2>2, ConstantsAssumption DEF Publish, IInv, StrongInv
    <3>3. phaseOf'[c] = "retired"
      BY <2>2, <3>1, <3>2 DEF phaseOf, Staged, StagedBy
    <3> QED BY <2>2, <3>1, <3>3
  <2>3. CASE c # m /\ c # module
    BY <1>3, <1>6, <2>3 DEF phaseOf, Publish, Staged, StagedBy
  <2> QED BY <2>1, <2>2, <2>3
<1>8. phaseOf' = [c \in Modules |-> IF c = m THEN "current"
                      ELSE IF phaseOf[c] = "current" THEN "retired" ELSE phaseOf[c]]
  BY <1>7, PhaseIsFunction
<1>9. CASE module = None
  <2>1. UNCHANGED temp
    BY <1>1, <1>2, <1>9 DEF Publish
  <2>2. \A c \in Modules : phaseOf[c] # "current"
    BY <1>3, <1>9, ConstantsAssumption
  <2>3. Promise!Publish(t, m)
    BY <1>2, <1>4, <1>8, <2>1, <2>2 DEF Promise!Publish
  <2> QED BY <1>2, <2>3 DEF HRStep, Promise!HRNext
<1>10. CASE module # None
  <2>1. module \in Modules /\ phaseOf[module] = "current" /\ temp' = [temp EXCEPT ![t] = module]
    BY <1>1, <1>3, <1>10 DEF Publish
  <2>2. Promise!Publish(t, m)
    BY <1>2, <1>4, <1>8, <2>1 DEF Promise!Publish
  <2> QED BY <1>2, <2>2 DEF HRStep, Promise!HRNext
<1> QED BY <1>9, <1>10

\* The steps of a reload before and after are not seen.
LEMMA ReloadRefines ==
  ASSUME NEW t \in Threads, IInv, Reload(t)
  PROVE  HRStep
<1>1. /\ pc \in [Threads -> Labels] /\ mod \in [Threads -> Modules \cup {None}]
      /\ state \in [Modules -> {"free", "read", "mapped", "live", "finished"}]
  BY DEF IInv, TypeOK
<1>2. CASE InitModule(t)
  BY <1>2, InitModuleStages
<1>3. CASE Publish(t)
  BY <1>3, PublishRefines
<1>4. CASE ReadFail(t) \/ Count(t)
  BY <1>1, <1>4, QuietStep DEF ReadFail, Count, EndReload
<1>5. CASE ReadFile(t) \/ Open(t) \/ OpenFail(t)
  <2>1. /\ UNCHANGED <<module, temp>>
        /\ \A u \in Threads \ {t} : pc'[u] = pc[u] /\ mod'[u] = mod[u]
        /\ pc[t] # "publish" /\ pc'[t] # "publish"
    BY <1>1, <1>5 DEF ReadFile, Open, OpenFail, EndReload
  <2>2. \A m \in Modules : (state'[m] = "live") <=> (state[m] = "live")
    <3>1. CASE ReadFile(t)
      BY <1>1, <3>1 DEF ReadFile, Fresh
    <3>2. CASE Open(t) \/ OpenFail(t)
      <4>1. mod[t] \in Modules /\ state[mod[t]] = "read"
        BY <3>2, LoadedIsPrivate DEF IInv, LoadingInv, Loading, Open, OpenFail
      <4> QED BY <1>1, <3>2, <4>1 DEF Open, OpenFail
    <3> QED BY <1>5, <3>1, <3>2
  <2>3. UNCHANGED phaseOf
    BY <2>1, <2>2, PhaseSame, StagedSame
  <2> QED BY <2>1, <2>3 DEF HRStep, Promise!hrVars
<1> QED BY <1>2, <1>3, <1>4, <1>5 DEF Reload

-----------------------------------------------------------------------------

\* Running calls keep the copy they pin from their first to their last
\* instruction, a copy is unloaded only when it has been replaced and nobody pins
\* it, and one copy at most is current: the engine implements HotReload.
THEOREM EngineRefines == Spec => ImplementsHotReload
<1>1. Init => Promise!HRInit
  BY DEF Init, Promise!HRInit, phaseOf
<1>2. IInv /\ [Next]_vars => [Promise!HRNext]_(Promise!hrVars)
  <2> SUFFICES ASSUME IInv, [Next]_vars PROVE HRStep
    BY DEF HRStep
  <2>1. CASE Install
    BY <2>1 DEF Install, HRStep, Promise!hrVars, phaseOf
  <2>2. CASE UNCHANGED vars
    BY <2>2 DEF vars, HRStep, Promise!hrVars, phaseOf
  <2>3. ASSUME NEW t \in Threads, Call(t) \/ Initialize(t) \/ Step(t) PROVE HRStep
    BY <2>3, QuietCalls, ExecuteRefines, ReleaseRefines, ReloadRefines DEF Step
  <2> QED BY <2>1, <2>2, <2>3 DEF Next
<1> QED BY InvHolds, <1>1, <1>2, PTL DEF Spec, ImplementsHotReload, Promise!HRSpec

\* The instance Promise again, of the module that has the theorem about it.
Abstract == INSTANCE HotReloadProofs WITH phase <- phaseOf, pinned <- temp

\* What HotReload promises therefore holds of the engine: a copy that a running
\* call pins is initialized and was published, and one copy at most is current.
THEOREM EngineKeepsPromise == Spec => []Promise!HRSafe
<1>1. Abstract!HRSpec => []Abstract!HRSafe
  BY Abstract!HotReloadIsSafe
<1>2. Promise!HRInit => Abstract!HRInit
  BY DEF Promise!HRInit, Abstract!HRInit
<1>3. [Promise!HRNext]_(Promise!hrVars) => [Abstract!HRNext]_(Abstract!hrVars)
  <2>1. \A t \in Threads, m \in Modules :
          /\ Promise!Publish(t, m) => Abstract!Publish(t, m)
          /\ Promise!Pin(t, m) => Abstract!Pin(t, m)
    BY DEF Promise!Publish, Abstract!Publish, Promise!Pin, Abstract!Pin, Promise!Pinned, Abstract!Pinned
  <2>2. \A m \in Modules :
          /\ Promise!Stage(m) => Abstract!Stage(m)
          /\ Promise!Unload(m) => Abstract!Unload(m)
    BY DEF Promise!Stage, Abstract!Stage, Promise!Unload, Abstract!Unload, Promise!Pinned, Abstract!Pinned
  <2>3. \A t \in Threads : Promise!Unpin(t) => Abstract!Unpin(t)
    BY DEF Promise!Unpin, Abstract!Unpin
  <2> QED BY <2>1, <2>2, <2>3 DEF Promise!HRNext, Promise!hrVars, Abstract!HRNext, Abstract!hrVars
<1>4. Abstract!HRSafe => Promise!HRSafe
  BY DEF Abstract!HRSafe, Promise!HRSafe
<1> QED BY EngineRefines, <1>1, <1>2, <1>3, <1>4, PTL DEF ImplementsHotReload, Promise!HRSpec, Abstract!HRSpec
=============================================================================
