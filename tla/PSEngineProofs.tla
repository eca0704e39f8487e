--------------------------- MODULE PSEngineProofs ---------------------------
(***************************************************************************)
(* Proofs about PSEngine for every number of threads, modules, functions   *)
(* and builds: IInv is inductive, and the safety properties follow.        *)
(*                                                                         *)
(* Each operation has a lemma with a case per action.  In a case, the      *)
(* parts of IInv that carry over by themselves come first, in one step;    *)
(* a step of its own follows for each part that rests on another one.      *)
(***************************************************************************)
EXTENDS PSEngineInv, TLAPS

USE DEF globals, bindings, locks, locals, Goto

\* A call begins.
LEMMA CallsKeeps ==
  ASSUME NEW t \in Threads, IInv, NEW n \in Names, CallMakeFunction(t, n) \/ CallExecute(t, n)
  PROVE  IInv'
<1> USE DEF IInv
<1>1. CASE CallMakeFunction(t, n)
  <2>1. (TypeOK /\ MutexInv /\ NameInv /\ RawInv /\ LoadingInv /\ StrongInv
       /\ DyingInv /\ BindingInv /\ NothingLeaks)'
    BY <1>1 DEF CallMakeFunction, TypeOK, Labels, MutexInv, InEngine, NameInv,
         RawInv, Loading, Provides, LoadingInv, StrongRef, StrongInv, DyingInv,
         BindingInv, PairAgrees, NothingLeaks
  <2> QED BY <2>1
<1>2. CASE CallExecute(t, n)
  <2>1. TypeOK'
    BY <1>2 DEF CallExecute, TypeOK, Labels
  <2>2. (MutexInv /\ NameInv /\ RawInv /\ LoadingInv /\ StrongInv /\ DyingInv
       /\ BindingInv /\ NothingLeaks)'
    BY <1>2 DEF CallExecute, MutexInv, TypeOK, InEngine, NameInv, RawInv,
         Loading, Provides, LoadingInv, StrongRef, StrongInv, DyingInv,
         BindingInv, PairAgrees, NothingLeaks
  <2> QED BY <2>1, <2>2
<1> QED BY <1>1, <1>2

\* makeFunction keeps the invariant.
LEMMA MakeKeeps ==
  ASSUME NEW t \in Threads, IInv, Make(t)
  PROVE  IInv'
<1> USE DEF IInv
<1>1. CASE MakeLock(t)
  <2>1. (TypeOK /\ NameInv /\ RawInv /\ LoadingInv /\ StrongInv /\ DyingInv
       /\ BindingInv)'
    BY <1>1 DEF MakeLock, LockEngine, TypeOK, Labels, NameInv, RawInv, InEngine,
         Loading, Provides, LoadingInv, StrongRef, StrongInv, DyingInv,
         BindingInv, PairAgrees
  <2>2. MutexInv'
    BY <1>1, ConstantsAssumption DEF MakeLock, LockEngine, MutexInv, InEngine
  <2>3. NothingLeaks'
    BY <1>1 DEF MakeLock, LockEngine, NothingLeaks, DyingInv, RawInv, Loading,
         StrongRef
  <2> QED BY <2>1, <2>2, <2>3
<1>2. CASE MakeFound(t)
  <2>1. (TypeOK /\ MutexInv /\ NameInv /\ RawInv /\ LoadingInv /\ StrongInv
       /\ DyingInv /\ BindingInv)'
    BY <1>2 DEF MakeFound, UnlockEngine, EndMake, TypeOK, Labels, MutexInv,
         InEngine, NameInv, RawInv, Loading, Provides, LoadingInv, StrongRef,
         StrongInv, DyingInv, BindingInv, PairAgrees
  <2>2. NothingLeaks'
    BY <1>2 DEF MakeFound, UnlockEngine, EndMake, NothingLeaks, RawInv,
         InEngine, StrongRef
  <2> QED BY <2>1, <2>2
<1>3. CASE MakeAdd(t)
  <2>1. (MutexInv /\ NameInv /\ RawInv /\ LoadingInv /\ StrongInv /\ DyingInv)'
    BY <1>3 DEF MakeAdd, UnlockEngine, EndMake, Provides, MutexInv, TypeOK,
         InEngine, NameInv, RawInv, Loading, LoadingInv, StrongRef, StrongInv,
         DyingInv
  <2>2. TypeOK'
    BY <1>3 DEF MakeAdd, UnlockEngine, EndMake, Provides, TypeOK, NameInv,
         Labels
  \* the engine's module is live and its table has the name
  <2>3. BindingInv'
    BY <1>3 DEF MakeAdd, UnlockEngine, EndMake, Provides, BindingInv, NameInv,
         RawInv, StrongInv, TypeOK, InEngine, PairAgrees
  <2>4. NothingLeaks'
    BY <1>3 DEF MakeAdd, UnlockEngine, EndMake, Provides, NothingLeaks, RawInv,
         InEngine, StrongRef
  <2> QED BY <2>1, <2>2, <2>3, <2>4
<1>4. CASE MakeFail(t)
  <2>1. (TypeOK /\ MutexInv /\ NameInv /\ RawInv /\ LoadingInv /\ StrongInv
       /\ DyingInv /\ BindingInv)'
    BY <1>4 DEF MakeFail, UnlockEngine, EndMake, TypeOK, Labels, MutexInv,
         InEngine, NameInv, RawInv, Loading, Provides, LoadingInv, StrongRef,
         StrongInv, DyingInv, BindingInv, PairAgrees
  <2>2. NothingLeaks'
    BY <1>4 DEF MakeFail, UnlockEngine, EndMake, NothingLeaks, RawInv, InEngine,
         StrongRef
  <2> QED BY <2>1, <2>2
<1> QED BY <1>1, <1>2, <1>3, <1>4 DEF Make

\* execute keeps the invariant, with lock_module and rebindFunction.
LEMMA ExecuteKeeps ==
  ASSUME NEW t \in Threads, IInv, Execute(t)
  PROVE  IInv'
<1> USE DEF IInv
<1>1. CASE LockModule(t)
  <2>1. (NameInv /\ RawInv /\ LoadingInv /\ StrongInv /\ DyingInv /\ BindingInv
       /\ NothingLeaks)'
    BY <1>1 DEF LockModule, LockFunc, NameInv, RawInv, InEngine, Loading,
         Provides, LoadingInv, StrongRef, StrongInv, DyingInv, BindingInv,
         TypeOK, PairAgrees, NothingLeaks
  <2>2. TypeOK'
    BY <1>1 DEF LockModule, LockFunc, TypeOK, NameInv, Labels
  \* the mutex was free, so nobody was inside
  <2>3. MutexInv'
    BY <1>1, ConstantsAssumption DEF LockModule, LockFunc, MutexInv, NameInv,
         TypeOK, InEngine
  <2> QED BY <2>1, <2>2, <2>3
<1>2. CASE Promote(t)
  <2>1. (MutexInv /\ NameInv /\ RawInv /\ LoadingInv /\ StrongInv /\ DyingInv)'
    BY <1>2 DEF Promote, UnlockFunc, StrongRef, MutexInv, TypeOK, InEngine,
         NameInv, RawInv, Loading, Provides, LoadingInv, StrongInv, DyingInv
  <2>2. TypeOK'
    BY <1>2 DEF Promote, UnlockFunc, StrongRef, TypeOK, NameInv, Labels
  \* under func_mutex the copied address is code of the module promoted
  <2>3. BindingInv'
    BY <1>2 DEF Promote, UnlockFunc, StrongRef, BindingInv, MutexInv, NameInv,
         StrongInv, TypeOK, PairAgrees
  <2>4. NothingLeaks'
    BY <1>2 DEF Promote, UnlockFunc, StrongRef, NothingLeaks, DyingInv,
         StrongInv, TypeOK
  <2> QED BY <2>1, <2>2, <2>3, <2>4
<1>3. CASE RunEnd(t)
  <2>1. (TypeOK /\ NameInv /\ RawInv /\ LoadingInv /\ StrongInv /\ DyingInv
       /\ BindingInv /\ NothingLeaks)'
    BY <1>3 DEF RunEnd, TypeOK, Labels, NameInv, RawInv, InEngine, Loading,
         Provides, LoadingInv, StrongRef, StrongInv, DyingInv, BindingInv,
         PairAgrees, NothingLeaks
  <2>2. MutexInv'
    BY <1>3 DEF RunEnd, MutexInv, RawInv, InEngine, Loading
  <2> QED BY <2>1, <2>2
<1>4. CASE Catch(t)
  <2>1. (TypeOK /\ MutexInv /\ NameInv /\ RawInv /\ LoadingInv /\ StrongInv
       /\ DyingInv /\ BindingInv /\ NothingLeaks)'
    BY <1>4 DEF Catch, TypeOK, Labels, MutexInv, InEngine, NameInv, RawInv,
         Loading, Provides, LoadingInv, StrongRef, StrongInv, DyingInv,
         BindingInv, PairAgrees, NothingLeaks
  <2> QED BY <2>1
<1>5. CASE Rebind(t)
  <2>1. (TypeOK /\ NameInv /\ RawInv /\ LoadingInv /\ StrongInv /\ DyingInv
       /\ BindingInv)'
    BY <1>5 DEF Rebind, LockEngine, TypeOK, Labels, NameInv, RawInv, InEngine,
         Loading, Provides, LoadingInv, StrongRef, StrongInv, DyingInv,
         BindingInv, PairAgrees
  \* the mutex was free, so nobody was inside
  <2>2. MutexInv'
    BY <1>5, ConstantsAssumption DEF Rebind, LockEngine, MutexInv, InEngine
  <2>3. NothingLeaks'
    BY <1>5 DEF Rebind, LockEngine, NothingLeaks, DyingInv, RawInv, Loading,
         StrongRef
  <2> QED BY <2>1, <2>2, <2>3
<1>6. CASE RebindFail(t)
  <2>1. (TypeOK /\ MutexInv /\ NameInv /\ RawInv /\ LoadingInv /\ StrongInv
       /\ DyingInv /\ BindingInv)'
    BY <1>6 DEF RebindFail, UnlockEngine, Provides, TypeOK, Labels, MutexInv,
         InEngine, NameInv, RawInv, Loading, LoadingInv, StrongRef, StrongInv,
         DyingInv, BindingInv, PairAgrees
  <2>2. NothingLeaks'
    BY <1>6 DEF RebindFail, UnlockEngine, Provides, NothingLeaks, RawInv,
         InEngine, StrongRef
  <2> QED BY <2>1, <2>2
<1>7. CASE RebindLock(t)
  <2>1. (NameInv /\ RawInv /\ LoadingInv /\ StrongInv /\ DyingInv /\ BindingInv
       /\ NothingLeaks)'
    BY <1>7 DEF RebindLock, LockFunc, Provides, NameInv, RawInv, InEngine,
         Loading, LoadingInv, StrongRef, StrongInv, DyingInv, BindingInv,
         PairAgrees, NothingLeaks
  <2>2. TypeOK'
    BY <1>7 DEF RebindLock, LockFunc, Provides, TypeOK, NameInv, Labels
  <2>3. MutexInv'
    BY <1>7, ConstantsAssumption DEF RebindLock, LockFunc, Provides, MutexInv,
         NameInv, TypeOK, InEngine
  <2> QED BY <2>1, <2>2, <2>3
<1>8. CASE RebindProc(t)
  <2>1. (MutexInv /\ NameInv /\ RawInv /\ LoadingInv /\ StrongInv /\ DyingInv
       /\ NothingLeaks)'
    BY <1>8 DEF RebindProc, MutexInv, InEngine, NameInv, RawInv, Loading,
         Provides, LoadingInv, StrongRef, StrongInv, DyingInv, NothingLeaks
  <2>2. TypeOK'
    BY <1>8 DEF RebindProc, TypeOK, NameInv, Labels
  \* engine_mutex keeps the module that was checked current
  <2>3. BindingInv'
    BY <1>8 DEF RebindProc, BindingInv, MutexInv, NameInv, RawInv, StrongInv,
         TypeOK, InEngine, PairAgrees, Provides
  <2> QED BY <2>1, <2>2, <2>3
<1>9. CASE RebindWeak(t)
  <2>1. (MutexInv /\ NameInv /\ RawInv /\ LoadingInv /\ StrongInv /\ DyingInv)'
    BY <1>9 DEF RebindWeak, UnlockEngine, UnlockFunc, MutexInv, TypeOK,
         InEngine, NameInv, RawInv, Loading, Provides, LoadingInv, StrongRef,
         StrongInv, DyingInv
  <2>2. TypeOK'
    BY <1>9 DEF RebindWeak, UnlockEngine, UnlockFunc, TypeOK, NameInv, Labels
  \* and it is still current when module is read again
  <2>3. BindingInv'
    BY <1>9 DEF RebindWeak, UnlockEngine, UnlockFunc, BindingInv, RawInv,
         TypeOK, InEngine, PairAgrees
  <2>4. NothingLeaks'
    BY <1>9 DEF RebindWeak, UnlockEngine, UnlockFunc, NothingLeaks, RawInv,
         InEngine, StrongRef
  <2> QED BY <2>1, <2>2, <2>3, <2>4
<1> QED BY <1>1, <1>2, <1>3, <1>4, <1>5, <1>6, <1>7, <1>8, <1>9 DEF Execute

\* Dropping a shared_ptr and ~PSModule keep the invariant.
LEMMA ReleaseKeeps ==
  ASSUME NEW t \in Threads, IInv, Release(t)
  PROVE  IInv'
<1> USE DEF IInv
<1>1. CASE Drop(t)
  <2>1. (MutexInv /\ NameInv /\ RawInv /\ LoadingInv /\ StrongInv
       /\ BindingInv)'
    BY <1>1 DEF Drop, Released, MutexInv, TypeOK, InEngine, NameInv, RawInv,
         Loading, Provides, LoadingInv, StrongRef, StrongInv, BindingInv,
         PairAgrees
  <2>2. TypeOK'
    BY <1>1 DEF Drop, Released, TypeOK, StrongInv, Labels
  \* the last reference is gone and a live module is not yet being destroyed
  <2>3. DyingInv'
    BY <1>1 DEF Drop, Released, DyingInv, StrongInv, TypeOK, StrongRef
  <2>4. NothingLeaks'
    BY <1>1 DEF Drop, Released, NothingLeaks, DyingInv, TypeOK, StrongRef
  <2> QED BY <2>1, <2>2, <2>3, <2>4
<1>2. CASE Fini(t)
  <2>1. (MutexInv /\ NameInv /\ RawInv /\ LoadingInv /\ DyingInv
       /\ NothingLeaks)'
    BY <1>2 DEF Fini, MutexInv, InEngine, NameInv, RawInv, Loading, Provides,
         LoadingInv, StrongRef, DyingInv, TypeOK, NothingLeaks
  <2>2. TypeOK'
    BY <1>2 DEF Fini, TypeOK, DyingInv, Labels
  \* nobody refers to the module finalized
  <2>3. StrongInv'
    BY <1>2 DEF Fini, StrongInv, DyingInv, StrongRef
  \* an address may stay behind: finalized is all that happens to it
  <2>4. BindingInv'
    BY <1>2 DEF Fini, BindingInv, DyingInv, PairAgrees
  <2> QED BY <2>1, <2>2, <2>3, <2>4
<1>3. CASE Close(t)
  <2>1. (MutexInv /\ NameInv /\ LoadingInv /\ DyingInv /\ NothingLeaks)'
    BY <1>3 DEF Close, Released, MutexInv, InEngine, NameInv, LoadingInv,
         Loading, StrongRef, DyingInv, TypeOK, NothingLeaks
  <2>2. TypeOK'
    BY <1>3 DEF Close, Released, TypeOK, DyingInv, Labels
  \* the module unmapped is not the current one
  <2>3. RawInv'
    BY <1>3 DEF Close, Released, RawInv, DyingInv, InEngine, Loading, Provides,
         StrongRef
  <2>4. StrongInv'
    BY <1>3 DEF Close, Released, StrongInv, DyingInv
  <2>5. BindingInv'
    BY <1>3 DEF Close, Released, BindingInv, DyingInv, TypeOK, PairAgrees,
         StrongRef
  <2> QED BY <2>1, <2>2, <2>3, <2>4, <2>5
<1> QED BY <1>1, <1>2, <1>3 DEF Release

\* reloadModule keeps the invariant.
LEMMA ReloadKeeps ==
  ASSUME NEW t \in Threads, IInv, Reload(t)
  PROVE  IInv'
<1> USE DEF IInv
<1>1. CASE ReadFile(t)
  <2>1. (TypeOK /\ MutexInv /\ NameInv /\ StrongInv /\ DyingInv /\ BindingInv)'
    BY <1>1 DEF ReadFile, Fresh, TypeOK, Labels, MutexInv, InEngine, NameInv,
         StrongInv, DyingInv, StrongRef, BindingInv, PairAgrees
  <2>2. RawInv'
    BY <1>1 DEF ReadFile, Fresh, RawInv, StrongInv, TypeOK, InEngine, Loading,
         Provides
  \* a free identity is nobody's: every pointer goes to something not free
  <2>3. LoadingInv'
    BY <1>1, ConstantsAssumption DEF ReadFile, Fresh, LoadingInv, DyingInv,
         RawInv, StrongInv, TypeOK, Loading, StrongRef
  <2>4. NothingLeaks'
    BY <1>1 DEF ReadFile, Fresh, NothingLeaks, DyingInv, RawInv, TypeOK,
         Loading, StrongRef
  <2> QED BY <2>1, <2>2, <2>3, <2>4
<1>2. CASE ReadFail(t)
  <2>1. (TypeOK /\ MutexInv /\ NameInv /\ RawInv /\ LoadingInv /\ StrongInv
       /\ DyingInv /\ BindingInv)'
    BY <1>2 DEF ReadFail, EndReload, TypeOK, Labels, MutexInv, InEngine,
         NameInv, RawInv, Loading, Provides, LoadingInv, StrongRef, StrongInv,
         DyingInv, BindingInv, PairAgrees
  <2>2. NothingLeaks'
    BY <1>2 DEF ReadFail, EndReload, NothingLeaks, RawInv, Loading, StrongRef
  <2> QED BY <2>1, <2>2
<1>3. CASE Open(t)
  <2>1. (MutexInv /\ NameInv /\ RawInv /\ LoadingInv /\ NothingLeaks)'
    BY <1>3 DEF Open, MutexInv, InEngine, NameInv, RawInv, Loading, Provides,
         LoadingInv, TypeOK, StrongRef, NothingLeaks
  <2>2. TypeOK'
    BY <1>3 DEF Open, TypeOK, LoadingInv, Labels, Loading
  <2>3. StrongInv'
    BY <1>3 DEF Open, StrongInv, LoadingInv, Loading
  <2>4. DyingInv'
    BY <1>3 DEF Open, DyingInv, LoadingInv, Loading, StrongRef
  <2>5. BindingInv'
    BY <1>3 DEF Open, BindingInv, LoadingInv, Loading, PairAgrees
  <2> QED BY <2>1, <2>2, <2>3, <2>4, <2>5
<1>4. CASE OpenFail(t)
  <2>1. (MutexInv /\ NameInv /\ LoadingInv /\ NothingLeaks)'
    BY <1>4 DEF OpenFail, EndReload, MutexInv, InEngine, NameInv, LoadingInv,
         TypeOK, Loading, StrongRef, NothingLeaks
  <2>2. TypeOK'
    BY <1>4 DEF OpenFail, EndReload, TypeOK, LoadingInv, Labels, Loading
  <2>3. RawInv'
    BY <1>4 DEF OpenFail, EndReload, RawInv, LoadingInv, TypeOK, InEngine,
         Loading, Provides
  <2>4. StrongInv'
    BY <1>4 DEF OpenFail, EndReload, StrongInv, LoadingInv, Loading
  <2>5. DyingInv'
    BY <1>4 DEF OpenFail, EndReload, DyingInv, LoadingInv, Loading, StrongRef
  <2>6. BindingInv'
    BY <1>4 DEF OpenFail, EndReload, BindingInv, LoadingInv, Loading,
         PairAgrees, StrongRef
  <2> QED BY <2>1, <2>2, <2>3, <2>4, <2>5, <2>6
<1>5. CASE InitModule(t)
  <2>1. (MutexInv /\ NameInv /\ RawInv /\ LoadingInv /\ StrongInv
       /\ NothingLeaks)'
    BY <1>5 DEF InitModule, MutexInv, InEngine, NameInv, RawInv, Loading,
         Provides, LoadingInv, TypeOK, StrongRef, StrongInv, NothingLeaks
  <2>2. TypeOK'
    BY <1>5 DEF InitModule, TypeOK, LoadingInv, Labels, Loading
  <2>3. DyingInv'
    BY <1>5 DEF InitModule, DyingInv, LoadingInv, Loading, StrongRef
  <2>4. BindingInv'
    BY <1>5 DEF InitModule, BindingInv, LoadingInv, Loading, PairAgrees
  <2> QED BY <2>1, <2>2, <2>3, <2>4
<1>6. CASE Publish(t)
  <2>1. (TypeOK /\ NameInv /\ LoadingInv /\ BindingInv)'
    BY <1>6 DEF Publish, LockEngine, TypeOK, Labels, NameInv, LoadingInv,
         Loading, StrongRef, BindingInv, PairAgrees
  <2>2. MutexInv'
    BY <1>6, ConstantsAssumption DEF Publish, LockEngine, MutexInv, InEngine
  \* no other thread is inside engine_mutex
  <2>3. RawInv'
    BY <1>6, ConstantsAssumption DEF Publish, LockEngine, RawInv, MutexInv,
         InEngine, Loading
  <2>4. StrongInv'
    BY <1>6 DEF Publish, LockEngine, StrongInv, LoadingInv, TypeOK, Loading
  <2>5. DyingInv'
    BY <1>6 DEF Publish, LockEngine, DyingInv, LoadingInv, Loading, StrongRef
  \* the replaced module moves into temp
  <2>6. NothingLeaks'
    BY <1>6 DEF Publish, LockEngine, NothingLeaks, DyingInv, StrongInv, TypeOK,
         StrongRef
  <2> QED BY <2>1, <2>2, <2>3, <2>4, <2>5, <2>6
<1>7. CASE Count(t)
  <2>1. (TypeOK /\ MutexInv /\ NameInv /\ RawInv /\ LoadingInv /\ StrongInv
       /\ DyingInv /\ BindingInv)'
    BY <1>7 DEF Count, UnlockEngine, EndReload, TypeOK, Labels, MutexInv,
         InEngine, NameInv, RawInv, Loading, Provides, LoadingInv, StrongRef,
         StrongInv, DyingInv, BindingInv, PairAgrees
  <2>2. NothingLeaks'
    BY <1>7 DEF Count, UnlockEngine, EndReload, NothingLeaks, RawInv, InEngine,
         StrongRef
  <2> QED BY <2>1, <2>2
<1> QED BY <1>1, <1>2, <1>3, <1>4, <1>5, <1>6, <1>7 DEF Reload

\* doGetModuleInfo keeps the invariant.
LEMMA InfoKeeps ==
  ASSUME NEW t \in Threads, IInv, Info(t)
  PROVE  IInv'
<1> USE DEF IInv
<1>1. CASE InfoLock(t)
  <2>1. (TypeOK /\ NameInv /\ RawInv /\ LoadingInv /\ StrongInv /\ DyingInv
       /\ BindingInv)'
    BY <1>1 DEF InfoLock, LockEngine, TypeOK, Labels, NameInv, RawInv, InEngine,
         Loading, Provides, LoadingInv, StrongRef, StrongInv, DyingInv,
         BindingInv, PairAgrees
  <2>2. MutexInv'
    BY <1>1, ConstantsAssumption DEF InfoLock, LockEngine, MutexInv, InEngine
  <2>3. NothingLeaks'
    BY <1>1 DEF InfoLock, LockEngine, NothingLeaks, DyingInv, RawInv, Loading,
         StrongRef
  <2> QED BY <2>1, <2>2, <2>3
<1>2. CASE InfoRead(t)
  <2>1. (TypeOK /\ MutexInv /\ NameInv /\ RawInv /\ LoadingInv /\ StrongInv
       /\ DyingInv /\ BindingInv)'
    BY <1>2 DEF InfoRead, UnlockEngine, TypeOK, Labels, MutexInv, InEngine,
         NameInv, RawInv, Loading, Provides, LoadingInv, StrongRef, StrongInv,
         DyingInv, BindingInv, PairAgrees
  <2>2. NothingLeaks'
    BY <1>2 DEF InfoRead, UnlockEngine, NothingLeaks, RawInv, InEngine,
         StrongRef
  <2> QED BY <2>1, <2>2
<1> QED BY <1>1, <1>2 DEF Info

\* The loads of initialize() begin.
LEMMA InitializeKeeps ==
  ASSUME NEW t \in Threads, IInv, Initialize(t)
  PROVE  IInv'
<1> USE DEF IInv
<1>1. (TypeOK /\ MutexInv /\ NameInv /\ RawInv /\ LoadingInv /\ StrongInv
     /\ DyingInv /\ BindingInv /\ NothingLeaks)'
  BY DEF Initialize, TypeOK, Labels, MutexInv, InEngine, NameInv, RawInv,
       Loading, LoadingInv, StrongInv, DyingInv, BindingInv, PairAgrees,
       NothingLeaks, StrongRef
<1> QED BY <1>1

\* A newer build on disk changes nothing of the engine.
LEMMA InstallKeeps ==
  ASSUME IInv, Install
  PROVE  IInv'
<1> USE DEF IInv
<1>1. (TypeOK /\ MutexInv /\ NameInv /\ RawInv /\ LoadingInv /\ StrongInv
     /\ DyingInv /\ BindingInv /\ NothingLeaks)'
  BY DEF Install, TypeOK, MutexInv, InEngine, NameInv, RawInv, Loading,
       Provides, LoadingInv, StrongRef, StrongInv, DyingInv, BindingInv,
       PairAgrees, NothingLeaks
<1> QED BY <1>1

\* A step that changes no variable
LEMMA StutterKeeps ==
  ASSUME IInv, UNCHANGED vars
  PROVE  IInv'
<1> USE DEF IInv, vars
<1>1. (TypeOK /\ NameInv /\ StrongInv)'
  BY DEF TypeOK, NameInv, StrongInv
<1>2. (MutexInv /\ RawInv)'
  BY DEF MutexInv, RawInv, InEngine, Loading, Provides
<1>3. (LoadingInv /\ DyingInv /\ NothingLeaks)'
  BY DEF LoadingInv, DyingInv, NothingLeaks, Loading, StrongRef
<1>4. BindingInv'
  BY DEF BindingInv, PairAgrees
<1> QED BY <1>1, <1>2, <1>3, <1>4

LEMMA InitIInv == Init => IInv
<1> SUFFICES ASSUME Init PROVE IInv
  OBVIOUS
<1> USE DEF Init, IInv
<1>1. TypeOK
  BY ConstantsAssumption DEF TypeOK, Names, Labels
<1>2. MutexInv /\ NameInv /\ RawInv
  BY ConstantsAssumption DEF MutexInv, NameInv, RawInv, InEngine, Loading
<1>3. LoadingInv /\ StrongInv /\ DyingInv /\ NothingLeaks
  BY ConstantsAssumption DEF LoadingInv, StrongInv, DyingInv, NothingLeaks, Loading
<1>4. BindingInv
  BY DEF BindingInv, PairAgrees
<1> QED BY <1>1, <1>2, <1>3, <1>4

\* IInv is inductive and holds in every state of the engine.
THEOREM InvHolds == Spec => []IInv
<1>1. IInv /\ [Next]_vars => IInv'
  <2> SUFFICES ASSUME IInv, [Next]_vars PROVE IInv'
    OBVIOUS
  <2>1. CASE Install
    BY <2>1, InstallKeeps
  <2>2. CASE \E t \in Threads : Call(t)
    BY <2>2, CallsKeeps DEF Call
  <2>3. CASE \E t \in Threads : Initialize(t)
    BY <2>3, InitializeKeeps
  <2>4. CASE \E t \in Threads : Step(t)
    BY <2>4, MakeKeeps, ExecuteKeeps, ReleaseKeeps, ReloadKeeps, InfoKeeps DEF Step
  <2>5. CASE UNCHANGED vars
    BY <2>5, StutterKeeps
  <2> QED BY <2>1, <2>2, <2>3, <2>4, <2>5 DEF Next
<1> QED BY InitIInv, <1>1, PTL DEF Spec

-----------------------------------------------------------------------------
(* The safety properties *)

\* Every variable keeps to its type.
THEOREM TypeCorrect == Spec => []TypeOK
<1> QED BY InvHolds, PTL DEF IInv

\* A user function only ever executes code that is mapped, initialized, kept
\* by its own thread and listed under its name (execute calling eproc).
THEOREM LiveCode == Spec => []RunsLiveCode
<1>1. IInv => RunsLiveCode
  BY DEF IInv, TypeOK, BindingInv, StrongInv, RunsLiveCode
<1> QED BY InvHolds, <1>1, PTL

\* The raw PSModule pointers taken under engine_mutex stay valid while it is
\* held (getOrAddFunc, rebindFunction, doGetModuleInfo, reloadModule).
THEOREM LivePointers == Spec => []RawPointersLive
<1>1. IInv => RawPointersLive
  BY DEF IInv, RawInv, StrongInv, RawPointersLive
<1> QED BY InvHolds, <1>1, PTL

\* exec_proc and weak_module_ptr name one module outside rebindFunction.
THEOREM Agreement == Spec => []PairAgrees
<1> QED BY InvHolds, PTL DEF IInv, BindingInv

\* ~PSModule runs once per object, after the last reference to it is gone.
THEOREM OneDestruction == Spec => []DestroyedOnce
<1>1. IInv => DestroyedOnce
  <2> SUFFICES ASSUME IInv, NEW t \in Threads, dying[t] # None
               PROVE  /\ ~StrongRef(dying[t])
                      /\ \A u \in Threads \ {t} : dying[u] # dying[t] /\ mod[u] # dying[t]
                      /\ state[dying[t]] = IF pc[t] = "fini" THEN "live" ELSE "finished"
    BY DEF DestroyedOnce
  <2>1. /\ ~StrongRef(dying[t])
        /\ \A u \in Threads \ {t} : dying[u] # dying[t]
        /\ state[dying[t]] = IF pc[t] = "fini" THEN "live" ELSE "finished"
    BY DEF IInv, DyingInv
  <2>2. ASSUME NEW u \in Threads PROVE mod[u] # dying[t]
    <3>1. CASE Loading(u)
      BY <3>1 DEF IInv, LoadingInv
    <3>2. CASE InEngine(u)
      BY <2>1, <3>2 DEF IInv, RawInv, StrongRef
    <3> QED BY <3>1, <3>2 DEF IInv, RawInv
  <2> QED BY <2>1, <2>2
<1> QED BY InvHolds, <1>1, PTL

\* Every copy of the library that is mapped has an owner that unmaps it.
THEOREM NoLeak == Spec => []NothingLeaks
<1> QED BY InvHolds, PTL DEF IInv

\* rebindFunction and getOrAddFunc bind to the module that is current at that
\* moment, though they read PSEngine::module twice.
THEOREM BindsCurrent == Spec => BindsToCurrent
<1> DEFINE Binds == \A n \in Functions :
               weak_module_ptr'[n] # weak_module_ptr[n] =>
                   /\ weak_module_ptr'[n] = module
                   /\ exec_proc'[n] = module
<1>1. IInv /\ [Next]_vars => [Binds]_vars
  <2> SUFFICES ASSUME IInv, [Next]_vars PROVE Binds \/ UNCHANGED vars
    OBVIOUS
  <2>1. ASSUME NEW t \in Threads, MakeAdd(t) PROVE Binds
    BY <2>1 DEF IInv, TypeOK, RawInv, InEngine, MakeAdd, EndMake
  <2>2. ASSUME NEW t \in Threads, RebindWeak(t) PROVE Binds
    BY <2>2 DEF IInv, TypeOK, RawInv, BindingInv, InEngine, RebindWeak
  <2>3. UNCHANGED weak_module_ptr => Binds
    OBVIOUS
  <2> QED
    BY <2>1, <2>2, <2>3 DEF Next, Install, Call, CallMakeFunction, CallExecute, Initialize,
        Step, Make, MakeLock, MakeFound, MakeFail, EndMake, Execute, LockModule, Promote,
        RunEnd, Catch, Rebind, RebindFail, RebindLock, RebindProc, Release, Drop, Fini, Close,
        Reload, ReadFile, ReadFail, Open, OpenFail, InitModule, Publish, Count,
        Info, InfoLock, InfoRead
<1> QED BY InvHolds, <1>1, PTL DEF Spec, BindsToCurrent

\* From the start of eproc to its end the module it belongs to stays
\* initialized: no step of any thread changes its state.
THEOREM NoFinalize == Spec => NoFinalizeUnderCall
<1> DEFINE Keeps == \A t \in Threads :
               pc[t] = "run" /\ eproc[t] # None => state'[eproc[t]] = state[eproc[t]]
<1>1. IInv /\ [Next]_vars => [Keeps]_vars
  <2> SUFFICES ASSUME IInv, [Next]_vars PROVE Keeps \/ UNCHANGED vars
    OBVIOUS
  <2>1. \A t \in Threads : pc[t] = "run" =>
            StrongRef(eproc[t]) /\ eproc[t] \in Modules /\ state[eproc[t]] = "live"
    BY DEF IInv, TypeOK, BindingInv, StrongInv, StrongRef
  <2>2. ASSUME NEW u \in Threads, Fini(u) \/ Close(u) PROVE Keeps
    BY <2>1, <2>2 DEF IInv, DyingInv, Fini, Close, TypeOK
  <2>3. ASSUME NEW u \in Threads, Open(u) \/ OpenFail(u) \/ InitModule(u) PROVE Keeps
    BY <2>1, <2>3 DEF IInv, LoadingInv, Loading, Open, OpenFail, InitModule, TypeOK
  <2>4. ASSUME NEW u \in Threads, ReadFile(u) PROVE Keeps
    BY <2>1, <2>4 DEF IInv, TypeOK, ReadFile, Fresh
  <2>5. UNCHANGED state => Keeps
    OBVIOUS
  <2> QED
    BY <2>2, <2>3, <2>4, <2>5 DEF Next, Install, Call, CallMakeFunction, CallExecute,
        Initialize, Step, Make, MakeLock, MakeFound, MakeAdd, MakeFail, EndMake, Execute,
        LockModule, Promote, RunEnd, Catch, Rebind, RebindFail, RebindLock, RebindProc,
        RebindWeak, Release, Drop, Reload, ReadFail, EndReload, Publish, Count,
        Info, InfoLock, InfoRead
<1> QED BY InvHolds, <1>1, PTL DEF Spec, NoFinalizeUnderCall
=============================================================================
