------------------------- MODULE ModuleLoaderProofs -------------------------
(***************************************************************************)
(* Proofs about ModuleLoader for every number of objects, descriptors and  *)
(* link map entries: LoaderInv is inductive, and the properties follow.    *)
(***************************************************************************)
EXTENDS ModuleLoaderInv, FiniteSetTheorems, TLAPS

USE DEF Goto

\* dlclose gives back one reference, of the entry named only.
LEMMA DlcloseTypes ==
  ASSUME NEW h \in Handles, links \in [Handles -> Link \cup {Null}], Dlclose(h)
  PROVE  links' \in [Handles -> Link \cup {Null}]
<1>1. CASE links[h] # Null
  <2> DEFINE left == IF links[h].refs = 1 THEN Null ELSE [links[h] EXCEPT !.refs = @ - 1]
  <2>1. left \in Link \cup {Null}
    BY <1>1 DEF Link
  <2>2. links' = [links EXCEPT ![h] = left]
    BY <1>1 DEF Dlclose
  <2> HIDE DEF left
  <2> QED BY <2>1, <2>2
<1>2. CASE links[h] = Null
  BY <1>2 DEF Dlclose
<1> QED BY <1>1, <1>2

\* Loading keeps the invariant but for the part about mappings.
LEMMA LoadFields ==
  ASSUME TypeOK, DescriptorsOwned, FieldsInv, NEW p \in Objects, Load(p), UNCHANGED stale
  PROVE  (TypeOK /\ DescriptorsOwned /\ FieldsInv)'
<1> USE LoaderAssumption DEF TypeOK
<1>1. CASE Create(p)
  <2>1. TypeOK'
    BY <1>1 DEF Create
  <2>2. (DescriptorsOwned /\ FieldsInv)'
    BY <1>1 DEF Create, DescriptorsOwned, FieldsInv, Mapped
  <2> QED BY <2>1, <2>2
<1>2. CASE WriteFail(p) \/ DlopenFail(p)
  <2>1. TypeOK'
    BY <1>2 DEF WriteFail, DlopenFail, CloseMemfd
  <2>2. (DescriptorsOwned /\ FieldsInv)'
    BY <1>2 DEF WriteFail, DlopenFail, CloseMemfd, DescriptorsOwned, FieldsInv, Mapped
  <2> QED BY <2>1, <2>2
<1>3. CASE Dlopen(p)
  <2>1. PICK h \in Handles :
           /\ links' = [links EXCEPT ![h] =
                 IF links[h] = Null THEN [path |-> memfd[p], image |-> p, refs |-> 1]
                 ELSE [links[h] EXCEPT !.refs = @ + 1]]
           /\ handle' = [handle EXCEPT ![p] = h]
    BY <1>3 DEF Dlopen, Candidates, Known
  <2>2. memfd[p] \in Fds
    BY <1>3 DEF Dlopen, FieldsInv
  <2> DEFINE entry == IF links[h] = Null THEN [path |-> memfd[p], image |-> p, refs |-> 1]
                      ELSE [links[h] EXCEPT !.refs = @ + 1]
  <2>3. links[h] # Null => [links[h] EXCEPT !.refs = @ + 1] \in Link
    BY DEF Link
  <2>4. entry \in Link
    BY <2>2, <2>3 DEF Link
  <2>5. links' \in [Handles -> Link \cup {Null}]
    <3>1. links' = [links EXCEPT ![h] = entry]
      BY <2>1
    <3> HIDE DEF entry
    <3> QED BY <2>4, <3>1
  <2>6. TypeOK'
    BY <1>3, <2>1, <2>5 DEF Dlopen
  <2>7. (DescriptorsOwned /\ FieldsInv)'
    BY <1>3, <2>1 DEF Dlopen, DescriptorsOwned, FieldsInv, Mapped
  <2> QED BY <2>6, <2>7
<1>4. CASE Dlsym(p)
  BY <1>4 DEF Dlsym, DescriptorsOwned, FieldsInv, Mapped
<1> QED BY <1>1, <1>2, <1>3, <1>4 DEF Load

\* So do the destructor and the failure of dlsym.
LEMMA UnloadFields ==
  ASSUME TypeOK, DescriptorsOwned, FieldsInv, NEW p \in Objects,
         Unload(p) \/ DlsymFail(p), stale' \in BOOLEAN
  PROVE  (TypeOK /\ DescriptorsOwned /\ FieldsInv)'
<1> USE LoaderAssumption DEF TypeOK
<1>1. CASE Destroy(p) \/ Delete(p)
  <2>1. TypeOK'
    BY <1>1 DEF Destroy, Delete, DescriptorsOwned, FieldsInv
  <2>2. (DescriptorsOwned /\ FieldsInv)'
    BY <1>1 DEF Destroy, Delete, DescriptorsOwned, FieldsInv, Mapped
  <2> QED BY <2>1, <2>2
<1>2. CASE DestructorDlclose(p)
  <2>1. handle[p] \in Handles
    BY <1>2 DEF DestructorDlclose, FieldsInv, Mapped
  <2>2. links' \in [Handles -> Link \cup {Null}]
    BY <1>2, <2>1, DlcloseTypes DEF DestructorDlclose
  <2> QED BY <1>2, <2>2 DEF DestructorDlclose, DescriptorsOwned, FieldsInv, Mapped
<1>3. CASE DestructorClose(p)
  <2>1. TypeOK'
    BY <1>3 DEF DestructorClose, CloseMemfd, FileKinds, DescriptorsOwned
  <2>2. (DescriptorsOwned /\ FieldsInv)'
    BY <1>3 DEF DestructorClose, CloseMemfd, DescriptorsOwned, FieldsInv, Mapped
  <2> QED BY <2>1, <2>2
<1>4. CASE DlsymFail(p)
  <2>1. handle[p] \in Handles
    BY <1>4 DEF DlsymFail, FieldsInv, Mapped
  <2>2. links' \in [Handles -> Link \cup {Null}]
    BY <1>4, <2>1, DlcloseTypes DEF DlsymFail
  <2>3. TypeOK'
    BY <1>4, <2>2 DEF DlsymFail, CloseMemfd
  <2>4. (DescriptorsOwned /\ FieldsInv)'
    BY <1>4 DEF DlsymFail, CloseMemfd, DescriptorsOwned, FieldsInv, Mapped
  <2> QED BY <2>3, <2>4
<1> QED BY <1>1, <1>2, <1>3, <1>4 DEF Unload

-----------------------------------------------------------------------------

\* A descriptor just created is in nobody's path, so dlopen gives a new entry.
LEMMA PathIsNew ==
  ASSUME LoaderInv, ~stale, NEW p \in Objects, pc[p] = "created"
  PROVE  Known(memfd[p]) = {}
<1> SUFFICES ASSUME NEW h \in Handles, links[h] # Null, links[h].path = memfd[p]
             PROVE  FALSE
  BY DEF Known
<1> DEFINE o == links[h].image
<1>1. o \in Objects /\ Mapped(o) /\ handle[o] = h
  BY DEF LoaderInv, LinkInv, TypeOK, Link
<1>2. memfd[o] = memfd[p] /\ memfd[p] # Null
  BY <1>1 DEF LoaderInv, HandleInv, FieldsInv
<1>3. o = p
  BY <1>1, <1>2 DEF LoaderInv, DescriptorsOwned
<1> QED BY <1>1, <1>3 DEF Mapped

\* The entry an object maps is not another one's.
LEMMA EntriesApart ==
  ASSUME LoaderInv, ~stale, NEW p \in Objects, NEW o \in Objects, p # o, Mapped(p), Mapped(o)
  PROVE  handle[p] # handle[o]
BY DEF LoaderInv, HandleInv

\* Handles and entries stay in step until a dlsym fails.
LEMMA MappingsKept ==
  ASSUME LoaderInv, ~stale, NEW p \in Objects, Load(p) \/ Unload(p), TypeOK'
  PROVE  (HandleInv /\ LinkInv)'
<1> USE LoaderAssumption DEF TypeOK
<1>1. HandleInv /\ LinkInv /\ FieldsInv /\ DescriptorsOwned
  BY DEF LoaderInv
<1>2. CASE Create(p) \/ WriteFail(p) \/ DlopenFail(p)
  <2>1. HandleInv'
    BY <1>1, <1>2 DEF HandleInv, Mapped, Create, WriteFail, DlopenFail, CloseMemfd
  <2>2. LinkInv'
    BY <1>1, <1>2 DEF LinkInv, Mapped, Create, WriteFail, DlopenFail, Link
  <2> QED BY <2>1, <2>2
<1>3. CASE Dlopen(p)
  <2>1. PICK h \in Handles :
           /\ links[h] = Null
           /\ links' = [links EXCEPT ![h] = [path |-> memfd[p], image |-> p, refs |-> 1]]
           /\ handle' = [handle EXCEPT ![p] = h]
    BY <1>3, PathIsNew DEF Dlopen, Candidates, Known
  <2>2. HandleInv'
    <3>1. memfd[p] # Null /\ UNCHANGED memfd /\ pc' = [pc EXCEPT ![p] = "opened"]
      BY <1>1, <1>3 DEF FieldsInv, Dlopen
    <3>2. [path |-> memfd[p], image |-> p, refs |-> 1] # Null
      BY <3>1 DEF Link
    <3>3. \A o \in Objects \ {p} : Mapped(o) => handle[o] # h
      BY <1>1, <2>1 DEF HandleInv
    <3> QED BY <1>1, <2>1, <3>1, <3>2, <3>3 DEF HandleInv, Mapped
  <2>3. LinkInv'
    BY <1>1, <1>3, <2>1 DEF LinkInv, Mapped, Dlopen, Link
  <2> QED BY <2>2, <2>3
<1>4. CASE Dlsym(p) \/ Destroy(p)
  BY <1>1, <1>4 DEF HandleInv, LinkInv, Mapped, Dlsym, Destroy, Link
<1>5. CASE Delete(p)
  BY <1>1, <1>5 DEF HandleInv, LinkInv, Mapped, Delete, Link
<1>6. CASE DestructorDlclose(p)
  <2>1. links' = [links EXCEPT ![handle[p]] = Null] /\ handle[p] \in Handles
    <3>1. Mapped(p) /\ Dlclose(handle[p])
      BY <1>6 DEF Mapped, DestructorDlclose
    <3>2. links[handle[p]] # Null /\ links[handle[p]].refs = 1 /\ handle[p] # Null
      BY <1>1, <3>1 DEF HandleInv, FieldsInv
    <3>3. handle[p] \in Handles
      BY <3>2 DEF LoaderInv
    <3> QED BY <3>1, <3>2, <3>3 DEF Dlclose
  <2>2. HandleInv'
    BY <1>1, <1>6, <2>1, EntriesApart DEF HandleInv, Mapped, DestructorDlclose
  <2>3. LinkInv'
    BY <1>1, <1>6, <2>1 DEF LinkInv, HandleInv, Mapped, DestructorDlclose, Link
  <2> QED BY <2>2, <2>3
<1>7. CASE DestructorClose(p)
  BY <1>1, <1>7 DEF HandleInv, LinkInv, Mapped, DestructorClose, CloseMemfd, Link
<1> QED BY <1>2, <1>3, <1>4, <1>5, <1>6, <1>7 DEF Load, Unload

-----------------------------------------------------------------------------

\* LoaderInv is inductive and holds in every state.
THEOREM LoaderInvHolds == Spec => []LoaderInv
<1>1. Init => LoaderInv
  <2>1. Init => TypeOK
    BY DEF Init, TypeOK, FileKinds
  <2>2. Init => DescriptorsOwned /\ FieldsInv /\ HandleInv /\ LinkInv
    BY DEF Init, DescriptorsOwned, FieldsInv, Mapped, HandleInv, LinkInv
  <2> QED BY <2>1, <2>2 DEF LoaderInv
<1>2. LoaderInv /\ [Next]_vars => LoaderInv'
  <2> SUFFICES ASSUME LoaderInv, [Next]_vars PROVE LoaderInv'
    OBVIOUS
  <2>1. ASSUME NEW p \in Objects, Load(p) \/ Unload(p), UNCHANGED stale PROVE LoaderInv'
    BY <2>1, LoadFields, UnloadFields, MappingsKept DEF LoaderInv, TypeOK
  <2>2. ASSUME NEW p \in Objects, DlsymFail(p), stale' = TRUE PROVE LoaderInv'
    BY <2>2, UnloadFields DEF LoaderInv
  <2>3. CASE UNCHANGED vars
    BY <2>3 DEF vars, LoaderInv, TypeOK, DescriptorsOwned, FieldsInv, Mapped, HandleInv, LinkInv
  <2> QED BY <2>1, <2>2, <2>3 DEF Next
<1> QED BY <1>1, <1>2, PTL DEF Spec

\* Every variable keeps to its type.
THEOREM LoaderTypeCorrect == Spec => []TypeOK
<1> QED BY LoaderInvHolds, PTL DEF LoaderInv

\* A memory file that is open has one object that will close it (every return of
\* dlmemopen, ~PSModule).
THEOREM DescriptorsAreOwned == Spec => []DescriptorsOwned
<1> QED BY LoaderInvHolds, PTL DEF LoaderInv

\* Until a dlsym fails, what a loaded PSModule has mapped is the copy it made
\* (dlclose comes before close in ~PSModule).
THEOREM OwnCopyLoaded == Spec => []LoadedIsOwnCopy
<1>1. LoaderInv => LoadedIsOwnCopy
  BY LoaderAssumption DEF LoaderInv, HandleInv, Mapped, LoadedIsOwnCopy
<1> QED BY LoaderInvHolds, <1>1, PTL

\* Until a dlsym fails, a mapping has as many references as objects that give one back.
THEOREM ReferencesCounted == Spec => []MappingsCounted
<1>1. LoaderInv => MappingsCounted
  <2> SUFFICES ASSUME LoaderInv, ~stale, NEW h \in Handles, links[h] # Null
               PROVE  links[h].refs = Cardinality({p \in Objects :
                          handle[p] = h /\ pc[p] \in {"opened", "loaded", "dlclose"}})
    BY DEF MappingsCounted
  <2> DEFINE o == links[h].image
             users == {p \in Objects : handle[p] = h /\ pc[p] \in {"opened", "loaded", "dlclose"}}
  <2>1. o \in Objects /\ Mapped(o) /\ handle[o] = h
    BY DEF LoaderInv, LinkInv, TypeOK, Link
  <2>2. links[h].refs = 1
    BY <2>1 DEF LoaderInv, HandleInv
  <2>3. users = {o}
    BY <2>1, EntriesApart DEF Mapped
  <2>4. Cardinality(users) = 1
    BY <2>3, FS_Singleton
  <2> QED BY <2>2, <2>4
<1> QED BY LoaderInvHolds, <1>1, PTL
=============================================================================
