--------------------------- MODULE ModuleLoaderInv --------------------------
(***************************************************************************)
(* The inductive invariant behind the properties of ModuleLoader: which    *)
(* object has which descriptor and which entry of the link map, at each    *)
(* stage of its life.                                                      *)
(***************************************************************************)
EXTENDS ModuleLoader

\* The object will give its reference to the library back.
Mapped(p) == pc[p] \in {"opened", "loaded", "dlclose"}

\* A memory file is open from its creation to the failure that closes it, or to
\* the last step of the destructor; the library is closed through a handle.
FieldsInv ==
    \A p \in Objects :
        /\ pc[p] \in {"none", "delete"} => memfd[p] = Null
        /\ pc[p] \in {"created", "opened", "loaded"} => memfd[p] # Null
        /\ Mapped(p) => handle[p] # Null

\* Before the first failure of dlsym a handle is set exactly while it is used,
\* its entry is the object's own, opened by the descriptor that is still open.
HandleInv ==
    \A p \in Objects :
        /\ pc[p] \in {"none", "created", "delete"} => handle[p] = Null
        /\ Mapped(p) =>
              /\ memfd[p] # Null
              /\ links[handle[p]] # Null
              /\ links[handle[p]].path = memfd[p]
              /\ links[handle[p]].image = p
              /\ links[handle[p]].refs = 1

\* An entry of the link map is the one of the object whose copy it maps.
LinkInv ==
    \A h \in Handles : links[h] # Null =>
        Mapped(links[h].image) /\ handle[links[h].image] = h

LoaderInv ==
    /\ TypeOK
    /\ DescriptorsOwned
    /\ FieldsInv
    /\ ~stale => HandleInv /\ LinkInv
=============================================================================
