---------------------------- MODULE ModuleLoader ----------------------------
(***************************************************************************)
(* PSModule against the kernel and the dynamic linker (pse_module.h): the  *)
(* memory file, the link map and the object's own fields, for several      *)
(* PSModule objects being loaded and destroyed at once (reloadModule loads *)
(* before it takes any lock; the last reference may drop in any thread).   *)
(*                                                                         *)
(* dlopen is keyed by path: a path already in the link map yields the map  *)
(* that is there.  The path is the name of a file descriptor, so the order *)
(* of dlclose and close decides whose code a later load gets.              *)
(***************************************************************************)
EXTENDS Integers, FiniteSets

CONSTANTS
    Objects,   \* PSModule objects (each identity is used again after it is deleted)
    Fds,       \* file descriptors; others of the process may be taken at any time
    Handles,   \* addresses of link map entries; freed ones are used again
    Files,     \* what a reload may find installed, a subset of FileKinds
    Null       \* a null handle, a closed descriptor (-1), an unused entry

FileKinds == {"good",      \* a module
              "noentry",   \* a library without pse_module
              "bad"}       \* not loadable: wrong format, missing symbol, short write

\* An entry of the link map: the descriptor in the path it was opened by, the
\* object whose copy it maps, the references to give back.
Link == [path : Fds, image : Objects, refs : Nat \ {0}]

ASSUME LoaderAssumption ==
    /\ Files \subseteq FileKinds
    /\ Null \notin Objects \cup Fds \cup Handles \cup Link

VARIABLES
    pc,       \* pc[p]: where the thread that loads or deletes p is; "none": no object
    handle,   \* PSModule::handle
    pmod,     \* PSModule::pmod is set
    memfd,    \* PSModule::memfd
    file,     \* file[p]: kind of the file p copied
    open,     \* open[d]: the object whose copy descriptor d refers to
    links,    \* links[h]: a mapped library, or Null
    stale     \* history: some load has failed in dlsym, which leaves its handle set

vars == <<pc, handle, pmod, memfd, file, open, links, stale>>

TypeOK ==
    /\ pc \in [Objects -> {"none", "created", "opened", "loaded",
                           "delete", "dlclose", "close"}]
    /\ handle \in [Objects -> Handles \cup {Null}]
    /\ pmod \in [Objects -> BOOLEAN]
    /\ memfd \in [Objects -> Fds \cup {Null}]
    /\ file \in [Objects -> FileKinds]
    /\ open \in [Fds -> Objects \cup {Null}]
    /\ \A d \in Fds : open[d] # Null => pc[open[d]] # "none"  \* of an object that exists
    /\ links \in [Handles -> Link \cup {Null}]
    /\ stale \in BOOLEAN

Init ==
    /\ pc = [p \in Objects |-> "none"]
    /\ handle = [p \in Objects |-> Null]
    /\ pmod = [p \in Objects |-> FALSE]
    /\ memfd = [p \in Objects |-> Null]
    /\ file = [p \in Objects |-> "good"]
    /\ open = [d \in Fds |-> Null]
    /\ links = [h \in Handles |-> Null]
    /\ stale = FALSE

Goto(p, l) == pc' = [pc EXCEPT ![p] = l]

-----------------------------------------------------------------------------
(* The linker and the kernel *)

\* dlclose of an address: the reference is given back to whatever entry is
\* there now; an address with no entry is an error that changes no other entry.
Dlclose(h) ==
    links' = IF links[h] = Null THEN links
             ELSE [links EXCEPT ![h] = IF links[h].refs = 1 THEN Null
                                       ELSE [links[h] EXCEPT !.refs = @ - 1]]

\* close(memfd); memfd = -1
CloseMemfd(p) ==
    /\ open' = [open EXCEPT ![memfd[p]] = Null]
    /\ memfd' = [memfd EXCEPT ![p] = Null]

-----------------------------------------------------------------------------
(* dlmemopen *)

\* fl_load_from_file, memfd_create, write
Create(p) ==
    /\ pc[p] = "none"
    /\ \E d \in Fds :
          /\ open[d] = Null
          /\ memfd' = [memfd EXCEPT ![p] = d]
          /\ open' = [open EXCEPT ![d] = p]
    /\ \E k \in Files : file' = [file EXCEPT ![p] = k]
    /\ Goto(p, "created")
    /\ UNCHANGED <<handle, pmod, links>>

\* Mutant: the descriptor stays open when write fails.
WriteFailOpen(p) ==
    /\ pc[p] = "created"
    /\ memfd' = [memfd EXCEPT ![p] = Null]
    /\ Goto(p, "delete")
    /\ UNCHANGED <<handle, pmod, file, open, links>>

\* write fails: the descriptor is closed and load returns false
WriteFail(p) ==
    /\ pc[p] = "created"
    /\ CloseMemfd(p)
    /\ Goto(p, "delete")
    /\ UNCHANGED <<handle, pmod, file, links>>

\* The entries dlopen may return for a path: the one mapped under that very
\* path if there is one, else a new entry at any free address.
Known(d) == {h \in Handles : links[h] # Null /\ links[h].path = d}
Candidates(d) == IF Known(d) # {} THEN Known(d) ELSE {h \in Handles : links[h] = Null}

\* dlopen("/proc/self/fd/<memfd>") succeeds; a known entry is returned as it is
Dlopen(p) ==
    /\ pc[p] = "created"
    /\ Known(memfd[p]) = {} => file[p] # "bad"
    /\ \E h \in Candidates(memfd[p]) :
          /\ links' = [links EXCEPT ![h] =
                IF links[h] = Null THEN [path |-> memfd[p], image |-> p, refs |-> 1]
                ELSE [links[h] EXCEPT !.refs = @ + 1]]
          /\ handle' = [handle EXCEPT ![p] = h]
    /\ Goto(p, "opened")
    /\ UNCHANGED <<pmod, memfd, file, open>>

\* Mutant: an error of dlopen returns at once, the descriptor stays open.
DlopenFailOpen(p) ==
    /\ pc[p] = "created"
    /\ Known(memfd[p]) = {}
    /\ file[p] = "bad"
    /\ Goto(p, "delete")
    /\ UNCHANGED <<handle, pmod, memfd, file, open, links>>

\* dlopen fails: the descriptor is closed and load returns false
DlopenFail(p) ==
    /\ pc[p] = "created"
    /\ Known(memfd[p]) = {}
    /\ file[p] = "bad"
    /\ CloseMemfd(p)
    /\ Goto(p, "delete")
    /\ UNCHANGED <<handle, pmod, file, links>>

\* dlsym finds the entry point; pmod(true) fills the table
Dlsym(p) ==
    /\ pc[p] = "opened"
    /\ file[p] = "good"
    /\ pmod' = [pmod EXCEPT ![p] = TRUE]
    /\ Goto(p, "loaded")
    /\ UNCHANGED <<handle, memfd, file, open, links>>

\* no entry point: dlclose(handle), close(memfd), memfd = -1, return false.
\* The field handle keeps its value.
DlsymFail(p) ==
    /\ pc[p] = "opened"
    /\ file[p] = "noentry"
    /\ Dlclose(handle[p])
    /\ CloseMemfd(p)
    /\ Goto(p, "delete")
    /\ UNCHANGED <<handle, pmod, file>>

-----------------------------------------------------------------------------
(* ~PSModule *)

\* Mutant: the memory file is closed before dlclose.
DestroyClosesFirst(p) ==
    /\ pc[p] = "loaded"
    /\ CloseMemfd(p)
    /\ Goto(p, "dlclose")
    /\ UNCHANGED <<handle, pmod, file, links>>

\* The last reference to a loaded module is dropped: pmod(false)
Destroy(p) ==
    /\ pc[p] = "loaded"
    /\ Goto(p, "dlclose")
    /\ UNCHANGED <<handle, pmod, memfd, file, open, links>>

\* delete newmod after a failed load: nothing happens without a handle
Delete(p) ==
    /\ pc[p] = "delete"
    /\ \/ handle[p] = Null /\ Goto(p, "none")
       \/ handle[p] # Null /\ Goto(p, "dlclose")
    /\ UNCHANGED <<handle, pmod, memfd, file, open, links>>

\* Mutant: the destructor forgets dlclose.
DestructorNoDlclose(p) ==
    /\ pc[p] = "dlclose"
    /\ Goto(p, "close")
    /\ UNCHANGED <<handle, pmod, memfd, file, open, links>>

DestructorDlclose(p) ==
    /\ pc[p] = "dlclose"
    /\ Dlclose(handle[p])
    /\ Goto(p, "close")
    /\ UNCHANGED <<handle, pmod, memfd, file, open>>

\* if (memfd > -1) close(memfd); the object is gone
DestructorClose(p) ==
    /\ pc[p] = "close"
    /\ \/ memfd[p] # Null /\ CloseMemfd(p)
       \/ memfd[p] = Null /\ UNCHANGED <<open, memfd>>
    /\ handle' = [handle EXCEPT ![p] = Null]
    /\ pmod' = [pmod EXCEPT ![p] = FALSE]
    /\ file' = [file EXCEPT ![p] = "good"]
    /\ Goto(p, "none")
    /\ UNCHANGED links

-----------------------------------------------------------------------------

Load(p) == Create(p) \/ WriteFail(p) \/ Dlopen(p) \/ DlopenFail(p) \/ Dlsym(p)

Unload(p) == Destroy(p) \/ Delete(p) \/ DestructorDlclose(p) \/ DestructorClose(p)

Next ==
    \E p \in Objects :
        \/ (Load(p) \/ Unload(p)) /\ UNCHANGED stale
        \/ DlsymFail(p) /\ stale' = TRUE

Spec == Init /\ [][Next]_vars

-----------------------------------------------------------------------------

\* A loaded PSModule is mapped, and what is mapped is the copy it has just
\* made: not an earlier one found under the same descriptor path.  (Before the
\* first failure of dlsym: the stale handle it leaves breaks this.)
LoadedIsOwnCopy ==
    ~stale => \A p \in Objects : pc[p] = "loaded" =>
        links[handle[p]] # Null /\ links[handle[p]].image = p

\* Every mapping has as many references as objects that will give one back,
\* so each is unmapped in the end and none too early (with the same proviso).
MappingsCounted ==
    ~stale => \A h \in Handles : links[h] # Null =>
        links[h].refs = Cardinality({p \in Objects :
            handle[p] = h /\ pc[p] \in {"opened", "loaded", "dlclose"}})

\* Every memory file open has an object that will close it, on each of the
\* error paths too, and no object closes the descriptor of another.
DescriptorsOwned ==
    /\ \A d \in Fds : open[d] # Null => memfd[open[d]] = d
    /\ \A p \in Objects : memfd[p] # Null => open[memfd[p]] = p

\* A module somebody still refers to is not unloaded.
ReferencedStaysMapped ==
    \A p \in Objects : pc[p] = "loaded" => links[handle[p]] # Null
=============================================================================
