----------------------------- MODULE MCPSEngine -----------------------------
(* Small instances of PSEngine for TLC. *)
EXTENDS PSEngineInv, PSEngineRefines, TLC

CONSTANTS t1, t2, t3, m1, m2, m3, m4, f

MCThreads2 == {t1, t2}
MCThreads3 == {t1, t2, t3}
MCModules == {m1, m2, m3, m4}

\* the second build lacks the function; the third has it again; both have it
MCExportsLost == <<{f}, {}>>
MCExportsRegained == <<{f}, {}, {f}>>
MCExportsKept == <<{f}, {f}>>

Symmetry2 == Permutations(MCThreads2) \cup Permutations(MCModules)
Symmetry3 == Permutations(MCThreads3) \cup Permutations(MCModules)
=============================================================================
