------------------------- MODULE MCPSEngineHistory --------------------------
(* A small instance of PSEngineHistory for TLC. *)
EXTENDS PSEngineHistory

CONSTANT f

\* both builds have the function
MCExportsKept == <<{f}, {f}>>
=============================================================================
