-------------------------- MODULE MCPSEngineClients -------------------------
(* Small instances of PSEngineClients for TLC. *)
EXTENDS PSEngineClients, PSEngineRefines

CONSTANT f

\* the second build lacks the function
MCExportsLost == <<{f}, {}>>
=============================================================================
