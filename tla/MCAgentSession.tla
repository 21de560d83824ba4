--------------------------- MODULE MCAgentSession ---------------------------
(***************************************************************************)
(* AgentSession with stops of the Runtime that follow or overlap each      *)
(* other, and a person's.                                                  *)
(***************************************************************************)
EXTENDS AgentSession

CONSTANTS s1, s2, person
=============================================================================
