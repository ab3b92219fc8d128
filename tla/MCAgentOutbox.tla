--------------------------- MODULE MCAgentOutbox ---------------------------
(***************************************************************************)
(* AgentOutbox for TLC.                                                    *)
(***************************************************************************)
EXTENDS AgentOutbox

=============================================================================
