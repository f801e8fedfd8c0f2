--------------------------- MODULE MCAgentStream ---------------------------
(* Instances of AgentStream for TLC: the constants are numbers, so that the  *)
(* .cfg files give all of them.                                              *)
EXTENDS AgentStream, TLC

=============================================================================
