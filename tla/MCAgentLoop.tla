---------------------------- MODULE MCAgentLoop ----------------------------
(* A small instance of AgentLoop: two inputs, three responses, and a tail of
   two messages, so that a cut falls on tool results. *)
EXTENDS AgentLoop

MCSizes == {1, 3}
=============================================================================
