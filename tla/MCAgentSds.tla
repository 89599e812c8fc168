------------------------------ MODULE MCAgentSds ------------------------------
(***************************************************************************)
(* Instantiation of AgentSds for TLC: up to two CA-root changes after Run. *)
(***************************************************************************)
EXTENDS AgentSds
=============================================================================
