------------------------------ MODULE MCAgentRun ------------------------------
(* AgentRun for TLC: the capability makes one model call. *)
EXTENDS AgentRun

OneModelCall == <<"model">>
=============================================================================
