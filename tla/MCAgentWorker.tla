---------------------------- MODULE MCAgentWorker ----------------------------
(* Instances of AgentWorker small enough for TLC. *)
EXTENDS AgentWorker
=============================================================================
