--------------------------- MODULE MCAgentProcess ---------------------------
(* AgentProcess with one client, for liveness; MCRuntime has two clients.  *)
EXTENDS AgentProcess

MCThread == Client \cup {Owner, Main, Rpc}
MCNote == {"agent_ready", "kill_agent", "rpc_pending", "rpc_done"}
=============================================================================
