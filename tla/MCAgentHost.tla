----------------------------- MODULE MCAgentHost -----------------------------
EXTENDS AgentHost
AllProcesses == Server \cup {Desktop}
=============================================================================
