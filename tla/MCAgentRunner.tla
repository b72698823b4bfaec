--------------------------- MODULE MCAgentRunner ---------------------------
EXTENDS AgentRunner, TLC

TaskSymmetry == Permutations(Task)
=============================================================================
