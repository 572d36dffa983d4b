--------------------------- MODULE MCAgentUpdate ---------------------------
EXTENDS AgentUpdate
Both == {"daemon", "terminal"}
AnyPlane == SUBSET Versions
=============================================================================
