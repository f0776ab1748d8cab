--------------------------- MODULE MCAgentSync ---------------------------
\* AgentSync for TLC: f1 is the file that is tailed.
EXTENDS AgentSync

CONSTANT f1
=============================================================================
