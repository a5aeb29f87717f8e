----------------------------- MODULE MCAgentLoop -----------------------------
EXTENDS AgentLoop

CONSTANTS a, b, c

ThreeCalls == {a, b, c}
TwoSafe == {a, b}
OneExternal == {b}
UpToTwo == 0..2
UpToThree == 0..3
==============================================================================
