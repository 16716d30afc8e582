---------------------------- MODULE MCShadowSessions ----------------------------
EXTENDS ShadowSessions

CONSTANTS c1, c2, c3

\* Two clients of one gate, and one of another.
MCPairOf == [c \in Clients |-> IF c = c3 THEN 2 ELSE 1]

===============================================================================
