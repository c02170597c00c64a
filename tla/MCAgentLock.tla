---------------------------- MODULE MCAgentLock ----------------------------
(* Instances of AgentLock for TLC: requests r1 and r2 share a process,     *)
(* r3 is served by another one; all three are for the same agent.          *)
EXTENDS AgentLock

CONSTANTS r1, r2, r3, p1, p2, a1

MCProcOf == [r \in Requests |-> IF r = r3 THEN p2 ELSE p1]
MCAgentOf == [r \in Requests |-> a1]
=============================================================================
