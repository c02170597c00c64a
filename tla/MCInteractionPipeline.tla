----------------------- MODULE MCInteractionPipeline -----------------------
(* Instances of InteractionPipeline for TLC: two requests for one agent,   *)
(* each in a process of its own, so that either can die alone.             *)
EXTENDS InteractionPipeline

CONSTANTS r1, r2, p1, p2, a1

MCProcOf == [r \in Requests |-> IF r = r1 THEN p1 ELSE p2]
MCAgentOf == [r \in Requests |-> a1]
=============================================================================
