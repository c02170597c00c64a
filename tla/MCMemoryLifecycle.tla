------------------------- MODULE MCMemoryLifecycle -------------------------
(* Turns 1 and 2 are intense enough to be stored, turn 3 is not.           *)
EXTENDS MemoryLifecycle

MCIntensity == [t \in Turns |-> IF t = 3 THEN 5 ELSE 10]
MCValence == [t \in Turns |-> 9]
=============================================================================
