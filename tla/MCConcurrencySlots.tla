-------------------------- MODULE MCConcurrencySlots --------------------------
EXTENDS ConcurrencySlots

CONSTANTS p1, p2, r1

\* The first request at one process, the others at a second.
TwoHomes == [r \in Clients |-> IF r = r1 THEN p1 ELSE p2]
================================================================================
