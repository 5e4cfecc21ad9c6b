----------------------------- MODULE MCIdempotency -----------------------------
EXTENDS IdempotencyTable, FiniteSets, TLC

CONSTANTS a1, a2, a3, b1, b2, p1, p2, p3

(* Bound: attempts and operations that have begun, together. *)
CONSTANT MaxRequests

Begun == {a \in Attempts : pc[a] # "idle"} \cup {o \in Operations : phase[o] # "idle"}
FewRequests == Cardinality(Begun) <= MaxRequests

Symmetry == Permutations(Attempts \ OtherPayload) \cup Permutations(Operations)
===============================================================================
