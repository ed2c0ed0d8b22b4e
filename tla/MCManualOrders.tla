--------------------------- MODULE MCManualOrders ---------------------------
(* Model-checking constants for ManualOrders. *)
EXTENDS ManualOrders, TLC

CONSTANTS i1, i2, r1, r2, r3, a, b

MCIntents == {i1, i2}
MCRequests == {r1, r2, r3}
MCCredentials == {a, b}

Symmetry == Permutations(MCIntents) \cup Permutations(MCRequests) \cup Permutations(MCCredentials)
=============================================================================
