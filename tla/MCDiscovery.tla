---------------------------- MODULE MCDiscovery ----------------------------
(* Discovery for TLC: the universe of three pairs without an export, and the
   export of the events of one pair.  Runs may be exchanged for one another,
   and pairs.                                                              *)
EXTENDS Discovery

VARIABLE part

Unexported == INSTANCE Discovery
    WITH SheetsConfigured <- FALSE, HandEdits <- FALSE, BatchLimit <- 1

Symmetry == Permutations(Run) \cup Permutations(Pair)

OnePair == Cardinality({p \in Pair : stored'.known[p] # "no"}) <= 1

MCInit == part \in {"universe", "export"} /\ Init

MCNext ==
    /\ UNCHANGED part
    /\ \/ part = "universe" /\ Unexported!Next
       \/ part = "export" /\ Next /\ OnePair

MCSpec == MCInit /\ [][MCNext]_<<part, vars>>
=============================================================================
