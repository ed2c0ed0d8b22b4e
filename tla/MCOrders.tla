------------------------------- MODULE MCOrders -------------------------------
(* Orders beside the strategy's own: the manual orders of the owner, and the
   exits of a managed position.  They share no state: one run checks them side
   by side, and each behaviour moves the part it has chosen.                 *)
EXTENDS ManualOrders, TLC

CONSTANTS Ordered, Minimum, MinimumAtStop, Faults

VARIABLES part,
    entry, exit, bid, reverse, decision, submit, cancel, record, heartbeat,
    place, by, key, quantity, issue                      \* ManagedProtection

managed == <<entry, exit, bid, reverse, decision, submit, cancel, record, heartbeat,
             place, by, key, quantity, issue>>

Managed == INSTANCE ManagedProtection WITH at <- place

ASSUME OrdersAssumption ==
    /\ Ordered \in Nat \ {0} /\ Faults \subseteq Managed!Fault
    /\ Minimum \in Nat \ {0} /\ MinimumAtStop \in Nat /\ Minimum <= MinimumAtStop

(* The accounts too may be exchanged, but more permutations cost more time than
   they save in states. *)
Symmetry == Permutations(Intents) \cup Permutations(Requests)

MCInit == part \in {"manual", "managed"} /\ Init /\ Managed!Init

MCNext ==
    /\ UNCHANGED part
    /\ \/ part = "manual"  /\ Next         /\ UNCHANGED managed
       \/ part = "managed" /\ Managed!Next /\ UNCHANGED vars

MCSpec == MCInit /\ [][MCNext]_<<part, vars, managed>>

(* ManagedProtection: no exit sells what another one sells, or may have sold. *)
SoldOnce == part = "managed" => Managed!NeverOversold /\ Managed!NoBlindRepeat

(* ManagedProtection: the reason for an exit outlives the pass that found it. *)
TriggerKept == Managed!TriggerKept

(* ManagedProtection: a closed record is sold, and no record ahead of the venue. *)
RecordIsTrue == part = "managed" => Managed!ClosedIsSold /\ Managed!RecordBehindVenue
=============================================================================
