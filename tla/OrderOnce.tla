----------------------------- MODULE OrderOnce -----------------------------
(***************************************************************************)
(* What the program promises about the orders it places at the venue, with *)
(* no journal, no lease and no worker: every decision becomes at most one  *)
(* order request, and no request is authorised for an asset while another  *)
(* request for that asset has an outcome nobody has seen.                  *)
(***************************************************************************)
CONSTANTS
    Key,        \* decisions: intents of the engine or reviews of the owner
    Symbol,     \* what one request at a time may be under way for
    SymbolOf    \* that of each decision

VARIABLE phase  \* how far each decision has come towards an order

Phase == {"new", "refused", "authorised", "sent", "live", "final"}

Init == phase = [k \in Key |-> "new"]

(* Another decision on the asset of k may still be about to reach the venue. *)
InDoubt(k) ==
    \E j \in Key \ {k} : SymbolOf[j] = SymbolOf[k] /\ phase[j] \in {"authorised", "sent"}

Step(k, from, to) ==
    /\ phase[k] = from
    /\ phase' = [phase EXCEPT ![k] = to]

Refuse(k)    == Step(k, "new", "refused")
Authorise(k) == Step(k, "new", "authorised") /\ ~InDoubt(k)
Send(k)      == Step(k, "authorised", "sent")
Accept(k)    == Step(k, "sent", "live") \/ Step(k, "sent", "final")
Reject(k)    == Step(k, "sent", "refused")
Finish(k)    == Step(k, "live", "final")

(* A step moves one decision; that it moves at all is said first for TLC's sake. *)
Next == \E k \in Key :
    /\ phase'[k] # phase[k]
    /\ Refuse(k) \/ Authorise(k) \/ Send(k) \/ Accept(k) \/ Reject(k) \/ Finish(k)

Spec == Init /\ [][Next]_phase
=============================================================================
