------------------------- MODULE ManagedProtection -------------------------
(***************************************************************************)
(* The protection of one position that the engine bought: the entry order  *)
(* and its fills, the protection record with its latched trigger, and the  *)
(* exits that sell the position, residual by residual.                     *)
(*                                                                         *)
(* Passes of three handlers act on it, one at a time under the account     *)
(* lease: protectionCycle() (every ten seconds), cycle() (every five       *)
(* minutes) and cancelDeadline() (once the entry has expired).  A pass is  *)
(* split at every point where the code awaits the journal or the venue, so *)
(* fills, prices and the end of the invocation fall between its steps.     *)
(* That passes of two invocations do not mix is SourceWrites' subject.     *)
(*                                                                         *)
(* Quantities count the instrument's quantity steps.                       *)
(***************************************************************************)
EXTENDS Integers, FiniteSets, Functions

CONSTANTS
    Ordered,    \* quantity of the entry order
    Minimum, MinimumAtStop, \* least quantity the venue takes, see Least
    Faults      \* what may go wrong (see Fault)

Fault == {"stop",    \* an invocation ends before it begins an exit or claims a write
          "crash",   \* an invocation ends after that
          "read",    \* a read of the account or the market fails, or shows that the
                     \* instrument is inactive or too much of the position reserved
          "lookup",  \* a read of one order fails while reconcile() goes on
          "check",   \* the same while submit() repeats its checks
          "reply",   \* the outcome of a POST or a DELETE stays unknown
          "reject"}  \* the venue ends an exit without a fill

ASSUME ProtectionAssumption ==
    /\ Ordered \in Nat \ {0} /\ Faults \subseteq Fault
    /\ Minimum \in Nat \ {0} /\ MinimumAtStop \in Nat /\ Minimum <= MinimumAtStop

(* An exit's key: how many of the position's exits were over when it was
   decided (exitRevision) and the trigger; a reverse cross has two forms,
   the pending signal's id and "latched_reverse". *)
Keys == (0..Ordered) \X {"latched", "signal"}

VARIABLES
    \* Venue
    entry,      \* the entry order: still live, quantity filled
    exit,       \* the exit order of each key: status, quantity, filled
    bid,        \* where the bid stands against stop and target
    reverse,    \* a reverse-cross signal is pending
    \* Journal
    decision,   \* status of each exit decision; "acknowledged" is split into
                \* "live" and "final", by the order it was last seen as
    submit,     \* write claims submit:<key>
    cancel,     \* write claim cancel:<entry>
    record,     \* protection record: status, entryFilled, exitedQuantity, trigger
    heartbeat,  \* status of the last protection heartbeat; "healthy" is what
                \* submit() lets an entry through with, "idle" or "watching"
    \* The pass under the lease
    at, by,     \* where it stands, and which handler it is
    key, quantity, \* the exit it prepares
    issue       \* heartbeat.errors is not empty

venue   == <<entry, exit, bid, reverse>>
journal == <<decision, submit, cancel, record, heartbeat>>
pass    == <<at, by, key, quantity, issue>>
vars    == <<venue, journal, pass>>

NoExit == [status |-> "none", quantity |-> 0, filled |-> 0]
NoKey  == <<0, "none">>

Init ==
    /\ entry = [live |-> TRUE, filled |-> 0]
    /\ exit = [k \in Keys |-> NoExit]
    /\ bid = "between"
    /\ reverse = FALSE
    /\ decision = [k \in Keys |-> "none"]
    /\ submit = [k \in Keys |-> "none"]
    /\ cancel = "none"
    /\ record = [status |-> "none", filled |-> 0, exited |-> 0, trigger |-> "none"]
    /\ heartbeat = "none"
    /\ at = "idle" /\ by = "none"
    /\ key = NoKey /\ quantity = 0 /\ issue = FALSE

-----------------------------------------------------------------------------
(* What the account snapshot shows.                                        *)

Sold == SumFunction([k \in Keys |-> exit[k].filled])

(* managedPositions(): confirmed fills only. *)
Held == entry.filled - Sold

Ended    == {k \in Keys : exit[k].status = "final"}
LiveExit == \E k \in Keys : exit[k].status = "live"

(* A write on the asset without source proof; it blocks every other one. *)
Unsettled == cancel = "open" \/ \E k \in Keys : submit[k] = "open"

(* Exits that a read of the venue can find; others may be on their way. *)
Visible == {k \in Keys : exit[k].status \in {"live", "final"}}

(* planExit(): a latched trigger outlives the price that set it. *)
Reason ==
    CASE record.trigger # "none" -> record.trigger
      [] record.trigger = "none" /\ bid = "atStop" -> "stop"
      [] record.trigger = "none" /\ bid = "atTarget" -> "target"
      [] OTHER -> IF reverse /\ by = "cycle" THEN "reverse_cross" ELSE "none"

(* Slip: the key does not change when an exit of the position is over. *)
ExitKeyFixed ==
    <<0, IF Reason = "reverse_cross" /\ reverse /\ by = "cycle"
         THEN "signal" ELSE "latched">>

ExitKey ==
    <<Cardinality(Ended),
      IF Reason = "reverse_cross" /\ reverse /\ by = "cycle" THEN "signal" ELSE "latched">>

-----------------------------------------------------------------------------
(* The end of a pass.                                                      *)

Leave == at' = "idle" /\ by' = "none" /\ key' = NoKey /\ quantity' = 0 /\ issue' = FALSE

(* protectionCycle() reports what it saw; the other handlers have no heartbeat. *)
Report(status) == heartbeat' = IF by = "protect" THEN status ELSE heartbeat

Finish ==
    /\ Leave
    /\ Report(IF issue THEN "blocked" ELSE "healthy")
    /\ UNCHANGED record

(* The watch marks the record of the position that it could not check, and so
   opens again what the same pass may have closed. *)
Blocked ==
    /\ Leave
    /\ Report("blocked")
    /\ record' = IF by = "protect" /\ record.status = "closed"
                 THEN [record EXCEPT !.status = "open"] ELSE record

(* An error before begin(): the pass reports it and gives up. *)
ReadFails ==
    /\ "read" \in Faults
    /\ at \in {"reconciled", "ensured", "latched", "prepared"}
    /\ IF at = "reconciled" THEN Leave /\ Report("blocked") /\ UNCHANGED record ELSE Blocked
    /\ UNCHANGED <<venue, decision, submit, cancel>>

(* The invocation ends, its lease expires, and nobody reports anything.  (Where
   the pass is "ready", that leaves the state that it leaves when "prepared".) *)
Stop ==
    /\ \/ "stop" \in Faults /\ at \in {"reconciled", "ensured", "latched", "settled",
                                       "prepared"}
       \/ "crash" \in Faults /\ at \in {"cancelling", "begun", "rechecked", "claimed", "posted"}
    /\ Leave
    /\ UNCHANGED <<venue, journal>>

-----------------------------------------------------------------------------
(* reconcile(): the orders that the venue shows are recorded, claims with  *)
(* proof are settled, and a record whose position is sold is closed.       *)

(* Slip: the end of an exit closes the record, whatever is left to sell. *)
ClosableByExit == record.status = "open" /\ Ended # {} /\ ~entry.live

Closable == record.status = "open" /\ Held = 0 /\ ~entry.live

(* A read that fails leaves what it would have shown as it was. *)
Reconcile ==
    /\ \E read \in SUBSET Visible :
        /\ read = Visible \/ "lookup" \in Faults
        /\ decision' = [k \in Keys |-> IF k \in read THEN exit[k].status ELSE decision[k]]
        /\ submit' = [k \in Keys |-> IF k \in read THEN "settled" ELSE submit[k]]
    /\ \/ cancel' = IF cancel = "open" /\ ~entry.live THEN "settled" ELSE cancel
       \/ "lookup" \in Faults /\ cancel' = cancel
    /\ record' = IF Closable THEN [record EXCEPT !.status = "closed", !.filled = entry.filled,
                                                 !.exited = Sold]
                 ELSE record

Start(handler) ==
    /\ at = "idle"
    /\ record.status # "closed"
    /\ Reconcile
    /\ at' = "reconciled"
    /\ by' = handler
    /\ issue' = \E k \in Keys : decision'[k] \in {"attempting", "unknown"}
    /\ UNCHANGED <<venue, heartbeat, key, quantity>>

(* Nothing to watch: no entry that could still hold a position. *)
Idle ==
    /\ at = "idle" /\ record.status = "closed"
    /\ heartbeat' = "healthy"
    /\ UNCHANGED <<venue, decision, submit, cancel, record, pass>>

NothingHeld ==
    /\ at = "reconciled" /\ by # "deadline" /\ Held = 0
    /\ Finish
    /\ UNCHANGED <<venue, decision, submit, cancel>>

(* protectionRecord(), for the fills of ensureProtection()'s own snapshot; the
   levels of protectionForFill() and the saved trigger carry over. *)
Protected ==
    [record EXCEPT !.status = "open", !.filled = entry.filled, !.exited = Sold]

Ensure ==
    /\ at = "reconciled" /\ by # "deadline" /\ Held > 0
    /\ record' = Protected
    /\ at' = "ensured"
    /\ UNCHANGED <<venue, decision, submit, cancel, heartbeat, by, key, quantity, issue>>

(* The cycle goes on to its exits with the record that it has. *)
EnsureFails ==
    /\ "read" \in Faults
    /\ at = "reconciled" /\ by = "cycle" /\ Held > 0
    /\ record.status = "open"
    /\ at' = "ensured"
    /\ UNCHANGED <<venue, journal, by, key, quantity, issue>>

-----------------------------------------------------------------------------
(* Deciding to sell: planExit(), then prepareExit() latches the trigger    *)
(* before anything else.                                                   *)

NothingToDo ==
    /\ at = "ensured"
    /\ \/ LiveExit
       \/ Reason = "none"
       \/ decision[ExitKey] # "none"
    /\ Finish
    /\ UNCHANGED <<venue, decision, submit, cancel>>

(* Slip: the trigger is only written when the exit is submitted. *)
LatchLater ==
    /\ at = "ensured"
    /\ ~LiveExit /\ Reason # "none" /\ decision[ExitKey] = "none"
    /\ key' = ExitKey
    /\ at' = "latched"
    /\ UNCHANGED <<venue, journal, by, quantity, issue>>

Latch ==
    /\ at = "ensured"
    /\ ~LiveExit /\ Reason # "none" /\ decision[ExitKey] = "none"
    /\ key' = ExitKey
    /\ record' = [record EXCEPT !.trigger = Reason]
    /\ at' = "latched"
    /\ UNCHANGED <<venue, decision, submit, cancel, heartbeat, by, quantity, issue>>

(* cancelRemainder(), for an exit or at the deadline of the entry. *)
MayCancel ==
    /\ entry.live
    /\ at = "latched" \/ (at = "reconciled" /\ by = "deadline")

(* The deadline goes on to its last step; an exit is given up. *)
CancelIssue ==
    /\ IF by = "deadline" THEN at' = "settled" /\ UNCHANGED <<record, heartbeat, by, key, quantity, issue>>
       ELSE Blocked
    /\ UNCHANGED <<venue, decision, submit, cancel>>

(* One DELETE, claimed once and for all. *)
ClaimCancel ==
    /\ MayCancel
    /\ cancel = "none" /\ ~Unsettled
    /\ cancel' = "open"
    /\ at' = "cancelling"
    /\ UNCHANGED <<venue, decision, submit, record, heartbeat, by, key, quantity, issue>>

CancelPending == MayCancel /\ (cancel # "none" \/ Unsettled) /\ CancelIssue

(* No answer, or an answer that shows the order live: the claim stays open. *)
CancelUnknown == (entry.live \/ "reply" \in Faults) /\ at = "cancelling" /\ CancelIssue

(* The DELETE is acknowledged and the order read back. *)
CancelReply ==
    /\ at = "cancelling"
    /\ ~entry.live
    /\ cancel' = "settled"
    /\ at' = IF by = "deadline" THEN "settled" ELSE "latched"
    /\ UNCHANGED <<venue, decision, submit, record, heartbeat, by, key, quantity, issue>>

(* cancelDeadline() reconciles again and leaves the fill protected, whatever
   became of the rest. *)
DeadlineReconcile ==
    /\ by = "deadline"
    /\ at = "settled" \/ (at = "reconciled" /\ ~entry.live)
    /\ Reconcile
    /\ at' = "protecting"
    /\ UNCHANGED <<venue, heartbeat, by, key, quantity, issue>>

DeadlineOver ==
    /\ at = "protecting"
    /\ record' = IF Held > 0 THEN Protected ELSE record
    /\ Leave
    /\ UNCHANGED <<venue, decision, submit, cancel, heartbeat>>

(* prepareExit() reconciles before it looks at the rest of the position; submit()
   calls it again for the exit it is about to send. *)
PrepareExit ==
    /\ at = "latched" \/ at = "begun"
    /\ ~entry.live
    /\ Reconcile
    /\ at' = IF at = "latched" THEN "prepared" ELSE "rechecked"
    /\ UNCHANGED <<venue, heartbeat, by, key, quantity, issue>>

(* Every other exit decision of the position is recorded as over, with a fill. *)
PriorOver(k) ==
    \A j \in Keys \ {k} : decision[j] # "none" => decision[j] = "final" /\ exit[j].filled > 0

(* minimumQuantity, or what minimumNotional comes to at the bid: the lower the
   bid, the more. *)
Least == IF bid = "atStop" THEN MinimumAtStop ELSE Minimum

(* Slip: the quantity is the entry's, not what is left of it. *)
SellableWhole(q) == q \in Least..entry.filled

(* The rest of the position, or less where the owner reserved some of it or
   the venue has a maximum; never less than the venue takes. *)
Sellable(q) == q \in Least..Held

MayExit ==
    /\ Held > 0 /\ ~entry.live
    /\ ~LiveExit /\ ~Unsettled
    /\ PriorOver(key)

Ready ==
    /\ at = "prepared"
    /\ MayExit
    /\ \E q \in 1..Ordered : Sellable(q) /\ quantity' = q
    /\ at' = "ready"
    /\ UNCHANGED <<venue, journal, by, key, issue>>

(* Something is in doubt, or what is left is less than the venue takes. *)
NotReady ==
    /\ at = "prepared"
    /\ ~MayExit \/ Held < Least
    /\ Blocked
    /\ UNCHANGED <<venue, decision, submit, cancel>>

-----------------------------------------------------------------------------
(* Selling.                                                                *)

Begin ==
    /\ at = "ready"
    /\ decision' = [decision EXCEPT ![key] = "attempting"]
    /\ at' = "begun"
    /\ UNCHANGED <<venue, submit, cancel, record, heartbeat, by, key, quantity, issue>>

Claim ==
    /\ at = "rechecked"
    /\ MayExit /\ Sellable(quantity)
    /\ submit' = [submit EXCEPT ![key] = "open"]
    /\ at' = "claimed"
    /\ UNCHANGED <<venue, decision, cancel, record, heartbeat, by, key, quantity, issue>>

(* Any failure of submit()'s own checks consumes the key: the decision is absent.
   The bid may have fallen to where the quantity is too little. *)
CheckFails ==
    /\ \/ at \in {"begun", "rechecked"} /\ "check" \in Faults
       \/ at = "rechecked" /\ ~(MayExit /\ Sellable(quantity))
    /\ decision' = [decision EXCEPT ![key] = "absent"]
    /\ Blocked
    /\ UNCHANGED <<venue, submit, cancel>>

Post ==
    /\ at = "claimed"
    /\ exit' = [exit EXCEPT ![key] = [status |-> "sent", quantity |-> quantity, filled |-> 0]]
    /\ at' = "posted"
    /\ UNCHANGED <<entry, bid, reverse, journal, by, key, quantity, issue>>

Acknowledged ==
    /\ at = "posted"
    /\ exit[key].status \in {"live", "final"}
    /\ decision' = [decision EXCEPT ![key] = exit[key].status]
    /\ submit' = [submit EXCEPT ![key] = "settled"]
    /\ Finish
    /\ UNCHANGED <<venue, cancel>>

PostUnknown ==
    /\ "reply" \in Faults
    /\ at = "posted"
    /\ decision' = [decision EXCEPT ![key] = "unknown"]
    /\ Blocked
    /\ UNCHANGED <<venue, submit, cancel>>

-----------------------------------------------------------------------------
(* The venue and the market.                                               *)

FillEntry ==
    /\ entry.live /\ entry.filled < Ordered
    /\ entry' = [entry EXCEPT !.filled = @ + 1]
    /\ UNCHANGED <<exit, bid, reverse, journal, pass>>

(* The entry is filled up, cancelled, rejected or expired. *)
EndEntry ==
    /\ entry.live
    /\ entry' = [entry EXCEPT !.live = FALSE]
    /\ UNCHANGED <<exit, bid, reverse, journal, pass>>

AcceptExit(k) ==
    /\ exit[k].status = "sent"
    /\ exit' = [exit EXCEPT ![k].status = "live"]
    /\ UNCHANGED <<entry, bid, reverse, journal, pass>>

FillExit(k) ==
    /\ exit[k].status = "live" /\ exit[k].filled < exit[k].quantity
    /\ exit' = [exit EXCEPT ![k].filled = @ + 1]
    /\ UNCHANGED <<entry, bid, reverse, journal, pass>>

EndExit(k) ==
    /\ exit[k].status = "live"
    /\ exit[k].filled > 0 \/ "reject" \in Faults
    /\ exit' = [exit EXCEPT ![k].status = "final"]
    /\ UNCHANGED <<entry, bid, reverse, journal, pass>>

MoveBid ==
    /\ bid' \in {"atStop", "between", "atTarget"} \ {bid}
    /\ UNCHANGED <<entry, exit, reverse, journal, pass>>

ReverseCross ==
    /\ ~reverse
    /\ reverse' = TRUE
    /\ UNCHANGED <<entry, exit, bid, journal, pass>>

-----------------------------------------------------------------------------
Handler ==
    \/ Start("protect") \/ Start("cycle") \/ (entry.live /\ Start("deadline")) \/ Idle
    \/ NothingHeld \/ Ensure \/ EnsureFails \/ NothingToDo \/ Latch
    \/ ClaimCancel \/ CancelPending \/ CancelReply \/ CancelUnknown
    \/ DeadlineReconcile \/ DeadlineOver
    \/ PrepareExit \/ Ready \/ NotReady \/ Begin \/ Claim \/ Post \/ Acknowledged
    \/ ReadFails \/ Stop

Venue ==
    \/ FillEntry \/ EndEntry \/ MoveBid \/ ReverseCross
    \/ \E k \in Keys : AcceptExit(k) \/ FillExit(k) \/ EndExit(k)

(* An exit that was begun and will not, or may not, be sold, and that no later
   pass repeats. *)
Setback == CheckFails \/ PostUnknown

Next == Handler \/ Setback \/ Venue

Spec == Init /\ [][Next]_vars

(* The alarms of the worker are persistent and start passes for ever.  A pass
   may be killed or fail a read at any of its steps before an exit is begun, but
   not at the same step each time it gets there (SF); after that step it goes on.
   The venue works on what it accepted, the DELETE included.  The bid and the signals owe nothing. *)
Fairness ==
    /\ SF_vars(Start("protect"))
    /\ SF_vars(NothingHeld \/ Ensure)
    /\ SF_vars(NothingToDo \/ Latch)
    /\ SF_vars(ClaimCancel \/ CancelPending \/ PrepareExit)
    /\ SF_vars(Ready \/ NotReady)
    /\ WF_vars(CancelReply \/ CancelUnknown \/ DeadlineReconcile \/ DeadlineOver)
    /\ WF_vars(Begin) /\ WF_vars(Claim) /\ WF_vars(Post) /\ WF_vars(Acknowledged)
    /\ WF_vars(cancel = "open" /\ EndEntry)
    /\ WF_vars(\E k \in Keys : AcceptExit(k)) /\ WF_vars(\E k \in Keys : FillExit(k) \/ EndExit(k))

FairSpec == Spec /\ Fairness

(* Passes that are killed or cannot read, but no setback.  With one minimum at
   every bid, a pass may claim what it has begun, and does not wait for ever. *)
LiveSpec == Init /\ [][Handler \/ Venue]_vars /\ Fairness

-----------------------------------------------------------------------------
(* Correctness.                                                            *)

TypeOK ==
    /\ entry \in [live : BOOLEAN, filled : 0..Ordered]
    /\ exit \in [Keys -> [status : {"none", "sent", "live", "final"},
                         quantity : 0..Ordered, filled : 0..Ordered]]
    /\ bid \in {"atStop", "between", "atTarget"}
    /\ reverse \in BOOLEAN
    /\ decision \in [Keys -> {"none", "attempting", "unknown", "live", "final", "absent"}]
    /\ submit \in [Keys -> {"none", "open", "settled"}]
    /\ cancel \in {"none", "open", "settled"}
    /\ record \in [status : {"none", "open", "closed"}, filled : 0..Ordered,
                   exited : 0..Ordered,
                   trigger : {"none", "stop", "target", "reverse_cross"}]
    /\ heartbeat \in {"none", "healthy", "blocked"}
    /\ at \in {"idle", "reconciled", "ensured", "latched", "cancelling", "settled",
               "protecting", "prepared", "ready", "begun", "rechecked", "claimed", "posted"}
    /\ by \in {"none", "protect", "cycle", "deadline"}
    /\ key \in Keys \cup {NoKey}
    /\ quantity \in 0..Ordered
    /\ issue \in BOOLEAN

(* What an exit may still sell, or has sold. *)
Committed(k) ==
    IF exit[k].status \in {"sent", "live"} THEN exit[k].quantity ELSE exit[k].filled

(* The exits together never ask for more than the entry bought: not the owner's
   own coins on the same asset, not the same coins twice (prepareExit). *)
NeverOversold == SumFunction([k \in Keys |-> Committed(k)]) <= entry.filled

(* An exit is decided on a durable trigger only, so that a restart between the
   decision and the order cannot lose the reason for it (prepareExit). *)
TriggerIsDurable == \A k \in Keys : decision[k] # "none" => record.trigger # "none"

(* A record is closed when the whole fill is sold and no fill can follow
   (reconcile); the watch never looks at it again. *)
ClosedIsSold == record.status = "closed" => Held = 0 /\ ~entry.live

(* The record never runs ahead of the venue: managedPositions() would refuse
   every later account read, and protection with it. *)
RecordBehindVenue == record.filled <= entry.filled /\ record.exited <= Sold

(* An exit that ended without a fill, or whose end nobody has seen, is never
   followed by another one, whichever handler and key asks for it. *)
NoBlindRepeat ==
    \A j, k \in Keys :
        j # k /\ decision[j] # "none" /\ decision[k] # "none" =>
            exit[j].filled > 0 \/ exit[k].filled > 0

(* The first confirmed trigger stays until the position is sold: no rebound, no
   restart, no later trigger and no rewrite of the record replaces it; and no
   step decides an exit before its reason is on record. *)
TriggerKept ==
    [][/\ record.trigger # "none" => record'.trigger = record.trigger
       /\ \A k \in Keys : decision'[k] # "none" => record'.trigger # "none"]_vars

(* Seen from the venue.                                                      *)
PhaseOf(k) ==
    CASE exit[k].status # "none" -> exit[k].status
      [] exit[k].status = "none" /\ submit[k] = "open" -> "authorised"
      [] OTHER -> IF decision[k] = "absent" THEN "refused" ELSE "new"

Once == INSTANCE OrderOnce
    WITH Key <- Keys, Symbol <- {"position"}, SymbolOf <- [k \in Keys |-> "position"],
         phase <- [k \in Keys |-> PhaseOf(k)]

(* Each exit of the position becomes at most one request, and none is authorised
   while another one is in doubt.                                            *)
ImplementsOrderOnce == Once!Spec

(* No exit can follow: at some bid at least, what is left is less than the venue
   takes. *)
Residual ==
    /\ ~entry.live /\ \A k \in Keys : exit[k].status \in {"none", "final"}
    /\ Held \in 1..(MinimumAtStop - 1)

(* A triggered exit continues until the position is sold, or no more of it is
   left than the venue does not take: after a rebound of the price, after killed
   passes, and residual by residual. *)
TriggeredIsSold == record.trigger # "none" ~> record.status = "closed" \/ Residual
=============================================================================
