---------------------------- MODULE SourceAccount ----------------------------
(* What ConnectedRevolutVenue.account() makes of answers that it collects one
   after another while orders fill: the managed quantity, and the result of the
   closed trade that the limits of risk go by (accounting.ts
   sourceTradeResults).  One entry, order 0, and the exits of its position, of
   which ManagedProtection lets one begin when the one before has ended.  A fee
   is taken in EUR or in coins, and the venue may not disclose it.           *)
EXTENDS Integers, Functions

CONSTANTS
    Exits,      \* number of exits
    Ordered,    \* coins of the entry
    Price,
    FeeEur,     \* of a fill
    FeeCoins,   \* of an order
    Own         \* coins of the owner's own in the same balance

VARIABLES
    order,      \* at the venue
    decision,   \* DecisionRecord.status, "none" before begin()
    saved,      \* DecisionRecord.source
    reader,     \* the reading under way
    account     \* what the last reading returned

vars == <<order, decision, saved, reader, account>>
-----------------------------------------------------------------------------
Order   == 0..Exits
Exit    == 1..Exits
NoOrder == [st |-> "none", size |-> 0, filled |-> 0, quote |-> 0, fee |-> "eur", eur |-> 0, coins |-> 0]

Ended(o) == o.st \in {"filled", "cancelled"}

(* What left the position: exits, and every fee that was taken in coins.     *)
Sold(rows) == rows[0].coins + SumFunction([o \in Exit |-> rows[o].filled + rows[o].coins])
Left(rows) == rows[0].filled - Sold(rows)

Coins == Own + Left(order)

NoTrade == [traded |-> FALSE, known |-> FALSE, net |-> 0]
Idle    == [at |-> "idle", coins |-> 0, rows |-> [o \in Order |-> NoOrder], gone |-> {}, closed |-> FALSE]

Init ==
    /\ order = [o \in Order |-> NoOrder] /\ saved = [o \in Order |-> NoOrder]
    /\ decision = [o \in Order |-> "none"]
    /\ reader = Idle
    /\ account = [complete |-> FALSE, result |-> NoTrade, closed |-> FALSE]
-----------------------------------------------------------------------------
(* The venue, at any time.                                                   *)

Accept(o) ==
    /\ decision[o] = "attempting" /\ order[o] = NoOrder
    /\ \E fee \in {"eur", "coins", "hidden"} :
        order' = [order EXCEPT ![o] = [NoOrder EXCEPT !.st = "open", !.fee = fee,
                    !.size = IF o = 0 THEN Ordered ELSE Left(order)]]
    /\ UNCHANGED <<decision, saved, reader, account>>

Fill(o, n, p) ==
    LET this    == order[o]
        charged == IF this.fee = "coins" /\ this.coins = 0 THEN FeeCoins ELSE 0
    IN  /\ this.st = "open" /\ this.filled + n <= this.size
        /\ IF o = 0 THEN charged <= n ELSE n + charged <= Coins
        /\ order' = [order EXCEPT ![o] =
              [this EXCEPT !.st = IF this.filled + n = this.size THEN "filled" ELSE "open",
                        !.filled = @ + n, !.quote = @ + n * p, !.coins = @ + charged,
                        !.eur = IF this.fee = "coins" THEN 0 ELSE @ + FeeEur]]
        /\ UNCHANGED <<decision, saved, reader, account>>

End(o) ==
    /\ order[o].st = "open"
    /\ order' = [order EXCEPT ![o].st = "cancelled"]
    /\ UNCHANGED <<decision, saved, reader, account>>

(* The journal, under the lease that a reading holds as well.                *)

Begin(o) ==
    /\ reader = Idle /\ decision[o] = "none"
    /\ o > 0 => /\ decision[o - 1] = "acknowledged" /\ Ended(saved[o - 1])
                /\ saved[o - 1].filled > 0 /\ Left(saved) > 0
    /\ decision' = [decision EXCEPT ![o] = "attempting"]
    /\ UNCHANGED <<order, saved, reader, account>>

Refuse(o) ==
    /\ reader = Idle /\ decision[o] = "attempting" /\ order[o] = NoOrder
    /\ decision' = [decision EXCEPT ![o] = "absent"]
    /\ UNCHANGED <<order, saved, reader, account>>

Acknowledge(o) ==
    /\ reader = Idle /\ decision[o] \in {"attempting", "acknowledged"}
    /\ order[o] # NoOrder /\ saved[o] # order[o]
    /\ decision' = [decision EXCEPT ![o] = "acknowledged"]
    /\ saved' = [saved EXCEPT ![o] = order[o]]
    /\ UNCHANGED <<order, reader, account>>
-----------------------------------------------------------------------------
(* sourceTradeResults(): every decision that is not absent needs its order.  *)

Tried == {o \in Order : decision[o] \notin {"none", "absent"}}

Complete(rows) ==
    0 \in Tried => /\ decision[0] = "acknowledged"
                   /\ rows[0].filled > 0 => \A o \in Tried : decision[o] = "acknowledged"

Traded(rows) ==
    /\ 0 \in Tried /\ Complete(rows)
    /\ rows[0].filled > 0 /\ Left(rows) = 0
    /\ \A o \in Tried : Ended(rows[o])

(* Slip: a fee that is not disclosed is none.                                *)
CostsAssumed(rows) == TRUE

CostsKnown(rows) == \A o \in Order : rows[o].filled > 0 => rows[o].fee # "hidden"

(* A fee in coins is in the quantities already.                              *)
InEur(row) == IF row.fee = "eur" THEN row.eur ELSE 0

Net(rows) == SumFunction([o \in Exit |-> rows[o].quote - InEur(rows[o])]) - rows[0].quote - InEur(rows[0])

Result(rows) ==
    [traded |-> Traded(rows), known |-> Traded(rows) /\ CostsKnown(rows),
     net |-> IF Traded(rows) THEN Net(rows) ELSE 0]
-----------------------------------------------------------------------------
(* account(): balances, the list of orders, details of those that filled.    *)

Closed(rows) ==
    /\ rows[0].filled > 0 /\ Left(rows) = 0
    /\ \A o \in Order : rows[o] = NoOrder \/ Ended(rows[o])

ReadBalances ==
    /\ reader = Idle
    /\ reader' = [Idle EXCEPT !.at = "orders", !.coins = Coins]
    /\ UNCHANGED <<order, decision, saved, account>>

(* A row of the list may leave out the fee, and an order that ended and is
   saved may have left the list. *)
Row(o) == IF o.fee = "coins" THEN [o EXCEPT !.fee = "hidden", !.coins = 0] ELSE o

ReadOrders ==
    /\ reader.at = "orders"
    /\ \E gone \in SUBSET {o \in Order : Ended(saved[o])} :
        reader' = [reader EXCEPT !.at = "details", !.gone = gone, !.closed = Closed(order),
                     !.rows = [o \in Order |-> IF o \in gone THEN saved[o] ELSE Row(order[o])]]
    /\ UNCHANGED <<order, decision, saved, account>>

Detailed(rows) == [o \in Order |-> IF rows[o].filled > 0 THEN order[o] ELSE rows[o]]

(* managedPositions(): more sold than bought, or more left than the balance
   holds, is a contradiction. *)
Consistent(rows) == Left(rows) >= 0 /\ Left(rows) <= reader.coins

ReadDetails ==
    /\ reader.at = "details"
    /\ LET rows == Detailed(reader.rows)
       IN  reader' = IF Consistent(rows) THEN [reader EXCEPT !.at = "fills", !.rows = rows] ELSE Idle
    /\ UNCHANGED <<order, decision, saved, account>>

(* verifySourceFills(): every order that filled is read again with its fills,
   and must be what it was.  That it ended meanwhile shows in the time of its
   last change, which has whole seconds. *)
Same(o, row) == [o EXCEPT !.st = row.st] = row

Matched(rows) == \A o \in Order : rows[o].filled > 0 => Same(order[o], rows[o])

Return(matched) ==
    /\ reader.at = "fills"
    /\ matched => Matched(reader.rows)
    /\ account' = [complete |-> matched /\ Complete(reader.rows), closed |-> reader.closed,
                   result |-> IF matched THEN Result(reader.rows)
                              ELSE [Result(reader.rows) EXCEPT !.known = FALSE, !.net = 0]]
    /\ reader' = Idle
    /\ UNCHANGED <<order, decision, saved>>

(* Another call fails: the cycle goes no further.                            *)
ReadFails ==
    /\ reader # Idle
    /\ reader' = Idle
    /\ UNCHANGED <<order, decision, saved, account>>

Next ==
    \/ \E o \in Order : \/ Accept(o) \/ End(o) \/ Begin(o) \/ Refuse(o) \/ Acknowledge(o)
                        \/ \E n \in 1..Ordered, p \in Price : Fill(o, n, p)
    \/ ReadBalances \/ ReadOrders \/ ReadDetails \/ ReadFails
    \/ \E matched \in BOOLEAN : Return(matched)

Spec == Init /\ [][Next]_vars
-----------------------------------------------------------------------------
(* What the position has brought in or cost at the venue, all fees paid.     *)
Cash == SumFunction([o \in Exit |-> order[o].quote - order[o].eur]) - order[0].quote - order[0].eur

(* A complete history has no trade too few or too many: the trade that had
   closed when the orders were read is in it, one that is in it has nothing
   left that could change it at the venue, then or later, and where its result
   is stated, that is the cash it moved, whatever fees were taken in.        *)
TradesAreCash ==
    account.complete =>
        /\ account.closed => account.result.traded
        /\ account.result.traded => Closed(order)
        /\ account.result.known => account.result.net = Cash
=============================================================================
