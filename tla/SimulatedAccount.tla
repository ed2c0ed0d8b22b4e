------------------------- MODULE SimulatedAccount -------------------------
(* The isolated simulated account (src/src/lib/services.ts): the balances row
   holds totals only, what is reserved is computed from the orders that are
   partly filled.  Every order is settled in one transaction that locks the
   row.  EUR amounts are whole numbers of 1/Unit, so that a fee of Fee/Unit of
   an amount is exact.                                                       *)
EXTENDS Integers, Functions

CONSTANTS Id,      \* intents, each submitted any number of times
          Coin,    \* base currencies; every market quotes EUR
          Price,   \* prices of a market, positive as the amounts
          Amount,  \* quantities of a draft, even so that a half is exact
          Opening, \* EUR the account starts with (10000)
          Unit, Fee

VARIABLES total,  \* simulation:balances
          filed   \* simulation:order:<id>

vars == <<total, filed>>
-----------------------------------------------------------------------------
Currency == Coin \cup {"EUR"}
None     == [status |-> "none"]
Draft    == [coin: Coin, side: {"buy", "sell"}, quantity: Amount]
Filed    == [coin: Coin, side: {"buy", "sell"}, quantity: Amount, price: Price,
             filled: 0..20, status: {"FILLED", "PARTIALLY_FILLED"}]

TypeOK ==
    /\ total \in [Currency -> Int]
    /\ filed \in [Id -> Filed \cup {None}]

Init ==
    /\ total = [c \in Currency |-> IF c = "EUR" THEN Unit * Opening ELSE 0]
    /\ filed = [i \in Id |-> None]
-----------------------------------------------------------------------------
Cost(q, p)     == q * p * (Unit + Fee)
Proceeds(q, p) == q * p * (Unit - Fee)

(* What an order holds of currency c: the rest of a buy at its price with the
   fee, the rest of a sell in coins. *)
Held(o, c) ==
    LET rest == o.quantity - o.filled
    IN  IF o.status # "PARTIALLY_FILLED" THEN 0
        ELSE IF o.side = "buy" THEN IF c = "EUR" THEN Cost(rest, o.price) ELSE 0
        ELSE IF c = o.coin THEN rest ELSE 0

OnFile == {i \in Id : filed[i] # None}

(* lockedSimulationBalances: reservations of all partly filled orders. *)
Reserved(c) == SumFunction([i \in OnFile |-> Held(filed[i], c)])

(* simulationOrder: everything, or half of it, is filled at once. *)
Order(d, p, status) ==
    [coin |-> d.coin, side |-> d.side, quantity |-> d.quantity, price |-> p, status |-> status,
     filled |-> IF status = "FILLED" THEN d.quantity ELSE d.quantity \div 2]

Moved(o, c) ==
    CASE c = "EUR"  -> IF o.side = "buy" THEN -Cost(o.filled, o.price) ELSE Proceeds(o.filled, o.price)
      [] c = o.coin -> IF o.side = "buy" THEN o.filled ELSE -o.filled
      [] OTHER      -> 0

(* Slip: the balances are compared without what is reserved. *)
AffordableTotal(o) ==
    \A c \in {"EUR", o.coin} : total[c] + Moved(o, c) >= 0

Affordable(o) ==
    \A c \in {"EUR", o.coin} :
        /\ total[c] + Moved(o, c) >= 0
        /\ total[c] + Moved(o, c) - Reserved(c) - Held(o, c) >= 0

(* submit() of a simulated draft: an id that is on file is answered from file,
   also when the first answer was lost ("unknown"). *)
Settle(i, d, p, status) ==
    LET o == Order(d, p, status)
    IN  /\ filed[i] = None /\ Affordable(o)
        /\ filed' = [filed EXCEPT ![i] = o]
        /\ total' = [c \in Currency |-> total[c] + Moved(o, c)]

Next ==
    \E i \in Id, d \in Draft, p \in Price, status \in {"FILLED", "PARTIALLY_FILLED"} :
        Settle(i, d, p, status)

Spec == Init /\ [][Next]_vars
-----------------------------------------------------------------------------
(* No simulated order spends what another one holds: in every currency the
   total covers all reservations, and it is what the filled quantities and
   fees of all orders make of the opening balance. *)
Solvent ==
    \A c \in Currency :
        /\ total[c] >= Reserved(c)
        /\ total[c] = (IF c = "EUR" THEN Unit * Opening ELSE 0)
               + SumFunction([i \in OnFile |-> Moved(filed[i], c)])
=============================================================================
