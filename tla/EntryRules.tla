----------------------------- MODULE EntryRules -----------------------------
(* What an entry may cost (src/src/lib/execution/v1/planner.ts planBuy, costs.ts)
   and what its fills are protected with (protection.ts).  cycle() plans an
   entry from one reading of the account; submit() reads and plans again, and
   only then claims the write and sends: prices move and orders fill before and
   after each of these.  EUR amounts are whole numbers of 1/Unit, so that fees
   are exact, and budgets of 1/(Unit * Parts).  Positions that are not the
   program's, missing or old data and steps of quantities only ever block an
   entry; they are left out.                                                 *)
EXTENDS Integers, FiniteSetsExt, Functions

CONSTANTS Symbol,
          Price,         \* bids, in the venue's finest price
          Spread,        \* ask minus bid
          PriceStep,     \* priceStep
          Book,          \* bid books: sizes <<best, one below>>
          MinimumQuantity,
          Unit, Fee,     \* the fee is Fee/Unit of the notional
          Parts,         \* all limits below are in Parts
          Allocation, MaximumExposure, MaxEntryChase, MaximumRoundTripCost,
          Stop, Target,
          MaximumPositions, Opening,
          MaxEntries     \* bound: entries of the instance

ASSUME EntryAssumption ==
    /\ IsFiniteSet(Symbol) /\ "none" \notin Symbol
    /\ Price \subseteq Nat \ {0} /\ Allocation \subseteq 0..Parts
    /\ {Unit, Parts, PriceStep} \subseteq Nat \ {0}
    /\ {Spread, Fee, Stop, Target, MaximumExposure, MaximumPositions, Opening} \subseteq Nat
    /\ Fee <= Unit

VARIABLES cash,     \* EUR, the reserved included
          bid,      \* by symbol
          held,     \* coins of managed positions
          paid,     \* what the venue charged for them, without fees
          order,    \* open buys at the venue
          level,    \* protection records: levels and what they are for
          reading,  \* what account() answered, until a plan is made from it
          intent,   \* the plan between planBuy() and the POST
          checked,  \* equityEur when submit() planned again; 0 before that
          entries   \* count, for the bound

sending == <<reading, intent, checked, entries>>
vars    == <<cash, bid, held, paid, order, level, sending>>
-----------------------------------------------------------------------------
NoOrder == [limit |-> 0, quantity |-> 0, filled |-> 0, budget |-> 0]
NoLevel == [stop |-> 0, target |-> 0, quantity |-> 0, paid |-> 0]
NoPlan  == [limit |-> 0, quantity |-> 0, budget |-> 0]
Nothing == [symbol |-> "none", plan |-> NoPlan, close |-> 0]
NoReading == [available |-> 0, equity |-> 0, exposure |-> 0, slots |-> {}]

TypeOK ==
    /\ cash \in Int /\ entries \in 0..MaxEntries
    /\ bid \in [Symbol -> Price] /\ held \in [Symbol -> Nat] /\ paid \in [Symbol -> Nat]
    /\ order \in [Symbol -> [limit: Nat, quantity: Nat, filled: Nat, budget: Nat]]
    /\ level \in [Symbol -> [stop: Nat, target: Nat, quantity: Nat, paid: Nat]]
    /\ intent \in [symbol: Symbol \cup {"none"}, plan: [limit: Nat, quantity: Nat, budget: Nat],
                   close: Price \cup {0}]
    /\ reading \in [available: Int, equity: Int, exposure: Int, slots: SUBSET Symbol]
    /\ checked \in Int

Init ==
    /\ cash = Unit * Opening
    /\ reading = NoReading /\ intent = Nothing /\ checked = 0 /\ entries = 0
    /\ bid \in [Symbol -> Price]
    /\ held = [s \in Symbol |-> 0] /\ paid = [s \in Symbol |-> 0]
    /\ order = [s \in Symbol |-> NoOrder] /\ level = [s \in Symbol |-> NoLevel]
-----------------------------------------------------------------------------
CeilDiv(a, b) == (a + b - 1) \div b
UpTo(a, step) == CeilDiv(a, step) * step

Cost(q, p) == q * p * (Unit + Fee)
Open(s)    == order[s] # NoOrder
Rest(o)    == o.quantity - o.filled
Over(f)    == SumFunction(f)

(* Account.availableEur, equityEur, marketValueEur *)
Available == cash - Over([s \in Symbol |-> Cost(Rest(order[s]), order[s].limit)])
Value(s)  == held[s] * bid[s] * Unit
Worth     == Over([s \in Symbol |-> Value(s)])
Equity    == cash + Worth

(* ownedOrder(): the share of the budget that is not filled. *)
RemainingBudget(o) == IF o = NoOrder THEN 0 ELSE (o.budget * Rest(o)) \div o.quantity

(* The whole of every position, and of every open buy the unfilled rest. *)
Exposure == Parts * Worth + Over([s \in Symbol |-> RemainingBudget(order[s])])

Slots == {s \in Symbol : held[s] > 0 \/ Open(s)}

(* exitDepthValue(): what a sale of q takes from the book at once. *)
DepthValue(q, p, depth) ==
    LET best == Min({q, depth[1]}) IN Unit * (best * p + (q - best) * (p - 1))

RoundTrip(q, limit, p, depth) ==
    q * limit * Fee + q * p * Fee
        + q * (limit - p) * Unit + (q * p * Unit - DepthValue(q, p, depth))

(* account(): its balances and orders agree, or they block an entry; the prices
   of its positions may be those of any moment. *)
Read ==
    /\ reading = NoReading /\ checked = 0 /\ entries < MaxEntries
    /\ reading' = [available |-> Available, equity |-> Equity, exposure |-> Exposure, slots |-> Slots]
    /\ UNCHANGED <<cash, bid, held, paid, order, level, intent, checked, entries>>

(* planBuy() for a signal of s that closed at "close", from an account a and the
   book of s as it is now; NoPlan if anything blocks it. *)
Plan(a, s, share, close, depth) ==
    LET budget   == Min({a.available * share, a.equity * MaximumExposure - a.exposure})
        limit    == UpTo(bid[s] + Spread, PriceStep)
        quantity == IF budget > 0 THEN budget \div (Cost(1, limit) * Parts) ELSE 0
    IN  IF /\ s \notin a.slots
           /\ Cardinality(a.slots) < MaximumPositions
           /\ a.equity > 0
           /\ Parts * limit <= close * (Parts + MaxEntryChase)
           /\ quantity > 0 /\ quantity >= MinimumQuantity
           /\ quantity <= depth[1] + depth[2]
           /\ Parts * RoundTrip(quantity, limit, bid[s], depth)
                 <= MaximumRoundTripCost * quantity * limit * Unit
        THEN [limit |-> limit, quantity |-> quantity, budget |-> budget]
        ELSE NoPlan

(* cycle(): an entry is planned for a pending signal. *)
Decide(s, share, close, depth) ==
    /\ intent = Nothing /\ reading # NoReading
    /\ Plan(reading, s, share, close, depth) # NoPlan
    /\ intent' = [symbol |-> s, plan |-> Plan(reading, s, share, close, depth), close |-> close]
    /\ reading' = NoReading
    /\ UNCHANGED <<cash, bid, held, paid, order, level, checked, entries>>

(* Slip: what the cycle planned is sent as it is. *)
StillPlannedBlind(plan) == TRUE

StillPlanned(plan) ==
    plan.quantity = intent.plan.quantity /\ plan.limit = intent.plan.limit

(* submit(): the plan is made again, and one that differs is not sent. *)
Check(share, depth) ==
    /\ intent # Nothing /\ reading # NoReading
    /\ StillPlanned(Plan(reading, intent.symbol, share, intent.close, depth))
    /\ checked' = reading.equity
    /\ reading' = NoReading
    /\ UNCHANGED <<cash, bid, held, paid, order, level, intent, entries>>

(* submit(): once the watch is scheduled and the write is claimed, the POST. *)
Post ==
    /\ checked # 0
    /\ order' = [order EXCEPT ![intent.symbol] =
          [limit |-> intent.plan.limit, quantity |-> intent.plan.quantity, filled |-> 0,
           budget |-> intent.plan.budget]]
    /\ intent' = Nothing /\ checked' = 0 /\ entries' = entries + 1
    /\ UNCHANGED <<cash, bid, held, paid, level, reading>>

(* Nothing is planned, or a check, a read or the claim fails. *)
Refuse ==
    /\ intent # Nothing \/ reading # NoReading
    /\ reading' = NoReading /\ intent' = Nothing /\ checked' = 0
    /\ UNCHANGED <<cash, bid, held, paid, order, level, entries>>
-----------------------------------------------------------------------------
(* The venue, the market and what ends a position.                           *)

Move(s, p) ==
    /\ p # bid[s]
    /\ bid' = [bid EXCEPT ![s] = p]
    /\ UNCHANGED <<cash, held, paid, order, level, sending>>

Fill(s, n, p) ==
    /\ n <= Rest(order[s]) /\ p <= order[s].limit
    /\ cash' = cash - Cost(n, p)
    /\ held' = [held EXCEPT ![s] = @ + n]
    /\ paid' = [paid EXCEPT ![s] = @ + n * p]
    /\ order' = IF Rest(order[s]) = n THEN [order EXCEPT ![s] = NoOrder]
                                     ELSE [order EXCEPT ![s].filled = @ + n]
    /\ UNCHANGED <<bid, level, sending>>

(* The deadline cancels what is left of an entry. *)
Cancel(s) ==
    /\ Open(s)
    /\ order' = [order EXCEPT ![s] = NoOrder]
    /\ UNCHANGED <<cash, bid, held, paid, level, sending>>

(* Slip: the stop is rounded to the step below. *)
StopForDown(q, total) == ((total * (Parts - Stop)) \div (q * Parts * PriceStep)) * PriceStep

(* protectionForFill(): levels of an average price of total/q. *)
StopFor(q, total) == UpTo(CeilDiv(total * (Parts - Stop), q * Parts), PriceStep)
TargetFor(q, total) == UpTo(CeilDiv(total * (Parts + Target), q * Parts), PriceStep)

Protect(s) ==
    LET stop   == Max({StopFor(held[s], paid[s]), level[s].stop})
        target == TargetFor(held[s], paid[s])
    IN  /\ held[s] > 0
        /\ <<held[s], paid[s]>> # <<level[s].quantity, level[s].paid>>
        /\ stop < target
        /\ level' = [level EXCEPT ![s] =
              [stop |-> stop, target |-> target, quantity |-> held[s], paid |-> paid[s]]]
        /\ UNCHANGED <<cash, bid, held, paid, order, sending>>

(* planExit() and the sale, which waits for the end of the entry. *)
Sell(s) ==
    /\ level[s] # NoLevel /\ ~Open(s)
    /\ bid[s] <= level[s].stop \/ bid[s] >= level[s].target
    /\ cash' = cash + held[s] * bid[s] * (Unit - Fee)
    /\ held' = [held EXCEPT ![s] = 0] /\ paid' = [paid EXCEPT ![s] = 0]
    /\ level' = [level EXCEPT ![s] = NoLevel]
    /\ UNCHANGED <<bid, order, sending>>

Next ==
    \/ \E s \in Symbol, share \in Allocation, close \in Price, d \in Book : Decide(s, share, close, d)
    \/ \E share \in Allocation, d \in Book : Check(share, d)
    \/ Read \/ Post \/ Refuse
    \/ \E s \in Symbol :
        \/ \E p \in Price : Move(s, p)
        \/ \E n \in 1..Rest(order[s]), p \in {order[s].limit - 1, order[s].limit} : Fill(s, n, p)
        \/ Cancel(s) \/ Protect(s) \/ Sell(s)

Spec == Init /\ [][Next]_vars
-----------------------------------------------------------------------------
(* When an entry reaches the venue, what it and the other open buys leave of the
   cash, with their fees, is at least the part beyond the exposure limit of the
   account's value as submit() last read it, in at most MaximumPositions
   symbols: although it was planned earlier, and whatever moved, was filled,
   cancelled or sold since the reading. *)
EntriesFit ==
    [][entries' # entries =>
        /\ Parts * (checked - Available') <= MaximumExposure * checked
        /\ Cardinality(Slots') <= MaximumPositions
        /\ Available' >= 0]_vars

(* A stop accepts no greater loss than Stop of the average price the coins were
   filled at, it lies below the target, and further fills never lower it. *)
LossAccepted ==
    \A s \in Symbol : level[s] # NoLevel =>
        /\ Parts * level[s].stop * level[s].quantity >= (Parts - Stop) * level[s].paid
        /\ level[s].stop < level[s].target

StopsRise == \A s \in Symbol : level'[s] = NoLevel \/ level'[s].stop >= level[s].stop

StopsProtect == [][LossAccepted' /\ StopsRise]_vars
=============================================================================
