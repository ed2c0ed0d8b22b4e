--------------------------- MODULE Strategy_proofs ---------------------------
(* Theorems about what decides and accounts for a trade, for every value of the
   constants: EntryRules (what stops accept and what an entry may cost),
   SourceAccount (results), ScanCycle (candles), RiskRules (the day's loss and
   the peak of a share) and PaperPair (trials).                              *)
EXTENDS MCStrategy, SumTheorems

-----------------------------------------------------------------------------
(* Rounding up.                                                              *)

LEMMA CeilDivIsUp ==
    ASSUME NEW u \in Int, NEW v \in Nat \ {0}
    PROVE  CeilDiv(u, v) \in Int /\ CeilDiv(u, v) * v >= u
BY DEF CeilDiv

LEMMA UpToIsUp ==
    ASSUME NEW u \in Int, NEW v \in Nat \ {0}
    PROVE  UpTo(u, v) \in Int /\ UpTo(u, v) >= u
BY CeilDivIsUp DEF UpTo

LEMMA ProductRises ==
    ASSUME NEW u \in Int, NEW v \in Int, NEW w \in Nat, u >= v
    PROVE  u * w >= v * w
OBVIOUS

LEMMA ProductPositive ==
    ASSUME NEW u \in Nat \ {0}, NEW v \in Nat \ {0}
    PROVE  u * v \in Nat \ {0}
OBVIOUS

(* A stop of protectionForFill() keeps all but the share Stop of what was paid. *)
LEMMA StopAccepts ==
    ASSUME NEW q \in Nat \ {0}, NEW total \in Int
    PROVE  /\ StopFor(q, total) \in Int
           /\ StopFor(q, total) * (q * Parts) >= total * (Parts - Stop)
<1> DEFINE worth == total * (Parts - Stop)
           exact == CeilDiv(worth, q * Parts)
<1>1. q * Parts \in Nat \ {0}
  BY ProductPositive, EntryAssumption
<1>2. worth \in Int
  BY EntryAssumption
<1> HIDE DEF worth
<1>3. exact \in Int /\ exact * (q * Parts) >= worth
  BY <1>1, <1>2, CeilDivIsUp
<1> HIDE DEF exact
<1>4. UpTo(exact, PriceStep) \in Int /\ UpTo(exact, PriceStep) >= exact
  BY <1>3, UpToIsUp, EntryAssumption
<1>5. UpTo(exact, PriceStep) * (q * Parts) >= exact * (q * Parts)
  BY <1>1, <1>3, <1>4, ProductRises
<1>6. UpTo(exact, PriceStep) * (q * Parts) >= worth
  <2> DEFINE m == q * Parts
  <2>1. m \in Nat /\ exact * m \in Int /\ UpTo(exact, PriceStep) * m \in Int
    BY <1>1, <1>3, <1>4
  <2> QED
    BY <1>2, <1>3, <1>5, <2>1
<1>7. StopFor(q, total) = UpTo(exact, PriceStep)
  BY DEF StopFor, exact, worth
<1> QED
  BY <1>4, <1>6, <1>7 DEF worth

(* Max of FiniteSetsExt, for a new level and the one before.                 *)
LEMMA MaxOfTwo ==
    ASSUME NEW u \in Int, NEW v \in Int
    PROVE  Max({u, v}) \in Int /\ Max({u, v}) >= u /\ Max({u, v}) >= v
<1>1. \E m \in {u, v} : \A n \in {u, v} : m >= n
  OBVIOUS
<1>2. Max({u, v}) \in {u, v} /\ \A n \in {u, v} : Max({u, v}) >= n
  BY <1>1 DEF Max
<1> QED
  BY <1>2

-----------------------------------------------------------------------------
(* What the stops depend on.                                                 *)
Shape ==
    /\ bid \in [Symbol -> Int] /\ held \in [Symbol -> Int] /\ paid \in [Symbol -> Int]
    /\ level \in [Symbol -> [stop: Int, target: Int, quantity: Int, paid: Int]]
    /\ order = [s \in Symbol |-> order[s]]
    /\ \A s \in Symbol : order[s].limit \in Int /\ DOMAIN order[s] = DOMAIN NoOrder
    /\ intent.plan.limit \in Int

IInv == Shape /\ LossAccepted

LEMMA InitInvariant == ASSUME Init PROVE IInv
<1>1. bid \in [Symbol -> Int]
  <2>1. bid \in [Symbol -> Price] /\ Price \subseteq Int
    BY EntryAssumption DEF Init
  <2> QED
    BY <2>1
<1>2. /\ held \in [Symbol -> Int] /\ paid \in [Symbol -> Int]
      /\ level \in [Symbol -> [stop: Int, target: Int, quantity: Int, paid: Int]]
  BY DEF Init, NoLevel
<1>3. order = [s \in Symbol |-> order[s]] /\ \A s \in Symbol : order[s].limit \in Int /\ DOMAIN order[s] = DOMAIN NoOrder
  BY DEF Init, NoOrder
<1>4. intent.plan.limit \in Int
  BY DEF Init, Nothing, NoPlan
<1>5. LossAccepted
  BY DEF Init, LossAccepted
<1> QED
  BY <1>1, <1>2, <1>3, <1>4, <1>5 DEF IInv, Shape

LEMMA PlanLimit ==
    ASSUME IInv, NEW known, NEW s \in Symbol, NEW share, NEW close, NEW depth
    PROVE  Plan(known, s, share, close, depth).limit \in Int
<1>1. UpTo(bid[s] + Spread, PriceStep) \in Int
  <2>1. bid[s] + Spread \in Int /\ PriceStep \in Nat \ {0}
    BY EntryAssumption DEF IInv, Shape
  <2> QED
    BY <2>1, UpToIsUp
<1> QED
  BY <1>1 DEF Plan, NoPlan

(* Steps that leave what is held, its cost and its levels alone.             *)
LEMMA OrderingKeeps ==
    ASSUME IInv,
           \/ \E s \in Symbol, share \in Allocation, close \in Price, d \in Book : Decide(s, share, close, d)
           \/ \E share \in Allocation, d \in Book : Check(share, d)
           \/ Read \/ Post \/ Refuse
           \/ \E s \in Symbol : Cancel(s) \/ \E p \in Price : Move(s, p)
    PROVE  IInv' /\ UNCHANGED level
<1>1. UNCHANGED <<held, paid, level>>
  BY DEF Decide, Check, Read, Post, Refuse, Cancel, Move
<1>2. bid' \in [Symbol -> Int]
  BY EntryAssumption DEF Decide, Check, Read, Post, Refuse, Cancel, Move, IInv, Shape
<1>3. intent'.plan.limit \in Int
  <2>1. CASE intent' = intent \/ intent' = Nothing
    BY <2>1 DEF IInv, Shape, Nothing, NoPlan
  <2>2. ASSUME NEW s \in Symbol, NEW share, NEW close, NEW d, Decide(s, share, close, d)
        PROVE  intent'.plan.limit \in Int
    BY <2>2, PlanLimit DEF Decide
  <2> QED
    BY <2>1, <2>2 DEF Check, Read, Post, Refuse, Cancel, Move, sending
<1>4. /\ order' = [s \in Symbol |-> order'[s]]
      /\ \A s \in Symbol : order'[s].limit \in Int /\ DOMAIN order'[s] = DOMAIN NoOrder
  <2>1. CASE order' = order
    BY <2>1 DEF IInv, Shape
  <2>2. ASSUME NEW s, NEW o, o.limit \in Int, DOMAIN o = DOMAIN NoOrder, order' = [order EXCEPT ![s] = o]
        PROVE  <1>4
    BY <2>2 DEF IInv, Shape
  <2>3. ASSUME NEW s \in Symbol, Cancel(s) PROVE <1>4
    <3>1. NoOrder.limit \in Int
      BY DEF NoOrder
    <3>2. order' = [order EXCEPT ![s] = NoOrder]
      BY <2>3 DEF Cancel
    <3> QED
      BY <3>1, <3>2, <2>2
  <2>4. CASE Post
    BY <2>4, <2>2 DEF Post, IInv, Shape, NoOrder
  <2> QED
    BY <2>1, <2>3, <2>4 DEF Decide, Check, Read, Refuse, Move
<1> QED
  BY <1>1, <1>2, <1>3, <1>4 DEF IInv, Shape, LossAccepted

LEMMA FillKeeps ==
    ASSUME IInv, NEW s \in Symbol, NEW n \in Int,
           NEW p \in {order[s].limit - 1, order[s].limit}, Fill(s, n, p)
    PROVE  IInv' /\ UNCHANGED level
<1>1. /\ UNCHANGED <<bid, level, intent>>
      /\ held' = [held EXCEPT ![s] = @ + n] /\ paid' = [paid EXCEPT ![s] = @ + n * p]
      /\ order' = IF Rest(order[s]) = n THEN [order EXCEPT ![s] = NoOrder]
                                       ELSE [order EXCEPT ![s].filled = @ + n]
  BY DEF Fill, sending
<1>2. p \in Int
  BY DEF IInv, Shape
<1>3. n * p \in Int
  BY <1>2
<1>4. held' \in [Symbol -> Int] /\ paid' \in [Symbol -> Int]
  BY <1>1, <1>3 DEF IInv, Shape
<1>5. /\ order' = [t \in Symbol |-> order'[t]]
      /\ \A t \in Symbol : order'[t].limit \in Int /\ DOMAIN order'[t] = DOMAIN NoOrder
  <2> DEFINE left == IF Rest(order[s]) = n THEN NoOrder
                                           ELSE [order[s] EXCEPT !.filled = @ + n]
  <2>1. order' = [order EXCEPT ![s] = left]
    BY <1>1, Zenon DEF IInv, Shape
  <2>2. left.limit \in Int /\ DOMAIN left = DOMAIN NoOrder
    <3>1. NoOrder.limit \in Int /\ "limit" \in DOMAIN NoOrder
      BY DEF NoOrder
    <3>2. order[s].limit \in Int /\ DOMAIN order[s] = DOMAIN NoOrder
      BY DEF IInv, Shape
    <3> QED
      BY <3>1, <3>2
  <2> HIDE DEF left
  <2> QED
    BY <2>1, <2>2 DEF IInv, Shape
<1> QED
  BY <1>1, <1>4, <1>5 DEF IInv, Shape, LossAccepted

LEMMA ProtectKeeps ==
    ASSUME IInv, NEW s \in Symbol, Protect(s)
    PROVE  IInv' /\ StopsRise
<1> DEFINE stop == Max({StopFor(held[s], paid[s]), level[s].stop})
           target == TargetFor(held[s], paid[s])
<1>1. /\ held[s] > 0 /\ stop < target /\ UNCHANGED <<bid, held, paid, order, intent>>
      /\ level' = [level EXCEPT ![s] =
            [stop |-> stop, target |-> target, quantity |-> held[s], paid |-> paid[s]]]
  BY DEF Protect, sending
<1>2. held[s] \in Nat \ {0} /\ paid[s] \in Int /\ level[s].stop \in Int
  BY <1>1 DEF IInv, Shape
<1>3. /\ StopFor(held[s], paid[s]) \in Int
      /\ StopFor(held[s], paid[s]) * (held[s] * Parts) >= paid[s] * (Parts - Stop)
  BY <1>2, StopAccepts
<1>4. stop \in Int /\ stop >= StopFor(held[s], paid[s]) /\ stop >= level[s].stop
  BY <1>2, <1>3, MaxOfTwo
<1>5. target \in Int
  <2>1. held[s] * Parts \in Nat \ {0} /\ paid[s] * (Parts + Target) \in Int
    BY <1>2, ProductPositive, EntryAssumption
  <2>2. CeilDiv(paid[s] * (Parts + Target), held[s] * Parts) \in Int
    BY <2>1, CeilDivIsUp
  <2> QED
    BY <2>2, UpToIsUp, EntryAssumption DEF TargetFor
<1> HIDE DEF stop, target
<1>6. Parts * stop * held[s] >= (Parts - Stop) * paid[s]
  <2> DEFINE m == held[s] * Parts
             least == StopFor(held[s], paid[s])
  <2>1. m \in Nat
    BY <1>2, ProductPositive, EntryAssumption
  <2>2. least \in Int /\ stop >= least /\ least * m >= paid[s] * (Parts - Stop)
    BY <1>3, <1>4
  <2> HIDE DEF least
  <2>3. stop * m >= least * m
    BY <1>4, <2>1, <2>2, ProductRises
  <2>4. stop * m = Parts * stop * held[s] /\ paid[s] * (Parts - Stop) = (Parts - Stop) * paid[s]
    BY <1>2, <1>4, EntryAssumption
  <2>5. stop * m \in Int /\ least * m \in Int /\ paid[s] * (Parts - Stop) \in Int
    BY <1>2, <1>4, <2>1, <2>2, EntryAssumption
  <2> HIDE DEF m
  <2> QED
    BY <2>2, <2>3, <2>4, <2>5
<1>7. level'[s] = [stop |-> stop, target |-> target, quantity |-> held[s], paid |-> paid[s]]
      /\ \A t \in Symbol \ {s} : level'[t] = level[t]
  BY <1>1 DEF IInv, Shape
<1>8. Shape'
  BY <1>1, <1>2, <1>4, <1>5 DEF IInv, Shape
<1>9. LossAccepted'
  BY <1>1, <1>6, <1>7 DEF IInv, LossAccepted
<1>10. StopsRise
  <2>1. level'[s].stop >= level[s].stop
    BY <1>4, <1>7
  <2>2. \A t \in Symbol \ {s} : level'[t].stop >= level[t].stop
    BY <1>7 DEF IInv, Shape
  <2> QED
    BY <2>1, <2>2 DEF StopsRise
<1> QED
  BY <1>8, <1>9, <1>10 DEF IInv

LEMMA SellKeeps ==
    ASSUME IInv, NEW s \in Symbol, Sell(s)
    PROVE  IInv' /\ StopsRise
<1>1. /\ UNCHANGED <<bid, order, intent>>
      /\ held' = [held EXCEPT ![s] = 0] /\ paid' = [paid EXCEPT ![s] = 0]
      /\ level' = [level EXCEPT ![s] = NoLevel]
  BY DEF Sell, sending
<1>2. Shape'
  BY <1>1 DEF IInv, Shape, NoLevel
<1>3. level'[s] = NoLevel /\ \A t \in Symbol \ {s} : level'[t] = level[t]
  BY <1>1 DEF IInv, Shape
<1>4. LossAccepted'
  BY <1>3 DEF IInv, LossAccepted
<1>5. StopsRise
  BY <1>3 DEF IInv, Shape, StopsRise
<1> QED
  BY <1>2, <1>4, <1>5 DEF IInv

LEMMA InductiveStep == ASSUME IInv, [Next]_vars PROVE IInv' /\ (StopsRise \/ UNCHANGED vars)
<1>1. UNCHANGED level => StopsRise
  BY DEF IInv, Shape, StopsRise
<1>2. CASE \/ \E s \in Symbol, share \in Allocation, close \in Price, d \in Book : Decide(s, share, close, d)
           \/ \E share \in Allocation, d \in Book : Check(share, d)
           \/ Read \/ Post \/ Refuse
           \/ \E s \in Symbol : Cancel(s) \/ \E p \in Price : Move(s, p)
  BY <1>1, <1>2, OrderingKeeps
<1>3. ASSUME NEW s \in Symbol, NEW n \in 1..Rest(order[s]), NEW p \in {order[s].limit - 1, order[s].limit},
             Fill(s, n, p)
      PROVE  IInv' /\ StopsRise
  <2>1. n \in Int
    OBVIOUS
  <2> QED
    BY <1>1, <1>3, <2>1, FillKeeps
<1>4. ASSUME NEW s \in Symbol, Protect(s) \/ Sell(s) PROVE IInv' /\ StopsRise
  BY <1>4, ProtectKeeps, SellKeeps
<1>5. CASE UNCHANGED vars
  BY <1>5 DEF vars, sending, IInv, Shape, LossAccepted
<1> QED
  BY <1>2, <1>3, <1>4, <1>5 DEF Next

(* A stop accepts no greater loss than its share of the average price the coins
   were filled at, lies below the target, and is never lowered by further fills,
   whatever the prices, the step of the venue and the order of the fills.     *)
THEOREM StopsHold == Spec => StopsProtect
<1>1. Init => IInv
  BY InitInvariant
<1>2. IInv /\ [Next]_vars => IInv' /\ [LossAccepted' /\ StopsRise]_vars
  BY InductiveStep DEF IInv
<1> QED
  BY <1>1, <1>2, PTL DEF Spec, StopsProtect

-----------------------------------------------------------------------------
(* What an entry costs.  A budget that pays for a whole quantity at its limit
   pays, in the share of what is not filled, for the rest of it.             *)

LEMMA QuotientIsDown ==
    ASSUME NEW u \in Int, NEW v \in Nat \ {0}
    PROVE  u \div v \in Int /\ (u \div v) * v <= u
OBVIOUS

LEMMA QuotientReaches ==
    ASSUME NEW u \in Int, NEW v \in Nat \ {0}, NEW w \in Int, w * v <= u
    PROVE  u \div v \in Int /\ w <= u \div v
OBVIOUS

LEMMA UnitCost ==
    ASSUME NEW q \in Int, NEW p \in Int
    PROVE  /\ Cost(q, p) \in Int /\ Cost(1, p) \in Int
           /\ Cost(q, p) = q * Cost(1, p)
           /\ p > 0 => Cost(1, p) > 0
<1>1. Unit + Fee \in Nat /\ Unit + Fee > 0
  BY EntryAssumption
<1> DEFINE c == Unit + Fee
<1>2. c \in Nat /\ c > 0
  BY <1>1
<1>3. Cost(q, p) = q * p * c /\ Cost(1, p) = 1 * p * c
  BY DEF Cost
<1> HIDE DEF c
<1>4. p * c \in Int /\ (p > 0 => p * c > 0)
  BY <1>2, ProductPositive
<1>5. q * p * c = q * (p * c) /\ 1 * p * c = p * c
  BY <1>2
<1> QED
  BY <1>3, <1>4, <1>5

LEMMA NoCost == Cost(0, 0) = 0
<1>1. Cost(0, 0) = 0 * Cost(1, 0) /\ Cost(1, 0) \in Int
  BY UnitCost
<1> QED
  BY <1>1

LEMMA PriceCosts == ASSUME NEW p \in Nat \ {0} PROVE Cost(1, p) \in Nat \ {0}
<1>1. Cost(1, p) \in Int /\ Cost(1, p) > 0
  BY UnitCost
<1> QED
  BY <1>1

LEMMA QuantityCosts ==
    ASSUME NEW q \in Nat, NEW p \in Nat \ {0}
    PROVE  Cost(q, p) \in Nat
<1> DEFINE c == Cost(1, p)
<1>1. Cost(q, p) = q * c
  BY UnitCost
<1>2. c \in Nat
  BY PriceCosts
<1> HIDE DEF c
<1>3. q * c \in Nat
  BY <1>2
<1> QED
  BY <1>1, <1>3

(* The budget of a plan covers its quantity at its limit with fees.          *)
Covers(plan) ==
    /\ plan.quantity \in Nat \ {0} /\ plan.limit \in Nat \ {0} /\ plan.budget \in Int
    /\ plan.quantity * (Cost(1, plan.limit) * Parts) <= plan.budget

LEMMA BudgetOfRest ==
    ASSUME NEW o, Covers(o), o.filled \in Nat, o.filled <= o.quantity, o # NoOrder
    PROVE  /\ RemainingBudget(o) \in Int
           /\ Cost(Rest(o), o.limit) \in Int
           /\ Parts * Cost(Rest(o), o.limit) <= RemainingBudget(o)
<1> DEFINE q == o.quantity
           r == Rest(o)
           c == Cost(1, o.limit) * Parts
<1>1. q \in Nat \ {0} /\ r \in Nat /\ o.limit \in Int /\ o.budget \in Int
  BY DEF Covers, Rest
<1>2. Cost(r, o.limit) \in Int /\ Cost(1, o.limit) \in Int /\ Cost(r, o.limit) = r * Cost(1, o.limit)
  <2> HIDE DEF r
  <2>1. r \in Int /\ o.limit \in Int
    BY <1>1
  <2> QED
    BY <2>1, UnitCost
<1>3. c \in Int /\ q * c <= o.budget /\ Parts * Cost(r, o.limit) = c * r
  <2> DEFINE one == Cost(1, o.limit)
  <2>1. one \in Int /\ Parts \in Int /\ Cost(r, o.limit) = r * one
    BY <1>2, EntryAssumption
  <2>2. q * (one * Parts) <= o.budget
    BY DEF Covers
  <2> HIDE DEF one, r, q
  <2>3. one * Parts \in Int /\ Parts * (r * one) = (one * Parts) * r
    BY <1>1, <2>1
  <2> QED
    BY <2>1, <2>2, <2>3 DEF one
<1>4. RemainingBudget(o) = (o.budget * r) \div q
  BY DEF RemainingBudget
<1> HIDE DEF q, r, c
<1>5. (q * c) * r <= o.budget * r
  <2>1. q * c \in Int
    BY <1>1, <1>3
  <2> QED
    BY <1>1, <1>3, <2>1, ProductRises
<1>6. (c * r) * q <= o.budget * r /\ c * r \in Int /\ o.budget * r \in Int
  BY <1>1, <1>3, <1>5
<1>7. (o.budget * r) \div q \in Int /\ c * r <= (o.budget * r) \div q
  BY <1>1, <1>6, QuotientReaches
<1>8. RemainingBudget(o) \in Int /\ Parts * Cost(r, o.limit) <= RemainingBudget(o)
  BY <1>3, <1>4, <1>7
<1> QED
  BY <1>2, <1>8 DEF r

-----------------------------------------------------------------------------
(* Open orders and the plan of an entry are paid for by their budgets.       *)
OrderRecord == [limit: Int, quantity: Int, filled: Int, budget: Int]

PaidFor(o) ==
    \/ o = NoOrder
    \/ o \in OrderRecord /\ Covers(o) /\ o.filled \in Nat /\ o.filled <= o.quantity

SpendInv ==
    /\ cash \in Int
    /\ bid \in [Symbol -> Nat \ {0}] /\ held \in [Symbol -> Nat]
    /\ DOMAIN order = Symbol /\ \A s \in Symbol : PaidFor(order[s])
    /\ intent = Nothing \/ (intent.symbol \in Symbol /\ Covers(intent.plan))

(* What is planned from a reading stays within it: the reading counts all that
   the open buys may cost, and since it was made nothing took of the cash or of
   the places that it states.                                                *)
Limited(known) ==
    /\ known.available \in Int /\ known.equity \in Int /\ known.exposure \in Int
    /\ known.slots \subseteq Symbol
    /\ Parts * (known.equity - known.available) <= known.exposure

Standing(known) == known.available <= Available /\ Slots \subseteq known.slots

ReadInv == reading # NoReading => Limited(reading) /\ Standing(reading)

(* Between the last check and the POST: the entry still fits.                *)
Checked(worth, plan) ==
    LET cost == Cost(plan.quantity, plan.limit)
    IN  /\ worth \in Int
        /\ cost <= Available
        /\ Parts * (worth - (Available - cost)) <= MaximumExposure * worth

CheckInv == checked # 0 =>
    /\ reading = NoReading /\ intent # Nothing /\ Checked(checked, intent.plan)
    /\ intent.symbol \notin Slots /\ Cardinality(Slots) < MaximumPositions

(* What planBuy() says of a plan it makes.                                   *)
LEMMA PlanIsCovered ==
    ASSUME SpendInv, NEW s \in Symbol, NEW share \in Allocation, NEW close, NEW depth,
           NEW known, known.available \in Int, known.equity \in Int, known.exposure \in Int,
           Plan(known, s, share, close, depth) # NoPlan
    PROVE  LET plan == Plan(known, s, share, close, depth)
           IN  /\ Covers(plan)
               /\ plan.budget <= known.available * share
               /\ plan.budget <= known.equity * MaximumExposure - known.exposure
               /\ s \notin known.slots /\ Cardinality(known.slots) < MaximumPositions
               /\ known.equity > 0
<1> DEFINE money    == known.available * share
           room     == known.equity * MaximumExposure - known.exposure
           budget   == Min({money, room})
           limit    == UpTo(bid[s] + Spread, PriceStep)
           quantity == IF budget > 0 THEN budget \div (Cost(1, limit) * Parts) ELSE 0
           plan     == Plan(known, s, share, close, depth)
<1>1. /\ plan = [limit |-> limit, quantity |-> quantity, budget |-> budget]
      /\ s \notin known.slots /\ Cardinality(known.slots) < MaximumPositions
      /\ known.equity > 0 /\ quantity > 0
  BY DEF Plan
<1>2. money \in Int /\ room \in Int
  <2>1. share \in Int /\ MaximumExposure \in Int
    BY EntryAssumption
  <2>2. known.available * share \in Int /\ known.equity * MaximumExposure \in Int
    BY <2>1
  <2> QED
    BY <2>2
<1> HIDE DEF money, room
<1>3. budget \in Int /\ budget <= money /\ budget <= room
  <2>1. \E u \in {money, room} : \A v \in {money, room} : u <= v
    BY <1>2
  <2>2. budget \in {money, room} /\ \A v \in {money, room} : budget <= v
    BY <2>1 DEF Min
  <2> QED
    BY <1>2, <2>2
<1>4. limit \in Nat \ {0}
  <2>1. bid[s] + Spread \in Nat \ {0} /\ PriceStep \in Nat \ {0}
    BY EntryAssumption DEF SpendInv
  <2>2. limit \in Int /\ limit >= bid[s] + Spread
    BY <2>1, UpToIsUp
  <2> HIDE DEF limit
  <2> QED
    BY <2>1, <2>2
<1> HIDE DEF limit, budget
<1>5. Cost(1, limit) * Parts \in Nat \ {0}
  <2>1. Cost(1, limit) \in Nat \ {0}
    BY <1>4, PriceCosts
  <2>2. Cost(1, limit) \in Nat \ {0} /\ Parts \in Nat \ {0}
    BY <2>1, EntryAssumption
  <2> QED
    BY <2>2, ProductPositive
<1>6. quantity \in Nat \ {0} /\ quantity * (Cost(1, limit) * Parts) <= budget
  <2> DEFINE c == Cost(1, limit) * Parts
  <2>1. quantity = budget \div c
    BY <1>1
  <2>2. c \in Nat \ {0}
    BY <1>5
  <2> HIDE DEF c
  <2>3. budget \div c \in Int /\ (budget \div c) * c <= budget
    BY <1>3, <2>2, QuotientIsDown
  <2>4. quantity \in Int /\ quantity > 0
    BY <1>1, <2>1, <2>3
  <2> HIDE DEF quantity
  <2> QED
    BY <2>1, <2>3, <2>4 DEF c
<1> HIDE DEF quantity, plan
<1>7. Covers(plan)
  BY <1>1, <1>3, <1>4, <1>6 DEF Covers
<1>8. plan.budget = budget
  BY <1>1
<1> QED
  BY <1>1, <1>3, <1>7, <1>8 DEF plan, money, room

(* The sums of the account are whole, and open buys cost no more than what is
   left of their budgets.                                                    *)
Costs  == [s \in Symbol |-> Cost(Rest(order[s]), order[s].limit)]
Limits == [s \in Symbol |-> Parts * Cost(Rest(order[s]), order[s].limit)]
Owns   == [s \in Symbol |-> RemainingBudget(order[s])]
Values == [s \in Symbol |-> Value(s)]

LEMMA OrderIsPaidFor ==
    ASSUME NEW o, PaidFor(o)
    PROVE  /\ Cost(Rest(o), o.limit) \in Int /\ RemainingBudget(o) \in Int
           /\ Parts * Cost(Rest(o), o.limit) \in Int
           /\ Parts * Cost(Rest(o), o.limit) <= RemainingBudget(o)
<1>1. CASE o = NoOrder
  <2>1. Rest(o) = 0 /\ o.limit = 0 /\ RemainingBudget(o) = 0
    BY <1>1 DEF NoOrder, Rest, RemainingBudget
  <2>2. Parts * 0 = 0
    BY EntryAssumption
  <2> QED
    BY <2>1, <2>2, NoCost
<1>2. CASE o # NoOrder
  <2>1. /\ RemainingBudget(o) \in Int /\ Cost(Rest(o), o.limit) \in Int
        /\ Parts * Cost(Rest(o), o.limit) <= RemainingBudget(o)
    BY <1>2, BudgetOfRest DEF PaidFor
  <2>2. Parts \in Int
    BY EntryAssumption
  <2> QED
    BY <2>1, <2>2
<1> QED
  BY <1>1, <1>2

LEMMA AccountIsWhole ==
    ASSUME SpendInv
    PROVE  /\ Available \in Int /\ Equity \in Int /\ Exposure \in Int /\ Worth \in Int
           /\ Available = cash - SumFunctionOnSet(Costs, Symbol)
           /\ Exposure = Parts * Worth + SumFunctionOnSet(Owns, Symbol)
           /\ SumFunctionOnSet(Costs, Symbol) \in Int
           /\ SumFunctionOnSet(Owns, Symbol) \in Int
<1>1. \A s \in Symbol : Costs[s] \in Int /\ Owns[s] \in Int
  BY OrderIsPaidFor DEF SpendInv, Costs, Owns
<1>2. \A s \in Symbol : Values[s] \in Int
  <2> SUFFICES ASSUME NEW s \in Symbol PROVE Value(s) \in Int
    BY DEF Values
  <2>1. held[s] \in Int /\ bid[s] \in Int /\ Unit \in Int
    BY EntryAssumption DEF SpendInv
  <2>2. held[s] * bid[s] \in Int
    BY <2>1
  <2>3. held[s] * bid[s] * Unit \in Int
    BY <2>1, <2>2
  <2> QED
    BY <2>3 DEF Value
<1>3. /\ SumFunctionOnSet(Costs, Symbol) \in Int
      /\ SumFunctionOnSet(Owns, Symbol) \in Int
      /\ SumFunctionOnSet(Values, Symbol) \in Int
  BY <1>1, <1>2, SumInt, EntryAssumption
<1>4. /\ Over([s \in Symbol |-> Cost(Rest(order[s]), order[s].limit)]) = SumFunctionOnSet(Costs, Symbol)
      /\ Over([s \in Symbol |-> RemainingBudget(order[s])]) = SumFunctionOnSet(Owns, Symbol)
      /\ Worth = SumFunctionOnSet(Values, Symbol)
  BY DEF Over, SumFunction, Costs, Owns, Values, Worth
<1>5. Parts * Worth \in Int
  BY <1>3, <1>4, EntryAssumption
<1> QED
  BY <1>3, <1>4, <1>5 DEF Available, Equity, Exposure, SpendInv

LEMMA SpendingStarts == ASSUME Init PROVE SpendInv
<1>1. cash \in Int
  BY EntryAssumption DEF Init
<1>2. bid \in [Symbol -> Nat \ {0}] /\ held \in [Symbol -> Nat]
  <2>1. bid \in [Symbol -> Price] /\ Price \subseteq Nat \ {0}
    BY EntryAssumption DEF Init
  <2>2. held \in [Symbol -> Nat]
    BY DEF Init
  <2> QED
    BY <2>1, <2>2
<1>3. DOMAIN order = Symbol /\ \A s \in Symbol : PaidFor(order[s])
  BY DEF Init, PaidFor
<1> QED
  BY <1>1, <1>2, <1>3 DEF Init, SpendInv

LEMMA DecideSpends ==
    ASSUME SpendInv, ReadInv, NEW s \in Symbol, NEW share \in Allocation, NEW close, NEW depth,
           Decide(s, share, close, depth)
    PROVE  SpendInv'
<1>1. reading.available \in Int /\ reading.equity \in Int /\ reading.exposure \in Int
  BY DEF Decide, ReadInv, Limited
<1>2. /\ Plan(reading, s, share, close, depth) # NoPlan
      /\ intent' = [symbol |-> s, plan |-> Plan(reading, s, share, close, depth), close |-> close]
      /\ UNCHANGED <<cash, bid, held, order>>
  BY DEF Decide
<1>3. Covers(Plan(reading, s, share, close, depth))
  BY <1>1, <1>2, PlanIsCovered
<1>4. intent'.symbol \in Symbol /\ Covers(intent'.plan)
  BY <1>2, <1>3
<1> QED
  BY <1>2, <1>4 DEF SpendInv, PaidFor, Covers

(* An order as submit() sends it.                                            *)
LEMMA SentIsPaidFor ==
    ASSUME NEW plan, Covers(plan)
    PROVE  PaidFor([limit |-> plan.limit, quantity |-> plan.quantity, filled |-> 0,
                    budget |-> plan.budget])
BY DEF PaidFor, Covers, OrderRecord

LEMMA OrderSpends ==
    ASSUME SpendInv, NEW s \in Symbol, NEW o, PaidFor(o),
           order'[s] = o, DOMAIN order' = Symbol, \A t \in Symbol \ {s} : order'[t] = order[t],
           cash' \in Int, held' \in [Symbol -> Nat], UNCHANGED bid,
           intent' = intent \/ intent' = Nothing
    PROVE  SpendInv'
<1>2. \A t \in Symbol : PaidFor(order'[t])
  BY DEF SpendInv
<1>3. intent' = Nothing \/ (intent'.symbol \in Symbol /\ Covers(intent'.plan))
  BY DEF SpendInv
<1> QED
  BY <1>2, <1>3 DEF SpendInv, PaidFor, Covers

(* A fill leaves an order that is paid for, and takes its cost at the limit off
   what the order may still cost.                                            *)
LEMMA FilledOrder ==
    ASSUME SpendInv, NEW s \in Symbol, NEW n \in 1..Rest(order[s]),
           NEW p \in {order[s].limit - 1, order[s].limit}, Fill(s, n, p)
    PROVE  /\ order[s] # NoOrder /\ PaidFor(order'[s])
           /\ DOMAIN order' = Symbol /\ \A t \in Symbol \ {s} : order'[t] = order[t]
           /\ n \in Nat \ {0} /\ p \in Int /\ p <= order[s].limit /\ order[s].limit \in Int
           /\ Cost(Rest(order'[s]), order'[s].limit)
                 = Cost(Rest(order[s]), order[s].limit) - Cost(n, order[s].limit)
<1> DEFINE o == order[s]
           left == IF Rest(o) = n THEN NoOrder ELSE [o EXCEPT !.filled = @ + n]
<1>1. order'[s] = left /\ DOMAIN order' = Symbol /\ \A t \in Symbol \ {s} : order'[t] = order[t]
  <2>1. order' = IF Rest(order[s]) = n THEN [order EXCEPT ![s] = NoOrder]
                                       ELSE [order EXCEPT ![s].filled = @ + n]
    BY DEF Fill
  <2>2. order'[s] = IF Rest(order[s]) = n THEN NoOrder ELSE [order[s] EXCEPT !.filled = order[s].filled + n]
    BY <2>1 DEF SpendInv
  <2>3. DOMAIN order' = Symbol /\ \A t \in Symbol \ {s} : order'[t] = order[t]
    BY <2>1 DEF SpendInv
  <2> QED
    BY <2>2, <2>3
<1>2. /\ o \in OrderRecord /\ Covers(o) /\ o.filled \in Nat /\ o.filled <= o.quantity
      /\ n \in Int /\ 1 <= n /\ n <= o.quantity - o.filled /\ o # NoOrder
  <2>1. PaidFor(o)
    BY DEF SpendInv
  <2>2. o # NoOrder
    <3>1. ASSUME o = NoOrder PROVE FALSE
      <4>1. Rest(o) = 0
        BY <3>1 DEF Rest, NoOrder
      <4> QED
        BY <4>1
    <3> QED
      BY <3>1
  <2>3. o \in OrderRecord /\ Covers(o) /\ o.filled \in Nat /\ o.filled <= o.quantity
    BY <2>1, <2>2 DEF PaidFor
  <2> QED
    BY <2>2, <2>3 DEF Rest, Covers
<1>3. p \in Int /\ p <= o.limit /\ o.limit \in Int
  BY <1>2 DEF Covers
<1> HIDE DEF o
<1>4. PaidFor(left) /\ Cost(Rest(left), left.limit) = Cost(Rest(o), o.limit) - Cost(n, o.limit)
  <2>1. CASE Rest(o) = n
    <3>1. left = NoOrder /\ Rest(left) = 0 /\ left.limit = 0
      BY <2>1 DEF NoOrder, Rest
    <3>2. Cost(n, o.limit) \in Int
      BY <1>2, <1>3, UnitCost
    <3> HIDE DEF left
    <3> QED
      BY <2>1, <3>1, <3>2, NoCost DEF PaidFor
  <2>2. CASE Rest(o) # n
    <3>1. /\ left \in OrderRecord /\ left.filled = o.filled + n
          /\ left.quantity = o.quantity /\ left.limit = o.limit /\ left.budget = o.budget
      BY <1>2, <2>2 DEF OrderRecord
    <3> HIDE DEF left
    <3>2. Covers(left) /\ left.filled \in Nat /\ left.filled <= left.quantity
      BY <1>2, <3>1 DEF Covers
    <3> DEFINE r == Rest(o)
               one == Cost(1, o.limit)
    <3>3. Rest(left) = r - n /\ r \in Int
      BY <1>2, <3>1 DEF Rest, Covers
    <3> HIDE DEF r
    <3>4. /\ Cost(r - n, o.limit) = (r - n) * one /\ Cost(r, o.limit) = r * one
          /\ Cost(n, o.limit) = n * one /\ one \in Int
      <4>1. n \in Int /\ r - n \in Int
        BY <1>2, <3>3
      <4>2. Cost(r - n, o.limit) = (r - n) * one /\ one \in Int
        BY <1>3, <4>1, UnitCost
      <4>3. Cost(r, o.limit) = r * one
        BY <1>3, <3>3, UnitCost
      <4>4. Cost(n, o.limit) = n * one
        BY <1>3, <4>1, UnitCost
      <4> QED
        BY <4>2, <4>3, <4>4
    <3> HIDE DEF one
    <3>5. (r - n) * one = r * one - n * one
      BY <1>2, <3>3, <3>4
    <3> QED
      BY <3>1, <3>2, <3>3, <3>4, <3>5 DEF PaidFor, r
  <2> QED
    BY <2>1, <2>2
<1> HIDE DEF left
<1> QED
  BY <1>1, <1>2, <1>3, <1>4 DEF o

LEMMA FillSpends ==
    ASSUME SpendInv, NEW s \in Symbol, NEW n \in 1..Rest(order[s]),
           NEW p \in {order[s].limit - 1, order[s].limit}, Fill(s, n, p)
    PROVE  SpendInv'
<1>1. /\ PaidFor(order'[s])
      /\ DOMAIN order' = Symbol /\ \A t \in Symbol \ {s} : order'[t] = order[t]
      /\ n \in Nat \ {0} /\ p \in Int
  BY FilledOrder
<1>2. /\ cash' = cash - Cost(n, p) /\ held' = [held EXCEPT ![s] = @ + n]
      /\ UNCHANGED <<bid, intent>>
  BY DEF Fill, sending
<1>3. cash' \in Int
  <2>1. Cost(n, p) \in Int
    BY <1>1, UnitCost
  <2> QED
    BY <1>2, <2>1 DEF SpendInv
<1>4. held' \in [Symbol -> Nat]
  BY <1>1, <1>2 DEF SpendInv
<1> QED
  BY <1>1, <1>2, <1>3, <1>4, OrderSpends

LEMMA OthersSpend ==
    ASSUME SpendInv,
           \/ Read \/ Refuse \/ \E share \in Allocation, d \in Book : Check(share, d)
           \/ \E s \in Symbol : \/ \E p \in Price : Move(s, p)
                                \/ Cancel(s) \/ Protect(s) \/ Sell(s)
           \/ UNCHANGED vars
    PROVE  SpendInv'
<1>1. CASE Read \/ Refuse \/ \E share \in Allocation, d \in Book : Check(share, d)
  BY <1>1 DEF Read, Check, Refuse, SpendInv, PaidFor, Covers
<1>2. ASSUME NEW s \in Symbol, NEW p \in Price, Move(s, p) PROVE SpendInv'
  <2>1. bid' = [bid EXCEPT ![s] = p] /\ UNCHANGED <<cash, held, order, intent>>
    BY <1>2 DEF Move, sending
  <2>2. p \in Nat \ {0}
    BY EntryAssumption
  <2>3. bid' \in [Symbol -> Nat \ {0}]
    BY <2>1, <2>2 DEF SpendInv
  <2> QED
    BY <2>1, <2>3 DEF SpendInv, PaidFor, Covers
<1>3. ASSUME NEW s \in Symbol, Cancel(s) PROVE SpendInv'
  <2>1. order' = [order EXCEPT ![s] = NoOrder] /\ UNCHANGED <<cash, bid, held, intent>>
    BY <1>3 DEF Cancel, sending
  <2>2. PaidFor(NoOrder)
    BY DEF PaidFor
  <2>3. cash' \in Int /\ held' \in [Symbol -> Nat]
    BY <2>1 DEF SpendInv
  <2>4. order'[s] = NoOrder /\ DOMAIN order' = Symbol /\ \A t \in Symbol \ {s} : order'[t] = order[t]
    BY <2>1 DEF SpendInv
  <2> QED
    BY <2>1, <2>2, <2>3, <2>4, OrderSpends
<1>4. ASSUME NEW s \in Symbol, Protect(s) PROVE SpendInv'
  BY <1>4 DEF Protect, sending, SpendInv, PaidFor, Covers
<1>5. ASSUME NEW s \in Symbol, Sell(s) PROVE SpendInv'
  <2>1. /\ cash' = cash + held[s] * bid[s] * (Unit - Fee) /\ held' = [held EXCEPT ![s] = 0]
        /\ UNCHANGED <<bid, order, intent>>
    BY <1>5 DEF Sell, sending
  <2>2. held[s] * bid[s] \in Int /\ Unit - Fee \in Int
    BY EntryAssumption DEF SpendInv
  <2>3. held[s] * bid[s] * (Unit - Fee) \in Int
    BY <2>2
  <2>4. cash' \in Int /\ held' \in [Symbol -> Nat]
    BY <2>1, <2>3 DEF SpendInv
  <2> QED
    BY <2>1, <2>4 DEF SpendInv, PaidFor, Covers
<1>6. CASE UNCHANGED vars
  BY <1>6 DEF vars, sending, SpendInv, PaidFor, Covers
<1> QED
  BY <1>1, <1>2, <1>3, <1>4, <1>5, <1>6

(* What holds when an entry is sent.                                         *)
Fits ==
    /\ Parts * (checked - Available') <= MaximumExposure * checked
    /\ Cardinality(Slots') <= MaximumPositions
    /\ Available' >= 0

LEMMA SharePays ==
    ASSUME NEW u \in Int, NEW v \in Int, NEW w \in 0..Parts, v > 0, Parts * v <= u * w
    PROVE  v <= u
<1>1. Parts \in Nat \ {0} /\ w \in Nat
  BY EntryAssumption
<1>2. ASSUME u < v PROVE FALSE
  <2>1. u * w <= (v - 1) * w
    BY <1>1, <1>2, ProductRises
  <2>2. (v - 1) * w <= (v - 1) * Parts
    BY <1>1
  <2>3. (v - 1) * Parts = Parts * v - Parts
    BY <1>1
  <2>4. u * w \in Int /\ (v - 1) * w \in Int /\ Parts * v \in Int
    BY <1>1
  <2> QED
    BY <1>1, <2>1, <2>2, <2>3, <2>4
<1> QED
  BY <1>2

(* A step that changes one order changes what is available by what the order
   may cost, besides the cash.                                               *)
LEMMA AvailableMoves ==
    ASSUME SpendInv, NEW s \in Symbol, PaidFor(order'[s]), DOMAIN order' = Symbol,
           \A t \in Symbol \ {s} : order'[t] = order[t], cash' \in Int
    PROVE  /\ Available \in Int /\ Available' \in Int
           /\ Available' = Available + (cash' - cash)
                + (Cost(Rest(order[s]), order[s].limit) - Cost(Rest(order'[s]), order'[s].limit))
<1>1. PICK g : g = Costs'
  OBVIOUS
<1>2. \A t \in Symbol : g[t] = Cost(Rest(order'[t]), order'[t].limit)
  BY <1>1 DEF Costs
<1>3. \A t \in Symbol : Costs[t] = Cost(Rest(order[t]), order[t].limit)
  BY DEF Costs
<1>4. \A t \in Symbol : Costs[t] \in Int /\ g[t] \in Int
  <2>1. \A t \in Symbol : PaidFor(order[t]) /\ PaidFor(order'[t])
    BY DEF SpendInv
  <2> QED
    BY <1>2, <1>3, <2>1, OrderIsPaidFor
<1>5. \A t \in Symbol \ {s} : g[t] = Costs[t]
  BY <1>2, <1>3
<1>6. SumFunctionOnSet(g, Symbol) = SumFunctionOnSet(Costs, Symbol) + (g[s] - Costs[s])
  BY <1>4, <1>5, SumChange, EntryAssumption
<1>7. Available' = cash' - SumFunctionOnSet(g, Symbol)
  <2>1. Over([t \in Symbol |-> Cost(Rest(order[t]), order[t].limit)])' = SumFunctionOnSet(g, Symbol)
    BY <1>1 DEF Over, SumFunction, Costs
  <2> QED
    BY <2>1 DEF Available
<1>8. /\ Available \in Int /\ Available = cash - SumFunctionOnSet(Costs, Symbol)
      /\ SumFunctionOnSet(Costs, Symbol) \in Int
  BY AccountIsWhole
<1>9. cash \in Int /\ g[s] \in Int /\ Costs[s] \in Int
  BY <1>4 DEF SpendInv
<1>10. Available' = Available + (cash' - cash) + (Costs[s] - g[s]) /\ Available' \in Int
  BY <1>6, <1>7, <1>8, <1>9
<1> QED
  BY <1>2, <1>3, <1>8, <1>10

(* What the market, the venue and exits do only adds to what is available.   *)
LEMMA OthersLeave ==
    ASSUME SpendInv, NEW s \in Symbol,
           \/ \E p \in Price : Move(s, p)
           \/ \E n \in 1..Rest(order[s]), p \in {order[s].limit - 1, order[s].limit} : Fill(s, n, p)
           \/ Cancel(s) \/ Protect(s) \/ Sell(s)
    PROVE  /\ Available \in Int /\ Available' \in Int /\ Available' >= Available
           /\ Slots' \subseteq Slots /\ UNCHANGED sending
<1>1. CASE (\E p \in Price : Move(s, p)) \/ Protect(s)
  <2>1. UNCHANGED <<cash, held, order, sending>>
    BY <1>1 DEF Move, Protect
  <2>2. Available' = Available /\ Slots' = Slots
    BY <2>1 DEF Available, Slots, Open
  <2>3. Available \in Int
    BY AccountIsWhole
  <2> QED
    BY <2>1, <2>2, <2>3
<1>2. CASE Cancel(s)
  <2>1. UNCHANGED <<cash, held, sending>> /\ order' = [order EXCEPT ![s] = NoOrder] /\ Open(s)
    BY <1>2 DEF Cancel
  <2>2. /\ order'[s] = NoOrder /\ PaidFor(order'[s]) /\ DOMAIN order' = Symbol
        /\ \A t \in Symbol \ {s} : order'[t] = order[t]
    BY <2>1 DEF SpendInv, PaidFor
  <2>3. cash \in Int /\ cash' = cash
    BY <2>1 DEF SpendInv
  <2>4. /\ Available \in Int /\ Available' \in Int
        /\ Available' = Available + (cash' - cash)
             + (Cost(Rest(order[s]), order[s].limit) - Cost(Rest(order'[s]), order'[s].limit))
    BY <2>2, <2>3, AvailableMoves
  <2>5. Cost(Rest(order'[s]), order'[s].limit) = 0
    <3>1. Rest(order'[s]) = 0 /\ order'[s].limit = 0
      BY <2>2 DEF Rest, NoOrder
    <3> QED
      BY <3>1, NoCost
  <2>6. Cost(Rest(order[s]), order[s].limit) \in Nat
    <3>1. Covers(order[s]) /\ order[s].filled \in Nat /\ order[s].filled <= order[s].quantity
      BY <2>1 DEF SpendInv, PaidFor, Open
    <3>2. Rest(order[s]) \in Nat /\ order[s].limit \in Nat \ {0}
      BY <3>1 DEF Covers, Rest
    <3> QED
      BY <3>2, QuantityCosts
  <2>7. Slots' \subseteq Slots
    BY <2>1, <2>2 DEF Slots, Open
  <2> QED
    BY <2>1, <2>3, <2>4, <2>5, <2>6, <2>7
<1>3. ASSUME NEW n \in 1..Rest(order[s]), NEW p \in {order[s].limit - 1, order[s].limit}, Fill(s, n, p)
      PROVE  /\ Available \in Int /\ Available' \in Int /\ Available' >= Available
             /\ Slots' \subseteq Slots /\ UNCHANGED sending
  <2> DEFINE limit == order[s].limit
             left  == Cost(Rest(order'[s]), order'[s].limit)
             whole == Cost(Rest(order[s]), order[s].limit)
  <2>1. /\ order[s] # NoOrder /\ PaidFor(order'[s])
        /\ DOMAIN order' = Symbol /\ \A t \in Symbol \ {s} : order'[t] = order[t]
        /\ n \in Nat \ {0} /\ p \in Int /\ p <= limit /\ limit \in Int
        /\ left = whole - Cost(n, limit)
    BY <1>3, FilledOrder
  <2>2. cash' = cash - Cost(n, p) /\ held' = [held EXCEPT ![s] = @ + n] /\ UNCHANGED sending
    BY <1>3 DEF Fill
  <2>3. Cost(n, p) \in Int /\ Cost(n, limit) \in Int /\ Cost(n, p) <= Cost(n, limit)
    <3>1. /\ Cost(n, p) \in Int /\ Cost(n, limit) \in Int /\ Cost(1, p) \in Int /\ Cost(1, limit) \in Int
          /\ Cost(n, p) = n * Cost(1, p) /\ Cost(n, limit) = n * Cost(1, limit)
      BY <2>1, UnitCost
    <3>2. Cost(1, limit) >= Cost(1, p)
      <4>1. Unit + Fee \in Nat
        BY EntryAssumption
      <4>2. 1 * limit * (Unit + Fee) = limit * (Unit + Fee) /\ 1 * p * (Unit + Fee) = p * (Unit + Fee)
        BY <2>1, <4>1
      <4> HIDE DEF limit
      <4>3. limit * (Unit + Fee) >= p * (Unit + Fee)
        BY <2>1, <4>1, ProductRises
      <4> QED
        BY <4>2, <4>3 DEF Cost
    <3>3. Cost(1, limit) * n >= Cost(1, p) * n
      BY <2>1, <3>1, <3>2, ProductRises
    <3> HIDE DEF limit
    <3>4. Cost(1, limit) * n = n * Cost(1, limit) /\ Cost(1, p) * n = n * Cost(1, p)
      BY <2>1, <3>1
    <3> QED
      BY <3>1, <3>3, <3>4
  <2>4. cash \in Int /\ cash' \in Int
    BY <2>2, <2>3 DEF SpendInv
  <2>5. /\ Available \in Int /\ Available' \in Int
        /\ Available' = Available + (cash' - cash) + (whole - left)
    BY <2>1, <2>4, AvailableMoves
  <2>6. whole \in Int
    BY OrderIsPaidFor DEF SpendInv
  <2>7. Slots' \subseteq Slots
    <3>1. \A t \in Symbol \ {s} : held'[t] = held[t]
      BY <2>2 DEF SpendInv
    <3> QED
      BY <2>1, <3>1 DEF Slots, Open
  <2> HIDE DEF limit, left, whole
  <2> QED
    BY <2>1, <2>2, <2>3, <2>4, <2>5, <2>6, <2>7
<1>4. CASE Sell(s)
  <2>1. /\ cash' = cash + held[s] * bid[s] * (Unit - Fee) /\ held' = [held EXCEPT ![s] = 0]
        /\ UNCHANGED <<order, sending>>
    BY <1>4 DEF Sell
  <2>2. held[s] * bid[s] * (Unit - Fee) \in Nat
    <3>1. held[s] \in Nat /\ bid[s] \in Nat /\ Unit - Fee \in Nat
      BY EntryAssumption DEF SpendInv
    <3>2. held[s] * bid[s] \in Nat
      BY <3>1
    <3> QED
      BY <3>1, <3>2
  <2>3. Available' = cash' - (cash - Available) /\ Available \in Int /\ cash \in Int
    <3>1. Over([t \in Symbol |-> Cost(Rest(order[t]), order[t].limit)])'
            = Over([t \in Symbol |-> Cost(Rest(order[t]), order[t].limit)])
      BY <2>1
    <3>2. /\ Available \in Int /\ Available = cash - SumFunctionOnSet(Costs, Symbol)
          /\ SumFunctionOnSet(Costs, Symbol) \in Int
      BY AccountIsWhole
    <3>3. Over([t \in Symbol |-> Cost(Rest(order[t]), order[t].limit)]) = SumFunctionOnSet(Costs, Symbol)
      BY DEF Over, SumFunction, Costs
    <3>4. Available' = cash' - SumFunctionOnSet(Costs, Symbol)
      BY <3>1, <3>3 DEF Available
    <3>5. cash \in Int
      BY DEF SpendInv
    <3>6. cash' \in Int
      BY <2>1, <2>2, <3>5
    <3> QED
      BY <3>2, <3>4, <3>5, <3>6
  <2>4. Slots' \subseteq Slots
    <3>1. \A t \in Symbol : held'[t] > 0 => held[t] > 0
      BY <2>1 DEF SpendInv
    <3> QED
      BY <2>1, <3>1 DEF Slots, Open
  <2> QED
    BY <2>1, <2>2, <2>3, <2>4
<1> QED
  BY <1>1, <1>2, <1>3, <1>4

LEMMA SlotsAreFinite == Slots \subseteq Symbol /\ IsFiniteSet(Slots) /\ Cardinality(Slots) \in Nat
<1>1. Slots \subseteq Symbol
  BY DEF Slots
<1> QED
  BY <1>1, FS_Subset, FS_CardinalityType, EntryAssumption

(* So a reading keeps standing, and what was checked keeps fitting.          *)
LEMMA OthersKeep ==
    ASSUME SpendInv, ReadInv, CheckInv, Available \in Int, Available' \in Int, Available' >= Available,
           Slots' \subseteq Slots, UNCHANGED sending
    PROVE  ReadInv' /\ CheckInv'
<1>1. UNCHANGED <<reading, intent, checked>>
  BY DEF sending
<1>2. ReadInv'
  <2>1. ASSUME reading # NoReading
        PROVE  Limited(reading) /\ reading.available <= Available' /\ Slots' \subseteq reading.slots
    BY <2>1 DEF ReadInv, Limited, Standing
  <2> QED
    BY <1>1, <2>1 DEF ReadInv, Limited, Standing
<1>3. ASSUME checked # 0 PROVE CheckInv'
  <2> DEFINE cost == Cost(intent.plan.quantity, intent.plan.limit)
  <2>1. /\ reading = NoReading /\ intent # Nothing /\ checked \in Int /\ cost <= Available
        /\ Parts * (checked - (Available - cost)) <= MaximumExposure * checked
        /\ intent.symbol \notin Slots /\ Cardinality(Slots) < MaximumPositions
    BY <1>3 DEF CheckInv, Checked
  <2>2. cost \in Int
    <3>1. intent.plan.quantity \in Int /\ intent.plan.limit \in Int
      BY <2>1 DEF SpendInv, Covers
    <3> QED
      BY <3>1, UnitCost
  <2> HIDE DEF cost
  <2>3. Parts * (checked - (Available' - cost)) <= Parts * (checked - (Available - cost))
    BY <2>1, <2>2, EntryAssumption
  <2>4. cost <= Available' /\ Parts * (checked - (Available' - cost)) <= MaximumExposure * checked
    <3>1. /\ Parts * (checked - (Available' - cost)) \in Int /\ Parts * (checked - (Available - cost)) \in Int
          /\ MaximumExposure * checked \in Int
      BY <2>1, <2>2, EntryAssumption
    <3> QED
      BY <2>1, <2>2, <2>3, <3>1
  <2>5. intent.symbol \notin Slots' /\ Cardinality(Slots') < MaximumPositions
    <3>1. Cardinality(Slots') \in Nat /\ Cardinality(Slots') <= Cardinality(Slots) /\ Cardinality(Slots) \in Nat
      BY SlotsAreFinite, FS_Subset, FS_CardinalityType
    <3> QED
      BY <2>1, <3>1, EntryAssumption
  <2> QED
    BY <1>1, <2>1, <2>4, <2>5 DEF CheckInv, Checked, cost
<1>4. ASSUME checked = 0 PROVE CheckInv'
  BY <1>1, <1>4 DEF CheckInv
<1> QED
  BY <1>2, <1>3, <1>4

(* The exposure of a reading counts all that is not available of its value,
   because each open buy still has the budget of its rest.                   *)
LEMMA ReadingStands == ASSUME SpendInv, Read PROVE ReadInv'
<1> DEFINE before == SumFunctionOnSet(Costs, Symbol)
           owned  == SumFunctionOnSet(Owns, Symbol)
<1>1. /\ Available \in Int /\ Equity \in Int /\ Exposure \in Int /\ Worth \in Int
      /\ Available = cash - before /\ Exposure = Parts * Worth + owned
      /\ before \in Int /\ owned \in Int
  BY AccountIsWhole
<1>2. Parts * before <= owned
  <2>1. \A t \in Symbol : Costs[t] \in Int /\ Limits[t] = Parts * Costs[t]
    BY OrderIsPaidFor DEF SpendInv, Limits, Costs
  <2>2. \A t \in Symbol : Limits[t] \in Int /\ Owns[t] \in Int /\ Limits[t] <= Owns[t]
    BY OrderIsPaidFor DEF SpendInv, Limits, Owns
  <2>3. Parts \in Int /\ IsFiniteSet(Symbol)
    BY EntryAssumption
  <2>4. SumFunctionOnSet(Limits, Symbol) = Parts * before
    BY <2>1, <2>3, SumScale
  <2>5. SumFunctionOnSet(Limits, Symbol) <= owned
    BY <2>2, <2>3, SumMonotone
  <2> QED
    BY <2>4, <2>5
<1>3. Parts * (Equity - Available) <= Exposure
  <2>1. Equity = cash + Worth /\ cash \in Int /\ Parts \in Int
    BY EntryAssumption DEF Equity, SpendInv
  <2> HIDE DEF before, owned
  <2>2. Equity - Available = Worth + before
    BY <1>1, <2>1
  <2>3. Parts * (Worth + before) = Parts * Worth + Parts * before
    BY <1>1, <2>1
  <2>4. Parts * Worth \in Int /\ Parts * before \in Int
    BY <1>1, <2>1
  <2> QED
    BY <1>1, <1>2, <2>2, <2>3, <2>4
<1>4. /\ reading' = [available |-> Available, equity |-> Equity, exposure |-> Exposure, slots |-> Slots]
      /\ UNCHANGED <<cash, held, order>>
  BY DEF Read
<1>5. Available' = Available /\ Slots' = Slots
  BY <1>4 DEF Available, Slots, Open
<1>6. Limited(reading') /\ reading'.available <= Available /\ Slots \subseteq reading'.slots
  <2> HIDE DEF before, owned
  <2> QED
    BY <1>1, <1>3, <1>4, SlotsAreFinite DEF Limited
<1> QED
  BY <1>5, <1>6 DEF ReadInv, Limited, Standing

(* What submit() plans again from its reading fits.                          *)
LEMMA CheckFits ==
    ASSUME SpendInv, ReadInv, NEW share \in Allocation, NEW depth, Check(share, depth)
    PROVE  CheckInv'
<1> DEFINE s == intent.symbol
           p == intent.plan
           again == Plan(reading, s, share, intent.close, depth)
           c == Cost(p.quantity, p.limit)
           value == reading.equity
           free == reading.available
<1>1. /\ intent # Nothing /\ s \in Symbol /\ Covers(p)
      /\ again.quantity = p.quantity /\ again.limit = p.limit
      /\ checked' = value /\ reading' = NoReading /\ UNCHANGED <<cash, held, order, intent>>
  BY DEF Check, StillPlanned, SpendInv
<1>2. /\ value \in Int /\ free \in Int /\ reading.exposure \in Int
      /\ Parts * (value - free) <= reading.exposure
      /\ free <= Available /\ Slots \subseteq reading.slots
  BY DEF Check, ReadInv, Limited, Standing
<1>3. /\ Covers(again)
      /\ again.budget <= free * share /\ again.budget <= value * MaximumExposure - reading.exposure
      /\ s \notin reading.slots /\ Cardinality(reading.slots) < MaximumPositions
  <2>1. again # NoPlan
    BY <1>1 DEF NoPlan, Covers
  <2> QED
    BY <1>1, <1>2, <2>1, PlanIsCovered
<1>4. c \in Int /\ c > 0 /\ Parts * c <= again.budget /\ again.budget \in Int
  <2> DEFINE one == Cost(1, p.limit)
  <2>1. /\ p.quantity \in Nat \ {0} /\ p.limit \in Nat \ {0} /\ again.budget \in Int
        /\ p.quantity * (one * Parts) <= again.budget
    BY <1>1, <1>3 DEF Covers
  <2>2. c = p.quantity * one /\ one \in Int /\ one > 0
    <3>1. p.quantity \in Int /\ p.limit \in Int
      BY <2>1
    <3>2. c = p.quantity * one
      BY <3>1, UnitCost
    <3>3. one \in Nat \ {0}
      BY <2>1, PriceCosts
    <3> QED
      BY <3>2, <3>3
  <2> HIDE DEF one, c, again
  <2>3. Parts * c = p.quantity * (one * Parts)
    BY <2>1, <2>2, EntryAssumption
  <2>4. p.quantity * one \in Nat \ {0}
    BY <2>1, <2>2, ProductPositive
  <2> QED
    BY <2>1, <2>2, <2>3, <2>4
<1>5. Available \in Int
  BY AccountIsWhole
<1>6. s \notin Slots /\ Cardinality(Slots) < MaximumPositions
  <2>1. reading.slots \subseteq Symbol
    BY DEF Check, ReadInv, Limited, Standing
  <2>2. IsFiniteSet(reading.slots) /\ Cardinality(reading.slots) \in Nat
    BY <2>1, FS_Subset, FS_CardinalityType, EntryAssumption
  <2>3. Cardinality(Slots) <= Cardinality(reading.slots) /\ Cardinality(Slots) \in Nat
    BY <1>2, <2>2, FS_Subset, SlotsAreFinite
  <2> QED
    BY <1>2, <1>3, <2>2, <2>3, EntryAssumption
<1> HIDE DEF s, p, again, c, value, free
<1>7. c <= Available
  <2>1. share \in 0..Parts
    BY EntryAssumption
  <2>2. free * share \in Int /\ Parts * c \in Int
    BY <1>2, <1>4, <2>1, EntryAssumption
  <2>3. Parts * c <= free * share
    BY <1>3, <1>4, <2>2
  <2>4. c <= free
    BY <1>2, <1>4, <2>1, <2>3, SharePays
  <2> QED
    BY <1>2, <1>4, <1>5, <2>4
<1>8. Parts * (value - (Available - c)) <= MaximumExposure * value
  <2>1. Parts \in Nat /\ MaximumExposure \in Int
    BY EntryAssumption
  <2>2. Parts * (value - (Available - c)) <= Parts * ((value - free) + c)
    BY <1>2, <1>4, <1>5, <2>1
  <2>3. Parts * ((value - free) + c) = Parts * (value - free) + Parts * c
    BY <1>2, <1>4, <2>1
  <2>4. /\ Parts * (value - (Available - c)) \in Int /\ Parts * ((value - free) + c) \in Int
        /\ Parts * (value - free) \in Int /\ Parts * c \in Int /\ value * MaximumExposure \in Int
        /\ value * MaximumExposure = MaximumExposure * value
    BY <1>2, <1>4, <1>5, <2>1
  <2> QED
    BY <1>2, <1>3, <1>4, <2>2, <2>3, <2>4
<1>9. Available' = Available /\ Slots' = Slots
  BY <1>1 DEF Available, Slots, Open
<1>10. /\ intent' = intent /\ checked' = value /\ reading' = NoReading
       /\ intent # Nothing
  BY <1>1
<1>11. Checked(value, p)
  BY <1>2, <1>7, <1>8 DEF Checked, c
<1> QED
  BY <1>6, <1>9, <1>10, <1>11 DEF CheckInv, Checked, p, s

(* What was checked fits when it is sent.                                    *)
LEMMA PostFits == ASSUME SpendInv, CheckInv, Post PROVE SpendInv' /\ ReadInv' /\ CheckInv' /\ Fits
<1> DEFINE s == intent.symbol
           p == intent.plan
           o == [limit |-> p.limit, quantity |-> p.quantity, filled |-> 0, budget |-> p.budget]
           c == Cost(p.quantity, p.limit)
<1>1. /\ s \in Symbol /\ Covers(p) /\ DOMAIN order = Symbol /\ checked \in Int
      /\ reading = NoReading /\ c <= Available
      /\ Parts * (checked - (Available - c)) <= MaximumExposure * checked
      /\ s \notin Slots /\ Cardinality(Slots) < MaximumPositions
  BY DEF Post, CheckInv, Checked, SpendInv
<1>2. /\ intent' = Nothing /\ checked' = 0 /\ reading' = reading /\ UNCHANGED <<cash, bid, held>>
      /\ order' = [order EXCEPT ![s] = o]
  BY DEF Post
<1>3. order'[s] = o /\ DOMAIN order' = Symbol /\ \A t \in Symbol \ {s} : order'[t] = order[t]
  BY <1>1, <1>2
<1>4. PaidFor(o)
  BY <1>1, SentIsPaidFor
<1>5. cash \in Int /\ cash' = cash /\ held' \in [Symbol -> Nat]
  BY <1>2 DEF SpendInv
<1>6. SpendInv'
  <2> HIDE DEF o, s
  <2> QED
    BY <1>1, <1>2, <1>3, <1>4, <1>5, OrderSpends
<1>7. ReadInv' /\ CheckInv'
  BY <1>1, <1>2 DEF ReadInv, CheckInv
<1>8. Rest(order'[s]) = p.quantity /\ order'[s].limit = p.limit
  BY <1>1, <1>3 DEF Rest, Covers
<1>9. Rest(order[s]) = 0 /\ order[s].limit = 0
  BY <1>1 DEF Slots, Open, NoOrder, Rest
<1>10. c \in Int
  <2>1. p.quantity \in Int /\ p.limit \in Int
    BY <1>1 DEF Covers
  <2> QED
    BY <2>1, UnitCost
<1>11. Available \in Int /\ Available' \in Int /\ Available' = Available - c
  <2>1. PaidFor(order'[s]) /\ cash' \in Int
    BY <1>3, <1>4, <1>5
  <2>2. /\ Available \in Int /\ Available' \in Int
        /\ Available' = Available + (cash' - cash)
             + (Cost(Rest(order[s]), order[s].limit) - Cost(Rest(order'[s]), order'[s].limit))
    <3> HIDE DEF s
    <3> QED
      BY <1>1, <1>3, <2>1, AvailableMoves
  <2>3. Cost(Rest(order[s]), order[s].limit) = 0 /\ Cost(Rest(order'[s]), order'[s].limit) = c
    BY <1>8, <1>9, NoCost
  <2> QED
    BY <1>5, <1>10, <2>2, <2>3
<1>12. Cardinality(Slots') <= MaximumPositions
  <2>1. Slots' \subseteq Slots \cup {s}
    BY <1>2, <1>3 DEF Slots, Open
  <2>2. IsFiniteSet(Slots \cup {s}) /\ Cardinality(Slots \cup {s}) = Cardinality(Slots) + 1
    BY <1>1, SlotsAreFinite, FS_AddElement
  <2>3. Cardinality(Slots') \in Nat /\ Cardinality(Slots') <= Cardinality(Slots \cup {s})
    BY <2>1, <2>2, FS_Subset, FS_CardinalityType
  <2> QED
    BY <1>1, <2>2, <2>3, SlotsAreFinite, EntryAssumption
<1> HIDE DEF s, p, o, c
<1>13. Parts * (checked - Available') <= MaximumExposure * checked /\ Available' >= 0
  BY <1>1, <1>10, <1>11
<1> QED
  BY <1>6, <1>7, <1>12, <1>13 DEF Fits

EntryInv == SpendInv /\ ReadInv /\ CheckInv

LEMMA SpendingStep == ASSUME EntryInv, [Next]_vars PROVE EntryInv' /\ (entries' # entries => Fits)
<1>1. ASSUME NEW s \in Symbol, NEW share \in Allocation, NEW close \in Price, NEW d \in Book,
             Decide(s, share, close, d)
      PROVE  EntryInv' /\ entries' = entries
  <2>1. entries' = entries /\ reading # NoReading /\ reading' = NoReading /\ checked' = checked
    BY <1>1 DEF Decide
  <2>2. SpendInv'
    BY <1>1, DecideSpends DEF EntryInv
  <2>3. ReadInv' /\ CheckInv'
    BY <2>1 DEF EntryInv, ReadInv, CheckInv
  <2> QED
    BY <2>1, <2>2, <2>3 DEF EntryInv
<1>2. ASSUME NEW share \in Allocation, NEW d \in Book, Check(share, d)
      PROVE  EntryInv' /\ entries' = entries
  <2>1. entries' = entries /\ reading' = NoReading
    BY <1>2 DEF Check
  <2>2. SpendInv' /\ CheckInv'
    BY <1>2, OthersSpend, CheckFits DEF EntryInv
  <2> QED
    BY <2>1, <2>2 DEF EntryInv, ReadInv
<1>3. CASE Read
  <2>1. entries' = entries /\ checked = 0 /\ checked' = checked
    BY <1>3 DEF Read
  <2>2. SpendInv' /\ ReadInv'
    BY <1>3, OthersSpend, ReadingStands DEF EntryInv
  <2> QED
    BY <2>1, <2>2 DEF EntryInv, CheckInv
<1>4. CASE Post
  BY <1>4, PostFits DEF EntryInv
<1>5. CASE Refuse
  <2>1. entries' = entries /\ reading' = NoReading /\ checked' = 0
    BY <1>5 DEF Refuse
  <2>2. SpendInv'
    BY <1>5, OthersSpend DEF EntryInv
  <2> QED
    BY <2>1, <2>2 DEF EntryInv, ReadInv, CheckInv
<1>6. ASSUME NEW s \in Symbol,
             \/ \E p \in Price : Move(s, p)
             \/ \E n \in 1..Rest(order[s]), p \in {order[s].limit - 1, order[s].limit} : Fill(s, n, p)
             \/ Cancel(s) \/ Protect(s) \/ Sell(s)
      PROVE  EntryInv' /\ entries' = entries
  <2>1. SpendInv'
    BY <1>6, FillSpends, OthersSpend DEF EntryInv
  <2>2. /\ Available \in Int /\ Available' \in Int /\ Available' >= Available
        /\ Slots' \subseteq Slots /\ UNCHANGED sending
    BY <1>6, OthersLeave DEF EntryInv
  <2>3. ReadInv' /\ CheckInv'
    BY <2>2, OthersKeep DEF EntryInv
  <2> QED
    BY <2>1, <2>2, <2>3 DEF EntryInv, sending
<1>7. CASE UNCHANGED vars
  <2>1. SpendInv' /\ Available \in Int
    BY <1>7, OthersSpend, AccountIsWhole DEF EntryInv
  <2>2. Available' = Available /\ Slots' = Slots /\ UNCHANGED sending
    BY <1>7 DEF vars, Available, Slots, Open
  <2>3. ReadInv' /\ CheckInv'
    BY <2>1, <2>2, OthersKeep DEF EntryInv
  <2> QED
    BY <2>1, <2>2, <2>3 DEF EntryInv, sending
<1> QED
  BY <1>1, <1>2, <1>3, <1>4, <1>5, <1>6, <1>7 DEF Next

(* When an entry reaches the venue, what it and the other open buys leave of the
   cash is at least the part beyond MaximumExposure of the account as it was
   last read, in at most MaximumPositions symbols, whatever moved, was filled,
   cancelled or sold between that reading and the POST.                      *)
THEOREM EntriesStayWithin == Spec => EntriesFit
<1>1. Init => EntryInv
  BY SpendingStarts DEF Init, EntryInv, ReadInv, CheckInv
<1>2. EntryInv /\ [Next]_vars => EntryInv' /\ [entries' # entries => Fits]_vars
  BY SpendingStep
<1> QED
  BY <1>1, <1>2, PTL DEF Spec, EntriesFit, Fits

-----------------------------------------------------------------------------
(* SourceAccount: readings of the account while orders fill.                 *)

Row == [st: {"none", "open", "filled", "cancelled"}, size: Int, filled: Nat, quote: Int,
        fee: {"eur", "coins", "hidden"}, eur: Int, coins: Int]

Nobody == Account!NoOrder

(* What every sight of an order is like: one that has not filled has moved
   nothing, and fees are taken in EUR or in coins.                           *)
Sound(o) ==
    /\ o \in Row
    /\ o.filled = 0 => o.quote = 0 /\ o.eur = 0 /\ o.coins = 0
    /\ o.fee = "coins" => o.eur = 0
    /\ o.st = "none" => o = Nobody

SoundRows(rows) == DOMAIN rows = Account!Order /\ \A o \in Account!Order : Sound(rows[o])

(* What the journal knows of its orders: nothing is at the venue that was not
   tried, and an order that has ended is as it was saved.                    *)
Journalled ==
    /\ SoundRows(sale) /\ SoundRows(saved)
    /\ decision \in [Account!Order -> {"none", "attempting", "absent", "acknowledged"}]
    /\ \A o \in Account!Order :
        /\ decision[o] \in {"none", "absent"} => sale[o] = Nobody
        /\ decision[o] # "acknowledged" => saved[o] = Nobody
        /\ decision[o] = "acknowledged" => saved[o] # Nobody /\ sale[o] # Nobody
        /\ Account!Ended(saved[o]) => sale[o] = saved[o]

(* An exit is begun when everything before it has ended.                     *)
InTurn ==
    \A o, j \in Account!Order :
        j < o /\ decision[o] # "none" => decision[j] = "acknowledged" /\ Account!Ended(saved[j])

(* The rows of a reading, with what the venue says now of those it has.      *)
Seen == [o \in Account!Order |-> IF reader.rows[o] = Nobody THEN Nobody ELSE sale[o]]

(* What a reading under way has seen of an order that ended is final, and a
   trade that had closed when it read the orders is closed in its rows.      *)
Reading ==
    /\ reader.at \in {"idle", "orders", "details", "fills"}
    /\ {"at", "rows", "closed"} \subseteq DOMAIN reader
    /\ reader.at \in {"details", "fills"} =>
        /\ SoundRows(reader.rows)
        /\ \A o \in Account!Order :
            /\ reader.rows[o] # Nobody => sale[o] # Nobody
            /\ decision[o] = "acknowledged" => reader.rows[o] # Nobody
            /\ Account!Ended(reader.rows[o]) =>
                  Account!Ended(sale[o]) /\ sale[o].filled = reader.rows[o].filled
    /\ reader.at = "fills" =>
        \A o \in Account!Order :
            reader.rows[o].filled > 0 /\ Account!Ended(reader.rows[o]) => reader.rows[o] = sale[o]
    /\ reader.at = "details" /\ reader.closed =>
        /\ reader.rows[0].filled > 0 /\ Account!Left(Seen) = 0
        /\ \A o \in Account!Order : reader.rows[o] = Nobody \/ Account!Ended(reader.rows[o])
    /\ reader.at = "fills" /\ reader.closed => Account!Closed(reader.rows)

(* What the last reading returned of a trade stays true: it is over.         *)
Returned ==
    account.complete =>
        /\ account.closed => account.result.traded
        /\ account.result.known => account.result.traded /\ account.result.net = Account!Cash
        /\ account.result.traded =>
            Account!Closed(sale) /\ \A o \in Account!Order : decision[o] # "attempting"

AInv == Journalled /\ InTurn /\ Reading /\ Returned

-----------------------------------------------------------------------------
LEMMA NobodyIsSound ==
    /\ Sound(Nobody) /\ Nobody.st = "none" /\ Nobody.filled = 0 /\ Nobody.coins = 0
    /\ ~ Account!Ended(Nobody)
BY DEF Sound, Row, Nobody, Account!NoOrder, Account!Ended

LEMMA OrdersAreFinite ==
    /\ IsFiniteSet(Account!Exit) /\ 0 \in Account!Order /\ Account!Exit \subseteq Account!Order
    /\ Account!Order = Account!Exit \cup {0}
<1>1. IsFiniteSet(1..Exits)
  BY FS_Interval, AccountAssumption
<1> QED
  BY <1>1, AccountAssumption DEF Account!Exit, Account!Order

LEMMA AccountSum ==
    ASSUME NEW f, DOMAIN f = Account!Exit
    PROVE  Account!SumFunction(f) = SumFunctionOnSet(f, Account!Exit)
BY DEF Account!SumFunction, Account!SumFunctionOnSet, SumFunctionOnSet,
       Account!FoldFunctionOnSet, FoldFunctionOnSet, Account!MapThenFoldSet, MapThenFoldSet

Leaving(rows) == [o \in Account!Exit |-> rows[o].filled + rows[o].coins]

LEMMA LeftIsWhole ==
    ASSUME NEW rows, SoundRows(rows)
    PROVE  /\ Account!Left(rows) \in Int
           /\ SumFunctionOnSet(Leaving(rows), Account!Exit) \in Int
           /\ Account!Left(rows) =
                rows[0].filled - (rows[0].coins + SumFunctionOnSet(Leaving(rows), Account!Exit))
<1>1. \A o \in Account!Exit : Leaving(rows)[o] \in Int
  <2> SUFFICES ASSUME NEW o \in Account!Exit PROVE Leaving(rows)[o] \in Int
    OBVIOUS
  <2>1. rows[o] \in Row
    BY OrdersAreFinite DEF SoundRows, Sound
  <2> QED
    BY <2>1 DEF Leaving, Row
<1>2. SumFunctionOnSet(Leaving(rows), Account!Exit) \in Int
  BY <1>1, OrdersAreFinite, SumInt
<1>3. rows[0].filled \in Int /\ rows[0].coins \in Int
  BY OrdersAreFinite DEF SoundRows, Sound, Row
<1>4. Account!Sold(rows) = rows[0].coins + SumFunctionOnSet(Leaving(rows), Account!Exit)
  <2>1. DOMAIN Leaving(rows) = Account!Exit
    BY DEF Leaving
  <2>2. Account!SumFunction(Leaving(rows)) = SumFunctionOnSet(Leaving(rows), Account!Exit)
    BY <2>1, AccountSum
  <2> QED
    BY <2>2 DEF Account!Sold, Leaving
<1> QED
  BY <1>2, <1>3, <1>4 DEF Account!Left

LEMMA SameLeft ==
    ASSUME NEW rows, NEW others, SoundRows(rows), SoundRows(others),
           \A o \in Account!Order : others[o].filled = rows[o].filled /\ others[o].coins = rows[o].coins
    PROVE  Account!Left(others) = Account!Left(rows)
<1>1. \A o \in Account!Exit : Leaving(rows)[o] = Leaving(others)[o]
  BY OrdersAreFinite DEF Leaving
<1>2. Leaving(rows) = Leaving(others)
  BY <1>1 DEF Leaving
<1>3. rows[0].filled = others[0].filled /\ rows[0].coins = others[0].coins
  BY OrdersAreFinite
<1> QED
  BY <1>2, <1>3, LeftIsWhole

LEMMA AccountStarts == ASSUME Account!Init PROVE AInv
<1>1. sale = [o \in Account!Order |-> Nobody] /\ saved = [o \in Account!Order |-> Nobody]
  BY DEF Account!Init, Nobody
<1>2. Journalled /\ InTurn
  BY <1>1, NobodyIsSound DEF Account!Init, Journalled, InTurn, SoundRows
<1>3. Reading
  BY DEF Account!Init, Account!Idle, Reading
<1>4. Returned
  BY DEF Account!Init, Returned
<1> QED
  BY <1>2, <1>3, <1>4 DEF AInv

(* A trade that is over: no exit can begin any more.                         *)
LEMMA OverIsOver ==
    ASSUME AInv, Account!Closed(sale), NEW o \in Account!Order, Account!Begin(o)
    PROVE  FALSE
<1>1. CASE o = 0
  <2>1. decision[0] = "none"
    BY <1>1 DEF Account!Begin
  <2>2. sale[0] = Nobody
    BY <2>1, OrdersAreFinite DEF AInv, Journalled
  <2>3. sale[0].filled > 0
    BY DEF Account!Closed
  <2> QED
    BY <2>2, <2>3, NobodyIsSound
<1>2. CASE o > 0
  <2>1. /\ o - 1 \in Account!Order /\ decision[o] = "none" /\ Account!Left(saved) > 0
        /\ decision[o - 1] = "acknowledged" /\ Account!Ended(saved[o - 1])
    BY <1>2, AccountAssumption DEF Account!Begin, Account!Order
  <2>2. ASSUME NEW j \in Account!Order PROVE sale[j] = saved[j]
    <3>1. CASE j < o
      <4>1. j = o - 1 \/ j < o - 1
        BY <3>1, AccountAssumption DEF Account!Order
      <4>2. Account!Ended(saved[j])
        BY <2>1, <4>1 DEF AInv, InTurn
      <4> QED
        BY <4>2 DEF AInv, Journalled
    <3>2. CASE j >= o
      <4>1. decision[j] = "none"
        <5>1. CASE j = o
          BY <5>1, <2>1
        <5>2. CASE j # o
          <6>1. o < j
            BY <3>2, <5>2, AccountAssumption DEF Account!Order
          <6> QED
            BY <6>1, <2>1 DEF AInv, InTurn
        <5> QED
          BY <5>1, <5>2
      <4> QED
        BY <4>1 DEF AInv, Journalled
    <3> QED
      BY <3>1, <3>2, AccountAssumption DEF Account!Order
  <2>3. Account!Left(saved) = Account!Left(sale)
    BY <2>2, SameLeft DEF AInv, Journalled
  <2> QED
    BY <2>1, <2>3 DEF Account!Closed
<1> QED
  BY <1>1, <1>2, AccountAssumption DEF Account!Order

(* The venue changes an order that has not ended.                            *)
LEMMA VenueKeepsReading ==
    ASSUME AInv, NEW o \in Account!Order, NEW changed, Sound(changed), changed # Nobody, ~ Account!Ended(sale[o]),
           decision[o] = "attempting" \/ sale[o] # Nobody,
           sale'[o] = changed, DOMAIN sale' = Account!Order,
           \A j \in Account!Order \ {o} : sale'[j] = sale[j],
           UNCHANGED <<decision, saved, reader, account>>
    PROVE  AInv'
<1>1. SoundRows(sale)' /\ \A j \in Account!Order : sale[j] # Nobody => sale'[j] # Nobody
  BY DEF AInv, Journalled, SoundRows
<1>2. Journalled'
  <2>1. decision[o] \notin {"none", "absent"}
    BY DEF AInv, Journalled
  <2>2. ~ Account!Ended(saved[o])
    BY DEF AInv, Journalled
  <2>3. \A j \in Account!Order : decision'[j] \in {"none", "absent"} => sale'[j] = Nobody
    BY <2>1 DEF AInv, Journalled
  <2>4. \A j \in Account!Order : Account!Ended(saved'[j]) => sale'[j] = saved'[j]
    BY <2>2 DEF AInv, Journalled
  <2>5. \A j \in Account!Order :
          /\ decision'[j] # "acknowledged" => saved'[j] = Nobody
          /\ decision'[j] = "acknowledged" => saved'[j] # Nobody /\ sale'[j] # Nobody
    BY <1>1 DEF AInv, Journalled
  <2> QED
    BY <1>1, <2>3, <2>4, <2>5 DEF AInv, Journalled, SoundRows
<1>3. InTurn'
  BY DEF AInv, InTurn
<1>4. Reading'
  <2>1. reader.at \in {"details", "fills"} => ~ Account!Ended(reader.rows[o])
    BY DEF AInv, Reading
  <2>2. reader.at \in {"details", "fills"} =>
          \A j \in Account!Order :
            /\ reader.rows[j] # Nobody => sale'[j] # Nobody
            /\ Account!Ended(reader.rows[j]) =>
                  Account!Ended(sale'[j]) /\ sale'[j].filled = reader.rows[j].filled
    BY <1>1, <2>1 DEF AInv, Reading
  <2>3. reader.at = "fills" =>
          \A j \in Account!Order :
            reader.rows[j].filled > 0 /\ Account!Ended(reader.rows[j]) => reader.rows[j] = sale'[j]
    BY <2>1 DEF AInv, Reading
  <2>4. reader.at = "details" /\ reader.closed => Seen' = Seen
    <3> SUFFICES ASSUME reader.at = "details", reader.closed PROVE Seen' = Seen
      OBVIOUS
    <3>1. reader.rows[o] = Nobody
      BY <2>1 DEF AInv, Reading
    <3>2. \A j \in Account!Order :
            (IF reader.rows[j] = Nobody THEN Nobody ELSE sale'[j])
              = (IF reader.rows[j] = Nobody THEN Nobody ELSE sale[j])
      BY <3>1
    <3> QED
      BY <3>2 DEF Seen
  <2>5. reader.at = "details" /\ reader.closed => Account!Left(Seen)' = Account!Left(Seen)
    BY <2>4 DEF Account!Left, Account!Sold
  <2> QED
    BY <2>2, <2>3, <2>5 DEF AInv, Reading, SoundRows
<1>5. Returned'
  <2>1. ~ (account.complete /\ account.result.traded)
    BY DEF AInv, Returned, Account!Closed, Nobody
  <2> QED
    BY <2>1 DEF AInv, Returned
<1> QED
  BY <1>2, <1>3, <1>4, <1>5 DEF AInv

LEMMA AcceptKeeps ==
    ASSUME AInv, NEW o \in Account!Order, Account!Accept(o)
    PROVE  AInv'
<1>1. PICK fee \in {"eur", "coins", "hidden"} :
        sale' = [sale EXCEPT ![o] = [Nobody EXCEPT !.st = "open", !.fee = fee,
                    !.size = IF o = 0 THEN Ordered ELSE Account!Left(sale)]]
  BY DEF Account!Accept, Nobody
<1>2. /\ decision[o] = "attempting" /\ sale[o] = Nobody
      /\ UNCHANGED <<decision, saved, reader, account>>
  BY DEF Account!Accept, Nobody
<1> DEFINE size == IF o = 0 THEN Ordered ELSE Account!Left(sale)
           changed == [Nobody EXCEPT !.st = "open", !.fee = fee, !.size = size]
<1>3. size \in Int
  BY LeftIsWhole, AccountAssumption DEF AInv, Journalled
<1>4. sale'[o] = changed /\ DOMAIN sale' = Account!Order /\ \A j \in Account!Order \ {o} : sale'[j] = sale[j]
  BY <1>1 DEF AInv, Journalled, SoundRows
<1> HIDE DEF size
<1>5. Sound(changed) /\ changed # Nobody
  <2>1. Nobody \in Row /\ Nobody.filled = 0 /\ Nobody.quote = 0 /\ Nobody.eur = 0 /\ Nobody.coins = 0
    BY DEF Row, Nobody, Account!NoOrder
  <2>2. changed \in Row /\ changed.st = "open" /\ changed.filled = 0 /\ changed.quote = 0 /\ changed.eur = 0 /\ changed.coins = 0
    BY <1>3, <2>1 DEF Row
  <2> HIDE DEF changed
  <2> QED
    BY <2>2, NobodyIsSound DEF Sound
<1> HIDE DEF changed
<1> QED
  BY <1>2, <1>4, <1>5, NobodyIsSound, VenueKeepsReading

LEMMA VenueFillKeeps ==
    ASSUME AInv, NEW o \in Account!Order, NEW n \in 1..Ordered, NEW p \in FillPrice, Account!Fill(o, n, p)
    PROVE  AInv'
<1> DEFINE this    == sale[o]
           charged == IF this.fee = "coins" /\ this.coins = 0 THEN FeeCoins ELSE 0
           changed == [this EXCEPT !.st = IF this.filled + n = this.size THEN "filled" ELSE "open",
                        !.filled = this.filled + n, !.quote = this.quote + n * p,
                        !.coins = this.coins + charged,
                        !.eur = IF this.fee = "coins" THEN 0 ELSE this.eur + FeeEur]
<1>1. /\ this.st = "open" /\ sale' = [sale EXCEPT ![o] = changed]
      /\ UNCHANGED <<decision, saved, reader, account>>
  BY DEF Account!Fill
<1>2. Sound(this)
  BY DEF AInv, Journalled, SoundRows
<1>3. sale'[o] = changed /\ DOMAIN sale' = Account!Order /\ \A j \in Account!Order \ {o} : sale'[j] = sale[j]
  BY <1>1 DEF AInv, Journalled, SoundRows
<1>4. this # Nobody /\ ~ Account!Ended(this)
  BY <1>1, NobodyIsSound DEF Account!Ended
<1> HIDE DEF this
<1>5. n \in Nat /\ n > 0 /\ n * p \in Int
  <2>1. n \in Nat /\ n > 0 /\ p \in Int
    BY AccountAssumption
  <2> QED
    BY <2>1
<1>6. charged \in Int /\ FeeEur \in Int
  BY AccountAssumption
<1> HIDE DEF charged
<1>7. /\ changed \in Row /\ changed.filled = this.filled + n /\ changed.fee = this.fee
      /\ changed.st \in {"filled", "open"} /\ changed.eur = IF this.fee = "coins" THEN 0 ELSE this.eur + FeeEur
  <2> DEFINE filled == this.filled + n
             quote  == this.quote + n * p
             coins  == this.coins + charged
             eur    == IF this.fee = "coins" THEN 0 ELSE this.eur + FeeEur
             st     == IF this.filled + n = this.size THEN "filled" ELSE "open"
  <2>1. /\ filled \in Nat /\ quote \in Int /\ coins \in Int /\ eur \in Int /\ st \in {"filled", "open"}
        /\ this \in Row
    BY <1>2, <1>5, <1>6 DEF Sound, Row
  <2>2. changed = [this EXCEPT !.st = st, !.filled = filled, !.quote = quote, !.coins = coins, !.eur = eur]
    OBVIOUS
  <2> HIDE DEF filled, quote, coins, eur, st, changed
  <2>3. changed \in Row /\ changed.filled = filled /\ changed.fee = this.fee /\ changed.st = st /\ changed.eur = eur
    BY <2>1, <2>2 DEF Row
  <2> QED
    BY <2>1, <2>3 DEF filled, eur
<1>8. this.filled \in Nat
  BY <1>2 DEF Sound, Row
<1> HIDE DEF changed
<1>9. Sound(changed) /\ changed # Nobody
  BY <1>5, <1>7, <1>8, NobodyIsSound DEF Sound
<1> QED
  BY <1>1, <1>3, <1>4, <1>9, VenueKeepsReading DEF this

LEMMA EndKeeps ==
    ASSUME AInv, NEW o \in Account!Order, Account!End(o)
    PROVE  AInv'
<1> DEFINE this == sale[o]
           changed == [this EXCEPT !.st = "cancelled"]
<1>1. this.st = "open" /\ sale' = [sale EXCEPT ![o].st = "cancelled"] /\ UNCHANGED <<decision, saved, reader, account>>
  BY DEF Account!End
<1>2. Sound(this)
  BY DEF AInv, Journalled, SoundRows
<1>3. sale'[o] = changed /\ DOMAIN sale' = Account!Order /\ \A j \in Account!Order \ {o} : sale'[j] = sale[j]
  BY <1>1 DEF AInv, Journalled, SoundRows
<1>4. this # Nobody /\ ~ Account!Ended(this)
  BY <1>1, NobodyIsSound DEF Account!Ended
<1> HIDE DEF this
<1>5. /\ changed \in Row /\ changed.st = "cancelled" /\ changed.filled = this.filled /\ changed.quote = this.quote
      /\ changed.eur = this.eur /\ changed.coins = this.coins /\ changed.fee = this.fee
  BY <1>2 DEF Sound, Row
<1> HIDE DEF changed
<1>6. Sound(changed) /\ changed # Nobody
  BY <1>2, <1>5, NobodyIsSound DEF Sound
<1> QED
  BY <1>1, <1>3, <1>4, <1>6, VenueKeepsReading DEF this

LEMMA BeginKeeps ==
    ASSUME AInv, NEW o \in Account!Order, Account!Begin(o)
    PROVE  AInv'
<1>1. /\ reader.at = "idle" /\ decision[o] = "none" /\ decision' = [decision EXCEPT ![o] = "attempting"]
      /\ UNCHANGED <<sale, saved, reader, account>>
  BY DEF Account!Begin, Account!Idle
<1>2. Journalled'
  BY <1>1 DEF AInv, Journalled, SoundRows
<1>3. InTurn'
  <2> SUFFICES ASSUME NEW k \in Account!Order, NEW j \in Account!Order, j < k, decision'[k] # "none"
               PROVE  decision'[j] = "acknowledged" /\ Account!Ended(saved'[j])
    BY DEF InTurn
  <2>1. CASE k = o
    <3>1. /\ o - 1 \in Account!Order /\ decision[o - 1] = "acknowledged" /\ Account!Ended(saved[o - 1])
          /\ j = o - 1 \/ j < o - 1
      BY <2>1, AccountAssumption DEF Account!Begin, Account!Order
    <3>2. decision[j] = "acknowledged" /\ Account!Ended(saved[j])
      BY <3>1 DEF AInv, InTurn
    <3> QED
      BY <1>1, <3>2 DEF AInv, Journalled
  <2>2. CASE k # o
    <3>1. decision[k] # "none"
      BY <1>1, <2>2 DEF AInv, Journalled
    <3>2. decision[j] = "acknowledged" /\ Account!Ended(saved[j])
      BY <3>1 DEF AInv, InTurn
    <3> QED
      BY <1>1, <3>2 DEF AInv, Journalled
  <2> QED
    BY <2>1, <2>2
<1>4. Reading'
  BY <1>1 DEF AInv, Reading
<1>5. Returned'
  <2>1. ~ (account.complete /\ account.result.traded)
    BY OverIsOver DEF AInv, Returned
  <2>2. Returned
    BY DEF AInv
  <2> QED
    BY <1>1, <2>1, <2>2 DEF Returned
<1> QED
  BY <1>2, <1>3, <1>4, <1>5 DEF AInv

LEMMA RefuseKeeps ==
    ASSUME AInv, NEW o \in Account!Order, Account!Refuse(o)
    PROVE  AInv'
<1>1. /\ reader.at = "idle" /\ decision[o] = "attempting" /\ sale[o] = Nobody
      /\ decision' = [decision EXCEPT ![o] = "absent"]
      /\ UNCHANGED <<sale, saved, reader, account>>
  BY DEF Account!Refuse, Account!Idle, Nobody
<1>2. Journalled'
  BY <1>1 DEF AInv, Journalled, SoundRows
<1>3. InTurn'
  <2> SUFFICES ASSUME NEW k \in Account!Order, NEW j \in Account!Order, j < k, decision'[k] # "none"
               PROVE  decision'[j] = "acknowledged" /\ Account!Ended(saved'[j])
    BY DEF InTurn
  <2>1. decision[k] # "none"
    BY <1>1 DEF AInv, Journalled
  <2>2. decision[j] = "acknowledged" /\ Account!Ended(saved[j])
    BY <2>1 DEF AInv, InTurn
  <2> QED
    BY <1>1, <2>2 DEF AInv, Journalled
<1>4. Reading'
  BY <1>1 DEF AInv, Reading
<1>5. Returned'
  <2>1. ~ (account.complete /\ account.result.traded)
    BY <1>1 DEF AInv, Returned
  <2>2. Returned
    BY DEF AInv
  <2> QED
    BY <1>1, <2>1, <2>2 DEF Returned
<1> QED
  BY <1>2, <1>3, <1>4, <1>5 DEF AInv

LEMMA AcknowledgeKeeps ==
    ASSUME AInv, NEW o \in Account!Order, Account!Acknowledge(o)
    PROVE  AInv'
<1>1. /\ reader.at = "idle" /\ decision[o] \in {"attempting", "acknowledged"}
      /\ sale[o] # Nobody /\ saved[o] # sale[o]
      /\ decision' = [decision EXCEPT ![o] = "acknowledged"] /\ saved' = [saved EXCEPT ![o] = sale[o]]
      /\ UNCHANGED <<sale, reader, account>>
  BY DEF Account!Acknowledge, Account!Idle, Nobody
<1>2. Journalled'
  BY <1>1 DEF AInv, Journalled, SoundRows
<1>3. InTurn'
  <2> SUFFICES ASSUME NEW k \in Account!Order, NEW j \in Account!Order, j < k, decision'[k] # "none"
               PROVE  decision'[j] = "acknowledged" /\ Account!Ended(saved'[j])
    BY DEF InTurn
  <2>1. decision[k] # "none"
    BY <1>1 DEF AInv, Journalled
  <2>2. decision[j] = "acknowledged" /\ Account!Ended(saved[j])
    BY <2>1 DEF AInv, InTurn
  <2>3. j # o
    BY <1>1, <2>2 DEF AInv, Journalled
  <2> QED
    BY <1>1, <2>2, <2>3 DEF AInv, Journalled
<1>4. Reading'
  BY <1>1 DEF AInv, Reading
<1>5. Returned'
  <2>1. \A k \in Account!Order : decision[k] # "attempting" => decision'[k] # "attempting"
    BY <1>1 DEF AInv, Journalled
  <2>2. Returned
    BY DEF AInv
  <2> QED
    BY <1>1, <2>1, <2>2 DEF Returned, Account!Closed, Account!Left, Account!Sold, Account!Cash
<1> QED
  BY <1>2, <1>3, <1>4, <1>5 DEF AInv

(* Steps of a reading leave everything else alone.                           *)
LEMMA ReaderKeeps ==
    ASSUME AInv, UNCHANGED <<sale, decision, saved, account>>, Reading'
    PROVE  AInv'
<1>1. Journalled' /\ InTurn'
  BY DEF AInv, Journalled, InTurn, SoundRows
<1>2. Returned'
  BY DEF AInv, Returned, Account!Closed, Account!Left, Account!Sold, Account!Cash
<1> QED
  BY <1>1, <1>2 DEF AInv

LEMMA ReadOrdersKeeps == ASSUME AInv, Account!ReadOrders PROVE AInv'
<1>1. PICK gone \in SUBSET {o \in Account!Order : Account!Ended(saved[o])} :
        reader' = [reader EXCEPT !.at = "details", !.gone = gone, !.closed = Account!Closed(sale),
                     !.rows = [o \in Account!Order |-> IF o \in gone THEN saved[o] ELSE Account!Row(sale[o])]]
  BY DEF Account!ReadOrders
<1>2. UNCHANGED <<sale, decision, saved, account>>
  BY DEF Account!ReadOrders
<1> DEFINE rows == [o \in Account!Order |-> IF o \in gone THEN saved[o] ELSE Account!Row(sale[o])]
<1>3. ASSUME NEW o \in Account!Order
      PROVE  /\ Sound(rows[o]) /\ rows[o].filled = sale[o].filled /\ rows[o].st = sale[o].st
             /\ rows[o] = Nobody <=> sale[o] = Nobody
  <2>1. Sound(sale[o]) /\ Sound(saved[o])
    BY DEF AInv, Journalled, SoundRows
  <2>2. CASE o \in gone
    <3>1. rows[o] = sale[o]
      BY <2>2 DEF AInv, Journalled
    <3> QED
      BY <2>1, <3>1
  <2>3. CASE o \notin gone
    <3>1. rows[o] = Account!Row(sale[o])
      BY <2>3
    <3> HIDE DEF rows
    <3>2. CASE sale[o].fee # "coins"
      BY <2>1, <3>1, <3>2 DEF Account!Row
    <3>3. CASE sale[o].fee = "coins"
      <4> DEFINE this == sale[o]
                 changed == [this EXCEPT !.fee = "hidden", !.coins = 0]
      <4>0. changed = [sale[o] EXCEPT !.fee = "hidden", !.coins = 0]
        OBVIOUS
      <4>5. this \in Row
        BY <2>1 DEF Sound
      <4> HIDE DEF this
      <4>1. /\ changed \in Row /\ changed.fee = "hidden" /\ changed.coins = 0 /\ changed.filled = this.filled
            /\ changed.st = this.st /\ changed.quote = this.quote /\ changed.eur = this.eur
        <5> DEFINE hidden == "hidden"
                   none   == 0
                   masked      == [this EXCEPT !.fee = hidden]
        <5>1. /\ hidden \in {"eur", "coins", "hidden"} /\ none \in Int
              /\ changed = [this EXCEPT !.fee = hidden, !.coins = none]
          OBVIOUS
        <5> HIDE DEF hidden, none, changed
        <5>2. /\ masked \in Row /\ masked.fee = hidden /\ masked.filled = this.filled
              /\ masked.st = this.st /\ masked.quote = this.quote /\ masked.eur = this.eur
          BY <4>5, <5>1 DEF Row
        <5>3. changed = [masked EXCEPT !.coins = none]
          BY <4>5, <5>1 DEF Row
        <5> HIDE DEF masked
        <5>4. /\ changed \in Row /\ changed.fee = masked.fee /\ changed.coins = none /\ changed.filled = masked.filled
              /\ changed.st = masked.st /\ changed.quote = masked.quote /\ changed.eur = masked.eur
          BY <5>1, <5>2, <5>3 DEF Row
        <5> QED
          BY <5>2, <5>4 DEF hidden, none
      <4> HIDE DEF changed
      <4>2. rows[o] = changed
        BY <3>1, <3>3, <4>0 DEF Account!Row
      <4>3. sale[o] # Nobody
        BY <3>3 DEF Nobody, Account!NoOrder
      <4>4. sale[o].st # "none"
        BY <2>1, <4>3 DEF Sound
      <4> QED
        BY <2>1, <4>1, <4>2, <4>3, <4>4, NobodyIsSound DEF Sound, this
    <3> QED
      BY <3>2, <3>3
  <2> QED
    BY <2>2, <2>3
<1>4. /\ reader'.at = "details" /\ reader'.closed = Account!Closed(sale) /\ reader'.rows = rows
      /\ {"at", "rows", "closed"} \subseteq DOMAIN reader'
  <2>1. {"at", "rows", "closed"} \subseteq DOMAIN reader
    BY DEF AInv, Reading
  <2> QED
    BY <1>1, <2>1
<1>5. SoundRows(rows)
  BY <1>3 DEF SoundRows
<1> HIDE DEF rows
<1>6. ASSUME Account!Closed(sale)
      PROVE  /\ rows[0].filled > 0 /\ Account!Left(Seen') = 0
             /\ \A o \in Account!Order : rows[o] = Nobody \/ Account!Ended(rows[o])
  <2>1. Seen' = [o \in Account!Order |-> IF rows[o] = Nobody THEN Nobody ELSE sale[o]]
    BY <1>2, <1>4 DEF Seen
  <2>2. Account!Left(Seen') = Account!Left(sale)
    <3>1. PICK sight : sight = Seen'
      OBVIOUS
    <3>2. \A o \in Account!Order : sight[o] = sale[o]
      BY <1>3, <2>1, <3>1
    <3>3. SoundRows(sight) /\ SoundRows(sale)
      BY <2>1, <3>1, <3>2 DEF AInv, Journalled, SoundRows
    <3>4. Account!Left(sight) = Account!Left(sale)
      BY <3>2, <3>3, SameLeft
    <3> QED
      BY <3>1, <3>4
  <2>3. sale[0].filled > 0 /\ Account!Left(sale) = 0
    BY <1>6 DEF Account!Closed
  <2>4. \A o \in Account!Order : sale[o] = Nobody \/ Account!Ended(sale[o])
    BY <1>6 DEF Account!Closed, Nobody
  <2>5. \A o \in Account!Order : rows[o] = Nobody \/ Account!Ended(rows[o])
    BY <1>3, <2>4 DEF Account!Ended
  <2>6. rows[0].filled > 0
    BY <1>3, <2>3, OrdersAreFinite
  <2> QED
    BY <2>2, <2>3, <2>5, <2>6
<1>7. Reading'
  <2>1. \A o \in Account!Order :
          /\ rows[o] # Nobody => sale[o] # Nobody
          /\ decision[o] = "acknowledged" => rows[o] # Nobody
          /\ Account!Ended(rows[o]) => Account!Ended(sale[o]) /\ sale[o].filled = rows[o].filled
    BY <1>3 DEF AInv, Journalled, Account!Ended
  <2>2. Account!Left(Seen)' = Account!Left(Seen')
    BY DEF Account!Left, Account!Sold
  <2> QED
    BY <1>2, <1>4, <1>5, <1>6, <2>1, <2>2 DEF Reading
<1> QED
  BY <1>2, <1>7, ReaderKeeps

LEMMA ReadBalancesKeeps == ASSUME AInv, Account!ReadBalances PROVE AInv'
<1>1. /\ reader' = [Account!Idle EXCEPT !.at = "orders", !.coins = Account!Coins]
      /\ UNCHANGED <<sale, decision, saved, account>>
  BY DEF Account!ReadBalances
<1>2. reader'.at = "orders" /\ {"at", "rows", "closed"} \subseteq DOMAIN reader'
  BY <1>1 DEF Account!Idle
<1>3. Reading'
  BY <1>2 DEF Reading
<1> QED
  BY <1>1, <1>3, ReaderKeeps

LEMMA StopsReading == ASSUME reader' = Account!Idle PROVE Reading'
<1>1. reader'.at = "idle" /\ {"at", "rows", "closed"} \subseteq DOMAIN reader'
  BY DEF Account!Idle
<1> QED
  BY <1>1 DEF Reading

LEMMA ReadDetailsKeeps == ASSUME AInv, Account!ReadDetails PROVE AInv'
<1> DEFINE rows == Account!Detailed(reader.rows)
<1>1. /\ reader.at = "details" /\ UNCHANGED <<sale, decision, saved, account>>
      /\ reader' = [reader EXCEPT !.at = "fills", !.rows = rows] \/ reader' = Account!Idle
  BY DEF Account!ReadDetails
<1>2. CASE reader' = Account!Idle
  BY <1>1, <1>2, StopsReading, ReaderKeeps
<1>3. CASE reader' = [reader EXCEPT !.at = "fills", !.rows = rows]
  <2>1. /\ reader'.at = "fills" /\ reader'.rows = rows /\ reader'.closed = reader.closed
        /\ {"at", "rows", "closed"} \subseteq DOMAIN reader'
    <3>1. {"at", "rows", "closed"} \subseteq DOMAIN reader
      BY DEF AInv, Reading
    <3> HIDE DEF rows
    <3> QED
      BY <1>3, <3>1
  <2>2. SoundRows(sale) /\ SoundRows(reader.rows)
    BY <1>1 DEF AInv, Journalled, Reading
  <2>3. DOMAIN rows = Account!Order /\ \A o \in Account!Order :
          rows[o] = IF reader.rows[o].filled > 0 THEN sale[o] ELSE reader.rows[o]
    BY DEF Account!Detailed
  <2> HIDE DEF rows
  <2>4. ASSUME NEW o \in Account!Order
        PROVE  /\ Sound(rows[o])
               /\ rows[o] # Nobody => sale[o] # Nobody
               /\ decision[o] = "acknowledged" => rows[o] # Nobody
               /\ Account!Ended(rows[o]) => Account!Ended(sale[o]) /\ sale[o].filled = rows[o].filled
               /\ rows[o].filled > 0 /\ Account!Ended(rows[o]) => rows[o] = sale[o]
    <3>1. /\ reader.rows[o] # Nobody => sale[o] # Nobody
          /\ decision[o] = "acknowledged" => reader.rows[o] # Nobody /\ sale[o] # Nobody
          /\ Account!Ended(reader.rows[o]) =>
                Account!Ended(sale[o]) /\ sale[o].filled = reader.rows[o].filled
      BY <1>1 DEF AInv, Journalled, Reading
    <3>2. Sound(sale[o]) /\ Sound(reader.rows[o])
      BY <2>2 DEF SoundRows
    <3>3. CASE reader.rows[o].filled > 0
      <4>1. rows[o] = sale[o]
        BY <2>3, <3>3
      <4>2. sale[o] # Nobody
        BY <3>1, <3>3, NobodyIsSound
      <4> QED
        BY <3>2, <4>1, <4>2
    <3>4. CASE ~ (reader.rows[o].filled > 0)
      <4>1. rows[o] = reader.rows[o]
        BY <2>3, <3>4
      <4> QED
        BY <3>1, <3>2, <3>4, <4>1
    <3> QED
      BY <3>3, <3>4
  <2>5. ASSUME reader.closed PROVE Account!Closed(rows)
    <3>1. /\ reader.rows[0].filled > 0 /\ Account!Left(Seen) = 0
          /\ \A o \in Account!Order : reader.rows[o] = Nobody \/ Account!Ended(reader.rows[o])
      BY <1>1, <2>5 DEF AInv, Reading
    <3>2. ASSUME NEW o \in Account!Order
          PROVE  /\ Seen[o].filled = rows[o].filled /\ Seen[o].coins = rows[o].coins /\ Sound(Seen[o])
                 /\ rows[o] = Nobody \/ Account!Ended(rows[o])
                 /\ rows[o].filled = reader.rows[o].filled
      <4>1. Seen[o] = IF reader.rows[o] = Nobody THEN Nobody ELSE sale[o]
        BY DEF Seen
      <4>2. CASE reader.rows[o] = Nobody
        <5>1. rows[o] = Nobody /\ Seen[o] = Nobody
          BY <2>3, <4>1, <4>2, NobodyIsSound
        <5> QED
          BY <5>1, <4>2, NobodyIsSound
      <4>3. CASE reader.rows[o] # Nobody
        <5>1. /\ Account!Ended(reader.rows[o]) /\ Account!Ended(sale[o])
              /\ sale[o].filled = reader.rows[o].filled
          BY <1>1, <3>1, <4>3 DEF AInv, Reading
        <5>2. Seen[o] = sale[o] /\ Sound(sale[o]) /\ Sound(reader.rows[o])
          BY <4>1, <4>3, <2>2 DEF SoundRows
        <5>3. CASE reader.rows[o].filled > 0
          BY <5>1, <5>2, <5>3, <2>3
        <5>4. CASE ~ (reader.rows[o].filled > 0)
          <6>1. rows[o] = reader.rows[o]
            BY <2>3, <5>4
          <6>2. reader.rows[o].filled = 0
            BY <5>2, <5>4 DEF Sound, Row
          <6>3. sale[o].coins = 0 /\ reader.rows[o].coins = 0
            BY <5>1, <5>2, <6>2 DEF Sound
          <6> QED
            BY <5>1, <5>2, <6>1, <6>3
        <5> QED
          BY <5>3, <5>4
      <4> QED
        BY <4>2, <4>3
    <3>3. Account!Left(rows) = Account!Left(Seen)
      <4>1. SoundRows(Seen) /\ SoundRows(rows)
        BY <2>3, <2>4, <3>2 DEF Seen, SoundRows
      <4> QED
        BY <3>2, <4>1, SameLeft
    <3> QED
      BY <3>1, <3>2, <3>3, OrdersAreFinite DEF Account!Closed, Nobody
  <2>6. Reading'
    <3>1. SoundRows(rows)
      BY <2>3, <2>4 DEF SoundRows
    <3> QED
      BY <1>1, <2>1, <2>4, <2>5, <3>1 DEF Reading
  <2> QED
    BY <1>1, <2>6, ReaderKeeps
<1> QED
  BY <1>1, <1>2, <1>3

(* Rows whose fills matched, of a history without a gap.                     *)
LEMMA ReturnKeeps ==
    ASSUME AInv, NEW matched \in BOOLEAN, Account!Return(matched)
    PROVE  AInv'
<1> DEFINE rows == reader.rows
<1>1. /\ reader.at = "fills" /\ reader' = Account!Idle /\ UNCHANGED <<sale, decision, saved>>
      /\ account' = [complete |-> matched /\ Account!Complete(rows), closed |-> reader.closed,
                     result |-> IF matched THEN Account!Result(rows)
                                ELSE [Account!Result(rows) EXCEPT !.known = FALSE, !.net = 0]]
  BY DEF Account!Return
<1>2. /\ SoundRows(rows) /\ SoundRows(sale)
      /\ reader.closed => Account!Closed(rows)
      /\ \A o \in Account!Order :
          /\ rows[o] # Nobody => sale[o] # Nobody
          /\ decision[o] = "acknowledged" => rows[o] # Nobody
          /\ Account!Ended(rows[o]) => Account!Ended(sale[o]) /\ sale[o].filled = rows[o].filled
          /\ rows[o].filled > 0 /\ Account!Ended(rows[o]) => rows[o] = sale[o]
  BY <1>1 DEF AInv, Journalled, Reading
<1> HIDE DEF rows
<1>3. \A o \in Account!Order : o \in Account!Tried <=> decision[o] \notin {"none", "absent"}
  BY DEF Account!Tried
<1>4. \A o \in Account!Order \ Account!Tried : sale[o] = Nobody /\ rows[o] = Nobody
  BY <1>2, <1>3 DEF AInv, Journalled
<1>5. Returned'
  <2> SUFFICES ASSUME account'.complete PROVE Returned'
    BY DEF Returned
  <2>1. matched /\ Account!Complete(rows)
    BY <1>1
  <2>2. account'.closed = reader.closed /\ account'.result = Account!Result(rows)
    BY <1>1, <2>1
  <2>3. /\ account'.result.traded = Account!Traded(rows)
        /\ account'.result.known = (Account!Traded(rows) /\ Account!CostsKnown(rows))
        /\ account'.result.net = IF Account!Traded(rows) THEN Account!Net(rows) ELSE 0
    BY <2>2 DEF Account!Result
  <2>4. ASSUME Account!Closed(rows) PROVE Account!Traded(rows)
    <3>1. rows[0].filled > 0 /\ Account!Left(rows) = 0
      BY <2>4 DEF Account!Closed
    <3>2. 0 \in Account!Tried
      BY <1>4, <3>1, NobodyIsSound, OrdersAreFinite
    <3>3. ASSUME NEW o \in Account!Tried PROVE Account!Ended(rows[o])
      <4>1. o \in Account!Order /\ decision[o] = "acknowledged"
        BY <2>1, <3>1, <3>2 DEF Account!Complete, Account!Tried
      <4> QED
        BY <1>2, <2>4, <4>1 DEF Account!Closed, Nobody
    <3> QED
      BY <2>1, <3>1, <3>2, <3>3 DEF Account!Traded
  <2>5. ASSUME Account!Traded(rows)
        PROVE  /\ Account!Closed(sale) /\ \A o \in Account!Order : decision[o] # "attempting"
               /\ Account!CostsKnown(rows) => Account!Net(rows) = Account!Cash
    <3>1. /\ rows[0].filled > 0 /\ Account!Left(rows) = 0
          /\ \A o \in Account!Tried : Account!Ended(rows[o]) /\ decision[o] = "acknowledged"
      BY <2>5 DEF Account!Traded, Account!Complete
    <3>2. ASSUME NEW o \in Account!Order
          PROVE  /\ sale[o].filled = rows[o].filled /\ sale[o].coins = rows[o].coins
                 /\ sale[o] = Nobody \/ Account!Ended(sale[o])
                 /\ sale[o].quote = rows[o].quote /\ sale[o].eur = rows[o].eur
                 /\ rows[o].filled > 0 \/ rows[o].eur = 0
      <4>1. Sound(sale[o]) /\ Sound(rows[o])
        BY <1>2 DEF SoundRows
      <4>2. CASE o \notin Account!Tried
        <5>1. sale[o] = Nobody /\ rows[o] = Nobody
          BY <1>4, <4>2
        <5>2. Nobody.eur = 0
          BY DEF Nobody, Account!NoOrder
        <5> QED
          BY <5>1, <5>2
      <4>3. CASE o \in Account!Tried
        <5>1. Account!Ended(rows[o]) /\ Account!Ended(sale[o]) /\ sale[o].filled = rows[o].filled
          BY <1>2, <3>1, <4>3
        <5>2. CASE rows[o].filled > 0
          BY <1>2, <5>1, <5>2
        <5>3. CASE ~ (rows[o].filled > 0)
          <6>1. rows[o].filled = 0 /\ sale[o].filled = 0
            BY <4>1, <5>1, <5>3 DEF Sound, Row
          <6> QED
            BY <4>1, <5>1, <6>1 DEF Sound
        <5> QED
          BY <5>2, <5>3
      <4> QED
        BY <4>2, <4>3
    <3>3. Account!Closed(sale)
      <4>1. Account!Left(sale) = Account!Left(rows)
        BY <1>2, <3>2, SameLeft
      <4> QED
        BY <3>1, <3>2, <4>1, OrdersAreFinite DEF Account!Closed, Nobody
    <3>4. \A o \in Account!Order : decision[o] # "attempting"
      BY <1>3, <3>1
    <3>5. ASSUME Account!CostsKnown(rows) PROVE Account!Net(rows) = Account!Cash
      <4>1. ASSUME NEW o \in Account!Order PROVE Account!InEur(rows[o]) = sale[o].eur
        <5>1. Sound(rows[o]) /\ sale[o].eur = rows[o].eur
          BY <1>2, <3>2 DEF SoundRows
        <5>2. CASE rows[o].filled > 0
          <6>1. rows[o].fee # "hidden" /\ rows[o].fee \in {"eur", "coins", "hidden"}
            BY <3>5, <5>1, <5>2 DEF Account!CostsKnown, Sound, Row
          <6> QED
            BY <5>1, <6>1 DEF Account!InEur, Sound
        <5>3. CASE rows[o].eur = 0
          BY <5>1, <5>3 DEF Account!InEur
        <5> QED
          BY <3>2, <5>2, <5>3
      <4>2. \A o \in Account!Exit :
              rows[o].quote - Account!InEur(rows[o]) = sale[o].quote - sale[o].eur
        BY <3>2, <4>1, OrdersAreFinite
      <4>3. [o \in Account!Exit |-> rows[o].quote - Account!InEur(rows[o])]
              = [o \in Account!Exit |-> sale[o].quote - sale[o].eur]
        BY <4>2
      <4>4. rows[0].quote = sale[0].quote /\ Account!InEur(rows[0]) = sale[0].eur
        BY <3>2, <4>1, OrdersAreFinite
      <4> QED
        BY <4>3, <4>4 DEF Account!Net, Account!Cash
    <3> QED
      BY <3>3, <3>4, <3>5
  <2>6. Account!Closed(sale)' = Account!Closed(sale) /\ Account!Cash' = Account!Cash
    BY <1>1 DEF Account!Closed, Account!Left, Account!Sold, Account!Cash
  <2> QED
    BY <1>1, <1>2, <2>2, <2>3, <2>4, <2>5, <2>6 DEF Returned
<1>6. Journalled' /\ InTurn'
  BY <1>1 DEF AInv, Journalled, InTurn, SoundRows
<1> QED
  BY <1>1, <1>5, <1>6, StopsReading DEF AInv

LEMMA AccountStep == ASSUME AInv, [Account!Next]_(Account!vars) PROVE AInv'
<1>1. CASE UNCHANGED Account!vars
  <2>1. UNCHANGED <<sale, decision, saved, reader, account>>
    BY <1>1 DEF Account!vars
  <2>2. Reading'
    BY <2>1 DEF AInv, Reading, Seen, SoundRows, Account!Left, Account!Sold, Account!Closed
  <2> QED
    BY <2>1, <2>2, ReaderKeeps
<1>2. ASSUME NEW o \in Account!Order,
             \/ Account!Accept(o) \/ Account!End(o) \/ Account!Begin(o) \/ Account!Refuse(o)
             \/ Account!Acknowledge(o)
             \/ \E n \in 1..Ordered, p \in FillPrice : Account!Fill(o, n, p)
      PROVE  AInv'
  BY <1>2, AcceptKeeps, EndKeeps, BeginKeeps, RefuseKeeps, AcknowledgeKeeps, VenueFillKeeps
<1>3. CASE Account!ReadBalances
  BY <1>3, ReadBalancesKeeps
<1>4. CASE Account!ReadOrders
  BY <1>4, ReadOrdersKeeps
<1>5. CASE Account!ReadDetails
  BY <1>5, ReadDetailsKeeps
<1>6. CASE Account!ReadFails
  <2>1. reader' = Account!Idle /\ UNCHANGED <<sale, decision, saved, account>>
    BY <1>6 DEF Account!ReadFails
  <2> QED
    BY <2>1, StopsReading, ReaderKeeps
<1>7. CASE \E matched \in BOOLEAN : Account!Return(matched)
  BY <1>7, ReturnKeeps
<1> QED
  BY <1>1, <1>2, <1>3, <1>4, <1>5, <1>6, <1>7 DEF Account!Next

(* A reading that found the history complete neither misses a trade that had
   closed nor reports one that could still change, and a result it states is
   the cash the trade moved, for any number of exits, fills and fees.        *)
THEOREM ResultsAreCash == Account!Spec => []TradesAreCash
<1>1. AInv => TradesAreCash
  BY DEF AInv, Returned, TradesAreCash, Account!TradesAreCash
<1> QED
  BY <1>1, AccountStarts, AccountStep, PTL DEF Account!Spec

-----------------------------------------------------------------------------
(* ScanCycle: the candles that have reached the indicators.                  *)

Consecutive(q) == \A i \in 1..(Len(q) - 1) : q[i + 1] = q[i] + 1

(* What an invocation has read are candles, however old its reading is.      *)
CInv ==
    /\ DOMAIN indicators = Scanned
    /\ \A s \in Scanned : indicators[s] \in Seq(Int) /\ Consecutive(indicators[s])
    /\ DOMAIN cycle = Cycle
    /\ \A c \in Cycle : /\ "candles" \in DOMAIN cycle[c] /\ DOMAIN cycle[c].candles = Scanned
                        /\ \A s \in Scanned : cycle[c].candles[s] \subseteq Int

Replayed(old, new) == new \in Seq(Int) /\ Consecutive(new) /\ Candles!IsPrefix(old, new)

LEMMA ConcatenationIsReplayed ==
    ASSUME NEW old \in Seq(Int), Consecutive(old), NEW bars \in Seq(Int), Consecutive(bars),
           old = <<>> \/ bars = <<>> \/ bars[1] = old[Len(old)] + 1
    PROVE  Replayed(old, old \o bars)
<1>1. /\ old \o bars \in Seq(Int) /\ Len(old \o bars) = Len(old) + Len(bars)
      /\ \A i \in 1..(Len(old) + Len(bars)) :
            (old \o bars)[i] = IF i <= Len(old) THEN old[i] ELSE bars[i - Len(old)]
  OBVIOUS
<1>2. Candles!IsPrefix(old, old \o bars)
  <2>1. Len(old) <= Len(old \o bars) /\ SubSeq(old, 1, Len(old)) = SubSeq(old \o bars, 1, Len(old))
    OBVIOUS
  <2> QED
    BY <2>1 DEF Candles!IsPrefix
<1>3. ASSUME NEW i \in 1..(Len(old \o bars) - 1)
      PROVE  (old \o bars)[i + 1] = (old \o bars)[i] + 1
  <2>1. i \in Int /\ 1 <= i /\ i + 1 <= Len(old) + Len(bars) /\ Len(old) \in Nat /\ Len(bars) \in Nat
    BY <1>1
  <2>2. /\ (old \o bars)[i] = IF i <= Len(old) THEN old[i] ELSE bars[i - Len(old)]
        /\ (old \o bars)[i + 1] = IF i + 1 <= Len(old) THEN old[i + 1] ELSE bars[i + 1 - Len(old)]
    <3> DEFINE all == old \o bars
               n   == Len(old) + Len(bars)
               j   == i + 1
    <3>1. /\ \A k \in 1..n : all[k] = IF k <= Len(old) THEN old[k] ELSE bars[k - Len(old)]
          /\ i \in 1..n /\ j \in 1..n
      BY <1>1, <2>1
    <3> HIDE DEF all, n, j
    <3>2. /\ all[i] = IF i <= Len(old) THEN old[i] ELSE bars[i - Len(old)]
          /\ all[j] = IF j <= Len(old) THEN old[j] ELSE bars[j - Len(old)]
      BY <3>1
    <3> QED
      BY <3>2 DEF all, j
  <2>3. CASE i + 1 <= Len(old)
    <3>1. i \in 1..(Len(old) - 1)
      BY <2>1, <2>3
    <3>2. old[i + 1] = old[i] + 1
      BY <3>1 DEF Consecutive
    <3> QED
      BY <2>1, <2>2, <2>3, <3>2
  <2>4. CASE i = Len(old)
    <3>1. old # <<>> /\ bars # <<>>
      BY <2>1, <2>4
    <3>2. bars[1] = old[Len(old)] + 1
      BY <3>1
    <3>3. i + 1 - Len(old) = 1 /\ i <= Len(old) /\ ~ (i + 1 <= Len(old))
      BY <2>1, <2>4
    <3> QED
      BY <2>2, <2>4, <3>2, <3>3
  <2>5. CASE i > Len(old)
    <3> DEFINE k == i - Len(old)
    <3>1. k \in 1..(Len(bars) - 1) /\ i + 1 - Len(old) = k + 1
      BY <2>1, <2>5
    <3>2. bars[k + 1] = bars[k] + 1
      BY <3>1 DEF Consecutive
    <3> QED
      BY <2>1, <2>2, <2>5, <3>1, <3>2
  <2> QED
    BY <2>1, <2>3, <2>4, <2>5
<1> QED
  BY <1>1, <1>2, <1>3 DEF Replayed, Consecutive

LEMMA BarsAreReplayed ==
    ASSUME NEW old \in Seq(Int), Consecutive(old), NEW candles \in SUBSET Int
    PROVE  Replayed(old, old \o Candles!Bars(old, candles))
<1> DEFINE later == IF old = <<>> THEN candles ELSE {n \in candles : n > Candles!Last(old)}
           run   == {r \in later \X later :
                       /\ later = r[1]..r[2]
                       /\ IF old = <<>> THEN r[2] - r[1] + 1 >= Warmup ELSE r[1] = Candles!Last(old) + 1}
           r     == CHOOSE r \in run : TRUE
           bars  == IF run = {} THEN <<>> ELSE [i \in 1..(r[2] - r[1] + 1) |-> r[1] - 1 + i]
<1>1. Candles!Bars(old, candles) = bars
  BY DEF Candles!Bars
<1>2. CASE run = {}
  <2>1. bars = <<>>
    BY <1>2
  <2> HIDE DEF bars
  <2>2. bars \in Seq(Int) /\ Consecutive(bars)
    BY <2>1 DEF Consecutive
  <2> QED
    BY <1>1, <2>1, <2>2, ConcatenationIsReplayed
<1>3. CASE run # {}
  <2>1. bars = [i \in 1..(r[2] - r[1] + 1) |-> r[1] - 1 + i]
    BY <1>3
  <2>2. r \in run
    BY <1>3
  <2> HIDE DEF r, bars
  <2>3. /\ r[1] \in Int /\ r[2] \in Int /\ r[1] <= r[2]
        /\ old # <<>> => r[1] = Candles!Last(old) + 1
    <3>1. /\ r \in later \X later /\ later = r[1]..r[2]
          /\ old # <<>> => r[1] = Candles!Last(old) + 1
      BY <2>2
    <3>2. later \subseteq Int
      OBVIOUS
    <3> HIDE DEF later
    <3>3. r[1] \in later /\ r[2] \in later
      BY <3>1
    <3>4. r[1] \in Int /\ r[2] \in Int
      BY <3>2, <3>3
    <3>5. r[1] \in r[1]..r[2]
      BY <3>1, <3>3
    <3> QED
      BY <3>1, <3>4, <3>5
  <2>4. PICK a \in Int, b \in Int : a = r[1] /\ b = r[2]
    BY <2>3
  <2> DEFINE n == b - a + 1
  <2>5. n \in Nat /\ n > 0
    BY <2>3, <2>4
  <2>6. bars = [i \in 1..n |-> a - 1 + i]
    BY <2>1, <2>4
  <2> HIDE DEF n
  <2>7. bars \in Seq(Int) /\ Len(bars) = n /\ bars[1] = a
    BY <2>5, <2>6
  <2>8. Consecutive(bars)
    <3> SUFFICES ASSUME NEW i \in 1..(n - 1) PROVE bars[i + 1] = bars[i] + 1
      BY <2>7 DEF Consecutive
    <3>1. i \in 1..n /\ i + 1 \in 1..n
      BY <2>5
    <3> QED
      BY <2>6, <3>1
  <2>9. old # <<>> => bars[1] = old[Len(old)] + 1
    BY <2>3, <2>4, <2>7 DEF Candles!Last
  <2> QED
    BY <1>1, <2>7, <2>8, <2>9, ConcatenationIsReplayed
<1> QED
  BY <1>2, <1>3

LEMMA NothingIsReplayed ==
    ASSUME NEW old \in Seq(Int), Consecutive(old)
    PROVE  Replayed(old, old)
BY DEF Replayed, Candles!IsPrefix

LEMMA CandlesStart == ASSUME Candles!Init PROVE CInv
<1>1. indicators = [s \in Scanned |-> <<>>] /\ cycle = [c \in Cycle |-> Candles!Idle]
  BY DEF Candles!Init
<1>2. Consecutive(<<>>)
  BY DEF Consecutive
<1> QED
  BY <1>1, <1>2 DEF CInv, Candles!Idle

LEMMA CandlesAreInts == ASSUME NEW after, NEW candles \in Candles!Answers(after) PROVE candles \subseteq Int
<1>1. Candles!Loaded(after) \subseteq Int
  BY DEF Candles!Loaded
<1> QED
  BY <1>1 DEF Candles!Answers

LEMMA CandlesStep ==
    ASSUME CInv, [Candles!Next]_(Candles!vars)
    PROVE  CInv' /\ \A s \in Scanned : Replayed(indicators[s], indicators'[s])
<1>1. \A s \in Scanned : indicators[s] \in Seq(Int) /\ Consecutive(indicators[s])
  BY DEF CInv
<1>2. CASE UNCHANGED <<indicators, cycle>>
  BY <1>1, <1>2, NothingIsReplayed DEF CInv
<1>3. ASSUME NEW c \in Cycle, Candles!Begin(c) PROVE CInv' /\ UNCHANGED indicators
  <2> DEFINE m == [at |-> "scanning", cursor |-> cursor % Len(Listed), scan |-> Candles!ScanOf(carried),
                   after |-> [s \in Scanned |-> Candles!LastOf(s)],
                   scanned |-> 0, candles |-> [s \in Scanned |-> {}]]
  <2>1. cycle' = [cycle EXCEPT ![c] = m] /\ UNCHANGED indicators
    BY <1>3 DEF Candles!Begin, Candles!runtime
  <2>2. /\ "candles" \in DOMAIN m /\ DOMAIN m.candles = Scanned
        /\ \A s \in Scanned : m.candles[s] \subseteq Int
    OBVIOUS
  <2> HIDE DEF m
  <2> QED
    BY <2>1, <2>2 DEF CInv
<1>4. ASSUME NEW c \in Cycle, Candles!Fetch(c) PROVE CInv' /\ UNCHANGED indicators
  <2> DEFINE s == cycle[c].scan[((cycle[c].cursor + cycle[c].scanned) % Len(Listed)) + 1]
  <2>1. PICK candles \in Candles!Answers(cycle[c].after[s]) :
          cycle' = [cycle EXCEPT ![c].scanned = @ + 1, ![c].candles[s] = candles]
    BY <1>4 DEF Candles!Fetch
  <2>2. candles \subseteq Int
    BY CandlesAreInts
  <2> HIDE DEF s
  <2>3. UNCHANGED indicators
    BY <1>4 DEF Candles!Fetch, Candles!runtime
  <2>4. ASSUME NEW d \in Cycle
        PROVE  /\ "candles" \in DOMAIN cycle'[d] /\ DOMAIN cycle'[d].candles = Scanned
               /\ \A t \in Scanned : cycle'[d].candles[t] \subseteq Int
    <3>1. /\ "candles" \in DOMAIN cycle[d] /\ DOMAIN cycle[d].candles = Scanned
          /\ \A t \in Scanned : cycle[d].candles[t] \subseteq Int
      BY DEF CInv
    <3>2. CASE d # c
      BY <2>1, <3>1, <3>2 DEF CInv
    <3>3. CASE d = c
      <4>1. cycle'[c] = [cycle[c] EXCEPT !.scanned = @ + 1, !.candles[s] = candles]
        BY <2>1 DEF CInv
      <4>2. "candles" \in DOMAIN cycle'[c] /\ cycle'[c].candles = [cycle[c].candles EXCEPT ![s] = candles]
        BY <3>1, <3>3, <4>1
      <4> QED
        BY <2>2, <3>1, <3>3, <4>2
    <3> QED
      BY <3>2, <3>3
  <2>5. DOMAIN cycle' = Cycle
    BY <2>1 DEF CInv
  <2> QED
    BY <2>3, <2>4, <2>5 DEF CInv
<1>5. ASSUME NEW c \in Cycle, Candles!Commit(c)
      PROVE  CInv' /\ \A s \in Scanned : Replayed(indicators[s], indicators'[s])
  <2>1. /\ indicators' = [s \in Scanned |-> indicators[s] \o Candles!Bars(indicators[s], cycle[c].candles[s])]
        /\ cycle' = [cycle EXCEPT ![c] = Candles!Idle]
    BY <1>5 DEF Candles!Commit, Candles!Current
  <2>2. ASSUME NEW s \in Scanned PROVE Replayed(indicators[s], indicators'[s])
    <3>1. cycle[c].candles[s] \subseteq Int
      BY DEF CInv
    <3>2. indicators'[s] = indicators[s] \o Candles!Bars(indicators[s], cycle[c].candles[s])
      BY <2>1
    <3> QED
      BY <1>1, <3>1, <3>2, BarsAreReplayed
  <2>3. /\ "candles" \in DOMAIN Candles!Idle /\ DOMAIN Candles!Idle.candles = Scanned
        /\ \A s \in Scanned : Candles!Idle.candles[s] \subseteq Int
    BY DEF Candles!Idle
  <2> QED
    BY <2>1, <2>2, <2>3 DEF CInv, Replayed
<1>6. ASSUME NEW c \in Cycle, Candles!GiveUp(c) PROVE CInv' /\ UNCHANGED indicators
  <2>1. cycle' = [cycle EXCEPT ![c] = Candles!Idle] /\ UNCHANGED indicators
    BY <1>6 DEF Candles!GiveUp, Candles!runtime
  <2>2. /\ "candles" \in DOMAIN Candles!Idle /\ DOMAIN Candles!Idle.candles = Scanned
        /\ \A s \in Scanned : Candles!Idle.candles[s] \subseteq Int
    BY DEF Candles!Idle
  <2> QED
    BY <2>1, <2>2 DEF CInv
<1>7. CASE Candles!ScanUnconnected
  <2> DEFINE s == Listed[(cursor % Len(Listed)) + 1]
  <2>1. PICK candles \in Candles!Answers(Candles!LastOf(s)) :
          indicators' = [indicators EXCEPT ![s] = @ \o Candles!Bars(@, candles)]
    BY <1>7 DEF Candles!ScanUnconnected
  <2>2. candles \subseteq Int /\ cycle' = cycle
    BY <1>7, CandlesAreInts DEF Candles!ScanUnconnected
  <2> HIDE DEF s
  <2>3. ASSUME NEW t \in Scanned PROVE Replayed(indicators[t], indicators'[t])
    <3>1. CASE t = s
      <4>1. indicators'[t] = indicators[t] \o Candles!Bars(indicators[t], candles)
        BY <2>1, <3>1 DEF CInv
      <4> QED
        BY <1>1, <2>2, <4>1, BarsAreReplayed
    <3>2. CASE t # s
      <4>1. indicators'[t] = indicators[t]
        BY <2>1, <3>2 DEF CInv
      <4> QED
        BY <1>1, <4>1, NothingIsReplayed
    <3> QED
      BY <3>1, <3>2
  <2>4. DOMAIN indicators' = Scanned
    BY <2>1 DEF CInv
  <2> QED
    BY <2>2, <2>3, <2>4 DEF CInv, Replayed
<1>8. CASE Candles!CloseCandle \/ \E s \in Scanned : Candles!ChangePosition(s)
  BY <1>2, <1>8 DEF Candles!CloseCandle, Candles!ChangePosition, Candles!runtime
<1>9. CASE UNCHANGED Candles!vars
  BY <1>2, <1>9 DEF Candles!vars
<1> QED
  BY <1>1, <1>3, <1>4, <1>5, <1>6, <1>7, <1>8, <1>9, NothingIsReplayed DEF Candles!Next

(* The indicators of a symbol are those of a replay of its candles: whichever
   invocations overlap, fail or hold an older reading, a save appends candles
   that follow the last one without a gap, and takes none back.              *)
THEOREM CandlesAppliedInTurn == Candles!Spec => AppliedInTurn
<1>1. CInv /\ [Candles!Next]_(Candles!vars) => [Candles!AppliedInTurn]_scan
  <2> SUFFICES ASSUME CInv, [Candles!Next]_(Candles!vars) PROVE Candles!AppliedInTurn
    OBVIOUS
  <2>1. \A s \in Scanned : Replayed(indicators[s], indicators'[s])
    BY CandlesStep
  <2> QED
    BY <2>1 DEF Candles!AppliedInTurn, Replayed, Consecutive
<1>2. CInv /\ [Candles!Next]_(Candles!vars) => CInv'
  BY CandlesStep
<1> QED
  BY <1>1, <1>2, CandlesStart, PTL DEF Candles!Spec, AppliedInTurn

-----------------------------------------------------------------------------
(* RiskRules: a loss of trading stops the day.                               *)

Valuation == [at: Int, before: Int, equity: Int, value: Int]

(* Valuations in order of time; each stands for as many shares as the fund had,
   and "before" for those of the valuation before it.                        *)
RInv ==
    /\ time \in Int /\ fund \in [value: Int, shares: Int] /\ fund.value > 0 /\ fund.shares > 0
    /\ mark \in Seq(Valuation) /\ mark # <<>>
    /\ \A i \in 1..Len(mark) :
        /\ mark[i].value > 0 /\ mark[i].equity > 0 /\ mark[i].at <= time
        /\ i > 1 => mark[i].before * mark[i - 1].value = mark[i].value * mark[i - 1].equity
    /\ \A i, j \in 1..Len(mark) : i <= j => mark[i].at <= mark[j].at
    /\ mark[Len(mark)].value = fund.value
    /\ mark[Len(mark)].equity = fund.value * fund.shares

-----------------------------------------------------------------------------
(* Index links the returns: it is what a share is worth, by the first one.   *)

Links(n, f) ==
    f = [i \in 1..n |-> IF i = 1 THEN <<1, 1>>
                        ELSE <<f[i - 1][1] * mark[i].before, f[i - 1][2] * mark[i - 1].equity>>]

LEMMA IndexIsLinked ==
    ASSUME NEW n
    PROVE  Risk!Index(n) = (CHOOSE f : Links(n, f))[n]
BY DEF Risk!Index, Risk!Linked, Links

LEMMA LinksExist == ASSUME NEW n \in Nat PROVE \E f : Links(n, f)
<1> DEFINE T == {k \in 1..n : ~ \E f : Links(k, f)}
<1>1. ASSUME T # {} PROVE FALSE
  <2>1. PICK k \in T : \A i \in T : k <= i
    <3>1. T \in SUBSET (1..n)
      OBVIOUS
    <3> HIDE DEF T
    <3> QED
      BY <1>1, <3>1, LeastNumber
  <2>2. k \in 1..n /\ ~ \E f : Links(k, f)
    BY <2>1
  <2>3. CASE k = 1
    <3> DEFINE f == [i \in 1..1 |-> <<1, 1>>]
    <3>1. Links(k, f)
      BY <2>3 DEF Links
    <3> QED
      BY <2>2, <3>1
  <2>4. CASE k # 1
    <3>1. k - 1 \in 1..n /\ k - 1 < k
      BY <2>2, <2>4
    <3>2. k - 1 \notin T
      BY <2>1, <2>2, <3>1
    <3>3. PICK g : Links(k - 1, g)
      BY <3>1, <3>2
    <3> DEFINE linked(i) == <<g[i - 1][1] * mark[i].before, g[i - 1][2] * mark[i - 1].equity>>
               f == [i \in 1..k |-> IF i = k THEN linked(k) ELSE g[i]]
    <3>4. \A i \in 1..(k - 1) : g[i] = IF i = 1 THEN <<1, 1>> ELSE linked(i)
      BY <3>3 DEF Links
    <3>5. ASSUME NEW i \in 1..k
          PROVE  f[i] = IF i = 1 THEN <<1, 1>>
                        ELSE <<f[i - 1][1] * mark[i].before, f[i - 1][2] * mark[i - 1].equity>>
      <4>1. CASE i = 1
        <5>1. i \in 1..(k - 1) /\ i # k
          BY <2>2, <2>4, <4>1
        <5>2. f[i] = g[i]
          BY <5>1
        <5>3. g[i] = <<1, 1>>
          BY <3>4, <4>1, <5>1
        <5> QED
          BY <4>1, <5>2, <5>3
      <4>2. CASE i # 1
        <5>1. i - 1 \in 1..k /\ i - 1 # k
          BY <2>2, <4>2
        <5>2. f[i - 1] = g[i - 1]
          BY <5>1
        <5>3. f[i] = linked(i)
          <6>1. CASE i = k
            BY <6>1
          <6>2. CASE i # k
            <7>1. i \in 1..(k - 1)
              BY <2>2, <6>2
            <7>2. g[i] = linked(i)
              BY <3>4, <4>2, <7>1
            <7> QED
              BY <6>2, <7>2
          <6> QED
            BY <6>1, <6>2
        <5> HIDE DEF f
        <5> QED
          BY <4>2, <5>2, <5>3
      <4> QED
        BY <4>1, <4>2
    <3>6. f = [i \in 1..k |-> f[i]]
      OBVIOUS
    <3> HIDE DEF f
    <3>7. Links(k, f)
      BY <3>5, <3>6 DEF Links
    <3> QED
      BY <2>2, <3>7
  <2> QED
    BY <2>3, <2>4
<1>2. CASE n \in 1..n
  BY <1>1, <1>2
<1>3. CASE n \notin 1..n
  <2> DEFINE f == [i \in 1..n |-> <<1, 1>>]
  <2>1. n = 0
    BY <1>3
  <2>2. 1..n = {}
    BY <2>1
  <2>3. Links(n, f)
    BY <2>2 DEF Links
  <2> QED
    BY <2>3
<1> QED
  BY <1>2, <1>3

LEMMA Commuted == ASSUME NEW a \in Int, NEW b \in Int, NEW c \in Int PROVE (a * b) * c = (a * c) * b /\ a * b = b * a
OBVIOUS

LEMMA ProductsArePositive == ASSUME NEW a \in Int, NEW b \in Int, a > 0, b > 0 PROVE a * b \in Int /\ a * b > 0
OBVIOUS

LEMMA OrderIsScaled ==
    ASSUME NEW a \in Int, NEW b \in Int, NEW k \in Int, k > 0
    PROVE  (a <= b <=> a * k <= b * k) /\ (a = b <=> a * k = b * k)
OBVIOUS

(* index_i * value_1 = value_i, as fractions.                                *)
Telescoped(p, i) ==
    /\ p[1] \in Int /\ p[2] \in Int /\ p[2] > 0
    /\ p[1] * mark[1].value = p[2] * mark[i].value

LEMMA LinksTelescope ==
    ASSUME RInv, NEW n \in 1..Len(mark), NEW f, Links(n, f), NEW i \in 1..n
    PROVE  Telescoped(f[i], i)
<1> DEFINE T == {k \in 1..n : ~ Telescoped(f[k], k)}
<1>1. ASSUME T # {} PROVE FALSE
  <2>1. PICK k \in T : \A j \in T : k <= j
    <3>1. T \in SUBSET (1..n) /\ n \in Nat
      BY DEF RInv
    <3> HIDE DEF T
    <3> QED
      BY <1>1, <3>1, LeastNumber
  <2>2. k \in 1..n /\ ~ Telescoped(f[k], k)
    BY <2>1
  <2>3. /\ n \in Int /\ n <= Len(mark) /\ Len(mark) \in Int
        /\ \A j \in 1..Len(mark) : mark[j] \in Valuation
    BY DEF RInv
  <2>4. CASE k = 1
    <3>1. f[1] = <<1, 1>>
      BY <2>2, <2>4 DEF Links
    <3>2. mark[1].value \in Int
      BY <2>2, <2>3, <2>4 DEF Valuation
    <3>3. Telescoped(f[1], 1)
      BY <3>1, <3>2 DEF Telescoped
    <3> QED
      BY <2>2, <2>4, <3>3
  <2>5. CASE k # 1
    <3>1. k - 1 \in 1..n /\ k - 1 < k /\ k \in 1..Len(mark) /\ k - 1 \in 1..Len(mark) /\ k > 1 /\ 1 \in 1..Len(mark)
      BY <2>2, <2>3, <2>5
    <3>2. Telescoped(f[k - 1], k - 1)
      BY <2>1, <2>2, <3>1
    <3>3. f[k] = <<f[k - 1][1] * mark[k].before, f[k - 1][2] * mark[k - 1].equity>>
      BY <2>2, <2>5 DEF Links
    <3>4. PICK a \in Int, b \in Int : a = f[k - 1][1] /\ b = f[k - 1][2] /\ b > 0
      BY <3>2 DEF Telescoped
    <3>5. /\ mark[k] \in Valuation /\ mark[k - 1] \in Valuation /\ mark[1] \in Valuation
      BY <2>3, <3>1
    <3>6. PICK v1 \in Int, v \in Int, old \in Int, before \in Int, equity \in Int :
            /\ v1 = mark[1].value /\ v = mark[k].value /\ old = mark[k - 1].value
            /\ before = mark[k].before /\ equity = mark[k - 1].equity
      BY <3>5 DEF Valuation
    <3>7. equity > 0 /\ before * old = v * equity
      BY <3>1, <3>6 DEF RInv
    <3>8. a * v1 = b * old
      BY <3>2, <3>4, <3>6 DEF Telescoped
    <3>9. (a * before) * v1 = (b * equity) * v
      <4>1. (a * before) * v1 = (a * v1) * before
        BY Commuted
      <4>2. (b * old) * before = b * (before * old)
        OBVIOUS
      <4>3. b * (v * equity) = (b * equity) * v
        OBVIOUS
      <4> QED
        BY <4>1, <4>2, <4>3, <3>7, <3>8
    <3>10. a * before \in Int /\ b * equity \in Int /\ b * equity > 0
      <4>1. a * before \in Int
        OBVIOUS
      <4>2. b * equity \in Int /\ b * equity > 0
        BY <3>4, <3>7, ProductsArePositive
      <4> QED
        BY <4>1, <4>2
    <3>11. f[k][1] = a * before /\ f[k][2] = b * equity
      BY <3>3, <3>4, <3>6
    <3>12. Telescoped(f[k], k)
      BY <3>6, <3>9, <3>10, <3>11 DEF Telescoped
    <3> QED
      BY <2>2, <3>12
  <2> QED
    BY <2>4, <2>5
<1> QED
  BY <1>1

LEMMA IndexTelescopes == ASSUME RInv, NEW i \in 1..Len(mark) PROVE Telescoped(Risk!Index(i), i)
<1>1. i \in Nat /\ i \in 1..i
  BY DEF RInv
<1>2. Links(i, (CHOOSE f : Links(i, f)))
  BY <1>1, LinksExist
<1>3. Telescoped((CHOOSE f : Links(i, f))[i], i)
  BY <1>1, <1>2, LinksTelescope
<1> QED
  BY <1>3, IndexIsLinked

(* What trading has lost, the indices show.                                  *)
LEMMA LossIsSeen ==
    ASSUME RInv, NEW i \in 1..Len(mark), NEW b \in 1..Len(mark), NEW parts \in Nat,
           Risk!TradingLost(i, b, parts)
    PROVE  Risk!Lost(Risk!Index(i), Risk!Index(b), parts)
<1>1. /\ mark[i] \in Valuation /\ mark[b] \in Valuation /\ mark[1] \in Valuation /\ 1 \in 1..Len(mark)
  BY DEF RInv
<1>2. PICK v1 \in Int, v \in Int, w \in Int : v1 = mark[1].value /\ v = mark[i].value /\ w = mark[b].value
  BY <1>1 DEF Valuation
<1>3. v1 > 0
  BY <1>1, <1>2 DEF RInv
<1>4. Telescoped(Risk!Index(i), i) /\ Telescoped(Risk!Index(b), b)
  BY IndexTelescopes
<1>5. PICK a1 \in Int, a2 \in Int, b1 \in Int, b2 \in Int :
        /\ a1 = Risk!Index(i)[1] /\ a2 = Risk!Index(i)[2] /\ b1 = Risk!Index(b)[1] /\ b2 = Risk!Index(b)[2]
        /\ a2 > 0 /\ b2 > 0 /\ a1 * v1 = a2 * v /\ b1 * v1 = b2 * w
  BY <1>2, <1>4 DEF Telescoped
<1>6. PICK p \in Int, q \in Int : p = RiskParts /\ q = RiskParts - parts
  BY RiskAssumption
<1>7. p * v <= q * w
  BY <1>2, <1>6 DEF Risk!TradingLost
<1>8. a2 * b2 \in Int /\ a2 * b2 > 0
  BY <1>5, ProductsArePositive
<1>9. (p * v) * (a2 * b2) <= (q * w) * (a2 * b2)
  <2> DEFINE k == a2 * b2
             x1 == p * v
             x2 == q * w
  <2>1. k \in Int /\ k > 0 /\ x1 \in Int /\ x2 \in Int /\ x1 <= x2
    BY <1>7, <1>8
  <2> HIDE DEF k, x1, x2
  <2>2. x1 * k <= x2 * k
    BY <2>1, OrderIsScaled
  <2> QED
    BY <2>2 DEF k, x1, x2
<1>10. (p * v) * (a2 * b2) = (p * a1 * b2) * v1
  <2>1. (p * v) * (a2 * b2) = p * b2 * (a2 * v)
    OBVIOUS
  <2>2. p * b2 * (a1 * v1) = (p * a1 * b2) * v1
    OBVIOUS
  <2> QED
    BY <2>1, <2>2, <1>5
<1>11. (q * w) * (a2 * b2) = (q * b1 * a2) * v1
  <2>1. (q * w) * (a2 * b2) = q * a2 * (b2 * w)
    OBVIOUS
  <2>2. q * a2 * (b1 * v1) = (q * b1 * a2) * v1
    OBVIOUS
  <2> QED
    BY <2>1, <2>2, <1>5
<1>12. p * a1 * b2 <= q * b1 * a2
  <2> DEFINE y1 == p * a1 * b2
             y2 == q * b1 * a2
  <2>1. y1 \in Int /\ y2 \in Int /\ y1 * v1 <= y2 * v1
    BY <1>9, <1>10, <1>11
  <2> HIDE DEF y1, y2
  <2>2. y1 <= y2
    BY <1>3, <2>1, OrderIsScaled
  <2> QED
    BY <2>2 DEF y1, y2
<1> QED
  BY <1>5, <1>6, <1>12 DEF Risk!Lost

-----------------------------------------------------------------------------
LEMMA RiskStarts == ASSUME Risk!Init PROVE RInv
<1> DEFINE m == Risk!Mark(fund.value * fund.shares, fund.value * fund.shares, fund.value)
<1>1. time = 0 /\ fund = [value |-> 9, shares |-> 1] /\ mark = <<m>>
  BY DEF Risk!Init
<1>2. m \in Valuation /\ m.at = 0 /\ m.value = 9 /\ m.equity = 9
  BY <1>1 DEF Risk!Mark, Valuation
<1> HIDE DEF m
<1>3. mark \in Seq(Valuation) /\ mark # <<>> /\ Len(mark) = 1 /\ mark[1] = m
  BY <1>1, <1>2
<1>4. \A i \in 1..Len(mark) : i = 1
  BY <1>3
<1> QED
  BY <1>1, <1>2, <1>3, <1>4 DEF RInv

LEMMA ValuationKeeps ==
    ASSUME RInv, NEW m \in Valuation, NEW v \in Int, NEW n \in Int, v > 0, n > 0,
           fund' \in [value: Int, shares: Int], fund'.value = v, fund'.shares = n,
           m.at = time, m.value = v, m.equity = v * n, m.before = v * fund.shares,
           mark' = Append(mark, m), time' = time
    PROVE  RInv'
<1>1. /\ mark \in Seq(Valuation) /\ mark # <<>> /\ Len(mark) \in Nat /\ Len(mark) > 0
      /\ mark[Len(mark)] \in Valuation /\ fund \in [value: Int, shares: Int] /\ time \in Int
  BY DEF RInv
<1>2. /\ mark' \in Seq(Valuation) /\ mark' # <<>> /\ Len(mark') = Len(mark) + 1
      /\ mark'[Len(mark) + 1] = m /\ \A i \in 1..Len(mark) : mark'[i] = mark[i]
  BY <1>1
<1>3. m.equity > 0
  BY ProductsArePositive
<1>4. m.before * mark[Len(mark)].value = m.value * mark[Len(mark)].equity
  <2>1. PICK old \in Int, shares \in Int :
          old = fund.value /\ shares = fund.shares
    BY <1>1
  <2>2. mark[Len(mark)].value = old /\ mark[Len(mark)].equity = old * shares
    BY <2>1 DEF RInv
  <2>3. (v * shares) * old = v * (old * shares)
    OBVIOUS
  <2> QED
    BY <2>1, <2>2, <2>3
<1>5. ASSUME NEW i \in 1..Len(mark')
      PROVE  /\ mark'[i].value > 0 /\ mark'[i].equity > 0 /\ mark'[i].at <= time'
             /\ i > 1 => mark'[i].before * mark'[i - 1].value = mark'[i].value * mark'[i - 1].equity
  <2>1. CASE i = Len(mark) + 1
    <3>1. mark'[i] = m /\ i - 1 = Len(mark) /\ mark'[i - 1] = mark[Len(mark)]
      BY <1>1, <1>2, <2>1
    <3> QED
      BY <1>1, <1>3, <1>4, <3>1
  <2>2. CASE i # Len(mark) + 1
    <3>1. i \in 1..Len(mark) /\ (i > 1 => i - 1 \in 1..Len(mark))
      BY <1>1, <1>2, <2>2
    <3>2. mark'[i] = mark[i] /\ (i > 1 => mark'[i - 1] = mark[i - 1])
      BY <1>2, <3>1
    <3> QED
      BY <3>1, <3>2 DEF RInv
  <2> QED
    BY <2>1, <2>2
<1>6. ASSUME NEW i \in 1..Len(mark'), NEW j \in 1..Len(mark'), i <= j
      PROVE  mark'[i].at <= mark'[j].at
  <2>1. CASE j = Len(mark) + 1
    BY <1>2, <1>5, <2>1
  <2>2. CASE j # Len(mark) + 1
    <3>1. i \in 1..Len(mark) /\ j \in 1..Len(mark)
      BY <1>1, <1>2, <1>6, <2>2
    <3> QED
      BY <1>2, <1>6, <3>1 DEF RInv
  <2> QED
    BY <2>1, <2>2
<1> QED
  BY <1>1, <1>2, <1>5, <1>6 DEF RInv

LEMMA RiskStep == ASSUME RInv, [Risk!Next]_(Risk!vars) PROVE RInv'
<1>1. CASE UNCHANGED <<time, fund, mark>>
  BY <1>1 DEF RInv
<1>2. CASE Risk!Tick
  <2>1. time' = time + 1 /\ UNCHANGED <<fund, mark>>
    BY <1>2 DEF Risk!Tick
  <2>2. \A i \in 1..Len(mark) : mark[i].at <= time + 1
    <3> SUFFICES ASSUME NEW i \in 1..Len(mark) PROVE mark[i].at <= time + 1
      OBVIOUS
    <3>1. mark[i].at <= time /\ mark[i] \in Valuation /\ time \in Int
      BY DEF RInv
    <3> QED
      BY <3>1 DEF Valuation
  <2> QED
    BY <2>1, <2>2 DEF RInv
<1>3. ASSUME NEW v \in ShareValue, Risk!Observe(v) PROVE RInv'
  <2> DEFINE m == Risk!Mark(v * fund.shares, v * fund.shares, v)
  <2>1. fund' = [fund EXCEPT !.value = v] /\ mark' = Append(mark, m) /\ time' = time
    BY <1>3 DEF Risk!Observe
  <2>2. v \in Int /\ v > 0 /\ fund \in [value: Int, shares: Int] /\ fund.shares > 0 /\ time \in Int
    BY RiskAssumption DEF RInv
  <2>3. m \in Valuation /\ m.at = time /\ m.value = v /\ m.equity = v * fund.shares /\ m.before = v * fund.shares
    BY <2>2 DEF Risk!Mark, Valuation
  <2>4. fund' \in [value: Int, shares: Int] /\ fund'.value = v /\ fund'.shares = fund.shares
    BY <2>1, <2>2
  <2> HIDE DEF m
  <2> QED
    BY <2>1, <2>2, <2>3, <2>4, ValuationKeeps
<1>4. ASSUME NEW n \in Shares, Risk!Transfer(n) PROVE RInv'
  <2> DEFINE m == Risk!Mark(fund.value * fund.shares, fund.value * n, fund.value)
  <2>1. fund' = [fund EXCEPT !.shares = n] /\ mark' = Append(mark, m) /\ time' = time
    BY <1>4 DEF Risk!Transfer
  <2>2. n \in Int /\ n > 0 /\ fund \in [value: Int, shares: Int] /\ fund.value > 0 /\ time \in Int
    BY RiskAssumption DEF RInv
  <2>3. /\ m \in Valuation /\ m.at = time /\ m.value = fund.value /\ m.equity = fund.value * n
        /\ m.before = fund.value * fund.shares
    BY <2>2 DEF Risk!Mark, Valuation
  <2>4. fund' \in [value: Int, shares: Int] /\ fund'.value = fund.value /\ fund'.shares = n
    BY <2>1, <2>2
  <2> HIDE DEF m
  <2> QED
    BY <2>1, <2>2, <2>3, <2>4, ValuationKeeps
<1>5. CASE \/ Risk!Evaluate \/ Risk!EvaluateIncomplete \/ UNCHANGED Risk!vars
           \/ \E at \in {time - 1, time} \cap Nat, pnl \in {-1, 0, 1} : Risk!Close(at, pnl)
  BY <1>1, <1>5 DEF Risk!Evaluate, Risk!EvaluateIncomplete, Risk!Close, Risk!vars
<1> QED
  BY <1>2, <1>3, <1>4, <1>5 DEF Risk!Next

LEMMA BeginningIsFirst ==
    Risk!Beginning = LET I == {i \in 1..Len(mark) : mark[i].at = Risk!Start(time)}
                     IN IF I # {} THEN CHOOSE b \in I : \A i \in I : b <= i ELSE 0
BY DEF Risk!Beginning, Risk!SelectInSeq, Risk!Min

(* An entry has the first valuation of the day, and no later one shows a loss. *)
LEMMA EvaluatedBelowTheLimit ==
    ASSUME Risk!Evaluate, entry' # Risk!None
    PROVE  Risk!Beginning # 0 /\ ~ Risk!LossToday
<1> DEFINE day  == Risk!Day(time)
           halt == Risk!Halt(day)
<1>2. risk' = [reduced |-> Risk!Reduced, haltDay |-> halt]
  BY DEF Risk!Evaluate
<1>3. entry' = IF risk'.haltDay # day /\ Risk!Beginning # 0
               THEN [at |-> time, full |-> ~risk'.reduced] ELSE Risk!None
  BY DEF Risk!Evaluate
<1> HIDE DEF halt, day
<1>4. halt # day /\ Risk!Beginning # 0
  BY <1>2, <1>3
<1>5. ~ Risk!LossToday
  BY <1>4 DEF Risk!Halt, halt
<1> QED
  BY <1>4, <1>5

(* However valuations, transfers and evaluations follow one another, an entry
   finds the first valuation of its Berlin day in the history, and trading has
   not lost the limit from it in any valuation since.                        *)
THEOREM LossesStopTheDay == Risk!Spec => LossStopsTheDay
<1>1. RInv /\ [Risk!Next]_(Risk!vars) => [Risk!LossStopsTheDay]_limits
  <2> SUFFICES ASSUME RInv, [Risk!Next]_(Risk!vars), entry' # Risk!None, ~ UNCHANGED limits
               PROVE  Risk!LossStopsTheDay
    BY DEF Risk!LossStopsTheDay, Risk!Entering
  <2>1. Risk!Beginning # 0 /\ ~ Risk!LossToday
    <3>1. Risk!Evaluate
      BY DEF Risk!Next, Risk!vars, Risk!Tick, Risk!EvaluateIncomplete, Risk!Observe, Risk!Transfer,
             Risk!Close, limits
    <3> QED
      BY <3>1, EvaluatedBelowTheLimit
  <2> DEFINE I == {i \in 1..Len(mark) : mark[i].at = Risk!Start(time)}
             b == Risk!Beginning
  <2>2. I # {} /\ b = CHOOSE c \in I : \A i \in I : c <= i
    BY <2>1, BeginningIsFirst
  <2>3. \E c \in I : \A i \in I : c <= i
    <3>1. Len(mark) \in Nat /\ I \in SUBSET (1..Len(mark))
      BY DEF RInv
    <3> HIDE DEF I
    <3> QED
      BY <2>2, <3>1, LeastNumber
  <2>4. b \in I /\ \A i \in I : b <= i
    BY <2>2, <2>3
  <2> HIDE DEF b
  <2>5. b \in 1..Len(mark) /\ mark[b].at = Risk!Start(time) /\ DOMAIN mark = 1..Len(mark)
    BY <2>4 DEF RInv
  <2>6. ASSUME NEW i \in 1..Len(mark), mark[i].at >= Risk!Start(time)
        PROVE  i >= b /\ ~ Risk!TradingLost(i, b, Daily)
    <3>1. i >= b
      <4>1. CASE i < b
        <5>1. mark[i].at <= mark[b].at
          BY <2>5, <4>1 DEF RInv
        <5>2. mark[i].at \in Int /\ mark[b].at \in Int
          <6>1. mark[i] \in Valuation /\ mark[b] \in Valuation
            BY <2>5 DEF RInv
          <6> QED
            BY <6>1 DEF Valuation
        <5>3. mark[i].at = Risk!Start(time)
          BY <2>5, <2>6, <5>1, <5>2
        <5>4. b <= i
          BY <2>4, <5>3
        <5> QED
          BY <2>5, <4>1, <5>4
      <4> QED
        BY <2>5, <4>1
    <3>2. ~ Risk!Lost(Risk!Index(i), Risk!Index(b), Daily)
      BY <2>1, <2>5, <2>6 DEF Risk!LossToday, b
    <3>3. Daily \in Nat
      BY RiskAssumption
    <3> QED
      BY <2>5, <3>1, <3>2, <3>3, LossIsSeen
  <2> QED
    BY <2>5, <2>6 DEF Risk!LossStopsTheDay
<1> QED
  BY <1>1, RiskStarts, RiskStep, PTL DEF Risk!Spec, LossStopsTheDay
-----------------------------------------------------------------------------
(* RiskRules: the share of an entry follows trading.                         *)

(* Trades are told apart by their numbers, which are given in turn.          *)
Reported ==
    /\ IsFiniteSet(trade)
    /\ trade \subseteq [at: Int, id: Int, pnl: Int]
    /\ \A t \in trade : t.id <= Cardinality(trade)
    /\ \A s, t \in trade : s.id = t.id => s = t

EInv == RInv /\ Reported /\ DOMAIN risk = {"reduced", "haltDay"}

LEMMA SizeOfRisk == ASSUME NEW S PROVE Risk!Cardinality(S) = Cardinality(S)
BY DEF Risk!Cardinality, Cardinality

(* A later trade has a later place.                                          *)
LEMMA PlacesFollow ==
    ASSUME Reported, NEW s \in trade, NEW t \in trade
    PROVE  /\ Risk!Place(t) \in Nat /\ 0 < Risk!Place(t)
           /\ Risk!Before(s, t) => Risk!Place(s) < Risk!Place(t)
           /\ Risk!Before(s, t) \/ Risk!Before(t, s) \/ s = t
           /\ ~ (Risk!Before(s, t) /\ Risk!Before(t, s))
<1> DEFINE upTo(u) == {w \in trade : ~ Risk!Before(u, w)}
<1>1. ASSUME NEW u \in trade
      PROVE  IsFiniteSet(upTo(u)) /\ Risk!Place(u) = Cardinality(upTo(u)) /\ u \in upTo(u)
  <2>1. IsFiniteSet(upTo(u))
    BY FS_Subset DEF Reported
  <2>2. u.at \in Int /\ u.id \in Int
    BY DEF Reported
  <2> QED
    BY <2>1, <2>2, SizeOfRisk DEF Risk!Place, Risk!Before
<1>2. \A a, b \in trade : a.at \in Int /\ a.id \in Int /\ (a.id = b.id => a = b)
  BY DEF Reported
<1>3. Risk!Place(t) \in Nat /\ 0 < Risk!Place(t)
  <2>1. Cardinality(upTo(t)) \in Nat /\ Cardinality(upTo(t)) # 0
    BY <1>1, FS_CardinalityType, FS_EmptySet
  <2> QED
    BY <1>1, <2>1
<1>4. Risk!Before(s, t) \/ Risk!Before(t, s) \/ s = t
  BY <1>2 DEF Risk!Before
<1>5. ~ (Risk!Before(s, t) /\ Risk!Before(t, s))
  BY <1>2 DEF Risk!Before
<1>6. ASSUME Risk!Before(s, t) PROVE Risk!Place(s) < Risk!Place(t)
  <2>1. upTo(s) \subseteq upTo(t)
    BY <1>2, <1>6 DEF Risk!Before
  <2>2. t \notin upTo(s) /\ t \in upTo(t)
    BY <1>1, <1>6
  <2>3. /\ Cardinality(upTo(s)) <= Cardinality(upTo(t)) /\ Cardinality(upTo(s)) # Cardinality(upTo(t))
        /\ Cardinality(upTo(s)) \in Nat /\ Cardinality(upTo(t)) \in Nat
    <3> HIDE DEF upTo
    <3> QED
      BY <1>1, <2>1, <2>2, FS_Subset, FS_CardinalityType
  <2> QED
    BY <1>1, <2>3
<1> QED
  BY <1>3, <1>4, <1>5, <1>6

(* The run at the end is as long as it is in the order of closing.           *)
LEMMA TrailingCounts ==
    ASSUME Reported, NEW sign
    PROVE  Risk!Trailing(sign) = Cardinality(Risk!AtTheEnd(sign))
<1> DEFINE others == {u \in trade : u.pnl # sign}
           places == {0} \cup {Risk!Place(t) : t \in others}
<1>1. \A u \in others : Risk!Place(u) \in Nat /\ 0 < Risk!Place(u)
  BY PlacesFollow
<1>2. Risk!Trailing(sign) = Cardinality(trade) - (CHOOSE m \in places : \A i \in places : m >= i)
  BY SizeOfRisk DEF Risk!Trailing, Risk!Max
<1>3. Risk!AtTheEnd(sign) = {t \in trade : t.pnl = sign /\ \A u \in others : Risk!Before(u, t)}
  BY DEF Risk!AtTheEnd, Risk!Before
<1>4. Cardinality(trade) \in Nat
  BY FS_CardinalityType DEF Reported
<1>5. CASE others = {}
  <2>1. places = {0} /\ (CHOOSE m \in places : \A i \in places : m >= i) = 0
    BY <1>5
  <2>2. Risk!AtTheEnd(sign) = trade
    BY <1>3, <1>5
  <2> QED
    BY <1>2, <1>4, <2>1, <2>2
<1>6. CASE others # {}
  <2> DEFINE place == [t \in others |-> Risk!Place(t)]
  <2>1. PICK top \in others : \A i \in others : Risk!Place(i) <= Risk!Place(top)
    <3>1. IsFiniteSet(others)
      BY FS_Subset DEF Reported
    <3>2. \A u \in others : place[u] = Risk!Place(u) /\ place[u] \in Int
      BY <1>1
    <3>3. \E top \in others : \A i \in others : place[i] <= place[top]
      <4> HIDE DEF others, place
      <4> QED
        BY <1>6, <3>1, <3>2, GreatestValue
    <3> QED
      BY <3>2, <3>3
  <2>2. (CHOOSE m \in places : \A i \in places : m >= i) = Risk!Place(top)
    <3>1. Risk!Place(top) \in places /\ \A i \in places : Risk!Place(top) >= i
      BY <1>1, <2>1
    <3>2. \A m \in places : m \in Nat
      BY <1>1
    <3> DEFINE most == CHOOSE m \in places : \A i \in places : m >= i
    <3>3. most \in places /\ \A i \in places : most >= i
      <4> HIDE DEF places
      <4> QED
        BY <3>1
    <3>4. most >= Risk!Place(top) /\ Risk!Place(top) >= most /\ most \in Nat /\ Risk!Place(top) \in Nat
      BY <3>1, <3>2, <3>3
    <3> HIDE DEF most
    <3>5. most = Risk!Place(top)
      BY <3>4
    <3> QED
      BY <3>5 DEF most
  <2> DEFINE upTo == {w \in trade : ~ Risk!Before(top, w)}
  <2>3. Risk!Place(top) = Cardinality(upTo)
    BY SizeOfRisk DEF Risk!Place
  <2>4. Risk!AtTheEnd(sign) = trade \ upTo
    <3>1. ASSUME NEW t \in Risk!AtTheEnd(sign) PROVE t \in trade \ upTo
      BY <1>3, <2>1
    <3>2. ASSUME NEW t \in trade, Risk!Before(top, t) PROVE t \in Risk!AtTheEnd(sign)
      <4>1. Risk!Place(top) < Risk!Place(t) /\ Risk!Place(t) \in Nat /\ Risk!Place(top) \in Nat
        BY <2>1, <3>2, PlacesFollow
      <4>2. t.pnl = sign
        BY <2>1, <4>1
      <4>3. ASSUME NEW u \in others, ~ Risk!Before(u, t) PROVE FALSE
        <5>1. u # t /\ u \in trade
          BY <4>2
        <5>2. Risk!Before(t, u)
          BY <4>3, <5>1, PlacesFollow
        <5>3. Risk!Place(t) < Risk!Place(u) /\ Risk!Place(u) \in Nat
          BY <5>1, <5>2, PlacesFollow
        <5> QED
          BY <2>1, <4>1, <5>3
      <4> QED
        BY <1>3, <3>2, <4>2, <4>3
    <3> QED
      BY <1>3, <3>1, <3>2
  <2>5. upTo \subseteq trade /\ IsFiniteSet(trade)
    BY DEF Reported
  <2>6. Cardinality(trade \ upTo) = Cardinality(trade) - Cardinality(upTo)
    <3>1. upTo \cap trade = upTo /\ trade \cap upTo = upTo
      BY <2>5
    <3> HIDE DEF upTo
    <3> QED
      BY <2>5, <3>1, FS_Difference
  <2> QED
    BY <1>2, <2>2, <2>3, <2>4, <2>6
<1> QED
  BY <1>5, <1>6

-----------------------------------------------------------------------------
(* An index is above another where a share was worth more.                   *)
LEMMA IndexOrdersValues ==
    ASSUME RInv, NEW i \in 1..Len(mark), NEW j \in 1..Len(mark)
    PROVE  Risk!Above(Risk!Index(j), Risk!Index(i)) <=> mark[j].value > mark[i].value
<1>1. mark[i] \in Valuation /\ mark[j] \in Valuation /\ mark[1] \in Valuation /\ 1 \in 1..Len(mark)
  BY DEF RInv
<1>2. PICK v1 \in Int, v \in Int, w \in Int : v1 = mark[1].value /\ v = mark[i].value /\ w = mark[j].value
  BY <1>1 DEF Valuation
<1>3. v1 > 0
  BY <1>1, <1>2 DEF RInv
<1>4. Telescoped(Risk!Index(i), i) /\ Telescoped(Risk!Index(j), j)
  BY IndexTelescopes
<1>5. PICK a1 \in Int, a2 \in Int, b1 \in Int, b2 \in Int :
        /\ a1 = Risk!Index(i)[1] /\ a2 = Risk!Index(i)[2] /\ b1 = Risk!Index(j)[1] /\ b2 = Risk!Index(j)[2]
        /\ a2 > 0 /\ b2 > 0 /\ a1 * v1 = a2 * v /\ b1 * v1 = b2 * w
  BY <1>2, <1>4 DEF Telescoped
<1> DEFINE left  == b1 * a2
           right == a1 * b2
           k     == a2 * b2
<1>6. k \in Int /\ k > 0 /\ left \in Int /\ right \in Int
  <2>1. a2 * b2 \in Int /\ a2 * b2 > 0
    BY <1>5, ProductsArePositive
  <2>2. left \in Int /\ right \in Int
    OBVIOUS
  <2> QED
    BY <2>1, <2>2
<1>7. left * v1 = w * k
  <2>1. (b1 * a2) * v1 = a2 * (b1 * v1) /\ w * (a2 * b2) = a2 * (b2 * w)
    OBVIOUS
  <2> QED
    BY <1>5, <2>1
<1>8. right * v1 = v * k
  <2>1. (a1 * b2) * v1 = b2 * (a1 * v1) /\ v * (a2 * b2) = b2 * (a2 * v)
    OBVIOUS
  <2> QED
    BY <1>5, <2>1
<1>9. Risk!Above(Risk!Index(j), Risk!Index(i)) <=> left > right
  BY <1>5 DEF Risk!Above
<1> HIDE DEF left, right, k
<1>10. left <= right <=> left * v1 <= right * v1
  BY <1>3, <1>6, OrderIsScaled
<1>11. w <= v <=> w * k <= v * k
  BY <1>6, OrderIsScaled
<1>12. left <= right <=> w <= v
  BY <1>7, <1>8, <1>10, <1>11
<1> QED
  BY <1>2, <1>6, <1>9, <1>12

(* The peak is the valuation in which a share was worth most.                *)
LEMMA PeakIsHighest ==
    ASSUME RInv
    PROVE  Risk!Peak \in 1..Len(mark) /\ \A j \in 1..Len(mark) : mark[j].value <= mark[Risk!Peak].value
<1> DEFINE worth == [i \in 1..Len(mark) |-> mark[i].value]
<1>1. /\ DOMAIN mark = 1..Len(mark) /\ Len(mark) \in Nat /\ Len(mark) > 0
      /\ \A i \in 1..Len(mark) : mark[i].value \in Int
  <2>1. mark \in Seq(Valuation) /\ mark # <<>>
    BY DEF RInv
  <2>2. DOMAIN mark = 1..Len(mark) /\ Len(mark) \in Nat /\ Len(mark) > 0
    BY <2>1
  <2>3. \A i \in 1..Len(mark) : mark[i] \in Valuation
    BY <2>1
  <2> QED
    BY <2>2, <2>3 DEF Valuation
<1>2. PICK top \in 1..Len(mark) : \A i \in 1..Len(mark) : mark[i].value <= mark[top].value
  <2>1. IsFiniteSet(1..Len(mark)) /\ 1..Len(mark) # {}
    <3>1. 1 \in 1..Len(mark)
      BY <1>1
    <3>2. IsFiniteSet(1..Len(mark))
      BY <1>1, FS_Interval
    <3> QED
      BY <3>1, <3>2
  <2>2. \A i \in 1..Len(mark) : worth[i] = mark[i].value /\ worth[i] \in Int
    BY <1>1
  <2>3. \E top \in 1..Len(mark) : \A i \in 1..Len(mark) : worth[i] <= worth[top]
    <3> HIDE DEF worth
    <3> QED
      BY <2>1, <2>2, GreatestValue
  <2> QED
    BY <2>2, <2>3
<1>3. \A j \in DOMAIN mark : ~ Risk!Above(Risk!Index(j), Risk!Index(top))
  BY <1>1, <1>2, IndexOrdersValues
<1>4. Risk!Peak \in DOMAIN mark /\ \A j \in DOMAIN mark : ~ Risk!Above(Risk!Index(j), Risk!Index(Risk!Peak))
  BY <1>1, <1>3 DEF Risk!Peak
<1>5. ASSUME NEW j \in 1..Len(mark) PROVE mark[j].value <= mark[Risk!Peak].value
  <2>1. Risk!Peak \in 1..Len(mark)
    BY <1>1, <1>4
  <2>2. ~ (mark[j].value > mark[Risk!Peak].value)
    BY <1>1, <1>4, <2>1, IndexOrdersValues
  <2> QED
    BY <1>1, <2>1, <2>2
<1> QED
  BY <1>1, <1>4, <1>5

(* A loss of trading against any valuation is one against the peak.          *)
LEMMA DrawdownIsSeen ==
    ASSUME RInv, NEW i \in 1..Len(mark), NEW parts \in Nat,
           Risk!TradingLost(Len(mark), i, parts)
    PROVE  Risk!Drawdown(parts)
<1>1. Len(mark) \in 1..Len(mark)
  <2>1. mark \in Seq(Valuation) /\ mark # <<>>
    BY DEF RInv
  <2> QED
    BY <2>1
<1>2. Risk!Peak \in 1..Len(mark) /\ mark[i].value <= mark[Risk!Peak].value
  BY PeakIsHighest
<1>3. mark[Len(mark)] \in Valuation /\ mark[i] \in Valuation /\ mark[Risk!Peak] \in Valuation
  BY <1>1, <1>2 DEF RInv
<1>4. PICK now \in Int, then \in Int, top \in Int :
        now = mark[Len(mark)].value /\ then = mark[i].value /\ top = mark[Risk!Peak].value
  BY <1>3 DEF Valuation
<1>5. now > 0 /\ then > 0 /\ then <= top
  BY <1>1, <1>2, <1>4 DEF RInv
<1>6. PICK p \in Int, q \in Int : p = RiskParts /\ q = RiskParts - parts /\ p >= 0
  BY RiskAssumption
<1>7. p * now <= q * then
  BY <1>4, <1>6 DEF Risk!TradingLost
<1>8. p * now >= 0
  <2>1. 0 * now <= p * now
    BY <1>5, <1>6, OrderIsScaled
  <2>2. 0 * now = 0 /\ p * now \in Int
    OBVIOUS
  <2> QED
    BY <2>1, <2>2
<1>9. q >= 0
  <2> SUFFICES ASSUME q <= -1 PROVE FALSE
    OBVIOUS
  <2>1. q * then <= -1 * then
    BY <1>5, OrderIsScaled
  <2>2. -1 * then = -then /\ q * then \in Int /\ p * now \in Int
    OBVIOUS
  <2> QED
    BY <1>5, <1>7, <1>8, <2>1, <2>2
<1>10. q * then <= q * top
  <2>1. CASE q = 0
    BY <2>1
  <2>2. CASE q > 0
    <3>1. then * q <= top * q
      BY <1>5, <2>2, OrderIsScaled
    <3>2. then * q = q * then /\ top * q = q * top
      OBVIOUS
    <3> QED
      BY <3>1, <3>2
  <2> QED
    BY <1>9, <2>1, <2>2
<1>11. p * now <= q * top
  <2> DEFINE x1 == p * now
             x2 == q * then
             x3 == q * top
  <2>1. x1 \in Int /\ x2 \in Int /\ x3 \in Int /\ x1 <= x2 /\ x2 <= x3
    BY <1>7, <1>10
  <2> HIDE DEF x1, x2, x3
  <2>2. x1 <= x3
    BY <2>1
  <2> QED
    BY <2>2 DEF x1, x3
<1>12. Risk!TradingLost(Len(mark), Risk!Peak, parts)
  BY <1>4, <1>6, <1>11 DEF Risk!TradingLost
<1> QED
  BY <1>1, <1>2, <1>12, LossIsSeen DEF Risk!Drawdown

-----------------------------------------------------------------------------
LEMMA TradesStart == ASSUME Risk!Init PROVE EInv
<1>1. trade = {} /\ DOMAIN risk = {"reduced", "haltDay"}
  BY DEF Risk!Init
<1> QED
  BY <1>1, RiskStarts, FS_EmptySet DEF EInv, Reported

LEMMA CloseKeeps ==
    ASSUME EInv, NEW at \in {time - 1, time} \cap Nat, NEW pnl \in {-1, 0, 1}, Risk!Close(at, pnl)
    PROVE  Reported'
<1> DEFINE n == Cardinality(trade)
           t == [at |-> at, id |-> n + 1, pnl |-> pnl]
<1>1. trade' = trade \cup {t}
  BY SizeOfRisk DEF Risk!Close
<1>2. IsFiniteSet(trade) /\ n \in Nat
  BY FS_CardinalityType DEF EInv, Reported
<1>3. /\ trade \subseteq [at: Int, id: Int, pnl: Int]
      /\ \A u \in trade : u.id <= n
      /\ \A u, w \in trade : u.id = w.id => u = w
  BY DEF EInv, Reported
<1>4. t \in [at: Int, id: Int, pnl: Int] /\ t.id = n + 1
  BY <1>2
<1> HIDE DEF t, n
<1>5. t \notin trade
  BY <1>2, <1>3, <1>4
<1>6. IsFiniteSet(trade') /\ Cardinality(trade') = n + 1
  BY <1>1, <1>2, <1>5, FS_AddElement DEF n
<1>7. \A u \in trade' : u.id <= n + 1 /\ u.id \in Int
  BY <1>1, <1>2, <1>3, <1>4
<1>8. \A u, w \in trade' : u.id = w.id => u = w
  BY <1>1, <1>2, <1>3, <1>4
<1>9. trade' \subseteq [at: Int, id: Int, pnl: Int]
  BY <1>1, <1>3, <1>4
<1>10. \A u \in trade' : u.id <= Cardinality(trade')
  BY <1>6, <1>7
<1> QED
  BY <1>6, <1>8, <1>9, <1>10 DEF Reported

LEMMA TradesStep == ASSUME EInv, [Risk!Next]_(Risk!vars) PROVE EInv'
<1>1. RInv'
  BY RiskStep DEF EInv
<1>2. ASSUME NEW at \in {time - 1, time} \cap Nat, NEW pnl \in {-1, 0, 1}, Risk!Close(at, pnl) PROVE EInv'
  <2>1. risk' = risk
    BY <1>2 DEF Risk!Close
  <2> QED
    BY <1>1, <1>2, <2>1, CloseKeeps DEF EInv
<1>3. CASE Risk!Evaluate
  BY <1>1, <1>3 DEF Risk!Evaluate, EInv, Reported
<1>4. CASE Risk!EvaluateIncomplete
  BY <1>1, <1>4 DEF Risk!EvaluateIncomplete, EInv, Reported
<1>5. CASE \/ Risk!Tick \/ UNCHANGED Risk!vars
           \/ \E v \in ShareValue : Risk!Observe(v)
           \/ \E s \in Shares : Risk!Transfer(s)
  <2>1. trade' = trade /\ risk' = risk
    BY <1>5 DEF Risk!Tick, Risk!vars, Risk!Observe, Risk!Transfer
  <2> QED
    BY <1>1, <2>1 DEF EInv, Reported
<1> QED
  BY <1>2, <1>3, <1>4, <1>5 DEF Risk!Next

(* Whatever trades are reported late and whatever is paid in or out, an entry
   of the full share follows fewer than two losses in a row and no drawdown of
   trading, and only three wins near the peak end the reduced share.         *)
THEOREM ShareFollowsTrading == Risk!Spec => ShareIsEarned
<1>1. EInv /\ [Risk!Next]_(Risk!vars) => [Risk!ShareIsEarned]_limits
  <2> SUFFICES ASSUME EInv, [Risk!Next]_(Risk!vars), ~ UNCHANGED limits
               PROVE  Risk!ShareIsEarned
    OBVIOUS
  <2>1. CASE Risk!Evaluate
    <3> DEFINE reduced == Risk!Reduced
               halt    == Risk!Halt(Risk!Day(time))
    <3>1. risk' = [reduced |-> reduced, haltDay |-> halt]
      BY <2>1 DEF Risk!Evaluate
    <3>2. risk'.reduced = Risk!Reduced
      <4> HIDE DEF halt
      <4> QED
        BY <3>1
    <3>3. entry' # Risk!None => entry'.full = ~ risk'.reduced
      BY <2>1 DEF Risk!Evaluate
    <3>4. Risk!Trailing(-1) = Cardinality(Risk!AtTheEnd(-1)) /\ Risk!Trailing(1) = Cardinality(Risk!AtTheEnd(1))
      BY TrailingCounts DEF EInv
    <3>5. Cardinality(Risk!AtTheEnd(-1)) \in Nat
      BY FS_Subset, FS_CardinalityType DEF EInv, Reported, Risk!AtTheEnd
    <3>6. RInv /\ DOMAIN mark = 1..Len(mark)
      BY DEF EInv, RInv
    <3>7. Reduce \in Nat /\ Restore \in Nat
      BY RiskAssumption
    <3>8. ASSUME ~ risk'.reduced
          PROVE  /\ Cardinality(Risk!AtTheEnd(-1)) < 2
                 /\ \A i \in DOMAIN mark : ~ Risk!TradingLost(Len(mark), i, Reduce)
      <4>1. ~ (Risk!Trailing(-1) >= 2) /\ ~ Risk!Drawdown(Reduce)
        BY <3>2, <3>8 DEF Risk!Reduced
      <4> QED
        BY <3>4, <3>5, <3>6, <3>7, <4>1, DrawdownIsSeen
    <3>9. ASSUME risk.reduced, ~ risk'.reduced
          PROVE  /\ Cardinality(Risk!AtTheEnd(1)) >= 3
                 /\ \A i \in DOMAIN mark : ~ Risk!TradingLost(Len(mark), i, Restore)
      <4>1. Risk!Trailing(1) >= 3 /\ ~ Risk!Drawdown(Restore)
        BY <3>2, <3>9 DEF Risk!Reduced
      <4> QED
        BY <3>4, <3>6, <3>7, <4>1, DrawdownIsSeen
    <3> QED
      BY <3>3, <3>8, <3>9, SizeOfRisk DEF Risk!ShareIsEarned, Risk!Entering
  <2>2. CASE ~ Risk!Evaluate
    <3>1. entry' = Risk!None /\ (risk.reduced => risk'.reduced)
      BY <2>2 DEF Risk!Next, Risk!vars, limits, Risk!Tick, Risk!EvaluateIncomplete, Risk!Observe, Risk!Transfer,
                  Risk!Close, EInv
    <3> QED
      BY <3>1 DEF Risk!ShareIsEarned, Risk!Entering
  <2> QED
    BY <2>1, <2>2
<1> QED
  BY <1>1, TradesStart, TradesStep, PTL DEF Risk!Spec, ShareIsEarned

-----------------------------------------------------------------------------
(* PaperPair: an entry is earned and a clean result was watched.             *)

LogEntry == [at: Nat, book: Int, tradable: BOOLEAN, priced: BOOLEAN, depth: Nat]

Rising(L) == \A i, j \in 1..Len(L) : i < j => L[i].at < L[j].at

Shown(L, i, ok) == [at |-> L[i].at, ok |-> ok, book |-> L[i].book]

AllShown(L, m, ok) == {Shown(L, i, ok) : i \in m..Len(L)}

NoPause(L, i, j) == \A n \in i..(j - 1) : L[n + 1].at - L[n].at <= Gap

(* The readings from the m-th to the last were tradable one and all.         *)
Run(L, m) ==
    /\ \A i \in m..Len(L) : L[i].tradable
    /\ \A i \in m..(Len(L) - 1) : L[i].book < L[i + 1].book
    /\ NoPause(L, m, Len(L))

(* What is seen are the last readings: a run, or one that failed.            *)
Windowed(S, L) ==
    \/ L = <<>> /\ S = {}
    \/ \E m \in 1..Len(L), ok \in BOOLEAN :
        S = AllShown(L, m, ok) /\ IF ok THEN Run(L, m) ELSE m = Len(L)

Logged == log \in Seq(LogEntry) /\ Rising(log) /\ last = IF log = <<>> THEN -1 ELSE log[Len(log)].at

EarnedBy(k, t, L) ==
    \E n \in 1..Len(L) :
        /\ L[n].at = t.entry.at /\ L[n].at < Candidate
        /\ t.entry.quote <= Budget * QuoteUnit
        /\ k = "immediate" => n = 1 /\ L[n].at <= Gap
        /\ k = "delayed" => \E m \in 1..n :
            /\ n - m + 1 >= Observations /\ L[n].at - L[m].at >= Wait
            /\ NoPause(L, m, n)
            /\ \A i \in m..n : L[i].tradable
            /\ \A i \in m..(n - 1) : L[i].book < L[i + 1].book

Watched(t, L, m, n) ==
    /\ L[m].at = t.entry.at /\ NoPause(L, m, n)
    /\ \A i \in (m + 1)..n : L[i].priced /\ L[i].book > t.entry.book /\ L[i].depth >= t.entry.quantity

TrialSound(k, t, L) ==
    /\ DOMAIN t = {"status", "entry", "exit", "gap"} /\ t.gap \in BOOLEAN
    /\ t.status \in {"waiting", "rejected"} => t.entry = Paper!NoFill
    /\ t.entry # Paper!NoFill =>
        /\ t.entry.quantity \in Nat /\ EarnedBy(k, t, L) /\ t.status \in {"open", "unpriced", "closed"}
    /\ t.entry = Paper!NoFill => t.status \in {"waiting", "rejected"}
    /\ k = "immediate" /\ t.status = "waiting" => L = <<>>
    /\ t.status = "unpriced" => t.gap
    /\ t.status = "open" /\ ~ t.gap => \E m \in 1..Len(L) : Watched(t, L, m, Len(L))
    /\ t.status = "closed" /\ ~ t.gap =>
        \E m, n \in 1..Len(L) : m < n /\ L[n].at = t.exit.at /\ Watched(t, L, m, n)

PInv ==
    /\ Logged /\ Windowed(seen, log)
    /\ DOMAIN trial = Paper!Strategy /\ \A k \in Paper!Strategy : TrialSound(k, trial[k], log)

-----------------------------------------------------------------------------
LEMMA SumOfPaper == ASSUME NEW f PROVE Paper!SumFunction(f) = SumFunction(f)
BY DEF Paper!SumFunction, SumFunction, Paper!SumFunctionOnSet, SumFunctionOnSet,
       Paper!FoldFunctionOnSet, FoldFunctionOnSet, Paper!MapThenFoldSet, MapThenFoldSet

LEMMA SizeOfPaper == ASSUME NEW S PROVE Paper!Cardinality(S) = Cardinality(S)
BY DEF Paper!Cardinality, Cardinality

(* What a side of a book offers is a number.                                 *)
LEMMA DepthIsNatural ==
    ASSUME NEW levels \in Seq([price: Nat, size: Nat])
    PROVE  Paper!Depth(levels) \in Nat
<1> DEFINE f == [j \in 1..(Len(levels) + 1 - 1) |-> levels[j].size]
<1>1. Paper!Depth(levels) = SumFunction(f)
  BY SumOfPaper DEF Paper!Depth, Paper!Better
<1>2. IsFiniteSet(1..Len(levels)) /\ Len(levels) \in Nat
  BY FS_Interval
<1>3. DOMAIN f = 1..Len(levels) /\ \A j \in 1..Len(levels) : f[j] \in Nat
  <2> DEFINE rung == [price: Nat, size: Nat]
  <2>1. \A j \in 1..Len(levels) : levels[j].size \in Nat
    <3>1. levels \in Seq(rung)
      OBVIOUS
    <3> HIDE DEF rung
    <3>2. \A j \in 1..Len(levels) : levels[j] \in rung
      BY <3>1
    <3> QED
      BY <3>2 DEF rung
  <2>2. Len(levels) + 1 - 1 = Len(levels)
    BY <1>2
  <2> QED
    BY <2>1, <2>2
<1>4. SumFunctionOnSet(f, 1..Len(levels)) \in Nat
  <2> HIDE DEF f
  <2> QED
    BY <1>2, <1>3, SumNat
<1> QED
  BY <1>1, <1>3, <1>4 DEF SumFunction

(* A purchase is within the budget and of whole steps.                       *)
LEMMA BuyIsAfforded ==
    ASSUME NEW at \in Nat, NEW r \in Paper!Reading, Paper!Buy(at, r) # Paper!NoFill
    PROVE  /\ Paper!Buy(at, r).at = at /\ Paper!Buy(at, r).quantity \in Nat
           /\ Paper!Buy(at, r).quote <= Budget * QuoteUnit
<1> DEFINE asks == r.market.asks
           A    == Paper!Affordable(asks)
           q    == CHOOSE n \in A : \A m \in A : m <= n
<1>1. asks \in Seq([price: Nat, size: Nat])
  <2>1. r.market \in Books
    BY DEF Paper!Reading
  <2> QED
    BY <2>1, PaperAssumption
<1>2. Paper!Depth(asks) \in Nat
  BY <1>1, DepthIsNatural
<1>3. A # {} /\ Paper!Buy(at, r) = [at |-> at, book |-> r.book, quantity |-> q, quote |-> Paper!Spent(asks, q)]
  BY DEF Paper!Buy
<1>4. A \subseteq 1..Paper!Depth(asks) /\ \A n \in A : Paper!Spent(asks, n) <= Budget * QuoteUnit
  BY DEF Paper!Affordable
<1>5. q \in A
  <2> DEFINE f == [n \in A |-> n]
  <2>1. IsFiniteSet(A)
    <3>1. IsFiniteSet(1..Paper!Depth(asks))
      BY <1>2, FS_Interval
    <3> HIDE DEF A
    <3> QED
      BY <3>1, <1>4, FS_Subset
  <2>2. \A n \in A : f[n] = n /\ f[n] \in Int
    BY <1>2, <1>4
  <2>3. \E top \in A : \A i \in A : f[i] <= f[top]
    <3> HIDE DEF A, f
    <3> QED
      BY <1>3, <2>1, <2>2, GreatestValue
  <2>4. \E top \in A : \A i \in A : i <= top
    BY <2>2, <2>3
  <2> HIDE DEF A
  <2> QED
    BY <2>4
<1> HIDE DEF q, A
<1>6. q \in Nat
  BY <1>2, <1>4, <1>5
<1> QED
  BY <1>3, <1>4, <1>5, <1>6

LEMMA DepthOfBids ==
    ASSUME NEW r \in Paper!Reading
    PROVE  Paper!Depth(r.market.bids) \in Nat
<1>1. r.market \in Books
  BY DEF Paper!Reading
<1>2. r.market.bids \in Seq([price: Nat, size: Nat])
  BY <1>1, PaperAssumption
<1> QED
  BY <1>2, DepthIsNatural

-----------------------------------------------------------------------------
(* The newest observation is the last reading, the oldest the first one kept. *)
LEMMA EndsOfWindow ==
    ASSUME NEW L \in Seq(LogEntry), Rising(L), NEW m \in 1..Len(L), NEW ok
    PROVE  LET S == AllShown(L, m, ok)
           IN  /\ Paper!Newest(S) = Shown(L, Len(L), ok)
               /\ Paper!Oldest(S) = Shown(L, m, ok)
               /\ IsFiniteSet(S) /\ Cardinality(S) <= Len(L) - m + 1
<1> DEFINE S == AllShown(L, m, ok)
           n == Len(L)
           f == [i \in m..n |-> Shown(L, i, ok)]
<1>1. n \in Nat /\ m \in Nat /\ m <= n /\ n \in m..n /\ m \in m..n
  OBVIOUS
<1>2. \A i \in m..n : L[i].at \in Nat /\ Shown(L, i, ok).at = L[i].at
  <2>1. \A i \in m..n : L[i] \in LogEntry
    BY <1>1
  <2> QED
    BY <2>1 DEF LogEntry, Shown
<1>3. \A i, j \in m..n : i < j => L[i].at < L[j].at
  BY <1>1 DEF Rising
<1>4. Shown(L, n, ok) \in S /\ Shown(L, m, ok) \in S
  BY <1>1 DEF AllShown
<1>5. \A o \in S : \E i \in m..n : o = Shown(L, i, ok)
  BY DEF AllShown
<1>6. \A i \in m..n : L[i].at <= L[n].at /\ L[m].at <= L[i].at
  BY <1>1, <1>2, <1>3
<1>7. Paper!Newest(S) = Shown(L, n, ok)
  <2> DEFINE new == Paper!Newest(S)
  <2>1. \A p \in S : p.at <= Shown(L, n, ok).at
    BY <1>1, <1>2, <1>5, <1>6
  <2>2. new \in S /\ \A p \in S : p.at <= new.at
    <3> HIDE DEF S
    <3> QED
      BY <1>4, <2>1 DEF Paper!Newest
  <2>3. PICK i \in m..n : new = Shown(L, i, ok)
    BY <1>5, <2>2
  <2>4. L[n].at <= L[i].at
    BY <1>1, <1>2, <1>4, <2>2, <2>3
  <2>5. i = n
    <3>1. CASE i < n
      BY <1>1, <1>2, <1>3, <2>4, <3>1
    <3> QED
      BY <1>1, <3>1
  <2> QED
    BY <2>3, <2>5
<1>8. Paper!Oldest(S) = Shown(L, m, ok)
  <2> DEFINE old == Paper!Oldest(S)
  <2>1. \A p \in S : Shown(L, m, ok).at <= p.at
    BY <1>1, <1>2, <1>5, <1>6
  <2>2. old \in S /\ \A p \in S : old.at <= p.at
    <3> HIDE DEF S
    <3> QED
      BY <1>4, <2>1 DEF Paper!Oldest
  <2>3. PICK i \in m..n : old = Shown(L, i, ok)
    BY <1>5, <2>2
  <2>4. L[i].at <= L[m].at
    BY <1>1, <1>2, <1>4, <2>2, <2>3
  <2>5. i = m
    <3>1. CASE m < i
      BY <1>1, <1>2, <1>3, <2>4, <3>1
    <3> QED
      BY <1>1, <3>1
  <2> QED
    BY <2>3, <2>5
<1>9. IsFiniteSet(S) /\ Cardinality(S) <= n - m + 1
  <2>1. f \in Surjection(m..n, S)
    BY <1>5 DEF Surjection, AllShown
  <2>2. IsFiniteSet(m..n) /\ Cardinality(m..n) = n - m + 1
    BY <1>1, FS_Interval
  <2>3. IsFiniteSet(S) /\ Cardinality(S) <= Cardinality(m..n)
    <3> HIDE DEF S, f
    <3> QED
      BY <2>1, <2>2, FS_Surjection
  <2> QED
    BY <2>2, <2>3
<1> QED
  BY <1>7, <1>8, <1>9

-----------------------------------------------------------------------------
Entry(at, r) ==
    [at |-> at, book |-> r.book, tradable |-> Paper!Tradable(at, r),
     priced |-> Paper!BookValid(at, r) /\ r.issue # "quiet", depth |-> Paper!Depth(r.market.bids)]

(* What a reading adds to the history.                                       *)
LEMMA ReadingIsLogged ==
    ASSUME Logged, NEW at \in Paper!Time, NEW r \in Paper!Reading, Paper!Read(at, r)
    PROVE  /\ Logged' /\ at \in Nat /\ Entry(at, r) \in LogEntry
           /\ log' = Append(log, Entry(at, r)) /\ Len(log) \in Nat /\ Len(log') = Len(log) + 1
           /\ log'[Len(log) + 1] = Entry(at, r) /\ \A i \in 1..Len(log) : log'[i] = log[i]
           /\ log # <<>> => log[Len(log)].at = last /\ last \in Nat /\ last < at
<1> DEFINE e == Entry(at, r)
           n == Len(log)
<1>1. at \in Nat
  BY PaperAssumption DEF Paper!Time
<1>2. log' = Append(log, e) /\ last' = at /\ ~ (at <= last)
  BY DEF Paper!Read, Paper!Ignored, Entry
<1>3. e \in LogEntry
  <2>1. Paper!Depth(r.market.bids) \in Nat
    BY DepthOfBids
  <2>2. r.book \in Int
    BY PaperAssumption DEF Paper!Reading, Paper!Time
  <2>3. Paper!Tradable(at, r) \in BOOLEAN /\ (Paper!BookValid(at, r) /\ r.issue # "quiet") \in BOOLEAN
    BY DEF Paper!Tradable, Paper!BookValid
  <2> QED
    BY <1>1, <2>1, <2>2, <2>3 DEF Entry, LogEntry
<1>4. e.at = at
  BY DEF Entry
<1> HIDE DEF e
<1>5. log \in Seq(LogEntry) /\ n \in Nat /\ Rising(log)
  BY DEF Logged
<1>6. log' \in Seq(LogEntry) /\ Len(log') = n + 1 /\ log'[n + 1] = e /\ (\A i \in 1..n : log'[i] = log[i]) /\ log' # <<>>
  BY <1>2, <1>3, <1>5
<1>7. ASSUME log # <<>> PROVE log[n].at = last /\ last \in Nat /\ last < at /\ n \in 1..n
  <2>1. n \in 1..n
    BY <1>5, <1>7
  <2>2. log[n] \in LogEntry
    BY <1>5, <2>1
  <2>3. last = log[n].at
    BY <1>7 DEF Logged
  <2> QED
    BY <1>1, <1>2, <2>1, <2>2, <2>3 DEF LogEntry
<1>8. ASSUME NEW i \in 1..(n + 1), NEW j \in 1..(n + 1), i < j PROVE log'[i].at < log'[j].at
  <2>1. i \in 1..n /\ log # <<>>
    BY <1>5, <1>8
  <2>2. log[i].at <= log[n].at
    <3>1. CASE i = n
      <4>1. log[n] \in LogEntry
        BY <1>5, <2>1, <3>1
      <4> QED
        BY <3>1, <4>1 DEF LogEntry
    <3>2. CASE i < n
      <4>1. log[i].at < log[n].at /\ log[i] \in LogEntry /\ log[n] \in LogEntry
        BY <1>5, <1>7, <2>1, <3>2 DEF Rising
      <4> QED
        BY <4>1 DEF LogEntry
    <3> QED
      BY <1>5, <2>1, <3>1, <3>2
  <2>3. CASE j = n + 1
    <3>1. log[i] \in LogEntry
      BY <1>5, <2>1
    <3>2. log'[i] = log[i] /\ log'[j] = e
      BY <1>6, <2>1, <2>3
    <3> QED
      BY <1>1, <1>4, <1>7, <2>1, <2>2, <3>1, <3>2 DEF LogEntry
  <2>4. CASE j # n + 1
    <3>1. j \in 1..n
      BY <1>5, <2>4
    <3> QED
      BY <1>5, <1>6, <1>8, <2>1, <3>1 DEF Rising
  <2> QED
    BY <2>3, <2>4
<1>9. Logged'
  BY <1>2, <1>4, <1>6, <1>8 DEF Logged, Rising
<1> QED
  BY <1>1, <1>2, <1>3, <1>5, <1>6, <1>7, <1>9 DEF e

(* A run goes on with a tradable reading that has a newer book in time.      *)
LEMMA RunGoesOn ==
    ASSUME NEW L, NEW K, NEW n \in Nat, Len(L) = n, Len(K) = n + 1, \A i \in 1..n : K[i] = L[i],
           NEW m \in 1..n, Run(L, m),
           K[n + 1].tradable, L[n].book < K[n + 1].book, K[n + 1].at - L[n].at <= Gap
    PROVE  Run(K, m)
<1>1. \A i \in m..n : i \in 1..n
  OBVIOUS
<1>2. ASSUME NEW i \in m..(n + 1) PROVE K[i].tradable
  <2>1. CASE i = n + 1
    BY <2>1
  <2>2. CASE i # n + 1
    <3>1. i \in m..n
      BY <2>2
    <3> QED
      BY <1>1, <3>1 DEF Run
  <2> QED
    BY <2>1, <2>2
<1>3. ASSUME NEW i \in m..n PROVE K[i].book < K[i + 1].book /\ K[i + 1].at - K[i].at <= Gap
  <2>1. CASE i = n
    BY <1>1, <2>1
  <2>2. CASE i # n
    <3>1. i \in m..(n - 1) /\ i \in 1..n /\ i + 1 \in 1..n
      BY <2>2
    <3>2. K[i] = L[i] /\ K[i + 1] = L[i + 1]
      BY <3>1
    <3> QED
      BY <3>1, <3>2 DEF Run, NoPause
  <2> QED
    BY <2>1, <2>2
<1>4. n + 1 - 1 = n
  OBVIOUS
<1> QED
  BY <1>2, <1>3, <1>4 DEF Run, NoPause

LEMMA RunIsCut ==
    ASSUME NEW L, Len(L) \in Nat, NEW m \in 1..Len(L), Run(L, m), NEW k \in m..Len(L)
    PROVE  Run(L, k)
<1>1. k..Len(L) \subseteq m..Len(L) /\ k..(Len(L) - 1) \subseteq m..(Len(L) - 1)
  OBVIOUS
<1> QED
  BY <1>1 DEF Run, NoPause

(* What Observe keeps is a run to this reading, or this failed reading.      *)
LEMMA ObservedIsWindowed ==
    ASSUME PInv, NEW at \in Paper!Time, NEW r \in Paper!Reading, Paper!Read(at, r)
    PROVE  \E m \in 1..Len(log') :
               /\ seen' = AllShown(log', m, Paper!Qualifying(at, r))
               /\ IF Paper!Qualifying(at, r) THEN Run(log', m) ELSE m = Len(log')
<1>0. PICK L : L = log'
  OBVIOUS
<1> DEFINE n   == Len(log)
           ok  == Paper!Qualifying(at, r)
           new == [at |-> at, ok |-> ok, book |-> r.book]
           kept == IF Paper!Missed(at) \/ ~ok \/ (seen # {} /\ ~ Paper!Newest(seen).ok) THEN {} ELSE seen
<1>1. Logged /\ Windowed(seen, log)
  BY DEF PInv
<1>2. /\ at \in Nat /\ n \in Nat /\ Len(L) = n + 1 /\ L[n + 1] = Entry(at, r) /\ \A i \in 1..n : L[i] = log[i]
      /\ L \in Seq(LogEntry) /\ Rising(L) /\ log \in Seq(LogEntry) /\ Rising(log)
      /\ log # <<>> => log[n].at = last /\ last \in Nat /\ last < at
  BY <1>0, <1>1, ReadingIsLogged DEF Logged
<1>3. seen' = {o \in kept \cup {new} : o.at >= at - Wait - Gap}
  BY DEF Paper!Read, Paper!Observe
<1>4. L[n + 1].at = at /\ L[n + 1].book = r.book /\ new = Shown(L, n + 1, ok) /\ n + 1 \in 1..Len(L)
      /\ L[n + 1].tradable = Paper!Tradable(at, r)
  BY <1>2 DEF Entry, Shown
<1>5. at >= at - Wait - Gap
  BY <1>2, PaperAssumption
<1>6. CASE kept = {}
  <2>1. seen' = {new}
    BY <1>3, <1>5, <1>6
  <2>2. seen' = AllShown(L, n + 1, ok)
    <3>1. (n + 1)..Len(L) = {n + 1}
      BY <1>2
    <3> QED
      BY <1>4, <2>1, <3>1 DEF AllShown
  <2>3. ok => Run(L, n + 1)
    <3> SUFFICES ASSUME ok PROVE Run(L, n + 1)
      OBVIOUS
    <3>1. L[n + 1].tradable
      BY <1>4 DEF Paper!Qualifying
    <3>2. (n + 1)..Len(L) = {n + 1} /\ (n + 1)..(Len(L) - 1) = {}
      BY <1>2
    <3> QED
      BY <3>1, <3>2 DEF Run, NoPause
  <2> QED
    BY <1>0, <1>2, <1>4, <2>2, <2>3
<1>7. CASE kept # {}
  <2>1. kept = seen /\ ok /\ ~ Paper!Missed(at) /\ Paper!Newest(seen).ok /\ seen # {}
    BY <1>7
  <2>2. PICK m \in 1..n, was \in BOOLEAN :
          seen = AllShown(log, m, was) /\ IF was THEN Run(log, m) ELSE m = n
    BY <1>1, <2>1 DEF Windowed
  <2>3. Paper!Newest(seen) = Shown(log, n, was)
    BY <1>2, <2>2, EndsOfWindow
  <2>4. was = TRUE /\ Run(log, m) /\ Paper!Newest(seen).book = log[n].book
    BY <2>1, <2>2, <2>3 DEF Shown
  <2>5. log[n].book < r.book
    <3>1. Paper!Advanced(r)
      BY <2>1 DEF Paper!Qualifying
    <3>2. r.book > log[n].book
      BY <2>1, <2>4, <3>1 DEF Paper!Advanced
    <3> QED
      BY <3>2
  <2>6. at - log[n].at <= Gap
    <3>1. log # <<>>
      BY <1>2, <2>2
    <3>2. last \in Nat /\ log[n].at = last /\ at \in Nat
      BY <1>2, <3>1
    <3>3. ~ (last # -1 /\ at - last > Gap)
      BY <2>1 DEF Paper!Missed
    <3>4. Gap \in Nat
      BY PaperAssumption
    <3> QED
      BY <3>2, <3>3, <3>4
  <2>7. L[n + 1].tradable
    BY <1>4, <2>1 DEF Paper!Qualifying
  <2>8. Run(L, m)
    BY <1>2, <1>4, <2>4, <2>5, <2>6, <2>7, RunGoesOn
  <2> DEFINE T == {i \in m..(n + 1) : L[i].at >= at - Wait - Gap}
  <2>9. PICK k \in T : \A i \in T : k <= i
    <3>1. n + 1 \in T
      BY <1>2, <1>4, <1>5
    <3>2. T \in SUBSET (1..(n + 1)) /\ n + 1 \in Nat
      BY <1>2
    <3> HIDE DEF T
    <3> QED
      BY <3>1, <3>2, LeastNumber
  <2>10. Run(L, k) /\ k \in 1..Len(L)
    BY <1>2, <2>8, RunIsCut
  <2>11. \A i \in m..n : Shown(L, i, ok) = Shown(log, i, was)
    <3>1. \A i \in m..n : L[i] = log[i]
      BY <1>2
    <3>2. ok = TRUE
      BY <2>1 DEF Paper!Qualifying, Paper!Tradable
    <3> QED
      BY <2>4, <3>1, <3>2 DEF Shown
  <2>12. kept \cup {new} = AllShown(L, m, ok)
    <3>1. m..(n + 1) = (m..n) \cup {n + 1}
      BY <1>2
    <3>2. AllShown(L, m, ok) = {Shown(L, i, ok) : i \in m..n} \cup {Shown(L, n + 1, ok)}
      BY <1>2, <3>1 DEF AllShown
    <3>3. seen = {Shown(log, i, was) : i \in m..n}
      BY <2>2 DEF AllShown
    <3>4. seen = {Shown(L, i, ok) : i \in m..n}
      BY <2>11, <3>3
    <3> QED
      BY <1>4, <2>1, <3>2, <3>4
  <2>13. seen' = AllShown(L, k, ok)
    <3>1. \A i \in m..(n + 1) : i >= k <=> L[i].at >= at - Wait - Gap
      <4> SUFFICES ASSUME NEW i \in m..(n + 1), i >= k PROVE L[i].at >= at - Wait - Gap
        BY <2>9
      <4>1. L[k].at <= L[i].at
        <5>1. CASE i = k
          <6>1. L[k] \in LogEntry
            BY <1>2, <2>10
          <6> QED
            BY <5>1, <6>1 DEF LogEntry
        <5>2. CASE i # k
          <6>1. i \in 1..Len(L) /\ k < i
            BY <1>2, <5>2
          <6>2. L[k].at < L[i].at /\ L[k] \in LogEntry /\ L[i] \in LogEntry
            BY <1>2, <2>10, <6>1 DEF Rising
          <6> QED
            BY <6>2 DEF LogEntry
        <5> QED
          BY <5>1, <5>2
      <4>2. L[k].at \in Nat /\ L[i].at \in Nat
        <5>1. L[k] \in LogEntry /\ L[i] \in LogEntry
          BY <1>2, <2>10
        <5> QED
          BY <5>1 DEF LogEntry
      <4>3. L[k].at >= at - Wait - Gap
        BY <2>9
      <4>4. Wait \in Nat /\ Gap \in Nat
        BY PaperAssumption
      <4> QED
        BY <1>2, <4>1, <4>2, <4>3, <4>4
    <3>2. \A i \in m..(n + 1) : Shown(L, i, ok).at = L[i].at
      BY DEF Shown
    <3>3. k..(n + 1) = {i \in m..(n + 1) : i >= k}
      BY <1>2, <2>9
    <3>4. seen' = {o \in AllShown(L, m, ok) : o.at >= at - Wait - Gap}
      BY <1>3, <2>12
    <3> HIDE DEF T, ok, new, kept
    <3>5. ASSUME NEW o \in seen' PROVE o \in AllShown(L, k, ok)
      <4>1. PICK i \in m..(n + 1) : o = Shown(L, i, ok)
        BY <1>2, <3>4 DEF AllShown
      <4>2. i \in k..(n + 1)
        BY <3>1, <3>2, <3>3, <3>4, <4>1
      <4> QED
        BY <1>2, <4>1, <4>2 DEF AllShown
    <3>6. ASSUME NEW o \in AllShown(L, k, ok) PROVE o \in seen'
      <4>1. PICK i \in k..(n + 1) : o = Shown(L, i, ok)
        BY <1>2 DEF AllShown
      <4>2. i \in m..(n + 1) /\ i >= k
        BY <3>3, <4>1
      <4> QED
        BY <1>2, <3>1, <3>2, <3>4, <4>1, <4>2 DEF AllShown
    <3> QED
      BY <3>5, <3>6
  <2> QED
    BY <1>0, <2>1, <2>10, <2>13
<1> QED
  BY <1>6, <1>7

-----------------------------------------------------------------------------
Longer(L, K) == Len(L) \in Nat /\ Len(K) = Len(L) + 1 /\ \A i \in 1..Len(L) : K[i] = L[i]

(* What a longer history says of the readings before.                        *)
LEMMA NoPauseStays ==
    ASSUME NEW L, NEW K, Longer(L, K), NEW m \in 1..Len(L), NEW n \in 1..Len(L), NoPause(L, m, n)
    PROVE  NoPause(K, m, n)
<1>1. ASSUME NEW i \in m..(n - 1) PROVE K[i] = L[i] /\ K[i + 1] = L[i + 1]
  <2>1. i \in 1..Len(L) /\ i + 1 \in 1..Len(L)
    BY DEF Longer
  <2> QED
    BY <2>1 DEF Longer
<1> QED
  BY <1>1 DEF NoPause

LEMMA EarnedStays ==
    ASSUME NEW k, NEW t, NEW u, NEW L, NEW K, Longer(L, K), EarnedBy(k, t, L), u.entry = t.entry
    PROVE  EarnedBy(k, u, K)
<1>1. PICK n \in 1..Len(L) :
        /\ L[n].at = t.entry.at /\ L[n].at < Candidate
        /\ t.entry.quote <= Budget * QuoteUnit
        /\ k = "immediate" => n = 1 /\ L[n].at <= Gap
        /\ k = "delayed" => \E m \in 1..n :
            /\ n - m + 1 >= Observations /\ L[n].at - L[m].at >= Wait
            /\ NoPause(L, m, n)
            /\ \A i \in m..n : L[i].tradable
            /\ \A i \in m..(n - 1) : L[i].book < L[i + 1].book
  BY DEF EarnedBy
<1>2. n \in 1..Len(K) /\ K[n] = L[n]
  BY DEF Longer
<1>3. ASSUME k = "delayed"
      PROVE  \E m \in 1..n :
               /\ n - m + 1 >= Observations /\ K[n].at - K[m].at >= Wait
               /\ NoPause(K, m, n)
               /\ \A i \in m..n : K[i].tradable
               /\ \A i \in m..(n - 1) : K[i].book < K[i + 1].book
  <2>1. PICK m \in 1..n :
          /\ n - m + 1 >= Observations /\ L[n].at - L[m].at >= Wait
          /\ NoPause(L, m, n)
          /\ \A i \in m..n : L[i].tradable
          /\ \A i \in m..(n - 1) : L[i].book < L[i + 1].book
    BY <1>1, <1>3
  <2>2. m \in 1..Len(L) /\ \A i \in m..n : i \in 1..Len(L)
    BY DEF Longer
  <2>3. \A i \in m..n : K[i] = L[i]
    BY <2>2 DEF Longer
  <2>4. \A i \in m..(n - 1) : K[i] = L[i] /\ K[i + 1] = L[i + 1]
    <3> SUFFICES ASSUME NEW i \in m..(n - 1) PROVE K[i] = L[i] /\ K[i + 1] = L[i + 1]
      OBVIOUS
    <3>1. i \in m..n /\ i + 1 \in m..n
      OBVIOUS
    <3> QED
      BY <2>3, <3>1
  <2>5. NoPause(K, m, n)
    BY <2>1, <2>2, NoPauseStays
  <2>6. K[m] = L[m]
    BY <2>2 DEF Longer
  <2> QED
    BY <1>2, <2>1, <2>3, <2>4, <2>5, <2>6
<1> QED
  BY <1>1, <1>2, <1>3 DEF EarnedBy

LEMMA WatchedStays ==
    ASSUME NEW t, NEW u, NEW L, NEW K, Longer(L, K), NEW m \in 1..Len(L), NEW n \in 1..Len(L),
           Watched(t, L, m, n), u.entry = t.entry
    PROVE  Watched(u, K, m, n)
<1>1. K[m] = L[m] /\ NoPause(K, m, n)
  BY NoPauseStays DEF Longer, Watched
<1>2. \A i \in (m + 1)..n : K[i] = L[i]
  <2>1. \A i \in (m + 1)..n : i \in 1..Len(L)
    BY DEF Longer
  <2> QED
    BY <2>1 DEF Longer
<1> QED
  BY <1>1, <1>2 DEF Watched

(* A trial that is over stays as it is.                                      *)
LEMMA OverStays ==
    ASSUME NEW k, NEW t, NEW L, NEW K, Longer(L, K), TrialSound(k, t, L), t.status \in {"closed", "rejected"}
    PROVE  TrialSound(k, t, K)
<1>1. t.status = "closed" /\ ~ t.gap =>
        \E m, n \in 1..Len(K) : m < n /\ K[n].at = t.exit.at /\ Watched(t, K, m, n)
  <2> SUFFICES ASSUME t.status = "closed" /\ ~ t.gap
               PROVE  \E m, n \in 1..Len(K) : m < n /\ K[n].at = t.exit.at /\ Watched(t, K, m, n)
    OBVIOUS
  <2>1. PICK m \in 1..Len(L), n \in 1..Len(L) : m < n /\ L[n].at = t.exit.at /\ Watched(t, L, m, n)
    BY DEF TrialSound
  <2>2. Watched(t, K, m, n) /\ K[n] = L[n] /\ m \in 1..Len(K) /\ n \in 1..Len(K)
    BY <2>1, WatchedStays DEF Longer
  <2> QED
    BY <2>1, <2>2
<1>2. t.entry # Paper!NoFill => EarnedBy(k, t, K)
  BY EarnedStays DEF TrialSound
<1> QED
  BY <1>1, <1>2 DEF TrialSound

-----------------------------------------------------------------------------
(* A trial that is held is watched as long as no gap is marked.              *)
LEMMA RevalueKeeps ==
    ASSUME Logged, NEW at \in Paper!Time, NEW r \in Paper!Reading, Paper!Read(at, r),
           NEW k, NEW t, TrialSound(k, t, log), t.entry # Paper!NoFill, t.status \notin {"closed", "rejected"}
    PROVE  TrialSound(k, Paper!Revalue(t, at, r), log')
<1>0. PICK L : L = log'
  OBVIOUS
<1> DEFINE n    == Len(log)
           e    == Entry(at, r)
           sale_ == IF Paper!PriceValid(t, at, r) THEN Paper!Sell(at, r, t.entry.quantity) ELSE Paper!NoFill
           held_ == [t EXCEPT !.gap = @ \/ Paper!Missed(at)]
           u    == Paper!Revalue(t, at, r)
<1>1. /\ Longer(log, L) /\ n \in Nat /\ Len(L) = n + 1 /\ L[n + 1] = e /\ e \in LogEntry /\ at \in Nat
      /\ log # <<>> => log[n].at = last /\ last \in Nat /\ last < at
  BY <1>0, ReadingIsLogged DEF Longer
<1>2. e.at = at /\ e.priced = (Paper!BookValid(at, r) /\ r.issue # "quiet") /\ e.depth = Paper!Depth(r.market.bids)
  BY DEF Entry
<1> HIDE DEF e
<1>3. /\ DOMAIN t = {"status", "entry", "exit", "gap"} /\ t.gap \in BOOLEAN
      /\ t.entry.quantity \in Nat /\ EarnedBy(k, t, log) /\ t.status \in {"open", "unpriced"}
      /\ t.status = "unpriced" => t.gap
      /\ t.status = "open" /\ ~ t.gap => \E m \in 1..n : Watched(t, log, m, n)
  BY DEF TrialSound
<1>4. Paper!Missed(at) \in BOOLEAN
  BY DEF Paper!Missed
<1>5. /\ DOMAIN held_ = DOMAIN t /\ held_.gap = (t.gap \/ Paper!Missed(at)) /\ held_.entry = t.entry
      /\ held_.exit = t.exit /\ held_.status = t.status
  BY <1>3
<1>6. u = IF sale_ = Paper!NoFill THEN Paper!Unpriced(held_)
          ELSE IF Paper!ExitDue(t, at, sale_) THEN [held_ EXCEPT !.status = "closed", !.exit = sale_]
          ELSE [held_ EXCEPT !.status = "open"]
  BY DEF Paper!Revalue
<1>7. ASSUME sale_ # Paper!NoFill
      PROVE  e.priced /\ e.book > t.entry.book /\ e.depth >= t.entry.quantity /\ sale_.at = at
  <2>1. Paper!PriceValid(t, at, r) /\ sale_ = Paper!Sell(at, r, t.entry.quantity)
    BY <1>7
  <2>2. e.priced /\ e.book > t.entry.book
    BY <1>2, <2>1 DEF Paper!PriceValid, e, Entry
  <2>3. ~ (t.entry.quantity > Paper!Depth(r.market.bids)) /\ sale_.at = at
    BY <1>7, <2>1 DEF Paper!Sell
  <2>4. Paper!Depth(r.market.bids) \in Nat
    BY DepthOfBids
  <2> QED
    BY <1>2, <1>3, <2>2, <2>3, <2>4
<1>8. ASSUME sale_ # Paper!NoFill, ~ held_.gap
      PROVE  \E m \in 1..n : Watched(t, L, m, n + 1)
  <2>1. ~ t.gap /\ ~ Paper!Missed(at) /\ t.status = "open"
    BY <1>3, <1>5, <1>8
  <2>2. PICK m \in 1..n : Watched(t, log, m, n)
    BY <1>3, <2>1
  <2>3. log # <<>> /\ n \in 1..n
    BY <1>1
  <2>4. at - last <= Gap
    <3>1. last \in Nat /\ ~ (last # -1 /\ at - last > Gap) /\ Gap \in Nat
      BY <1>1, <2>1, <2>3, PaperAssumption DEF Paper!Missed
    <3> QED
      BY <1>1, <3>1
  <2>5. Watched(t, L, m, n)
    BY <1>1, <2>2, <2>3, WatchedStays
  <2>6. L[n] = log[n] /\ L[n].at = last
    BY <1>1, <2>3 DEF Longer
  <2>7. NoPause(L, m, n + 1)
    <3> SUFFICES ASSUME NEW i \in m..(n + 1 - 1) PROVE L[i + 1].at - L[i].at <= Gap
      BY DEF NoPause
    <3>1. CASE i = n
      BY <1>1, <1>2, <2>4, <2>6, <3>1
    <3>2. CASE i # n
      <4>1. i \in m..(n - 1)
        BY <1>1, <3>2
      <4> QED
        BY <2>5, <4>1 DEF Watched, NoPause
    <3> QED
      BY <3>1, <3>2
  <2>8. ASSUME NEW i \in (m + 1)..(n + 1)
        PROVE  L[i].priced /\ L[i].book > t.entry.book /\ L[i].depth >= t.entry.quantity
    <3>1. CASE i = n + 1
      BY <1>1, <1>7, <1>8, <3>1
    <3>2. CASE i # n + 1
      <4>1. i \in (m + 1)..n
        BY <1>1, <3>2
      <4> QED
        BY <2>5, <4>1 DEF Watched
    <3> QED
      BY <3>1, <3>2
  <2>9. L[m].at = t.entry.at
    BY <2>5 DEF Watched
  <2> QED
    BY <2>7, <2>8, <2>9 DEF Watched
<1>9. n + 1 \in 1..Len(L) /\ Len(L) = n + 1
  BY <1>1
<1>10. \A w : w.entry = t.entry => EarnedBy(k, w, L)
  BY <1>1, <1>3, EarnedStays
<1>11. CASE sale_ = Paper!NoFill
  <2>1. u = [held_ EXCEPT !.status = "unpriced", !.gap = TRUE]
    BY <1>6, <1>11 DEF Paper!Unpriced
  <2> HIDE DEF held_, u, sale_
  <2>2. DOMAIN u = DOMAIN t /\ u.status = "unpriced" /\ u.gap = TRUE /\ u.entry = t.entry
    BY <1>3, <1>5, <2>1
  <2> QED
    BY <1>0, <1>3, <1>10, <2>2 DEF TrialSound, u
<1>12. CASE sale_ # Paper!NoFill /\ Paper!ExitDue(t, at, sale_)
  <2>1. u = [held_ EXCEPT !.status = "closed", !.exit = sale_]
    BY <1>6, <1>12
  <2> HIDE DEF held_, u, sale_
  <2>2. DOMAIN u = DOMAIN t /\ u.status = "closed" /\ u.gap = held_.gap /\ u.entry = t.entry /\ u.exit = sale_
    BY <1>3, <1>5, <2>1
  <2>3. ~ u.gap => \E p, q \in 1..Len(L) : p < q /\ L[q].at = u.exit.at /\ Watched(u, L, p, q)
    <3> SUFFICES ASSUME ~ u.gap PROVE \E p, q \in 1..Len(L) : p < q /\ L[q].at = u.exit.at /\ Watched(u, L, p, q)
      OBVIOUS
    <3>1. PICK m \in 1..n : Watched(t, L, m, n + 1)
      BY <1>8, <1>12, <2>2
    <3>2. Watched(u, L, m, n + 1)
      BY <2>2, <3>1 DEF Watched
    <3>3. m \in 1..Len(L) /\ m < n + 1 /\ L[n + 1].at = u.exit.at
      BY <1>1, <1>2, <1>7, <1>12, <2>2
    <3> QED
      BY <1>9, <3>2, <3>3
  <2>4. u.gap \in BOOLEAN
    BY <1>3, <1>4, <1>5, <2>2
  <2> QED
    BY <1>0, <1>3, <1>10, <2>2, <2>3, <2>4 DEF TrialSound, u
<1>13. CASE sale_ # Paper!NoFill /\ ~ Paper!ExitDue(t, at, sale_)
  <2>1. u = [held_ EXCEPT !.status = "open"]
    BY <1>6, <1>13
  <2> HIDE DEF held_, u, sale_
  <2>2. DOMAIN u = DOMAIN t /\ u.status = "open" /\ u.gap = held_.gap /\ u.entry = t.entry
    BY <1>3, <1>5, <2>1
  <2>3. ~ u.gap => \E m \in 1..Len(L) : Watched(u, L, m, Len(L))
    <3> SUFFICES ASSUME ~ u.gap PROVE \E m \in 1..Len(L) : Watched(u, L, m, Len(L))
      OBVIOUS
    <3>1. PICK m \in 1..n : Watched(t, L, m, n + 1)
      BY <1>8, <1>13, <2>2
    <3>2. Watched(u, L, m, n + 1) /\ m \in 1..Len(L)
      BY <1>9, <2>2, <3>1 DEF Watched
    <3> QED
      BY <1>9, <3>2
  <2>4. u.gap \in BOOLEAN
    BY <1>3, <1>4, <1>5, <2>2
  <2> QED
    BY <1>0, <1>3, <1>10, <2>2, <2>3, <2>4 DEF TrialSound, u
<1> QED
  BY <1>11, <1>12, <1>13

-----------------------------------------------------------------------------
(* A trial enters when its readings have earned it, and the immediate one now
   or never.                                                                 *)
LEMMA EnterKeeps ==
    ASSUME PInv, NEW at \in Paper!Time, NEW r \in Paper!Reading, Paper!Read(at, r),
           NEW k \in Paper!Strategy, NEW t, TrialSound(k, t, log), t.entry = Paper!NoFill, t.status = "waiting"
    PROVE  TrialSound(k, Paper!Enter(k, t, at, r, seen'), log')
<1>0. PICK L, S : L = log' /\ S = seen'
  OBVIOUS
<1> DEFINE n  == Len(log)
           ok == Paper!Qualifying(at, r)
           u  == Paper!Enter(k, t, at, r, S)
           buy_ == Paper!Buy(at, r)
           ready == Paper!Ready(k, at, S)
<1>1. /\ Longer(log, L) /\ n \in Nat /\ Len(L) = n + 1 /\ L[n + 1].at = at /\ at \in Nat /\ n + 1 \in 1..Len(L)
      /\ L \in Seq(LogEntry) /\ Rising(L) /\ log \in Seq(LogEntry)
  <2>1. Logged
    BY DEF PInv
  <2> QED
    <3>1. /\ Logged' /\ at \in Nat /\ n \in Nat /\ Len(L) = n + 1 /\ L[n + 1] = Entry(at, r)
          /\ \A i \in 1..n : L[i] = log[i]
      BY <1>0, <2>1, ReadingIsLogged
    <3>2. L \in Seq(LogEntry) /\ Rising(L) /\ log \in Seq(LogEntry)
      BY <1>0, <2>1, <3>1 DEF Logged
    <3>3. L[n + 1].at = at
      BY <3>1 DEF Entry
    <3> QED
      BY <3>1, <3>2, <3>3 DEF Longer
<1>2. PICK m \in 1..Len(L) : S = AllShown(L, m, ok) /\ IF ok THEN Run(L, m) ELSE m = Len(L)
  BY <1>0, ObservedIsWindowed
<1>3. DOMAIN t = {"status", "entry", "exit", "gap"} /\ t.gap \in BOOLEAN /\ (k = "immediate" => log = <<>>)
  BY DEF TrialSound
<1>4. u = IF \/ at >= Candidate \/ r.issue = "inactive"
             \/ k = "immediate" /\ (at > Gap \/ ~ ready)
          THEN Paper!Rejected(t)
          ELSE IF ready THEN [t EXCEPT !.status = "open", !.entry = buy_] ELSE t
  BY DEF Paper!Enter
<1>5. CASE u = Paper!Rejected(t)
  <2>1. u = [t EXCEPT !.status = "rejected"]
    BY <1>5 DEF Paper!Rejected
  <2> HIDE DEF u
  <2>2. DOMAIN u = DOMAIN t /\ u.status = "rejected" /\ u.entry = Paper!NoFill /\ u.gap = t.gap
    BY <1>3, <2>1
  <2> QED
    BY <1>0, <1>3, <2>2 DEF TrialSound, u
<1>6. CASE u # Paper!Rejected(t) /\ ~ ready
  <2>1. u = t /\ k # "immediate"
    BY <1>4, <1>6
  <2> HIDE DEF u
  <2> QED
    BY <1>0, <2>1 DEF TrialSound, u
<1>7. CASE u # Paper!Rejected(t) /\ ready
  <2>1. u = [t EXCEPT !.status = "open", !.entry = buy_]
    BY <1>4, <1>7
  <2>2. ~ (at >= Candidate) /\ (k = "immediate" => ~ (at > Gap))
    BY <1>4, <1>7
  <2>3. at < Candidate /\ (k = "immediate" => at <= Gap)
    BY <1>1, <2>2, PaperAssumption
  <2>4. ok
    <3>1. Paper!Newest(S) = Shown(L, Len(L), ok)
      BY <1>1, <1>2, EndsOfWindow
    <3>2. Paper!Newest(S).ok
      BY <1>7 DEF Paper!Ready
    <3> QED
      BY <3>1, <3>2 DEF Shown
  <2>5. buy_ # Paper!NoFill
    BY <2>4 DEF Paper!Qualifying, Paper!Tradable
  <2>6. buy_.at = at /\ buy_.quantity \in Nat /\ buy_.quote <= Budget * QuoteUnit
    BY <1>1, <2>5, BuyIsAfforded
  <2> HIDE DEF u, buy_
  <2>7. DOMAIN u = DOMAIN t /\ u.status = "open" /\ u.entry = buy_ /\ u.gap = t.gap
    BY <1>3, <2>1
  <2>8. ASSUME k = "delayed"
        PROVE  /\ n + 1 - m + 1 >= Observations /\ L[n + 1].at - L[m].at >= Wait
               /\ NoPause(L, m, n + 1)
               /\ \A i \in m..(n + 1) : L[i].tradable
               /\ \A i \in m..(n + 1 - 1) : L[i].book < L[i + 1].book
    <3>1. /\ Paper!Oldest(S) = Shown(L, m, ok) /\ IsFiniteSet(S) /\ Cardinality(S) <= Len(L) - m + 1
      BY <1>1, <1>2, EndsOfWindow
    <3>2. Cardinality(S) >= Observations /\ at - Paper!Oldest(S).at >= Wait
      BY <1>7, <2>8, SizeOfPaper DEF Paper!Ready
    <3>3. Cardinality(S) \in Nat /\ Observations \in Nat
      BY <3>1, FS_CardinalityType, PaperAssumption
    <3>4. at - L[m].at >= Wait
      BY <3>1, <3>2 DEF Shown
    <3>5. n + 1 - m + 1 >= Observations
      BY <1>1, <3>1, <3>2, <3>3
    <3> QED
      BY <1>1, <1>2, <2>4, <3>4, <3>5 DEF Run
  <2>9. k = "immediate" => n + 1 = 1 /\ L[n + 1].at <= Gap
    BY <1>1, <1>3, <2>3
  <2>10. EarnedBy(k, u, L)
    <3>1. m \in 1..(n + 1)
      BY <1>1
    <3>2. PICK g \in 1..Len(L) : g = n + 1
      BY <1>1
    <3>3. k = "delayed" => \E i \in 1..g :
            /\ g - i + 1 >= Observations /\ L[g].at - L[i].at >= Wait
            /\ NoPause(L, i, g)
            /\ \A j \in i..g : L[j].tradable
            /\ \A j \in i..(g - 1) : L[j].book < L[j + 1].book
      BY <2>8, <3>1, <3>2
    <3>4. L[g].at = u.entry.at /\ L[g].at < Candidate /\ u.entry.quote <= Budget * QuoteUnit
      BY <1>1, <2>3, <2>6, <2>7, <3>2
    <3>5. k = "immediate" => g = 1 /\ L[g].at <= Gap
      BY <2>9, <3>2
    <3> QED
      BY <3>3, <3>4, <3>5 DEF EarnedBy
  <2>11. Watched(u, L, n + 1, n + 1)
    <3>1. (n + 1)..(n + 1 - 1) = {} /\ (n + 1 + 1)..(n + 1) = {}
      BY <1>1
    <3> QED
      BY <1>1, <2>6, <2>7, <3>1 DEF Watched, NoPause
  <2>12. \E i \in 1..Len(L) : Watched(u, L, i, Len(L))
    BY <1>1, <2>11
  <2> QED
    BY <1>0, <1>3, <2>5, <2>6, <2>7, <2>10, <2>12 DEF TrialSound, u
<1> QED
  BY <1>5, <1>6, <1>7

LEMMA PaperStarts == ASSUME Paper!Init PROVE PInv
<1>1. /\ last = -1 /\ seen = {} /\ log = <<>>
      /\ trial = [k \in Paper!Strategy |-> Paper!Waiting]
  BY DEF Paper!Init
<1>2. Logged /\ Windowed(seen, log)
  BY <1>1 DEF Logged, Windowed, Rising
<1>3. ASSUME NEW k \in Paper!Strategy PROVE TrialSound(k, trial[k], log)
  BY <1>1 DEF TrialSound, Paper!Waiting
<1> QED
  BY <1>1, <1>2, <1>3 DEF PInv

LEMMA PaperStep == ASSUME PInv, [Paper!Next]_(Paper!vars) PROVE PInv'
<1>1. CASE UNCHANGED Paper!vars
  <2>1. last' = last /\ seen' = seen /\ log' = log /\ trial' = trial
    BY <1>1 DEF Paper!vars
  <2> QED
    BY <2>1 DEF PInv, Logged
<1>2. ASSUME NEW at \in Paper!Time, NEW r \in Paper!Reading, Paper!Read(at, r) PROVE PInv'
  <2>1. Logged' /\ Longer(log, log') /\ log' # <<>>
    <3>1. Logged
      BY DEF PInv
    <3> QED
      BY <1>2, <3>1, ReadingIsLogged DEF Longer
  <2>2. Windowed(seen, log)'
    <3>1. Paper!Qualifying(at, r) \in BOOLEAN
      BY DEF Paper!Qualifying, Paper!Tradable
    <3>2. \E m \in 1..Len(log'), ok \in BOOLEAN :
            seen' = AllShown(log', m, ok) /\ IF ok THEN Run(log', m) ELSE m = Len(log')
      BY <1>2, <3>1, ObservedIsWindowed
    <3> QED
      BY <3>2 DEF Windowed
  <2>3. trial' = [k \in Paper!Strategy |-> Paper!Advance(k, at, r, seen')]
    BY <1>2 DEF Paper!Read
  <2>4. ASSUME NEW k \in Paper!Strategy PROVE TrialSound(k, Paper!Advance(k, at, r, seen'), log')
    <3>1. TrialSound(k, trial[k], log) /\ Logged
      BY DEF PInv
    <3>2. CASE trial[k].status \in {"closed", "rejected"}
      BY <2>1, <3>1, <3>2, OverStays DEF Paper!Advance
    <3>3. CASE trial[k].status \notin {"closed", "rejected"} /\ trial[k].entry # Paper!NoFill
      <4>1. TrialSound(k, Paper!Revalue(trial[k], at, r), log')
        BY <1>2, <3>1, <3>3, RevalueKeeps
      <4> QED
        BY <3>3, <4>1 DEF Paper!Advance
    <3>4. CASE trial[k].status \notin {"closed", "rejected"} /\ trial[k].entry = Paper!NoFill
      <4>1. trial[k].status = "waiting"
        BY <3>1, <3>4 DEF TrialSound
      <4>2. TrialSound(k, Paper!Enter(k, trial[k], at, r, seen'), log')
        BY <1>2, <3>1, <3>4, <4>1, EnterKeeps
      <4> QED
        BY <3>4, <4>2 DEF Paper!Advance
    <3> QED
      BY <3>2, <3>3, <3>4
  <2>5. DOMAIN trial' = Paper!Strategy /\ \A k \in Paper!Strategy : TrialSound(k, trial'[k], log')
    BY <2>3, <2>4
  <2> QED
    BY <2>1, <2>2, <2>5 DEF PInv
<1> QED
  BY <1>1, <1>2 DEF Paper!Next

(* Whatever readings come, late, repeated or failed, a trial is entered on
   readings that earned it alone, and a result without a gap had its market
   read and priced from its entry to its exit.                               *)
THEOREM PaperTrialsAreEarned == Paper!Spec => []TrialsAreEarned
<1>1. PInv => TrialsAreEarned
  <2> SUFFICES ASSUME PInv PROVE TrialsAreEarned
    OBVIOUS
  <2>1. DOMAIN log = 1..Len(log)
    BY DEF PInv, Logged
  <2>2. Paper!EntryIsEarned
    <3> SUFFICES ASSUME NEW k \in Paper!Strategy, trial[k].entry # Paper!NoFill
                 PROVE  EarnedBy(k, trial[k], log)
      BY <2>1 DEF Paper!EntryIsEarned, Paper!Entered, EarnedBy, Paper!Within, NoPause
    <3> QED
      BY DEF PInv, TrialSound
  <2>3. Paper!CleanPathIsSeen
    <3> SUFFICES ASSUME NEW k \in Paper!Strategy, trial[k].status = "closed", ~ trial[k].gap
                 PROVE  \E p, q \in 1..Len(log) : p < q /\ log[q].at = trial[k].exit.at /\ Watched(trial[k], log, p, q)
      BY <2>1 DEF Paper!CleanPathIsSeen, Watched, Paper!Within, NoPause
    <3> QED
      BY DEF PInv, TrialSound
  <2> QED
    BY <2>2, <2>3 DEF TrialsAreEarned
<1> QED
  BY <1>1, PaperStarts, PaperStep, PTL DEF Paper!Spec
=============================================================================
