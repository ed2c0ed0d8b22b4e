------------------------------ MODULE PaperPair ------------------------------
(* The two paper trials of one new pair (src/src/lib/discovery/paper.ts): what
   a reading of its market does to them.  Readings are taken by runs that may
   overlap, so one may be late, repeated, or show a book of an earlier one.
   Money is in units of which Unit make one of the quote currency.           *)
EXTENDS Integers, Sequences, FiniteSets, Functions

CONSTANTS Market,    \* order books: [bids, asks], levels [price, size] best first
          Issue,     \* what else a reading may show, "none" for nothing
          Budget, Unit, Fee, Minimum,      \* the planned notional and its limits
          StopLoss, TakeProfit, Percent,   \* of the cost, in Percent
          Gap, Age, Wait, Window, Hold,    \* the limits of time
          Observations,                    \* delayedMinObservations
          LastTime, Readings               \* bounds

VARIABLES last,   \* lastObservedAt, -1 for null
          print,  \* lastFingerprint
          seen,   \* observations, one for a time
          trial,  \* simulations
          log     \* history: what every reading was worth that was not ignored

vars == <<last, print, seen, trial, log>>
-----------------------------------------------------------------------------
Time     == 0..LastTime
Strategy == {"immediate", "delayed"}
NoFill   == [at |-> -1, book |-> -1, quantity |-> 0, quote |-> 0]
Waiting  == [status |-> "waiting", entry |-> NoFill, exit |-> NoFill, gap |-> FALSE]
Reading  == [book: {-1} \cup Time, market: Market, issue: Issue] \* book -1: no timestamp

Init ==
    /\ last = -1 /\ print = [book |-> -1] /\ seen = {} /\ log = <<>>
    /\ trial = [k \in Strategy |-> Waiting]
-----------------------------------------------------------------------------
(* executeQuantity(): a level gives what the better ones have left to take. *)
Better(levels, i) == SumFunction([j \in 1..(i - 1) |-> levels[j].size])

Taken(levels, i, q) ==
    LET rest == q - Better(levels, i)
    IN  IF rest <= 0 THEN 0 ELSE IF rest < levels[i].size THEN rest ELSE levels[i].size

Gross(levels, q)  == SumFunction([i \in DOMAIN levels |-> Taken(levels, i, q) * levels[i].price])
Depth(levels)     == Better(levels, Len(levels) + 1)
Spent(levels, q)  == Gross(levels, q) * (Unit + Fee)
Gained(levels, q) == Gross(levels, q) * (Unit - Fee)

(* buyWithBudget(): whole steps within the budget; too little on offer is no
   smaller trial but none. *)
Affordable(asks) == {q \in 1..Depth(asks) : q >= Minimum /\ Spent(asks, q) <= Budget * Unit}

Buy(at, r) ==
    LET asks == r.market.asks
    IN  IF Spent(asks, Depth(asks)) < Budget * Unit \/ Affordable(asks) = {} THEN NoFill
        ELSE LET q == CHOOSE n \in Affordable(asks) : \A m \in Affordable(asks) : m <= n
             IN  [at |-> at, book |-> r.book, quantity |-> q, quote |-> Spent(asks, q)]

Sell(at, r, q) ==
    IF q > Depth(r.market.bids) THEN NoFill
    ELSE [at |-> at, book |-> r.book, quantity |-> q, quote |-> Gained(r.market.bids, q)]

(* bookIssues() *)
BookValid(at, r) == r.book # -1 /\ r.book <= at /\ at - r.book <= Age

Newest(obs) == CHOOSE o \in obs : \A p \in obs : p.at <= o.at
Oldest(obs) == CHOOSE o \in obs : \A p \in obs : o.at <= p.at

Advanced(r) == seen # {} => r.book > Newest(seen).book

(* marketEvidence(): can be bought and sold again now. *)
Tradable(at, r) ==
    /\ BookValid(at, r) /\ r.issue = "none"
    /\ Buy(at, r) # NoFill /\ Sell(at, r, Buy(at, r).quantity) # NoFill

Qualifying(at, r) == Tradable(at, r) /\ Advanced(r)

Missed(at) == last # -1 /\ at - last > Gap

Observe(at, r) ==
    LET ok   == Qualifying(at, r)
        kept == IF Missed(at) \/ ~ok \/ (seen # {} /\ ~Newest(seen).ok) THEN {} ELSE seen
    IN  {o \in kept \cup {[at |-> at, ok |-> ok, book |-> r.book]} : o.at >= at - Wait - Gap}
-----------------------------------------------------------------------------
Rejected(t) == [t EXCEPT !.status = "rejected"]

(* The trial is held: it is valued, and closed if that says so. *)
PriceValid(t, at, r) ==
    BookValid(at, r) /\ r.book > t.entry.book /\ r.issue # "quiet"

(* Slip: a reading without a price forgets that there was none. *)
UnpricedLightly(t) == [t EXCEPT !.status = "unpriced"]

Unpriced(t) == [t EXCEPT !.status = "unpriced", !.gap = TRUE]

ExitDue(t, at, sale) ==
    LET profit == Percent * (sale.quote - t.entry.quote)
    IN  \/ profit <= -StopLoss * t.entry.quote
        \/ profit >= TakeProfit * t.entry.quote
        \/ at - t.entry.at >= Hold

Revalue(t, at, r) ==
    LET sale == IF PriceValid(t, at, r) THEN Sell(at, r, t.entry.quantity) ELSE NoFill
        held == [t EXCEPT !.gap = @ \/ Missed(at)]
    IN  IF sale = NoFill THEN Unpriced(held)
        ELSE IF ExitDue(t, at, sale) THEN [held EXCEPT !.status = "closed", !.exit = sale]
        ELSE [held EXCEPT !.status = "open"]

(* It is not held: the immediate one enters now or never, the delayed one
   after enough readings in a row. *)
Ready(k, at, obs) ==
    /\ Newest(obs).ok
    /\ k = "delayed" => /\ \A o \in obs : o.ok
                        /\ Cardinality(obs) >= Observations
                        /\ at - Oldest(obs).at >= Wait

Enter(k, t, at, r, obs) ==
    IF \/ at >= Window \/ r.issue = "inactive"
       \/ k = "immediate" /\ (at > Gap \/ ~Ready(k, at, obs))
    THEN Rejected(t)
    ELSE IF Ready(k, at, obs) THEN [t EXCEPT !.status = "open", !.entry = Buy(at, r)] ELSE t

Advance(k, at, r, obs) ==
    IF trial[k].status \in {"closed", "rejected"} THEN trial[k]
    ELSE IF trial[k].entry # NoFill THEN Revalue(trial[k], at, r)
    ELSE Enter(k, trial[k], at, r, obs)

(* advancePaperPair(): a reading that is late, or shows again what the last one
   showed while that is fresh, changes nothing. *)
Ignored(at, r) == at <= last \/ (r = print /\ r.book # -1 /\ at - r.book <= Age)

Read(at, r) ==
    /\ ~Ignored(at, r) /\ Len(log) < Readings
    /\ last' = at /\ print' = r
    /\ seen' = Observe(at, r)
    /\ trial' = [k \in Strategy |-> Advance(k, at, r, seen')]
    /\ log' = Append(log, [at |-> at, book |-> r.book, tradable |-> Tradable(at, r),
                           priced |-> BookValid(at, r) /\ r.issue # "quiet",
                           depth |-> Depth(r.market.bids)])

Next == \E at \in Time, r \in Reading : r.book \in (at - 2)..at /\ Read(at, r)

Spec == Init /\ [][Next]_vars
-----------------------------------------------------------------------------
Entered(k) == trial[k].entry # NoFill
Within(i, j) == \A n \in i..(j - 1) : log[n + 1].at - log[n].at <= Gap

(* A trial is entered within the window of its pair: the immediate one at the
   first reading, the delayed one after readings that were tradable one and
   all, each with a newer book than the one before, long enough and without a
   pause: nothing that was late, repeated or failed helped it. *)
EntryIsEarned ==
    \A k \in {s \in Strategy : Entered(s)} : \E n \in DOMAIN log :
        /\ log[n].at = trial[k].entry.at /\ log[n].at < Window
        /\ trial[k].entry.quote <= Budget * Unit
        /\ k = "immediate" => n = 1 /\ log[n].at <= Gap
        /\ k = "delayed" => \E m \in 1..n :
            /\ n - m + 1 >= Observations /\ log[n].at - log[m].at >= Wait
            /\ Within(m, n)
            /\ \A i \in m..n : log[i].tradable
            /\ \A i \in m..(n - 1) : log[i].book < log[i + 1].book

(* A result without the mark of a gap is one whose stop could not have been
   crossed unseen: from its entry to its exit the market was read without a
   pause, and every reading could be priced from a book newer than the entry's. *)
CleanPathIsSeen ==
    \A k \in Strategy :
        trial[k].status = "closed" /\ ~trial[k].gap =>
            \E m, n \in DOMAIN log :
                /\ log[m].at = trial[k].entry.at /\ log[n].at = trial[k].exit.at
                /\ m < n /\ Within(m, n)
                /\ \A i \in (m + 1)..n :
                    /\ log[i].priced /\ log[i].book > trial[k].entry.book
                    /\ log[i].depth >= trial[k].entry.quantity
=============================================================================
