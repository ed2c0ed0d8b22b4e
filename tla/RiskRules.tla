----------------------------- MODULE RiskRules -----------------------------
(* The limits an entry is held to (src/src/lib/execution/v1/risk.ts): the loss
   of the Berlin day and the reduced share after losses or a drawdown.  The
   code knows the account by its valuations alone and has to see trading
   through deposits and withdrawals; the model keeps beside every valuation
   what the code cannot see, the value of one share of a fund whose number of
   shares only transfers change.                                             *)
EXTENDS Integers, Sequences, SequencesExt

CONSTANTS Midnight,   \* starts of the Berlin days, increasing; days differ in length
          ShareValue, \* values a share may take, positive
          Shares,     \* numbers of shares
          Opening,    \* funds [value, shares] the history may start with
          Parts, Daily, Reduce, Restore, \* limits in Parts (100, 1, 2, 1)
          MaxMarks, MaxEvents            \* bounds: valuations; these and trades

VARIABLES time,     \* now
          fund,     \* [value, shares]: the account itself
          mark,     \* equityHistory, in order of time, one per event
          trade,    \* closed trades, in any order of arrival
          risk,     \* RuntimeState.risk
          entry     \* the entry the last step made

vars == <<time, fund, mark, trade, risk, entry>>
-----------------------------------------------------------------------------
End == Midnight[Len(Midnight)] - 1
None == [at |-> -1, full |-> FALSE]

(* berlinBounds *)
Day(at)   == CHOOSE d \in 1..(Len(Midnight) - 1) : Midnight[d] <= at /\ at < Midnight[d + 1]
Start(at) == Midnight[Day(at)]

TypeOK ==
    /\ time \in 0..End
    /\ fund \in [value: ShareValue, shares: Shares]
    /\ mark \in Seq([at: 0..End, before: Nat, equity: Nat, value: ShareValue])
    /\ trade \subseteq [at: 0..End, id: 1..MaxEvents, pnl: {-1, 0, 1}]
    /\ risk \in [reduced: BOOLEAN, haltDay: 0..Len(Midnight)]
    /\ entry \in [at: -1..End, full: BOOLEAN]

(* An observation of the event at hand; "value" is not for the code to read. *)
Mark(before, equity, value) ==
    [at |-> time, before |-> before, equity |-> equity, value |-> value]

Init ==
    /\ time = 0 /\ trade = {} /\ entry = None
    /\ fund \in Opening
    /\ mark = <<Mark(fund.value * fund.shares, fund.value * fund.shares, fund.value)>>
    /\ risk = [reduced |-> FALSE, haltDay |-> 0]
-----------------------------------------------------------------------------
(* neutralSeries: returns linked across transfers, as a fraction.            *)

Linked(i) == mark[i].before

Index(n) ==
    LET f[i \in 1..n] == IF i = 1 THEN <<1, 1>>
                         ELSE <<f[i - 1][1] * Linked(i), f[i - 1][2] * mark[i - 1].equity>>
    IN  f[n]

(* Index a has lost at least "parts" against index b. *)
Lost(a, b, parts) == Parts * a[1] * b[2] <= (Parts - parts) * b[1] * a[2]
Above(a, b)       == a[1] * b[2] > b[1] * a[2]

Peak == CHOOSE i \in DOMAIN mark : \A j \in DOMAIN mark : ~Above(Index(j), Index(i))

Drawdown(parts) == Lost(Index(Len(mark)), Index(Peak), parts)

(* Slip: trades count in the order they were reported. *)
BeforeByArrival(s, t) == s.id < t.id

(* uniqueTrades(): trades in order of closing, and the place of one in it. *)
Before(s, t) == s.at < t.at \/ (s.at = t.at /\ s.id < t.id)

Place(t) == Cardinality({s \in trade : ~Before(t, s)})

(* The run of wins or of losses after the last trade that is none. *)
Trailing(sign) == Cardinality(trade) - Max({0} \cup {Place(t) : t \in {u \in trade : u.pnl # sign}})

(* The first valuation at the very start of the day; 0 if there is none. *)
Beginning == SelectInSeq(mark, LAMBDA m : m.at = Start(time))

(* Slip: only the last valuation of the day is compared. *)
LossNow ==
    Beginning # 0 /\ Lost(Index(Len(mark)), Index(Beginning), Daily)

LossToday ==
    /\ Beginning # 0
    /\ \E i \in DOMAIN mark :
        mark[i].at >= Start(time) /\ Lost(Index(i), Index(Beginning), Daily)

Reduced ==
    \/ Trailing(-1) >= 2 \/ Drawdown(Reduce)
    \/ risk.reduced /\ ~(Trailing(1) >= 3 /\ ~Drawdown(Restore))

Halt(day) == IF LossToday THEN day ELSE IF risk.haltDay = day THEN day ELSE 0

(* evaluateRisk() where every input is complete, saved with the cycle that asks
   for it, which enters if nothing blocks it. *)
Evaluate ==
    LET day == Day(time)
    IN  /\ risk' = [reduced |-> Reduced, haltDay |-> Halt(day)]
        /\ entry' = IF risk'.haltDay # day /\ Beginning # 0
                    THEN [at |-> time, full |-> ~risk'.reduced] ELSE None
        /\ UNCHANGED <<time, fund, mark, trade>>

(* A history or a valuation is missing: the day's halt is all that can end. *)
EvaluateIncomplete ==
    /\ risk' = [risk EXCEPT !.haltDay = IF @ = Day(time) THEN @ ELSE 0]
    /\ entry' = None
    /\ UNCHANGED <<time, fund, mark, trade>>
-----------------------------------------------------------------------------
Tick ==
    /\ time < End
    /\ time' = time + 1 /\ entry' = None
    /\ UNCHANGED <<fund, mark, trade, risk>>

More == Len(mark) + Cardinality(trade) < MaxEvents

(* Trading moves the value of a share; the source ledger observes it. *)
Observe(v) ==
    /\ More /\ Len(mark) < MaxMarks
    /\ fund' = [fund EXCEPT !.value = v]
    /\ mark' = Append(mark, Mark(v * fund.shares, v * fund.shares, v))
    /\ entry' = None
    /\ UNCHANGED <<time, trade, risk>>

Transfer(s) ==
    /\ More /\ Len(mark) < MaxMarks /\ s # fund.shares
    /\ fund' = [fund EXCEPT !.shares = s]
    /\ mark' = Append(mark, Mark(fund.value * fund.shares, fund.value * s, fund.value))
    /\ entry' = None
    /\ UNCHANGED <<time, trade, risk>>

(* A trade that closed now or a little earlier is reported. *)
Close(at, pnl) ==
    /\ More
    /\ trade' = trade \cup {[at |-> at, id |-> Cardinality(trade) + 1, pnl |-> pnl]}
    /\ entry' = None
    /\ UNCHANGED <<time, fund, mark, risk>>

Next ==
    \/ Tick \/ Evaluate \/ EvaluateIncomplete
    \/ \E v \in ShareValue : Observe(v)
    \/ \E s \in Shares : Transfer(s)
    \/ \E at \in {time - 1, time} \cap Nat, pnl \in {-1, 0, 1} : Close(at, pnl)

Spec == Init /\ [][Next]_vars
-----------------------------------------------------------------------------
Entering == entry' # None

TradingLost(i, j, parts) == Parts * mark[i].value <= (Parts - parts) * mark[j].value

(* Once trading has lost the limit since the first valuation of the Berlin day
   no entry follows that day: not after a recovery, not after a deposit, not
   after evaluations that lacked data, and not without that valuation. *)
LossStopsTheDay ==
    Entering => \E b \in DOMAIN mark :
        /\ mark[b].at = Start(time)
        /\ \A i \in DOMAIN mark : mark[i].at >= Start(time) => i >= b /\ ~TradingLost(i, b, Daily)

(* The trades of one sign that closed after every other trade. *)
AtTheEnd(sign) ==
    {t \in trade : /\ t.pnl = sign
                   /\ \A u \in trade : u.pnl # sign =>
                        u.at < t.at \/ (u.at = t.at /\ u.id < t.id)}

(* An entry of the full share follows neither two losses nor a drawdown of
   trading, and the reduced share ends with three wins near the peak only,
   whenever evaluations happen and in whatever order trades are reported. *)
ShareIsEarned ==
    /\ Entering /\ entry'.full =>
        /\ Cardinality(AtTheEnd(-1)) < 2
        /\ \A i \in DOMAIN mark : ~TradingLost(Len(mark), i, Reduce)
    /\ risk.reduced /\ ~risk'.reduced =>
        /\ Cardinality(AtTheEnd(1)) >= 3
        /\ \A i \in DOMAIN mark : ~TradingLost(Len(mark), i, Restore)
=============================================================================
