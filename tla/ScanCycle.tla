------------------------------ MODULE ScanCycle ------------------------------
(* How candles reach the strategy (src/src/lib/execution/v1/runner.ts 35-113,
   strategy.ts, feed.ts): invocations read candles without the account's lease,
   as far as their time goes, and apply them under it to the state that is
   current then.  Averages and crosses are a function of the candles applied
   in turn, so the sequence of their numbers stands for the indicators; which
   candles cross is a parameter.                                    *)
EXTENDS Integers, Sequences, SequencesExt

CONSTANTS Cycle,      \* invocations that may be under way together
          Symbol,
          Listed,     \* the configured symbols in order, all of Symbol
          Warmup,     \* candles of the first read (1000)
          SignalTtl,  \* in candles
          Cross,      \* {<<symbol, candle>>}: where the averages cross upward
          LastCandle, \* bounds: candles, changes of the positions
          MaxChanges

VARIABLES closed,     \* number of the latest candle of every symbol
          held,       \* symbols with a protection record that is not closed
          changes,    \* of held, for the bound
          indicators, \* RuntimeState.indicators: candles applied, in order
          cursor,     \* RuntimeState.scanCursor
          pending,    \* RuntimeState.pendingSignals
          entered,    \* decisions taken on signals
          cycle,      \* what each invocation has read
          read        \* history: the symbol that the last step has read

vars == <<closed, held, changes, indicators, cursor, pending, entered, cycle, read>>
market == <<closed, held, changes>>
runtime == <<indicators, cursor, pending, entered>>
-----------------------------------------------------------------------------
Candle == 1..LastCandle
Idle   == [at |-> "idle", cursor |-> 0, scan |-> <<>>, after |-> [s \in Symbol |-> 0],
           scanned |-> 0, candles |-> [s \in Symbol |-> {}]]

Init ==
    /\ closed = Warmup /\ held = {} /\ changes = 0
    /\ indicators = [s \in Symbol |-> <<>>]
    /\ cursor = 0 /\ pending = {} /\ entered = {}
    /\ cycle = [c \in Cycle |-> Idle] /\ read = "none"

LastOf(s) == IF indicators[s] = <<>> THEN 0 ELSE Last(indicators[s])

(* Symbols with a position come first. *)
ScanOf(H) == SelectSeq(Listed, LAMBDA s : s \in H) \o SelectSeq(Listed, LAMBDA s : s \notin H)
-----------------------------------------------------------------------------
(* The first, short lease: the state is read. *)
Begin(c) ==
    /\ cycle[c].at = "idle"
    /\ cycle' = [cycle EXCEPT ![c] =
          [at |-> "scanning", cursor |-> cursor % Len(Listed), scan |-> ScanOf(held),
           after |-> [s \in Symbol |-> LastOf(s)],
           scanned |-> 0, candles |-> [s \in Symbol |-> {}]]]
    /\ read' = "none"
    /\ UNCHANGED <<market, runtime>>

(* loadCandles(): all candles after the last one, warm-up for a new symbol. *)
Loaded(after) == (IF after = 0 THEN closed - Warmup + 1 ELSE after + 1)..closed

(* ... or a failure; a hole within the range is for advance() to find. *)
Answers(after) ==
    {Loaded(after), {}} \cup
        {Loaded(after) \ {n} : n \in {i \in Loaded(after) : {i - 1, i + 1} \subseteq Loaded(after)}}

Fetch(c) ==
    LET m == cycle[c]
        s == m.scan[((m.cursor + m.scanned) % Len(Listed)) + 1]
    IN  /\ m.at = "scanning" /\ m.scanned < Len(Listed)
        /\ \E candles \in Answers(m.after[s]) :
            cycle' = [cycle EXCEPT ![c].scanned = @ + 1, ![c].candles[s] = candles]
        /\ read' = s
        /\ UNCHANGED <<market, runtime>>

(* Slip: candles are applied to the state that was read before them. *)
CurrentAsRead(s, m) == SelectSeq(indicators[s], LAMBDA n : n <= m.after[s])

(* The state under the second lease. *)
Current(s, m) == indicators[s]

(* processCandles(), which sorts candles: those that are later than the state's
   last one, from the first to the last of them; advance() throws at a gap, and
   the symbol keeps the state it had. *)
Bars(old, candles) ==
    LET later == IF old = <<>> THEN candles ELSE {n \in candles : n > Last(old)}
        run   == {r \in later \X later :
                    /\ later = r[1]..r[2]
                    /\ IF old = <<>> THEN r[2] - r[1] + 1 >= Warmup ELSE r[1] = Last(old) + 1}
    IN  IF run = {} THEN <<>>
        ELSE LET r == CHOOSE r \in run : TRUE IN [i \in 1..(r[2] - r[1] + 1) |-> r[1] - 1 + i]

Crossed(s, bars) == {<<s, n>> : n \in ToSet(bars)} \cap Cross

Fresh(signal) == closed - signal[2] <= SignalTtl

(* Slip: the next scan begins behind what this one got to, of the state read. *)
NextCursorStuck(m) == m.cursor

NextCursor(m) == (m.cursor + m.scanned) % Len(Listed)

(* The second lease, at the end of the scan or of its 15 s: what was read is
   applied to the state as it is now and saved; one signal is entered on, if
   no decision has taken it. *)
Commit(c) ==
    LET m       == cycle[c]
        bars(s) == Bars(Current(s, m), m.candles[s])
        found   == UNION {Crossed(s, bars(s)) : s \in Symbol}
    IN  /\ m.at = "scanning" /\ m.scanned > 0
        /\ indicators' = [s \in Symbol |-> Current(s, m) \o bars(s)]
        /\ cursor' = NextCursor(m)
        /\ pending' = {signal \in pending \cup found : Fresh(signal)}
        /\ \/ entered' = entered
           \/ \E signal \in pending' \ entered : entered' = entered \cup {signal}
        /\ cycle' = [cycle EXCEPT ![c] = Idle] /\ read' = "none"
        /\ UNCHANGED market

(* The lease is taken, the account cannot be read, or the process ends; where
   it ends before the first read, nothing has begun. *)
GiveUp(c) ==
    /\ cycle[c].at = "scanning" /\ cycle[c].scanned > 0
    /\ cycle' = [cycle EXCEPT ![c] = Idle] /\ read' = "none"
    /\ UNCHANGED <<market, runtime>>

(* runHost() without a connection reads, applies and saves under one lease,
   from the cursor on, and queues no signal.  A scan of several symbols is
   several of these steps with nothing between them. *)
ScanUnconnected ==
    LET s == Listed[(cursor % Len(Listed)) + 1]
    IN  /\ \E candles \in Answers(LastOf(s)) :
            indicators' = [indicators EXCEPT ![s] = @ \o Bars(@, candles)]
        /\ cursor' = (cursor + 1) % Len(Listed)
        /\ read' = s
        /\ UNCHANGED <<market, pending, entered, cycle>>
-----------------------------------------------------------------------------
CloseCandle ==
    /\ closed < LastCandle
    /\ closed' = closed + 1 /\ read' = "none"
    /\ UNCHANGED <<held, changes, runtime, cycle>>

ChangePosition(s) ==
    /\ changes < MaxChanges
    /\ held' = IF s \in held THEN held \ {s} ELSE held \cup {s}
    /\ changes' = changes + 1 /\ read' = "none"
    /\ UNCHANGED <<closed, runtime, cycle>>

Next ==
    \/ \E c \in Cycle : Begin(c) \/ Fetch(c) \/ Commit(c) \/ GiveUp(c)
    \/ ScanUnconnected \/ CloseCandle
    \/ \E s \in Symbol : ChangePosition(s)

Spec == Init /\ [][Next]_vars

(* The scheduler calls every 300 s; a scan is not beaten to the lease by the
   watch, nor does its account read fail, every single time. *)
Fairness == \A c \in Cycle : WF_vars(Begin(c)) /\ WF_vars(Fetch(c)) /\ SF_vars(Commit(c))
-----------------------------------------------------------------------------
(* The indicators are those of a replay: every candle is applied once and in
   order, none is left out and none taken back, whichever invocations overlap,
   fail or have read an older state. *)
AppliedInTurn ==
    \A s \in Symbol :
        /\ IsPrefix(indicators[s], indicators'[s])
        /\ \A i \in 1..(Len(indicators'[s]) - 1) : indicators'[s][i + 1] = indicators'[s][i] + 1

(* Every symbol is read again and again, although a scan may end after one. *)
ScansComeRound == \A s \in Symbol : []<>(read = s)
=============================================================================
