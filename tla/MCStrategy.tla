----------------------------- MODULE MCStrategy -----------------------------
(* What the strategy decides on: the limits of risk and of an entry, the
   candles of a scan, the paper trials of a new pair, and the results of closed
   trades.  The modules share no state: one run checks them side by side, and
   each behaviour moves the part it has chosen and leaves the others alone.  *)
EXTENDS EntryRules, Sequences, TLC

CONSTANTS
    x, y, z,                                                    \* symbols of entries
    Midnight, ShareValue, Shares, RiskParts, Daily, Reduce, Restore, MaxMarks, MaxEvents,  \* RiskRules
    Cycle, Scanned, Listed, Warmup, SignalTtl, Cross, LastCandle,   \* ScanCycle
    Books, Issue, Budget, QuoteUnit, QuoteFee, Minimum, StopLoss, TakeProfit, Percent,
    Gap, Age, Wait, Candidate, Hold, Observations, LastTime, Readings,   \* PaperPair
    Exits, Ordered, FillPrice, FeeEur, FeeCoins, Own            \* SourceAccount

ASSUME AccountAssumption ==
    Exits \in Nat /\ Ordered \in Nat /\ FillPrice \cup {FeeEur, FeeCoins} \subseteq Int

ASSUME RiskAssumption ==
    ShareValue \cup Shares \subseteq Nat \ {0} /\ {RiskParts, Daily, Reduce, Restore} \subseteq Nat

ASSUME PaperAssumption ==
    /\ \A b \in Books : {b.bids, b.asks} \subseteq Seq([price: Nat, size: Nat])
    /\ {Gap, Wait, Candidate, Observations, LastTime} \subseteq Nat

ASSUME CandleAssumption == Warmup \in Nat \ {0}

VARIABLES part,
    time, fund, mark, trade, risk, entry,                       \* RiskRules
    closed, carried, changes, indicators, cursor, pending, entered, cycle, read,   \* ScanCycle
    last, print, seen, trial, log,                              \* PaperPair
    sale, decision, saved, reader, account                      \* SourceAccount

limits == <<time, fund, mark, trade, risk, entry>>
scan   == <<closed, carried, changes, indicators, cursor, pending, entered, cycle, read>>
paper  == <<last, print, seen, trial, log>>
source == <<sale, decision, saved, reader, account>>

-----------------------------------------------------------------------------
(* A short, then a long day; a limit is a tenth of the value.                *)
MCMidnight == <<0, 1, 3>>

Risk == INSTANCE RiskRules WITH Opening <- {[value |-> 9, shares |-> 1]}, Parts <- RiskParts

(* EntryRules: three symbols for two positions; a share of 2 or 4 and a limit
   of 6 in 20.                                                               *)
MCBook == {<<1, 9>>, <<9, 9>>}

(* Two invocations and the candles of one symbol.                            *)
MCListed == <<"a">>
MCCross  == {<<"a", 3>>, <<"a", 5>>}

Candles == INSTANCE ScanCycle WITH held <- carried, Symbol <- Scanned, MaxChanges <- 0

(* One market that rises, and one that is cheaper to sell into.              *)
MCBooks ==
    LET At(price, size) == [price |-> price, size |-> size]
    IN  {[bids |-> <<At(4, 2)>>, asks |-> <<At(4, 1), At(5, 2)>>],
         [bids |-> <<At(3, 2)>>, asks |-> <<At(4, 3)>>]}

Paper == INSTANCE PaperPair WITH Market <- Books, Unit <- QuoteUnit, Fee <- QuoteFee, Window <- Candidate

(* An entry of three coins, one more of the owner's, and two exits.          *)
Account == INSTANCE SourceAccount WITH order <- sale, Price <- FillPrice

-----------------------------------------------------------------------------
MCInit ==
    /\ part \in {"risk", "entry", "candles", "paper", "account"}
    /\ Risk!Init /\ Candles!Init /\ Paper!Init /\ Account!Init
    /\ Init /\ (part # "entry" => bid = [s \in Symbol |-> 4])

MCNext ==
    /\ UNCHANGED part
    /\ \/ part = "risk"    /\ Risk!Next    /\ UNCHANGED <<vars, scan, paper, source>>
       \/ part = "entry"   /\ Next         /\ UNCHANGED <<limits, scan, paper, source>>
       \/ part = "candles" /\ Candles!Next /\ UNCHANGED <<limits, vars, paper, source>>
       \/ part = "paper"   /\ Paper!Next   /\ UNCHANGED <<limits, vars, scan, source>>
       \/ part = "account" /\ Account!Next /\ UNCHANGED <<limits, vars, scan, paper>>

MCSpec == MCInit /\ [][MCNext]_<<part, limits, vars, scan, paper, source>>

(* The symbols of entries may be exchanged for one another.                  *)
Symmetry == Permutations(Symbol)

-----------------------------------------------------------------------------
(* RiskRules: losses of trading stop the day and reduce the share.           *)
LossStopsTheDay == [][Risk!LossStopsTheDay]_limits
ShareIsEarned   == [][Risk!ShareIsEarned]_limits

(* ScanCycle: the indicators are those of a replay.                         *)
AppliedInTurn == [][Candles!AppliedInTurn]_scan

(* PaperPair: entries are earned, and a clean path was seen.                 *)
TrialsAreEarned == Paper!EntryIsEarned /\ Paper!CleanPathIsSeen

(* SourceAccount: a stated result is the cash that the trade moved.          *)
TradesAreCash == Account!TradesAreCash
=============================================================================
