------------------------------- MODULE MCOwner -------------------------------
(* The owner's side of the application: sessions, the shared public feed, the
   simulated account, and the ledger and the archive of the connected one.
   They share no state: one run checks them side by side, and each behaviour
   moves the part it has chosen and leaves the others alone.                 *)
EXTENDS OwnerSessions, TLC

CONSTANTS
    Caller, Feed, Gap, LastTick,                            \* PublicFeed
    Id, Coin, Price, Amount, Opening, Unit, Fee,            \* SimulatedAccount
    Moving, Contested, Items, Refreshing, Alone,            \* SourceLedger: one refresh, or two of one transaction
    Currencies, Funds, Second, Day, LookBack, Reach, Backfill, FreshFor, LastSecond, MaxReversals,
    Transactions, Lag, Overlap, Span, PageSize, LastRead    \* SourceArchive

VARIABLES part,
    clock, lock, cache, caller, loaded,      \* PublicFeed
    total, filed,                            \* SimulatedAccount
    instant, venue, row, refresh,            \* SourceLedger
    tick, listing, order, archive, stored    \* SourceArchive

feedVars      == <<clock, lock, cache, caller, loaded>>
simulatedVars == <<total, filed>>
ledgerVars    == <<instant, venue, row, refresh>>
archiveVars   == <<tick, listing, order, archive, stored>>

Ttl == [f \in Feed |-> Gap + 1]

ASSUME FeedAssumption == "free" \notin Caller /\ Gap \in Nat

ASSUME SimulationAssumption ==
    /\ IsFiniteSet(Id) /\ "EUR" \notin Coin
    /\ Price \cup Amount \cup {Opening, Unit, Fee} \subseteq Nat

ASSUME ArchiveAssumption ==
    /\ {Transactions, Lag, Overlap, Span, PageSize} \subseteq Nat
    /\ Lag <= Overlap /\ 0 < Overlap /\ 0 < PageSize

Public    == INSTANCE PublicFeed
Simulated == INSTANCE SimulatedAccount

(* One refresh with two transactions: a reward, and a transfer out with a fee
   or a sale paid out to someone else.  Two refreshes with a third one: a deposit
   or a transfer out.                                                        *)
Leg(ours, currency, net, fee) == <<[ours |-> ours, currency |-> currency, net |-> net, fee |-> fee]>>
Money(eur, coin) == [eur |-> eur, coin |-> coin]

Deposit == [type |-> "receive", source |-> <<>>, destination |-> Leg(TRUE, "eur", 2, -1),
            crossed |-> Money(2, 0)]
Sending == [type |-> "send", source |-> Leg(TRUE, "eur", 2, 1), destination |-> <<>>,
            crossed |-> Money(-1, 0)]
Payout  == [type |-> "sell", source |-> Leg(TRUE, "coin", 1, -1), destination |-> Leg(FALSE, "eur", 1, 0),
            crossed |-> Money(-1, 0)]
Reward  == [type |-> "reward", source |-> <<>>, destination |-> Leg(TRUE, "coin", 1, -1),
            crossed |-> Money(0, 0)]

MCFunds    == Money(3, 1)
MCItems    == <<{Reward}, {Sending, Payout}, {Deposit, Sending}>>

Ledger == INSTANCE SourceLedger
    WITH now <- instant, Id <- Moving, Refresh <- Refreshing, Item <- Items,
         Currency <- Currencies, Holdings <- Funds, Overlap <- Reach, LastTime <- LastSecond

(* What crosses the boundary of the account moves one of its balances, and is
   what Flow() makes of the transactions whose amounts are all known.        *)
ASSUME LedgerAssumption ==
    /\ IsFiniteSet(Moving) /\ Funds \in [Currencies -> Int]
    /\ {Reach, LookBack} \subseteq Nat /\ Day \in Nat \ {0}
    /\ \A i \in Moving : Items[i] # {} /\ \A item \in Items[i] :
          /\ {Ledger!Delta(item), item.crossed} \subseteq [Currencies -> Int]
          /\ Ledger!Measurable(item) => Ledger!Flow(item) = item.crossed
          /\ Ledger!Delta(item) = Ledger!Zero => item.crossed = Ledger!Zero

OneRefresh ==
    /\ \A i \in Contested : venue'[i].status = "none"
    /\ \A r \in Refreshing \ Alone : refresh'[r].stage = "idle"

TwoRefreshes == \A i \in Moving \ Contested : venue'[i].status = "none"

(* Transactions are listed late, by no more than the windows overlap.        *)
Archive == INSTANCE SourceArchive
    WITH filed <- stored, Id <- 1..Transactions, Window <- Span, LastTick <- LastRead

Symmetry == Permutations(Request) \cup Permutations(Token) \cup Permutations(Address)

MCInit ==
    /\ part \in {"sessions", "feed", "simulation", "ledger", "race", "archive"}
    /\ Init /\ (part # "sessions" => password = 1)
    /\ Public!Init /\ Simulated!Init
    /\ Ledger!Init
    /\ Archive!Init /\ (part # "archive" => order = "oldest")

MCNext ==
    /\ UNCHANGED part
    /\ \/ part = "sessions"   /\ Next           /\ UNCHANGED <<feedVars, simulatedVars, ledgerVars, archiveVars>>
       \/ part = "feed"       /\ Public!Next    /\ UNCHANGED <<vars, simulatedVars, ledgerVars, archiveVars>>
       \/ part = "simulation" /\ Simulated!Next /\ UNCHANGED <<vars, feedVars, ledgerVars, archiveVars>>
       \/ part = "ledger"     /\ Ledger!Next /\ OneRefresh   /\ UNCHANGED <<vars, feedVars, simulatedVars, archiveVars>>
       \/ part = "race"       /\ Ledger!Next /\ TwoRefreshes /\ UNCHANGED <<vars, feedVars, simulatedVars, archiveVars>>
       \/ part = "archive"    /\ Archive!Next   /\ UNCHANGED <<vars, feedVars, simulatedVars, ledgerVars>>

MCSpec == MCInit /\ [][MCNext]_<<part, vars, feedVars, simulatedVars, ledgerVars, archiveVars>>

(* PublicFeed: loads of the venue are apart, and none is made for a fresh key. *)
Coalesced == Public!Coalesced

(* SimulatedAccount: reservations are covered, totals follow from the orders. *)
Solvent == Simulated!Solvent

(* SourceLedger: the filed history is the account's, and is not unwritten.   *)
TrueHistory == Ledger!TrueHistory
HistoryKept == [][Ledger!HistoryKept]_ledgerVars

(* SourceArchive: nothing falls between two windows.                         *)
NothingSkipped == Archive!NothingSkipped
=============================================================================
