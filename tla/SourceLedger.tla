---------------------------- MODULE SourceLedger ----------------------------
(* The ledger of the connected account: refreshSourceAccounting() reads
   balances, transactions and balances again outside the lease, rebuilds what
   the account held at every day boundary and at every transfer since the last
   snapshot, and commits the row by a compare-and-set on its check time.

   An observation is represented by the holdings it values: its equity is those
   holdings at the marks of its minute, and the equity before a transfer is the
   same holdings without the transfer.  A leg is a sequence of length one, or
   empty when the transaction has no such side; a fee of -1 is not disclosed.
   Observations are a set: the code files them by time, at one time a day
   point before a transfer and a transfer before a snapshot.
   A balance response is the venue's state at its observation time, and takes a
   tick; the venue lists a transaction under its latest date.                *)
EXTENDS Integers, FiniteSets, FiniteSetsExt, Functions

CONSTANTS
    Id,             \* transactions
    Item,           \* what each of them may be: its type, its legs and what crosses the boundary of the account
    Currency,
    Holdings,       \* what the account holds at first
    Refresh,        \* invocations that may refresh at the same time
    Second, Day,    \* ticks of a second and of a Berlin day
    LookBack, Overlap, Backfill,    \* 24 hours, 300 seconds and 3 days, in ticks
    FreshFor,       \* 15 seconds
    LastTime, MaxReversals          \* bounds of the exploration

VARIABLES now, venue, row, refresh

vars == <<now, venue, row, refresh>>

Zero        == [c \in Currency |-> 0]
Plus(a, b)  == [c \in Currency |-> a[c] + b[c]]
Minus(a, b) == [c \in Currency |-> a[c] - b[c]]
Only(c, n)  == [Zero EXCEPT ![c] = n]
Total(amounts, S) == [c \in Currency |-> SumFunction([i \in S |-> amounts[i][c]])]

-----------------------------------------------------------------------------
(* A transaction as a movement of the account.                               *)

Ours(leg) == leg # <<>> /\ leg[1].ours

Credit(leg) == IF Ours(leg) THEN Only(leg[1].currency, leg[1].net) ELSE Zero

Delta(item) == Minus(Credit(item.destination), Credit(item.source))

Incoming(item) == Ours(item.destination) /\ ~Ours(item.source)
Outgoing(item) == Ours(item.source) /\ ~Ours(item.destination)

(* A sale paid out elsewhere: the recipient's net proceeds leave the account. *)
PaidOut(item) ==
    /\ item.type \in {"buy", "sell"} /\ item.destination # <<>>
    /\ item.destination[1].currency # item.source[1].currency
    /\ item.destination[1].fee >= 0

SameCurrency(item) ==
    item.destination # <<>> /\ item.destination[1].currency = item.source[1].currency

(* What is sent, without the fee, which stays an expense of the account.     *)
Principal(item) ==
    IF SameCurrency(item) THEN item.destination[1].net
                          ELSE item.source[1].net - item.source[1].fee

Measurable(item) == Outgoing(item) =>
    PaidOut(item) \/ SameCurrency(item) \/ item.source[1].fee >= 0

(* What crosses the boundary of the account: the part of a return that is no
   result of trading.  A reward is income.                                   *)
Flow(item) ==
    CASE Incoming(item) /\ item.type # "reward"  ->
             Only(item.destination[1].currency, item.destination[1].net)
      [] Outgoing(item) /\ PaidOut(item)         ->
             Only(item.destination[1].currency, -item.destination[1].net)
      [] Outgoing(item) /\ ~PaidOut(item)        ->
             Only(item.source[1].currency, -Principal(item))
      [] OTHER                                   -> Zero

-----------------------------------------------------------------------------
(* The venue: a transaction is announced as pending, takes effect, and is
   published as completed, perhaps later; it may be cancelled before it takes
   effect and reverted after it was published.                               *)

Unknown == [status |-> "none", at |-> 0]

Effective(i, t) == /\ venue[i].at \in 1..t
                   /\ ~(venue[i].undone \in 1..t)

(* What each transaction moves.                                              *)
Moved == [i \in Id |-> Delta(venue[i].item)]

Held(t) == Plus(Holdings, Total(Moved, {i \in Id : Effective(i, t)}))

Covered(amounts) == \A c \in Currency : amounts[c] >= 0

View(i) == [status |-> venue[i].status,
            at     |-> IF venue[i].status \in {"completed", "reverted"} THEN venue[i].at ELSE 0]

Listed(i, from, end) ==
    /\ venue[i].status # "none"
    /\ (IF venue[i].at # 0 THEN venue[i].at ELSE venue[i].born) \in from..end

Announce(i) ==
    /\ venue[i].status = "none"
    /\ \E item \in Item[i] :
        venue' = [venue EXCEPT ![i] = [item |-> item, status |-> "pending", born |-> now, at |-> 0, undone |-> 0]]
    /\ UNCHANGED <<now, row, refresh>>

TakeEffect(i) ==
    /\ venue[i].status = "pending" /\ venue[i].at = 0
    /\ Covered(Plus(Held(now), Delta(venue[i].item)))
    /\ \E status \in {"pending", "completed"} :
        venue' = [venue EXCEPT ![i].at = now, ![i].status = status]
    /\ UNCHANGED <<now, row, refresh>>

Publish(i) ==
    /\ venue[i].status = "pending" /\ venue[i].at # 0
    /\ venue' = [venue EXCEPT ![i].status = "completed"]
    /\ UNCHANGED <<now, row, refresh>>

Cancel(i) ==
    /\ venue[i].status = "pending" /\ venue[i].at = 0
    /\ venue' = [venue EXCEPT ![i].status = "cancelled"]
    /\ UNCHANGED <<now, row, refresh>>

Revert(i) ==
    /\ venue[i].status = "completed"
    /\ venue[i].at < now
    /\ Cardinality({j \in Id : venue[j].status = "reverted"}) < MaxReversals
    /\ Covered(Minus(Held(now), Delta(venue[i].item)))
    /\ venue' = [venue EXCEPT ![i].status = "reverted", ![i].undone = now]
    /\ UNCHANGED <<now, row, refresh>>

Tick ==
    /\ now < LastTime
    /\ now' = now + 1
    /\ UNCHANGED <<venue, row, refresh>>

-----------------------------------------------------------------------------
(* extendValuations(): from the last snapshot (or the start of the day) to a
   new one, through the movements between them.                              *)

Clock == now \div Second

StartOf(base, at) == IF base.anchor # <<>> THEN base.anchor[1].at ELSE (at \div Day) * Day

(* Slip: a reversed transaction counts for nothing, like a cancelled one.    *)
UnsettledPendingOnly(record) == record.status = "pending"

(* Unfinished or reversed transactions have no time that could be accounted. *)
Unsettled(record) == record.status \in {"pending", "reverted"}

Examined(records, start) ==
    {i \in Id : records[i].status # "none" /\ (records[i].at = 0 \/ records[i].at > start)}

Moves(records, start, at) ==
    {i \in Id : records[i].status = "completed" /\ records[i].at \in start + 1..at}

Revised(base, records, start) ==
    \E i \in Id : base.known[i].at \in 1..start /\ base.known[i] # records[i]

(* The history begins with its baseline. *)
BaselineOf(base) == (CHOOSE o \in base.observations : o.kind = "baseline").at

Late(base, records, start) ==
    /\ base.anchor # <<>>
    /\ \E i \in Id : /\ records[i].status = "completed" /\ base.known[i].status = "none"
                     /\ records[i].at \in BaselineOf(base) + 1..start

Between(moves, records, first, last) == Total(Moved, {i \in moves : records[i].at \in first..last})

FlowAt(moves, records, t) ==
    Total([i \in Id |-> Flow(venue[i].item)], {i \in moves : records[i].at = t})

(* Walked backwards from the new snapshot, the movements lead to the old one,
   and no holding was ever negative on the way.                              *)
Reconciled(base, records, start, at, held) ==
    LET moves  == Moves(records, start, at)
        Back(t) == Minus(held, Between(moves, records, t, at))
    IN  /\ \A i \in moves : Covered(Back(records[i].at))
        /\ base.anchor # <<>> => base.anchor[1].held = Back(start + 1)

Acceptable(base, records, start, at, held) ==
    /\ at > start
    /\ \A i \in Examined(records, start) :
          ~Unsettled(records[i]) /\ (records[i].status = "completed" => Measurable(venue[i].item))
    /\ ~Revised(base, records, start) /\ ~Late(base, records, start)
    /\ Reconciled(base, records, start, at, held)

Observations(base, records, start, at, held) ==
    LET moves    == Moves(records, start, at)
        After(t) == Minus(held, Between(moves, records, t + 1, at))
        Point(kind, t, amounts, flow) == [kind |-> kind, at |-> t, held |-> amounts, flow |-> flow]
    IN  base.observations
          \cup {Point("baseline", t, After(t), Zero) : t \in IF base.anchor = <<>> THEN {start} ELSE {}}
          \cup {Point("day", t, After(t - 1), Zero) : t \in {d \in start + 1..at : d % Day = 0}}
          \cup {Point("flow", t, After(t), FlowAt(moves, records, t)) :
                    t \in {u \in start + 1..at : FlowAt(moves, records, u) # Zero}}
          \cup {Point("snapshot", at, held, Zero)}

-----------------------------------------------------------------------------
(* refreshSourceAccounting().                                                *)

NoRow == [checkedAt |-> 0, error |-> FALSE, anchor |-> <<>>, observations |-> {},
          known |-> [i \in Id |-> Unknown]]

Idle == [stage |-> "idle", base |-> NoRow, at |-> 0, held |-> Zero,
         records |-> [i \in Id |-> Unknown], next |-> NoRow]

(* fresh() asks for a whole second: a snapshot taken inside a second is not.  *)
StillFresh(base) ==
    /\ base.anchor # <<>> /\ ~base.error
    /\ base.anchor[1].at % Second = 0
    /\ Clock - base.anchor[1].at \div Second \in 0..FreshFor

(* The row, outside the lease, then the first balances.                      *)
Begin(r) ==
    /\ refresh[r].stage = "idle" /\ now < LastTime
    /\ ~StillFresh(row)
    /\ now - StartOf(row, now) <= Backfill
    /\ refresh' = [refresh EXCEPT ![r] = [Idle EXCEPT !.stage = "list", !.base = row,
                                                     !.at = now, !.held = Held(now)]]
    /\ now' = now + 1
    /\ UNCHANGED <<venue, row>>

(* Pages from before the last snapshot and at least a day back; what was
   pending is visited again when it has left the window.                     *)
ReadList(r) ==
    LET base == refresh[r].base
        at   == refresh[r].at
        from == Min({StartOf(base, at) - Overlap, at - LookBack})
    IN  /\ refresh[r].stage = "list"
        /\ refresh' = [refresh EXCEPT ![r].stage = "details", ![r].records =
              [i \in Id |-> IF Listed(i, from, at) THEN View(i)
                            ELSE IF base.known[i].status = "pending" THEN base.known[i]
                            ELSE Unknown]]
        /\ UNCHANGED <<now, venue, row>>

(* Details are read unless a completed record is already filed unchanged.    *)
Detailed(base, listed) ==
    [i \in Id |->
        LET item == listed[i]
        IN  CASE item.status = "none"    -> base.known[i]
              [] item.status = "pending" -> View(i)
              [] item.status = "completed" -> IF base.known[i] = item THEN item ELSE View(i)
              [] OTHER -> item]

(* A failed reading keeps what was filed and remembers what it saw pending.  *)
Failed(base, records) ==
    [base EXCEPT !.error = TRUE, !.checkedAt = Clock,
                 !.known = [i \in Id |-> IF base.known[i].status = "none" /\ records[i].status = "pending"
                                         THEN records[i] ELSE base.known[i]]]

Extended(base, records, at, held) ==
    [checkedAt |-> Clock, error |-> FALSE, anchor |-> <<[at |-> at, held |-> held]>>, known |-> records,
     observations |-> Observations(base, records, StartOf(base, at), at, held)]

(* Details, marks and the second balances; the row to commit is the extended
   one when everything agrees, and otherwise the old one with the reason.    *)
Finish(r) ==
    LET base    == refresh[r].base
        at      == refresh[r].at
        held    == refresh[r].held
        records == Detailed(base, refresh[r].records)
        agreed  == Held(now) = held /\ Acceptable(base, records, StartOf(base, at), at, held)
    IN  /\ refresh[r].stage = "details"
        /\ refresh' = [refresh EXCEPT ![r] = [Idle EXCEPT !.stage = "commit", !.base = base,
              !.next = IF agreed THEN Extended(base, records, at, held) ELSE Failed(base, records)]]
        /\ UNCHANGED <<now, venue, row>>

(* A call that fails on the way: nothing was read that could be remembered.  *)
GiveUp(r) ==
    /\ refresh[r].stage = "list"
    /\ refresh' = [refresh EXCEPT ![r] = [Idle EXCEPT !.stage = "commit", !.base = refresh[r].base,
                      !.next = Failed(refresh[r].base, [i \in Id |-> Unknown])]]
    /\ UNCHANGED <<now, venue, row>>

(* Slip: the row is written whatever it is by now.                           *)
UnchangedBlind(base) == TRUE

(* saveAccounting(): the row is still the one that was extended, as far as
   its check time, a whole second, can tell.                                 *)
Unchanged(base) == row.checkedAt = base.checkedAt

Commit(r) ==
    /\ refresh[r].stage = "commit"
    /\ IF Unchanged(refresh[r].base) THEN row' = refresh[r].next ELSE UNCHANGED row
    /\ refresh' = [refresh EXCEPT ![r] = Idle]
    /\ UNCHANGED <<now, venue>>

(* The lease is taken, or the invocation ends before it commits.             *)
Drop(r) ==
    /\ refresh[r].stage = "commit"
    /\ refresh' = [refresh EXCEPT ![r] = Idle]
    /\ UNCHANGED <<now, venue, row>>

-----------------------------------------------------------------------------
Init ==
    /\ now = 1
    /\ venue = [i \in Id |-> [item |-> CHOOSE item \in Item[i] : TRUE, status |-> "none",
                              born |-> 0, at |-> 0, undone |-> 0]]
    /\ row = NoRow
    /\ refresh = [r \in Refresh |-> Idle]

Next ==
    \/ Tick
    \/ \E i \in Id : Announce(i) \/ TakeEffect(i) \/ Publish(i) \/ Cancel(i) \/ Revert(i)
    \/ \E r \in Refresh : \/ Begin(r) \/ ReadList(r) \/ Finish(r)
                          \/ GiveUp(r) \/ Commit(r) \/ Drop(r)

Spec == Init /\ [][Next]_vars

-----------------------------------------------------------------------------
(* The account as its history can know it.  A transaction from before the
   opening that was reversed before the first snapshot counts as never made.  *)
Snapshots(w) == {o.at : o \in {s \in w.observations : s.kind = "snapshot"}}

Void(w) ==
    {i \in Id : /\ venue[i].status = "reverted"
               /\ venue[i].at <= BaselineOf(w) /\ venue[i].undone <= Min(Snapshots(w))}

HeldThen(w, t) == Plus(Holdings, Total(Moved, {i \in Id \ Void(w) : Effective(i, t)}))

(* What crossed the boundary at t: the catalogue says it of every item, and a
   reversal crosses it back.                                                 *)
Crossed(w, t) ==
    LET crossing == [i \in Id |-> venue[i].item.crossed]
    IN  Minus(Total(crossing, {i \in Id \ Void(w) : venue[i].at = t}),
              Total(crossing, {i \in Id \ Void(w) : venue[i].undone = t}))

(* The row's history is the account's own: every observation holds what the
   account held then (a day point just before its midnight), states exactly
   what crossed the boundary, and no transfer up to the last snapshot is
   missing, so none can pass for a profit or a loss.                         *)
Truthful(w) ==
    /\ \A o \in w.observations :
          /\ o.held = HeldThen(w, IF o.kind = "day" THEN o.at - 1 ELSE o.at)
          /\ o.kind = "flow" => o.flow = Crossed(w, o.at)
    /\ \A t \in BaselineOf(w) + 1..w.anchor[1].at : Crossed(w, t) # Zero =>
          \E o \in w.observations : o.kind = "flow" /\ o.at = t

(* Reversals between two snapshots that make up for each other in every balance:
   the snapshots agree, and transactions from before the window that is read
   are not looked at again.                                                  *)
Offset(w) ==
    \E s, t \in Snapshots(w) :
        LET undone == {i \in Id : venue[i].undone \in s + 1..t}
        IN  Total(Moved, undone) = Zero /\ \E i \in undone : Moved[i] # Zero

(* The filed history is true, whatever was announced late, cancelled or reversed
   meanwhile, unless reversals made up for each other between two snapshots.  *)
TrueHistory == row.anchor # <<>> => Truthful(row) \/ Offset(row)

(* Two refreshes never unwrite history: a row is replaced by one that keeps
   its observations.  The check time has whole seconds: the exception is
   a refresh that extends a row replaced within the second it was written in. *)
Kept(old, new) == old.observations \subseteq new.observations

SameSecond == \E r \in Refresh : refresh[r].stage = "commit" /\ refresh[r].base # row
                                 /\ refresh[r].base.checkedAt = row.checkedAt

HistoryKept == Kept(row, row') \/ SameSecond
=============================================================================
