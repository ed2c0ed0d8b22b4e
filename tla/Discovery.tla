------------------------------ MODULE Discovery ------------------------------
(***************************************************************************)
(* The discovery monitor: runDiscovery() compares the public list of pairs *)
(* with those it knows, starts a paper trial for every new one, reads a    *)
(* few markets in turn, writes what it saw to a journal of events and      *)
(* copies the journal into a spreadsheet, each event to the row it was     *)
(* given for good.                                                         *)
(*                                                                         *)
(* The scheduler and the owner start runs at any time.  A lease of 90      *)
(* seconds in the database keeps them apart; a run that stalls for longer  *)
(* goes on without it.  The writes to the journal check the lease, its     *)
(* reads and the writes to the sheet do not.                               *)
(*                                                                         *)
(* A trial is only on or over here: what it buys and sells is left out.    *)
(***************************************************************************)
EXTENDS Integers, Sequences, FiniteSets, SequencesExt

CONSTANTS
    Run,             \* runs that may be under way at one time
    Pair,            \* trading pairs
    LastRow,         \* bound: last row of the sheet, which grows as needed
    BatchLimit,      \* events of one export; 60
    MarketsPerRun,   \* markets read in one run; 2
    ShrinkFloor,     \* pairs seen last time from which on a reply may not shrink; 10
    SheetsConfigured,
    HandEdits,       \* whether someone types into the sheet
    None

ASSUME DiscoveryAssumption ==
    /\ None \notin Run
    /\ Pair \cap {"failed", "note"} = {}
    /\ {LastRow, BatchLimit, MarketsPerRun, ShrinkFloor} \subseteq Nat \ {0}
    /\ LastRow >= 2 /\ IsFiniteSet(Pair)
    /\ SheetsConfigured \in BOOLEAN /\ HandEdits \in BOOLEAN

VARIABLES
    lock,      \* owner of the lease, while it has not expired
    recent,    \* lastRunAt is less than 55 seconds ago
    stored,    \* DiscoveryRuntime
    trial,     \* the paper trials of each pair: none, "on" or "over"
    journal,   \* events in the order in which they were inserted, with their rows
    sheet,     \* the first column of the sheet, by row
    flying,    \* batches written after their request was given up
    run        \* the runs that are under way

vars == <<lock, recent, stored, trial, journal, sheet, flying, run>>

Row == 2..LastRow
Empty == 0
Typed == -1    \* anything that is not the id of one of our events

\* "note" stands for the events of a scan about neither a new pair nor a failure.
\* Bound: a scan has at most one, and may have none, so that short sheets suffice.
News == Pair \cup {"failed", "note"}

initialRuntime == [
    known   |-> [p \in Pair |-> "no"],   \* universe.pairs: "baseline" or "new"
    seen    |-> {},                      \* the pairs of the last universe
    turns   |-> <<>>,                    \* by marketAttempts, the oldest first
    nextRow |-> 2]

\* Where it stands, the runtime it works on and the events it exports.
Idle == [pc |-> "idle", runtime |-> initialRuntime, batch |-> {}]

Init ==
    /\ lock = None
    /\ recent = FALSE
    /\ stored = initialRuntime
    /\ trial = [p \in Pair |-> "none"]
    /\ journal = <<>>
    /\ sheet = [k \in Row |-> Empty]
    /\ flying = {}
    /\ run = [r \in Run |-> Idle]

At(r, pc) == run[r].pc = pc
Move(r, pc, runtime, batch) ==
    run' = [run EXCEPT ![r] = [pc |-> pc, runtime |-> runtime, batch |-> batch]]
Goto(r, pc) == Move(r, pc, run[r].runtime, run[r].batch)
Finally(r) == Move(r, "release", initialRuntime, {})
End(r) == Move(r, "idle", initialRuntime, {})

(* Slip: the lease is not checked. *)
OwnedByAny(r) == run[r].pc # "idle"

Owned(r) == lock = r

-----------------------------------------------------------------------------
(* The lease and the throttle.                                             *)

Start(r) ==
    /\ At(r, "idle")
    /\ lock = None
    /\ lock' = r
    /\ Goto(r, "begin")
    /\ UNCHANGED <<recent, stored, trial, journal, sheet, flying>>

Begin(r) ==
    /\ At(r, "begin")
    /\ \/ recent /\ Finally(r)
       \/ ~recent /\ Move(r, "stamp", stored, {})
    /\ UNCHANGED <<lock, recent, stored, trial, journal, sheet, flying>>

Release(r) ==
    /\ At(r, "release")
    /\ lock' = IF Owned(r) THEN None ELSE lock
    /\ End(r)
    /\ UNCHANGED <<recent, stored, trial, journal, sheet, flying>>

\* The process is stopped, or cannot reach the database to give the lease back.
Stop(r) ==
    /\ ~At(r, "idle")
    /\ End(r)
    /\ UNCHANGED <<lock, recent, stored, trial, journal, sheet, flying>>

\* 90 seconds have passed, more than the 55 of the throttle.
Expire ==
    /\ lock # None
    /\ lock' = None
    /\ recent' = FALSE
    /\ UNCHANGED <<stored, trial, journal, sheet, flying, run>>

MinutePasses ==
    /\ recent
    /\ recent' = FALSE
    /\ UNCHANGED <<lock, stored, trial, journal, sheet, flying, run>>

-----------------------------------------------------------------------------
(* save(): one transaction for the runtime, the trials and the events.     *)

Entry(runtime, news, i) ==
    [what |-> news[i], row |-> runtime.nextRow + i - 1, synced |-> FALSE]

\* Bound: a save that would need a row after the last one does not succeed.
Save(r, runtime, trials, news) ==
    /\ Owned(r)
    /\ runtime.nextRow + Len(news) <= LastRow + 1
    /\ journal' = journal \o [i \in DOMAIN news |-> Entry(runtime, news, i)]
    /\ trial' = [p \in Pair |-> IF p \in DOMAIN trials THEN trials[p] ELSE trial[p]]
    /\ stored' = [runtime EXCEPT !.nextRow = @ + Len(news)]
    /\ UNCHANGED <<lock, sheet, flying>>

noTrials == [p \in {} |-> "on"]

(* Slip: the runtime of the run keeps the row it was read with. *)
SavedStale(r, pc, heard) == IF heard THEN Goto(r, pc) ELSE Finally(r)

\* The runtime of the run takes the next row from the transaction.  When the
\* reply to the commit is lost, the run throws.
Saved(r, pc, heard) ==
    IF heard THEN Move(r, pc, stored', run[r].batch) ELSE Finally(r)

\* lastRunAt is saved before anything is read.
Stamp(r, heard) ==
    /\ At(r, "stamp")
    /\ Save(r, run[r].runtime, noTrials, <<>>)
    /\ Saved(r, "scan", heard)
    /\ recent' = TRUE

Close(r) ==
    /\ At(r, "close")
    /\ Save(r, run[r].runtime, noTrials, <<>>)
    /\ Finally(r)
    /\ UNCHANGED recent

\* The runtime cannot be read, the lease is lost or a transaction is rolled
\* back: the run throws.
Throws(r) ==
    /\ run[r].pc \in {"begin", "stamp", "scan", "close"}
    /\ Finally(r)
    /\ UNCHANGED <<lock, recent, stored, trial, journal, sheet, flying>>

-----------------------------------------------------------------------------
(* observeUniverse()                                                       *)

Based(runtime) == \E p \in Pair : runtime.known[p] # "no"

Plausible(runtime, reply) ==
    /\ reply # {}
    /\ Cardinality(runtime.seen) >= ShrinkFloor =>
           5 * Cardinality(reply) >= 4 * Cardinality(runtime.seen)

newPairs(runtime, reply) ==
    IF Based(runtime) THEN {p \in reply : runtime.known[p] = "no"} ELSE {}

(* Slip: a pair that is not listed any more is dropped. *)
ObservedOnly(runtime, reply) ==
    [runtime EXCEPT
        !.known = [p \in Pair |->
            IF p \notin reply THEN "no" ELSE IF @[p] # "no" THEN @[p]
            ELSE IF Based(runtime) THEN "new" ELSE "baseline"],
        !.seen = reply]

\* A pair that the reply lacks stays known, as "not_observed".
Observed(runtime, reply) ==
    [runtime EXCEPT
        !.known = [p \in Pair |->
            IF p \notin reply \/ @[p] # "no" THEN @[p]
            ELSE IF Based(runtime) THEN "new" ELSE "baseline"],
        !.seen = reply]

\* What a reply that is taken makes of the universe.  Where the clock is behind
\* the last observation, the reply changes nothing.
Universe(runtime) ==
    {[runtime |-> Observed(runtime, reply), fresh |-> newPairs(runtime, reply)] :
        reply \in {s \in SUBSET Pair : Plausible(runtime, s)}}
    \cup {[runtime |-> runtime, fresh |-> {}]}

-----------------------------------------------------------------------------
(* The scan and the save that ends it.  Only the lease can be lost between *)
(* the two: nobody else may save meanwhile, so the trials read by pairs()  *)
(* are those at the save.                                                  *)

Recorded(r, runtime, trials, news, heard) ==
    /\ Save(r, runtime, trials, news)
    /\ Saved(r, "export", heard)
    /\ UNCHANGED recent

\* The public list cannot be read, or is refused, which is noted as well.
ScanFails(r, heard) ==
    /\ At(r, "scan")
    /\ \E news \in {<<"failed">>, <<"note", "failed">>} :
        Recorded(r, run[r].runtime, noTrials, news, heard)

\* The list is read, then pairs() fails: no trial has been made yet.
TrialsUnread(r, heard) ==
    /\ At(r, "scan")
    /\ \E u \in Universe(run[r].runtime) : \E news \in SetToSeqs(u.fresh) :
        Recorded(r, u.runtime, noTrials, Append(news, "failed"), heard)

\* Its place in marketAttempts; 0 for a pair that was never tried.
Turn(runtime, p) ==
    IF \E i \in DOMAIN runtime.turns : runtime.turns[i] = p
    THEN CHOOSE i \in DOMAIN runtime.turns : runtime.turns[i] = p ELSE 0

Pending(fresh) == {p \in Pair : trial[p] = "on"} \cup fresh

(* Slip: the pending pairs are not sorted. *)
InAnyOrder(runtime, pending) == SetToSeqs(pending)

\* The pending pairs by the time of their last attempt.
ByTurn(runtime, pending) ==
    {q \in SetToSeqs(pending) :
        \A i, j \in DOMAIN q : i < j => Turn(runtime, q[i]) <= Turn(runtime, q[j])}

Tried(runtime, attempts) ==
    [runtime EXCEPT !.turns = SelectSeq(@, LAMBDA p : p \notin ToSet(attempts)) \o attempts]

\* The trials that the scan has made, and those that it has moved on.
Changed(fresh, attempts, over) ==
    [p \in fresh \cup ToSet(attempts) |-> IF p \in over THEN "over" ELSE "on"]

\* Reads the first n markets, and ends the trials of the pairs in "over".
Markets(r, u, n, heard) ==
    \E queue \in ByTurn(u.runtime, Pending(u.fresh)), news \in SetToSeqs(u.fresh), note \in {<<>>, <<"note">>} :
        LET attempts == SubSeq(queue, 1, n)
        IN  \E over \in SUBSET ToSet(attempts) :
                Recorded(r, Tried(u.runtime, attempts), Changed(u.fresh, attempts, over), news \o note, heard)

Scan(r, heard) ==
    /\ At(r, "scan")
    /\ \E u \in Universe(run[r].runtime) :
        LET waiting == Cardinality(Pending(u.fresh))
        IN  Markets(r, u, IF waiting < MarketsPerRun THEN waiting ELSE MarketsPerRun, heard)

\* More than 8 seconds have passed before all of the markets were read.
ScanSlow(r, heard) ==
    /\ At(r, "scan")
    /\ \E u \in Universe(run[r].runtime) : \E n \in 0..MarketsPerRun - 1 :
        n < Cardinality(Pending(u.fresh)) /\ Markets(r, u, n, heard)

-----------------------------------------------------------------------------
(* The export: syncSheetEvents() and acknowledge().                        *)

\* pending(): the events that are not in the sheet, lowest rows first.
Unsynced == {i \in DOMAIN journal : ~journal[i].synced}
(* Slip: the query lacks the condition that syncedAt is null. *)
NextBatchOfAll ==
    {i \in DOMAIN journal : Cardinality({j \in DOMAIN journal : journal[j].row < journal[i].row}) < BatchLimit}

NextBatch ==
    {i \in Unsynced : Cardinality({j \in Unsynced : journal[j].row < journal[i].row}) < BatchLimit}

Export(r) ==
    /\ At(r, "export")
    /\ \/ (~SheetsConfigured \/ NextBatch = {}) /\ Finally(r)
       \/ SheetsConfigured /\ NextBatch # {} /\ Move(r, "check", run[r].runtime, NextBatch)
    /\ UNCHANGED <<lock, recent, stored, trial, journal, sheet, flying>>

\* Ten seconds have passed since the start, or pending() fails.
NoExport(r) ==
    /\ At(r, "export")
    /\ Finally(r)
    /\ UNCHANGED <<lock, recent, stored, trial, journal, sheet, flying>>

GiveUp(r) == Move(r, "close", run[r].runtime, {})

(* Slip: the rows are not checked before the write. *)
NoConflict(b) == FALSE

Conflict(b) == \E i \in b : sheet[journal[i].row] \notin {Empty, i}
SharedRow(b) == \E i, j \in b : i # j /\ journal[i].row = journal[j].row

Check(r) ==
    /\ At(r, "check")
    /\ IF SharedRow(run[r].batch) \/ Conflict(run[r].batch) THEN GiveUp(r) ELSE Goto(r, "write")
    /\ UNCHANGED <<lock, recent, stored, trial, journal, sheet, flying>>

Land(b) ==
    sheet' = [k \in Row |-> IF \E i \in b : journal[i].row = k
                            THEN CHOOSE i \in b : journal[i].row = k ELSE sheet[k]]

Write(r) ==
    /\ At(r, "write")
    /\ Land(run[r].batch)
    /\ Goto(r, "verify")
    /\ UNCHANGED <<lock, recent, stored, trial, journal, flying>>

(* Slip: a write that was given up counts as done. *)
WriteAssumed(r) ==
    /\ At(r, "write")
    /\ flying' = flying \cup {run[r].batch}
    /\ Goto(r, "acknowledge")
    /\ UNCHANGED <<lock, recent, stored, trial, journal, sheet>>

\* The request is given up after four seconds, and may still be carried out.
WriteUnheard(r) ==
    /\ At(r, "write")
    /\ flying' = flying \cup {run[r].batch}
    /\ GiveUp(r)
    /\ UNCHANGED <<lock, recent, stored, trial, journal, sheet>>

WriteLate ==
    \E b \in flying :
        /\ Land(b)
        /\ flying' = flying \ {b}
        /\ UNCHANGED <<lock, recent, stored, trial, journal, run>>

Verify(r) ==
    /\ At(r, "verify")
    /\ IF \A i \in run[r].batch : sheet[journal[i].row] = i THEN Goto(r, "acknowledge") ELSE GiveUp(r)
    /\ UNCHANGED <<lock, recent, stored, trial, journal, sheet, flying>>

Acknowledge(r) ==
    /\ At(r, "acknowledge")
    /\ Owned(r)
    /\ journal' = [i \in DOMAIN journal |->
                      [journal[i] EXCEPT !.synced = @ \/ i \in run[r].batch]]
    /\ GiveUp(r)
    /\ UNCHANGED <<lock, recent, stored, trial, sheet, flying>>

\* A request of the export fails, or the lease is lost: the events stay pending.
ExportFails(r) ==
    /\ run[r].pc \in {"check", "write", "verify", "acknowledge"}
    /\ GiveUp(r)
    /\ UNCHANGED <<lock, recent, stored, trial, journal, sheet, flying>>

\* Someone types into the sheet, though not during an export.
TypeByHand ==
    /\ HandEdits
    /\ flying = {}
    /\ \A r \in Run : run[r].pc \notin {"check", "write", "verify", "acknowledge"}
    /\ \E k \in Row : sheet[k] = Empty /\ sheet' = [sheet EXCEPT ![k] = Typed]
    /\ UNCHANGED <<lock, recent, stored, trial, journal, flying, run>>

-----------------------------------------------------------------------------

\* assertOwned() throws.
LeaseLost(r) ==
    /\ ~Owned(r)
    /\ \/ ~At(r, "begin") /\ Throws(r)
       \/ At(r, "acknowledge") /\ ExportFails(r)

Step(r) ==
    \/ Begin(r) \/ Release(r) \/ Stamp(r, TRUE) \/ Scan(r, TRUE)
    \/ Export(r) \/ Check(r) \/ Write(r) \/ Verify(r) \/ Acknowledge(r) \/ Close(r)
    \/ LeaseLost(r)

Failure(r) ==
    \/ Stop(r) \/ Throws(r) \/ NoExport(r) \/ WriteUnheard(r) \/ ExportFails(r)
    \/ Stamp(r, FALSE) \/ Scan(r, FALSE)
    \/ \E heard \in BOOLEAN :
           ScanFails(r, heard) \/ TrialsUnread(r, heard) \/ ScanSlow(r, heard)

Running ==
    \/ \E r \in Run : Start(r) \/ Step(r) \/ Failure(r)
    \/ Expire \/ MinutePasses \/ WriteLate

Next == Running \/ TypeByHand

Spec == Init /\ [][Next]_vars

-----------------------------------------------------------------------------

PC == {"idle", "begin", "stamp", "scan", "export", "check", "write", "verify", "acknowledge",
       "close", "release"}

IsRuntime(x) ==
    /\ x = [known |-> x.known, seen |-> x.seen, turns |-> x.turns, nextRow |-> x.nextRow]
    /\ x.known \in [Pair -> {"no", "baseline", "new"}]
    /\ x.seen \subseteq Pair
    /\ x.nextRow \in 2..LastRow + 1

IsRun(x) ==
    /\ x = [pc |-> x.pc, runtime |-> x.runtime, batch |-> x.batch]
    /\ x.pc \in PC
    /\ x.batch \subseteq DOMAIN journal

TypeOK ==
    /\ lock \in Run \cup {None}
    /\ recent \in BOOLEAN
    /\ IsRuntime(stored)
    /\ trial \in [Pair -> {"none", "on", "over"}]
    /\ journal \in Seq([what : News, row : Row, synced : BOOLEAN])
    /\ sheet \in [Row -> Int]
    /\ flying \subseteq SUBSET DOMAIN journal
    /\ DOMAIN run = Run /\ \A r \in Run : IsRun(run[r])

\* No two events have the same row, and the next row is free.
OneRowEach ==
    /\ \A i, j \in DOMAIN journal : i # j => journal[i].row # journal[j].row
    /\ \A i \in DOMAIN journal : journal[i].row < stored.nextRow

\* A pair is announced as new exactly once, if it appeared after the baseline,
\* and never otherwise: neither when it returns to the list after an absence,
\* nor when the run that saw it is not the last to save.
AnnouncedOnce ==
    \A p \in Pair :
        Cardinality({i \in DOMAIN journal : journal[i].what = p}) =
            IF stored.known[p] = "new" THEN 1 ELSE 0

\* Trials are made for the pairs that were announced and for no other, such as
\* one of the baseline.  An announced pair has none only where the scan that
\* announced it failed before it made them.
TrialsOfNewPairs ==
    /\ \A p \in Pair : trial[p] # "none" => \E i \in DOMAIN journal : journal[i].what = p
    /\ \A i \in DOMAIN journal : journal[i].what \in Pair =>
           \/ trial[journal[i].what] # "none"
           \/ \E j \in DOMAIN journal :
                  /\ i < j /\ journal[j].what = "failed"
                  /\ \A k \in i..j - 1 : journal[k].what \in Pair

\* A new pair is announced once and gets its trials.
NewPairsOnce == AnnouncedOnce /\ TrialsOfNewPairs

\* An event that counts as exported is in the sheet, in its own row, and stays.
SyncedIsInSheet ==
    \A i \in DOMAIN journal : journal[i].synced => sheet[journal[i].row] = i

\* A run that holds the lease works on the runtime that is stored, from its
\* read to its last save.
HolderIsCurrent ==
    \A r \in Run : Owned(r) /\ run[r].pc \notin {"idle", "begin", "release"} => run[r].runtime = stored

\* A batch is acknowledged only while all of it is in the sheet; one that is
\* being written, or may still be, meets no row that others have typed into.
BatchesAreSafe ==
    /\ \A r \in Run : At(r, "acknowledge") => \A i \in run[r].batch : sheet[journal[i].row] = i
    /\ \A r \in Run : At(r, "write") => \A i \in run[r].batch : sheet[journal[i].row] # Typed
    /\ \A b \in flying : \A i \in b : sheet[journal[i].row] # Typed

\* The inductive invariant.
IInv ==
    /\ TypeOK
    /\ OneRowEach
    /\ SyncedIsInSheet
    /\ HolderIsCurrent
    /\ BatchesAreSafe
    /\ \A p \in Pair : trial[p] # "none" => stored.known[p] = "new"

\* What has been learnt is never forgotten: a known pair stays known as what it
\* is, and a trial that has ended stays ended, whichever run saves last.
NothingForgotten ==
    [][\A p \in Pair :
        /\ stored.known[p] # "no" => stored'.known[p] = stored.known[p]
        /\ trial[p] # "none" => trial'[p] # "none"
        /\ trial[p] = "over" => trial'[p] = "over"]_vars

\* The export never replaces what someone else has typed into a row.
TypedIsKept ==
    [][\A k \in Row : sheet[k] = Typed => sheet'[k] = Typed]_vars

\* Once there is a baseline, a scan that is recorded as failed leaves the
\* universe as it was: the event says baselinePreserved.
FailedScanKeepsUniverse ==
    [][Based(stored) => \A i \in DOMAIN journal' \ DOMAIN journal :
        journal'[i].what = "failed" => stored'.known = stored.known]_vars

-----------------------------------------------------------------------------
(* Liveness.  The scheduler starts a run every minute, runs go on, and the *)
(* lease of a run that was stopped expires.  Nobody types into the sheet.  *)

\* A run fails or is slow at some point, or loses its lease while it goes on.
Disturbance ==
    \/ \E r \in Run : Failure(r) /\ ~Step(r)
    \/ Expire /\ \E r \in Run : Owned(r) /\ ~At(r, "idle")

LiveSpec ==
    /\ Init /\ [][Running]_vars
    /\ \A r \in Run : WF_vars(Step(r))
    /\ WF_vars(\E r \in Run : Start(r))
    /\ WF_vars(Expire)
    /\ WF_vars(MinutePasses)
    /\ <>[][~Disturbance]_vars

\* Once runs no longer fail, every event gets into the sheet and is marked.
EventuallySynced ==
    \A i \in 1..LastRow - 1 : i \in DOMAIN journal ~> (i \in DOMAIN journal /\ journal[i].synced)

\* The pair is one of those that were tried last.
JustTried(p) ==
    \E i \in DOMAIN stored.turns : stored.turns[i] = p /\ i > Len(stored.turns) - MarketsPerRun

\* Once runs no longer fail, no pair on trial waits for ever to be read again.
TurnsComeRound ==
    \A p \in Pair : trial[p] = "on" ~> trial[p] = "over" \/ JustTried(p)
=============================================================================
