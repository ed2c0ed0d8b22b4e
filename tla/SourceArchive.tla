---------------------------- MODULE SourceArchive ---------------------------
(* The archive of source transactions: syncSourceArchive() files one page of
   the venue's list per cycle, window after window, and keeps the cursor of the
   window with the records.  The list moves meanwhile: transactions appear up to
   Lag ticks late, pages may be answered from a reading that is behind, and a
   cursor may come back.  The cycle holds the lease: a lost one saves nothing. *)
EXTENDS Integers, Sequences, FiniteSets

CONSTANTS
    Id,             \* transactions, numbered as they are made
    Lag,            \* how late the venue's list shows one, at most the overlap
    Overlap,        \* 300 seconds
    Window,         \* 24 hours, more than the overlap
    PageSize,
    LastTick        \* bound of the exploration

VARIABLES
    tick,
    listing,        \* transaction -> when it was made and when the list shows it
    order,          \* whether pages begin with the oldest or the newest
    archive,        \* the saved state, a sequence of length one, or empty
    filed           \* transactions in the archive

vars == <<tick, listing, order, archive, filed>>

NotMade == [at |-> 0, shown |-> 0]

Make(i) ==
    /\ listing[i] = NotMade
    /\ \A j \in Id : j < i => listing[j] # NotMade
    /\ \E late \in 0..Lag : listing' = [listing EXCEPT ![i] = [at |-> tick, shown |-> tick + late]]
    /\ UNCHANGED <<tick, order, archive, filed>>

Tick ==
    /\ tick < LastTick
    /\ tick' = tick + 1
    /\ UNCHANGED <<listing, order, archive, filed>>

-----------------------------------------------------------------------------
(* The venue's pages.  A cursor is the transaction the last page ended with.  *)

Before(i, j) == LET older(a, b) == \/ listing[a].at < listing[b].at
                                   \/ listing[a].at = listing[b].at /\ a < b
                IN  IF order = "oldest" THEN older(i, j) ELSE older(j, i)

Rest(start, end, cursor, read) ==
    {i \in Id : /\ listing[i] # NotMade /\ listing[i].shown <= read
                /\ listing[i].at \in start..end
                /\ cursor # 0 => Before(cursor, i)}

Ahead(rest, i) == {j \in rest : Before(j, i)}

Page(rest) == {i \in rest : Cardinality(Ahead(rest, i)) < PageSize}

Following(rest) == IF Cardinality(rest) > PageSize
                   THEN CHOOSE i \in Page(rest) : Page(rest) \ {i} \subseteq Ahead(rest, i) ELSE 0

-----------------------------------------------------------------------------
(* The saved state; the first window reaches a day back.                     *)
Saved == IF archive # <<>> THEN archive[1]
         ELSE LET first == IF tick > Window THEN tick - Window ELSE 0
              IN  [from |-> first, start |-> first, end |-> tick, cursor |-> 0, cursors |-> {},
                   scanned |-> -1, read |-> -1, error |-> FALSE]

(* Slip: the next window begins where the last one ended.                    *)
NextStartTight(state) == state.scanned

(* The next window begins before the last one ended: what the list showed
   late still falls into it.                                                 *)
NextStart(state) ==
    IF state.scanned - Overlap > state.from THEN state.scanned - Overlap ELSE state.from

WindowDone(state) == state.scanned >= 0 /\ state.cursor = 0

Due(state) == ~WindowDone(state) \/ tick > state.scanned

Opened(state) ==
    IF ~WindowDone(state) THEN state
    ELSE [state EXCEPT !.start = NextStart(state), !.cursors = {},
                       !.end = IF NextStart(state) + Window < tick THEN NextStart(state) + Window ELSE tick]

(* The reading is not behind the window, and not behind an earlier one.      *)
Trusted(state, read) == read >= state.end /\ read >= state.read

Repeated(state, next) == next # 0 /\ next \in state.cursors \cup {state.cursor}

Advanced(state, next, read) ==
    [state EXCEPT !.cursors = IF next = 0 THEN {} ELSE IF state.cursor = 0 THEN @ ELSE @ \cup {state.cursor},
                  !.cursor  = next,
                  !.scanned = IF next = 0 THEN state.end ELSE @,
                  !.read = read, !.error = FALSE]

Failed(state) == [state EXCEPT !.error = TRUE]

(* One call: records and continuation are committed together; a failed one
   leaves the last committed page and cursor, with the reason.               *)
Sync ==
    LET state == Opened(Saved)
    IN  /\ Due(Saved)
        /\ \E read \in {tick - 1, tick} :
              LET rest == Rest(state.start, state.end, state.cursor, read)
              IN  \E next \in {Following(rest)} \cup ((state.cursors \cup {state.cursor}) \ {0}) :
                    IF Trusted(state, read) /\ ~Repeated(state, next)
                    THEN /\ archive' = <<Advanced(state, next, read)>>
                         /\ filed' = filed \cup Page(rest)
                    ELSE /\ archive' = <<Failed(Saved)>>
                         /\ UNCHANGED filed
        /\ UNCHANGED <<tick, listing, order>>

ReadFails ==
    /\ Due(Saved)
    /\ archive' = <<Failed(Saved)>>
    /\ UNCHANGED <<tick, listing, order, filed>>

Init ==
    /\ tick = 1
    /\ listing = [i \in Id |-> NotMade]
    /\ order \in {"oldest", "newest"}
    /\ archive = <<>>
    /\ filed = {}

Next == Tick \/ (\E i \in Id : Make(i)) \/ Sync \/ ReadFails

Spec == Init /\ [][Next]_vars

-----------------------------------------------------------------------------
(* Nothing falls between two windows: what was made since the archive began
   and at least an overlap before the point it claims to have scanned is filed,
   however late the list showed it and whatever pages failed in between.      *)
NothingSkipped ==
    archive # <<>> /\ archive[1].scanned >= 0 =>
        \A i \in Id : listing[i] # NotMade /\ listing[i].at \in archive[1].from..archive[1].scanned - Overlap
                      => i \in filed
=============================================================================
