----------------------------- MODULE MCTurnsLive -----------------------------
(* What takes turns: the pairs that a run of discovery reads, and the symbols
   that a strategy scan reads.  They share no state: each behaviour moves the
   part it has chosen and leaves the other alone.                            *)
EXTENDS Discovery

CONSTANTS a, b, c, c1, c2

VARIABLES part,
    closed, held, changes, indicators, cursor, pending, entered, cycle, read   \* ScanCycle

scan   == <<closed, held, changes, indicators, cursor, pending, entered, cycle, read>>
mcvars == <<part, vars, scan>>

Scans == INSTANCE ScanCycle
    WITH Cycle <- {c1, c2}, Symbol <- {a, b, c}, Listed <- <<a, b, c>>, Warmup <- 0, SignalTtl <- 1,
         Cross <- {}, LastCandle <- 0, MaxChanges <- 1

MCInit == part \in {"pairs", "scan"} /\ Init /\ Scans!Init

MCNext ==
    /\ UNCHANGED part
    /\ \/ part = "pairs" /\ Next       /\ UNCHANGED scan
       \/ part = "scan"  /\ Scans!Next /\ UNCHANGED vars

(* The fairness of Discovery!LiveSpec and of ScanCycle!Fairness, each in its
   part.  Scans with and without a connection order the symbols differently:
   they do not alternate for ever. *)
OfPairs(A) == part = "pairs" /\ A /\ UNCHANGED <<part, scan>>
OfScan(A)  == part = "scan"  /\ A /\ UNCHANGED <<part, vars>>

MCLiveSpec ==
    /\ MCInit /\ [][MCNext]_mcvars
    /\ \A r \in Run : WF_mcvars(OfPairs(Step(r)))
    /\ WF_mcvars(OfPairs(\E r \in Run : Start(r)))
    /\ WF_mcvars(OfPairs(Expire))
    /\ WF_mcvars(OfPairs(MinutePasses))
    /\ <>[][~OfPairs(Disturbance)]_mcvars
    /\ \A i \in {c1, c2} :
        /\ WF_mcvars(OfScan(Scans!Begin(i))) /\ WF_mcvars(OfScan(Scans!Fetch(i)))
        /\ SF_mcvars(OfScan(Scans!Commit(i)))
    /\ <>[][~OfScan(Scans!ScanUnconnected)]_mcvars

(* ScanCycle: every symbol is read again and again.                          *)
EverySymbolRead == part = "scan" => Scans!ScansComeRound
=============================================================================
