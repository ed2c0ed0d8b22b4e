--------------------------- MODULE MCSourceWrites ---------------------------
(***************************************************************************)
(* A small instance of SourceWrites: two invocations on one asset, an entry*)
(* and two exits of its position, such as the sell that a reverse cross    *)
(* asks for and the latched one.                                           *)
(***************************************************************************)
EXTENDS SourceWrites, TLC

CONSTANTS w1, w2, e1, x1, x2, coin

MCWorker   == {w1, w2}
MCSymbol   == {coin}
MCEntry    == {e1}
MCKey      == {e1, x1, x2}
MCSymbolOf == [k \in MCKey |-> coin]
MCEntryOf  == [k \in {x1, x2} |-> e1]

WorkerSymmetry == Permutations(MCWorker)
=============================================================================
