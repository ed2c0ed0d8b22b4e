-------------------------- MODULE Discovery_proofs --------------------------
(***************************************************************************)
(* The inductive invariant of Discovery, and what follows from it: rows are *)
(* for good, what counts as exported is in the sheet, nothing that has been *)
(* learnt is forgotten and nothing typed by others is replaced, for any     *)
(* number of runs, pairs and rows.                                          *)
(*                                                                         *)
(* Everything that is stored goes through save().  SaveKeeps has what its   *)
(* callers owe it: a runtime that started from the stored one, and trials   *)
(* of announced pairs only.                                                 *)
(***************************************************************************)
EXTENDS Discovery, FunctionTheorems, SequenceTheorems, FiniteSetTheorems, TLAPS

Event == [what : News, row : Row, synced : BOOLEAN]

LEMMA Initially == Init => IInv
<1> SUFFICES ASSUME Init PROVE IInv
  OBVIOUS
<1> USE DiscoveryAssumption DEF Init
<1>1. IsRuntime(stored)
  BY DEF IsRuntime, initialRuntime
<1>2. journal \in Seq([what : News, row : Row, synced : BOOLEAN]) /\ DOMAIN journal = {}
  BY EmptySeq
<1>3. DOMAIN run = Run /\ \A r \in Run : IsRun(run[r]) /\ run[r].pc = "idle"
  BY DEF IsRun, Idle, PC
<1>4. sheet \in [Row -> Int]
  BY DEF Empty
<1>5. TypeOK
  <2>1. lock \in Run \cup {None}
    OBVIOUS
  <2>5. flying \subseteq SUBSET DOMAIN journal
    OBVIOUS
  <2>4. recent \in BOOLEAN
    BY Zenon
  <2>2. trial \in [Pair -> {"none", "on", "over"}]
    OBVIOUS
  <2>3. QED BY <1>1, <1>2, <1>3, <1>4, <2>1, <2>2, <2>4, <2>5 DEF TypeOK
<1>6. QED
  BY <1>2, <1>3, <1>5 DEF IInv, OneRowEach, SyncedIsInSheet, HolderIsCurrent, BatchesAreSafe, At

(* What a transaction adds to the journal. *)
LEMMA SaveAppends ==
    ASSUME NEW r \in Run, NEW x, NEW trials, NEW news \in Seq(News),
           TypeOK, IsRuntime(x), Save(r, x, trials, news)
    PROVE  /\ journal' \in Seq(Event)
           /\ Len(journal') = Len(journal) + Len(news)
           /\ \A i \in 1..Len(journal) : journal'[i] = journal[i]
           /\ \A i \in 1..Len(news) :
                  journal'[Len(journal) + i] =
                      [what |-> news[i], row |-> x.nextRow + i - 1, synced |-> FALSE]
<1> DEFINE added == [i \in DOMAIN news |-> Entry(x, news, i)]
<1>1. DOMAIN news = 1..Len(news) /\ Len(news) \in Nat /\ \A i \in 1..Len(news) : news[i] \in News
  BY LenProperties, ElementOfSeq
<1>2. \A i \in 1..Len(news) : Entry(x, news, i) \in Event
  BY <1>1, DiscoveryAssumption DEF Save, Entry, Event, IsRuntime, Row
<1>3. added \in Seq(Event) /\ Len(added) = Len(news) /\ \A i \in 1..Len(news) : added[i] = Entry(x, news, i)
  BY <1>1, <1>2, IsASeq
<1>4. journal \in Seq(Event) /\ journal' = journal \o added
  BY DEF TypeOK, Event, Save
<1> HIDE DEF added
<1>5. /\ journal' \in Seq(Event)
      /\ Len(journal') = Len(journal) + Len(added)
      /\ \A i \in 1..Len(journal) + Len(added) :
             journal'[i] = IF i <= Len(journal) THEN journal[i] ELSE added[i - Len(journal)]
  <2>1. journal \o added \in Seq(Event)
    BY <1>3, <1>4, ConcatProperties
  <2>2. Len(journal \o added) = Len(journal) + Len(added)
    BY <1>3, <1>4, ConcatProperties
  <2>3. \A i \in 1..Len(journal) + Len(added) :
            (journal \o added)[i] = IF i <= Len(journal) THEN journal[i] ELSE added[i - Len(journal)]
    BY <1>3, <1>4, ConcatProperties, Zenon
  <2>4. QED BY <1>4, <2>1, <2>2, <2>3, Zenon
<1>6. \A i \in 1..Len(news) :
          /\ Len(journal) + i \in 1..Len(journal) + Len(added)
          /\ ~(Len(journal) + i <= Len(journal))
          /\ (Len(journal) + i) - Len(journal) = i
  BY <1>1, <1>3, <1>4, LenProperties
<1>7. \A i \in 1..Len(news) : journal'[Len(journal) + i] = Entry(x, news, i)
  BY <1>3, <1>5, <1>6
<1>8. \A i \in 1..Len(journal) : journal'[i] = journal[i]
  BY <1>1, <1>3, <1>4, <1>5, LenProperties
<1>9. QED
  BY <1>3, <1>5, <1>7, <1>8 DEF Entry

(* The news of a save are the pairs that its runtime is the first to know as new,
   each once, and for each of them there is a trial or the scan has failed.     *)
Announces(x, trials, news) ==
    /\ \A i \in 1..Len(news) : news[i] \in Pair =>
           /\ stored.known[news[i]] = "no" /\ x.known[news[i]] = "new"
           /\ \A j \in 1..Len(news) : news[j] = news[i] => j = i
           /\ \/ news[i] \in DOMAIN trials
              \/ \E j \in 1..Len(news) :
                     i < j /\ news[j] = "failed" /\ \A k \in i..j - 1 : news[k] \in Pair
    /\ \A p \in Pair : stored.known[p] = "no" /\ x.known[p] = "new" => \E i \in 1..Len(news) : news[i] = p
    /\ \A p \in Pair \cap DOMAIN trials : trial[p] # "none" \/ \E i \in 1..Len(news) : news[i] = p

(* What a caller of save() owes to it. *)
Owed(x, trials, news) ==
    /\ Announces(x, trials, news)
    /\ news \in Seq(News)
    /\ IsRuntime(x)
    /\ x.nextRow = stored.nextRow
    /\ \A p \in Pair : stored.known[p] # "no" => x.known[p] = stored.known[p]
    /\ \A p \in Pair \cap DOMAIN trials :
           trials[p] \in {"on", "over"} /\ x.known[p] = "new" /\ trial[p] # "over"

(* What it does with its own state afterwards. *)
GoesOn(r) ==
    /\ recent' \in BOOLEAN
    /\ DOMAIN run' = Run /\ \A q \in Run \ {r} : run'[q] = run[q]
    /\ run'[r] = [pc |-> run'[r].pc, runtime |-> run'[r].runtime, batch |-> run'[r].batch]
    /\ run'[r].batch \subseteq run[r].batch
    /\ \/ run'[r].pc = "release"
       \/ run'[r].pc \in {"scan", "export"} /\ run'[r].runtime = stored'

LEMMA SaveKeeps ==
    ASSUME NEW r \in Run, NEW x, NEW trials, NEW news,
           IInv, Owed(x, trials, news), Save(r, x, trials, news), GoesOn(r)
    PROVE  IInv'
<1> news \in Seq(News) /\ IsRuntime(x) /\ x.nextRow = stored.nextRow
  BY DEF Owed
<1>a. \A p \in Pair : stored.known[p] = "new" => x.known[p] = "new"
  BY DEF Owed
<1>b. \A p \in Pair \cap DOMAIN trials : trials[p] \in {"on", "over"} /\ x.known[p] = "new"
  BY DEF Owed
<1>1. /\ journal' \in Seq(Event)
      /\ Len(journal') = Len(journal) + Len(news)
      /\ \A i \in 1..Len(journal) : journal'[i] = journal[i]
      /\ \A i \in 1..Len(news) :
             journal'[Len(journal) + i] =
                 [what |-> news[i], row |-> x.nextRow + i - 1, synced |-> FALSE]
  BY SaveAppends DEF IInv
<1>2. /\ DOMAIN journal = 1..Len(journal) /\ DOMAIN journal' = 1..Len(journal')
      /\ Len(journal) \in Nat /\ Len(news) \in Nat
  BY <1>1, LenProperties DEF IInv, TypeOK, Event
<1>3. /\ DOMAIN journal \subseteq DOMAIN journal'
      /\ \A i \in DOMAIN journal : journal'[i] = journal[i]
  BY <1>1, <1>2
<1>4. \A i \in DOMAIN journal' \ DOMAIN journal :
          /\ journal'[i].row = stored.nextRow + (i - Len(journal)) - 1
          /\ ~journal'[i].synced
  <2> TAKE i \in DOMAIN journal' \ DOMAIN journal
  <2>1. i - Len(journal) \in 1..Len(news) /\ i = Len(journal) + (i - Len(journal))
    BY <1>1, <1>2
  <2>2. journal'[i] = [what |-> news[i - Len(journal)],
                       row |-> x.nextRow + (i - Len(journal)) - 1, synced |-> FALSE]
    BY <1>1, <2>1
  <2>3. QED BY <2>2
<1>5. IsRuntime(stored') /\ stored'.known = x.known /\ stored'.nextRow = stored.nextRow + Len(news)
  <2>1. stored' = [x EXCEPT !.nextRow = x.nextRow + Len(news)] /\ x.nextRow + Len(news) <= LastRow + 1
    BY DEF Save
  <2>2. x = [known |-> x.known, seen |-> x.seen, turns |-> x.turns, nextRow |-> x.nextRow]
    BY DEF IsRuntime
  <2>3. stored' = [known |-> x.known, seen |-> x.seen, turns |-> x.turns, nextRow |-> x.nextRow + Len(news)]
    BY <2>1, <2>2
  <2>4. x.nextRow + Len(news) \in 2..LastRow + 1
    BY <1>2, <2>1, DiscoveryAssumption DEF IsRuntime
  <2>5. QED BY <2>3, <2>4 DEF IsRuntime
<1>6. trial' \in [Pair -> {"none", "on", "over"}]
  <2>1. trial' = [p \in Pair |-> IF p \in DOMAIN trials THEN trials[p] ELSE trial[p]]
    BY DEF Save
  <2>2. \A p \in Pair : trial[p] \in {"none", "on", "over"}
    BY DEF IInv, TypeOK
  <2>3. QED BY <1>b, <2>1, <2>2
<1>7. \A q \in Run : IsRun(run[q])' /\ run'[q].batch \subseteq run[q].batch
  BY <1>3 DEF IInv, TypeOK, IsRun, PC, GoesOn
<1>8. TypeOK'
  BY <1>1, <1>3, <1>5, <1>6, <1>7 DEF Save, IInv, TypeOK, Event, GoesOn
<1>9. OneRowEach'
  <2>1. stored.nextRow \in Nat /\ \A i \in DOMAIN journal : journal[i].row \in Nat
    <3>1. stored.nextRow \in Nat
      BY DiscoveryAssumption DEF IInv, TypeOK, IsRuntime
    <3>2. \A i \in DOMAIN journal : journal[i] \in Event
      BY <1>2, ElementOfSeq DEF IInv, TypeOK, Event
    <3>3. QED BY <3>1, <3>2, DiscoveryAssumption DEF Event, Row
  <2>2. \A i \in DOMAIN journal : journal'[i].row = journal[i].row /\ journal[i].row < stored.nextRow
    BY <1>3 DEF IInv, OneRowEach
  <2>3. \A i \in DOMAIN journal' \ DOMAIN journal :
            i - Len(journal) \in 1..Len(news) /\ journal'[i].row = stored.nextRow + (i - Len(journal)) - 1
    BY <1>1, <1>2, <1>4
  <2>4. \A i \in DOMAIN journal' : journal'[i].row < stored'.nextRow
    BY <1>2, <1>3, <1>5, <2>1, <2>2, <2>3
  <2>5. ASSUME NEW i \in DOMAIN journal', NEW j \in DOMAIN journal', i # j
        PROVE  journal'[i].row # journal'[j].row
    <3>1. CASE i \in DOMAIN journal /\ j \in DOMAIN journal
      BY <2>2, <2>5, <3>1 DEF IInv, OneRowEach
    <3>2. CASE i \in DOMAIN journal /\ j \notin DOMAIN journal
      BY <1>2, <2>1, <2>2, <2>3, <3>2
    <3>3. CASE i \notin DOMAIN journal /\ j \in DOMAIN journal
      BY <1>2, <2>1, <2>2, <2>3, <3>3
    <3>4. CASE i \notin DOMAIN journal /\ j \notin DOMAIN journal
      <4>1. /\ i \in Int /\ j \in Int
            /\ journal'[i].row = stored.nextRow + (i - Len(journal)) - 1
            /\ journal'[j].row = stored.nextRow + (j - Len(journal)) - 1
        BY <1>2, <2>3, <2>5, <3>4
      <4>2. QED BY <1>2, <2>1, <2>5, <4>1
    <3>5. QED BY <3>1, <3>2, <3>3, <3>4
  <2>6. QED BY <2>4, <2>5 DEF OneRowEach
<1>10. SyncedIsInSheet'
  BY <1>3, <1>4 DEF IInv, SyncedIsInSheet, Save
<1>11. HolderIsCurrent'
  BY DiscoveryAssumption DEF IInv, TypeOK, HolderIsCurrent, Save, Owned, GoesOn
<1>12. BatchesAreSafe'
  <2>1. \A b : b \subseteq DOMAIN journal => \A i \in b : journal'[i] = journal[i]
    BY <1>3
  <2>2. flying' = flying /\ sheet' = sheet
    BY DEF Save
  <2>3. \A b \in flying : b \subseteq DOMAIN journal
    BY DEF IInv, TypeOK
  <2>4. \A q \in Run : run[q].batch \subseteq DOMAIN journal
    BY DEF IInv, TypeOK, IsRun
  <2>5. QED
    BY <1>7, <2>1, <2>2, <2>3, <2>4 DEF IInv, BatchesAreSafe, At, GoesOn
<1>13. \A p \in Pair : trial'[p] # "none" => stored'.known[p] = "new"
  BY <1>5, <1>a, <1>b DEF Save, IInv, TypeOK
<1>14. QED
  BY <1>8, <1>9, <1>10, <1>11, <1>12, <1>13 DEF IInv

(* What a run stores is never less than what is stored. *)
LEMMA SaveForgetsNothing ==
    ASSUME NEW r \in Run, NEW x, NEW trials, NEW news,
           IInv, Owed(x, trials, news), Save(r, x, trials, news), NEW p \in Pair
    PROVE  /\ stored.known[p] # "no" => stored'.known[p] = stored.known[p]
           /\ trial[p] # "none" => trial'[p] # "none"
           /\ trial[p] = "over" => trial'[p] = "over"
<1>1. stored' = [x EXCEPT !.nextRow = x.nextRow + Len(news)]
  BY DEF Save
<1>2. stored'.known = x.known
  BY <1>1 DEF Owed, IsRuntime
<1>3. trial'[p] = IF p \in DOMAIN trials THEN trials[p] ELSE trial[p]
  BY DEF Save
<1>4. QED
  BY <1>2, <1>3 DEF Owed

(* A reply changes nothing that is known, and only pairs that were not known are new. *)
LEMMA UniverseGrows ==
    ASSUME NEW x, IsRuntime(x), NEW u \in Universe(x)
    PROVE  /\ IsRuntime(u.runtime) /\ u.runtime.nextRow = x.nextRow
           /\ u.fresh \subseteq Pair
           /\ \A p \in Pair : x.known[p] # "no" => u.runtime.known[p] = x.known[p]
           /\ \A p \in u.fresh : x.known[p] = "no" /\ u.runtime.known[p] = "new"
           /\ \A p \in Pair : x.known[p] = "no" /\ u.runtime.known[p] = "new" => p \in u.fresh
<1>1. CASE u = [runtime |-> x, fresh |-> {}]
  BY <1>1
<1>2. CASE \E reply \in SUBSET Pair :
               u = [runtime |-> Observed(x, reply), fresh |-> newPairs(x, reply)]
  <2> PICK reply \in SUBSET Pair :
               u = [runtime |-> Observed(x, reply), fresh |-> newPairs(x, reply)]
    BY <1>2
  <2>1. x = [known |-> x.known, seen |-> x.seen, turns |-> x.turns, nextRow |-> x.nextRow]
    BY DEF IsRuntime
  <2> DEFINE known == [p \in Pair |-> IF p \notin reply \/ x.known[p] # "no" THEN x.known[p]
                                      ELSE IF Based(x) THEN "new" ELSE "baseline"]
  <2>2. Observed(x, reply) =
            [known |-> known, seen |-> reply, turns |-> x.turns, nextRow |-> x.nextRow]
    <3>1. Observed(x, reply) = [x EXCEPT !.known = known, !.seen = reply]
      BY DEF Observed
    <3> HIDE DEF known
    <3>2. QED BY <2>1, <3>1
  <2>3. known \in [Pair -> {"no", "baseline", "new"}]
    BY DEF IsRuntime
  <2>4. IsRuntime(Observed(x, reply))
    BY <2>2, <2>3 DEF IsRuntime
  <2>5. \A p \in Pair : p \in newPairs(x, reply) <=> p \in reply /\ x.known[p] = "no" /\ Based(x)
    BY DEF newPairs
  <2>7. newPairs(x, reply) \subseteq Pair
    BY DEF newPairs
  <2>6. QED
    BY <2>2, <2>4, <2>5, <2>7
<1>3. QED
  BY <1>1, <1>2 DEF Universe

(* The orders of a set of pairs, as lists of news: each pair is there, once. *)
LEMMA OrdersAreLists ==
    ASSUME NEW S \in SUBSET Pair, NEW q \in SetToSeqs(S)
    PROVE  /\ IsFiniteSet(S) /\ Cardinality(S) \in Nat
           /\ q \in Seq(S) /\ q \in Seq(News) /\ Len(q) = Cardinality(S)
           /\ \A i, j \in 1..Len(q) : q[i] = q[j] => i = j
           /\ \A p \in S : \E i \in 1..Len(q) : q[i] = p
<1>1. IsFiniteSet(S) /\ Cardinality(S) \in Nat
  BY FS_Subset, FS_CardinalityType, DiscoveryAssumption
<1>2. q \in [1..Cardinality(S) -> S] /\ \A i, j \in 1..Cardinality(S) : q[i] = q[j] => i = j
  BY DEF SetToSeqs
<1>3. q \in Seq(S) /\ Len(q) = Cardinality(S)
  BY <1>1, <1>2, IsASeq
<1>4. q \in Injection(1..Cardinality(S), S)
  BY <1>2 DEF Injection, IsInjective
<1>5. Cardinality(1..Cardinality(S)) = Cardinality(S)
  BY <1>1, FS_Interval
<1>6. q \in Surjection(1..Cardinality(S), S)
  BY <1>1, <1>4, <1>5, FS_Injection
<1>7. QED
  BY <1>1, <1>2, <1>3, <1>6, IsASeq DEF News, Surjection

(* A scan that lists its new pairs first, and then what is no pair, announces   *)
(* them, if it has made their trials or says at once that it has failed.         *)
LEMMA ListAnnounces ==
    ASSUME IsRuntime(stored), NEW u \in Universe(stored), NEW q \in SetToSeqs(u.fresh),
           NEW rest \in Seq(News), \A i \in 1..Len(rest) : rest[i] \notin Pair,
           NEW x, x.known = u.runtime.known,
           NEW trials, \A p \in Pair \cap DOMAIN trials : trial[p] # "none" \/ p \in u.fresh,
           u.fresh \subseteq DOMAIN trials \/ (Len(rest) = 1 /\ rest[1] = "failed")
    PROVE  Announces(x, trials, q \o rest)
<1> DEFINE news == q \o rest
<1>1. /\ u.fresh \subseteq Pair
      /\ \A p \in Pair : p \in u.fresh <=> stored.known[p] = "no" /\ u.runtime.known[p] = "new"
  BY UniverseGrows
<1>2. /\ q \in Seq(News) /\ Len(q) \in Nat /\ q \in Seq(u.fresh)
      /\ \A i, j \in 1..Len(q) : q[i] = q[j] => i = j
      /\ \A p \in u.fresh : \E i \in 1..Len(q) : q[i] = p
  BY <1>1, OrdersAreLists
<1> DEFINE n == Len(q)
           m == Len(rest)
<1>3. /\ Len(news) = n + m /\ n \in Nat /\ m \in Nat
      /\ \A i \in 1..n : news[i] = q[i] /\ q[i] \in u.fresh
      /\ \A i \in 1..n + m : i \notin 1..n => news[i] = rest[i - n] /\ i - n \in 1..m
  <2>1. Len(q \o rest) = Len(q) + Len(rest) /\ Len(rest) \in Nat
    BY <1>2, ConcatProperties, LenProperties
  <2>2. \A i \in 1..Len(q) + Len(rest) :
            (q \o rest)[i] = IF i <= Len(q) THEN q[i] ELSE rest[i - Len(q)]
    <3>1. q \in Seq(News) /\ rest \in Seq(News)
      BY <1>2
    <3> HIDE DEF news, n, m
    <3>2. QED BY <3>1, ConcatProperties, Zenon
  <2>3. \A i \in 1..Len(q) : q[i] \in u.fresh
    BY <1>2, ElementOfSeq
  <2> HIDE DEF news
  <2>4. \A i \in 1..n + m : news[i] = IF i <= n THEN q[i] ELSE rest[i - n]
    BY <2>2, Zenon DEF news
  <2>5. Len(news) = n + m
    BY <2>1 DEF news
  <2> HIDE DEF n, m
  <2>6. n \in Nat /\ m \in Nat
    BY <1>2, <2>1 DEF n, m
  <2>7. \A i \in 1..n : i \in 1..n + m /\ i <= n
    BY <2>6
  <2>8. \A i \in 1..n + m : i \notin 1..n => ~(i <= n) /\ i - n \in 1..m
    BY <2>6
  <2>9. \A i \in 1..n : q[i] \in u.fresh
    BY <2>3 DEF n
  <2>10. QED BY <2>4, <2>5, <2>6, <2>7, <2>8, <2>9
<1>a. /\ \A i, j \in 1..n : q[i] = q[j] => i = j
      /\ \A p \in u.fresh : \E i \in 1..n : q[i] = p
      /\ \A i \in 1..m : rest[i] \notin Pair
  BY <1>2
<1> HIDE DEF news, n, m
<1>4. \A i \in 1..n + m : news[i] \in Pair => i \in 1..n /\ news[i] = q[i] /\ q[i] \in u.fresh
  BY <1>3, <1>a
<1>b. \A i \in 1..n : i \in 1..n + m
  BY <1>3
<1>5. \A p \in u.fresh : \E i \in 1..n + m : news[i] = p
  BY <1>3, <1>a, <1>b
<1>6. ASSUME m = 1 /\ rest[1] = "failed", NEW i \in 1..n
      PROVE  \E j \in 1..n + m : i < j /\ news[j] = "failed" /\ \A k \in i..j - 1 : news[k] \in Pair
  <2>1. n + 1 \in 1..n + m /\ n + 1 \notin 1..n /\ (n + 1) - n = 1
    BY <1>3, <1>6
  <2>2. news[n + 1] = "failed"
    BY <1>3, <1>6, <2>1
  <2>3. i < n + 1 /\ \A k \in i..(n + 1) - 1 : k \in 1..n
    BY <1>3
  <2>4. QED BY <1>1, <1>3, <2>1, <2>2, <2>3
<1>7. \A i \in 1..n + m : news[i] \in Pair =>
          /\ stored.known[news[i]] = "no" /\ x.known[news[i]] = "new"
          /\ \A j \in 1..n + m : news[j] = news[i] => j = i
  BY <1>1, <1>4, <1>a
<1>8. \A i \in 1..n + m : news[i] \in Pair =>
          \/ news[i] \in DOMAIN trials
          \/ \E j \in 1..n + m :
                 i < j /\ news[j] = "failed" /\ \A k \in i..j - 1 : news[k] \in Pair
  <2>1. u.fresh \subseteq DOMAIN trials \/ (m = 1 /\ rest[1] = "failed")
    BY DEF m
  <2>2. QED BY <1>4, <1>6, <2>1
<1>9. Announces(x, trials, news)
  BY <1>1, <1>3, <1>5, <1>7, <1>8 DEF Announces
<1>10. QED
  BY <1>9 DEF news

(* The runtime that a run with the lease works on. *)
LEMMA HeldRuntime ==
    ASSUME IInv, NEW r \in Run, Owned(r), run[r].pc \notin {"idle", "begin", "release"}
    PROVE  run[r].runtime = stored /\ IsRuntime(stored)
BY DEF IInv, HolderIsCurrent, TypeOK

(* After a save, heard of or not, the run goes on or throws. *)
LEMMA SavedGoesOn ==
    ASSUME TypeOK, NEW r \in Run, NEW pc \in {"scan", "export"}, NEW heard \in BOOLEAN,
           recent' \in BOOLEAN, Saved(r, pc, heard) \/ Finally(r)
    PROVE  GoesOn(r)
<1>1. PICK x, c, b : run' = [run EXCEPT ![r] = [pc |-> c, runtime |-> x, batch |-> b]]
                    /\ b \subseteq run[r].batch /\ (c = "release" \/ (c = pc /\ x = stored'))
  BY DEF Saved, Finally, Move
<1>2. QED
  BY <1>1 DEF GoesOn, TypeOK

(* A run that reads markets owes only trials that are new or under way. *)
LEMMA MarketsOwe ==
    ASSUME IInv, NEW r \in Run, run[r].runtime = stored, NEW u \in Universe(stored),
           NEW n \in Nat, n <= Cardinality(Pending(u.fresh)), NEW heard \in BOOLEAN,
           Markets(r, u, n, heard)
    PROVE  \E x, trials, news : Owed(x, trials, news) /\ Recorded(r, x, trials, news, heard)
<1>1. IsRuntime(stored)
  BY DEF IInv, TypeOK
<1>2. /\ IsRuntime(u.runtime) /\ u.runtime.nextRow = stored.nextRow
      /\ u.fresh \subseteq Pair
      /\ \A p \in Pair : stored.known[p] # "no" => u.runtime.known[p] = stored.known[p]
      /\ \A p \in u.fresh : stored.known[p] = "no" /\ u.runtime.known[p] = "new"
  BY <1>1, UniverseGrows
<1>a. PICK queue \in ByTurn(u.runtime, Pending(u.fresh)), fresh \in SetToSeqs(u.fresh),
           note \in {<<>>, <<"note">>} :
               \E over \in SUBSET ToSet(SubSeq(queue, 1, n)) :
                   Recorded(r, Tried(u.runtime, SubSeq(queue, 1, n)),
                            Changed(u.fresh, SubSeq(queue, 1, n), over), fresh \o note, heard)
  BY Zenon DEF Markets
<1>3. PICK over \in SUBSET ToSet(SubSeq(queue, 1, n)) :
          Recorded(r, Tried(u.runtime, SubSeq(queue, 1, n)),
                   Changed(u.fresh, SubSeq(queue, 1, n), over), fresh \o note, heard)
  BY <1>a
<1> DEFINE attempts == SubSeq(queue, 1, n)
           x == Tried(u.runtime, attempts)
           trials == Changed(u.fresh, attempts, over)
<1>4. Pending(u.fresh) \subseteq Pair
  BY <1>2 DEF Pending
<1>5. ToSet(attempts) \subseteq Pending(u.fresh)
  <2>1. queue \in SetToSeqs(Pending(u.fresh))
    BY DEF ByTurn
  <2>2. queue \in Seq(Pending(u.fresh)) /\ n <= Len(queue) /\ Len(queue) \in Nat
    BY <1>4, <2>1, OrdersAreLists
  <2>3. attempts \in Seq(Pending(u.fresh))
    BY <2>2, SubSeqProperties
  <2>4. QED BY <2>3, LenProperties, ElementOfSeq DEF ToSet
<1>6. /\ IsRuntime(x) /\ x.nextRow = stored.nextRow /\ x.known = u.runtime.known
  <2>1. u.runtime = [known |-> u.runtime.known, seen |-> u.runtime.seen,
                     turns |-> u.runtime.turns, nextRow |-> u.runtime.nextRow]
    BY <1>2 DEF IsRuntime
  <2>2. \E t : x = [u.runtime EXCEPT !.turns = t]
    BY DEF Tried
  <2>3. \E t : x = [known |-> u.runtime.known, seen |-> u.runtime.seen,
                    turns |-> t, nextRow |-> u.runtime.nextRow]
    BY <2>1, <2>2
  <2>4. QED BY <1>2, <2>3 DEF IsRuntime
<1>7. fresh \o note \in Seq(News)
  <2>1. fresh \in Seq(News)
    BY <1>2, OrdersAreLists
  <2>2. note \in Seq(News)
    <3>1. "note" \in News
      BY DEF News
    <3>2. <<"note">> \in Seq(News)
      BY <3>1
    <3>3. <<>> \in Seq(News)
      OBVIOUS
    <3>4. QED BY <3>2, <3>3
  <2>3. QED BY <2>1, <2>2, ConcatProperties
<1>8. \A p \in Pair \cap DOMAIN trials :
          trials[p] \in {"on", "over"} /\ x.known[p] = "new" /\ trial[p] # "over"
  <2> SUFFICES ASSUME NEW p \in Pair, p \in u.fresh \cup ToSet(attempts)
               PROVE  trials[p] \in {"on", "over"} /\ x.known[p] = "new" /\ trial[p] # "over"
    BY DEF Changed
  <2>1. trials[p] \in {"on", "over"}
    BY DEF Changed
  <2>2. CASE p \in u.fresh
    BY <1>2, <1>6, <2>1, <2>2 DEF IInv, TypeOK
  <2>3. CASE p \notin u.fresh
    <3>1. trial[p] = "on"
      BY <1>5, <2>3 DEF Pending
    <3>2. stored.known[p] = "new"
      BY <3>1 DEF IInv
    <3>3. QED BY <1>2, <1>6, <2>1, <3>1, <3>2
  <2>4. QED BY <2>2, <2>3
<1>11. Announces(x, trials, fresh \o note)
  <2>1. note \in Seq(News) /\ \A i \in 1..Len(note) : note[i] \notin Pair
    <3>1. CASE note = <<"note">>
      BY <3>1, DiscoveryAssumption DEF News
    <3>2. CASE note = <<>>
      BY <3>2
    <3>3. QED BY <3>1, <3>2
  <2>2. DOMAIN trials = u.fresh \cup ToSet(attempts)
    BY DEF Changed
  <2>3. \A p \in Pair \cap DOMAIN trials : trial[p] # "none" \/ p \in u.fresh
    BY <1>5, <2>2 DEF Pending
  <2> HIDE DEF x, trials
  <2>4. QED BY <1>1, <1>6, <2>1, <2>2, <2>3, ListAnnounces
<1> HIDE DEF x, trials
<1>9. Owed(x, trials, fresh \o note)
  BY <1>2, <1>6, <1>7, <1>8, <1>11 DEF Owed
<1>10. QED
  BY <1>3, <1>9 DEF x, trials

Scans(r, heard) ==
    Scan(r, heard) \/ ScanSlow(r, heard) \/ ScanFails(r, heard) \/ TrialsUnread(r, heard)

(* So does every other scan. *)
LEMMA ScansOwe ==
    ASSUME IInv, NEW r \in Run, NEW heard \in BOOLEAN, Scans(r, heard)
    PROVE  \E x, trials, news : Owed(x, trials, news) /\ Recorded(r, x, trials, news, heard)
<1>0. At(r, "scan")
  BY DEF Scans, Scan, ScanSlow, ScanFails, TrialsUnread
<1>1. Owned(r)
  <2>1. \A x, trials, news : Recorded(r, x, trials, news, heard) => Owned(r)
    BY DEF Recorded, Save
  <2>2. \A u, n : Markets(r, u, n, heard) => Owned(r)
    BY <2>1, Zenon DEF Markets
  <2>3. QED BY <2>1, <2>2, Zenon DEF Scans, Scan, ScanSlow, ScanFails, TrialsUnread
<1>2. run[r].runtime = stored /\ IsRuntime(stored)
  BY <1>0, <1>1, HeldRuntime DEF At
<1>3. CASE ScanFails(r, heard)
  <2>1. \A news \in Seq(News) : (\A i \in 1..Len(news) : news[i] \notin Pair) => Owed(stored, noTrials, news)
    BY <1>2 DEF Owed, Announces, noTrials
  <2>2. \A news \in {<<"failed">>, <<"note", "failed">>} :
            news \in Seq(News) /\ \A i \in 1..Len(news) : news[i] \notin Pair
    <3>1. "failed" \in News \ Pair /\ "note" \in News \ Pair
      BY DiscoveryAssumption DEF News
    <3>2. <<"failed">> \in Seq(News) /\ \A i \in 1..Len(<<"failed">>) : <<"failed">>[i] \notin Pair
      BY <3>1
    <3>3. /\ <<"note", "failed">> \in Seq(News)
          /\ \A i \in 1..Len(<<"note", "failed">>) : <<"note", "failed">>[i] \notin Pair
      BY <3>1
    <3>4. QED BY <3>2, <3>3
  <2>3. QED BY <1>2, <1>3, <2>1, <2>2 DEF ScanFails
<1>4. CASE TrialsUnread(r, heard)
  <2>a. PICK u \in Universe(stored) : \E fresh \in SetToSeqs(u.fresh) :
            Recorded(r, u.runtime, noTrials, Append(fresh, "failed"), heard)
    BY <1>2, <1>4 DEF TrialsUnread
  <2>1. PICK fresh \in SetToSeqs(u.fresh) :
            Recorded(r, u.runtime, noTrials, Append(fresh, "failed"), heard)
    BY <2>a
  <2>2. fresh \in Seq(News)
    BY <1>2, UniverseGrows, OrdersAreLists
  <2>3. Append(fresh, "failed") \in Seq(News)
    BY <2>2, AppendProperties DEF News
  <2>6. Announces(u.runtime, noTrials, fresh \o <<"failed">>)
    <3>1. "failed" \in News /\ "failed" \notin Pair
      BY DiscoveryAssumption DEF News
    <3> DEFINE rest == <<"failed">>
    <3>2. /\ rest \in Seq(News) /\ Len(rest) = 1 /\ rest[1] = "failed"
          /\ \A i \in 1..Len(rest) : rest[i] \notin Pair
      BY <3>1
    <3>3. \A p \in Pair \cap DOMAIN noTrials : trial[p] # "none" \/ p \in u.fresh
      BY DEF noTrials
    <3> HIDE DEF rest
    <3>4. Announces(u.runtime, noTrials, fresh \o rest)
      BY <1>2, <3>2, <3>3, ListAnnounces
    <3>5. QED BY <3>4 DEF rest
  <2>7. Append(fresh, "failed") = fresh \o <<"failed">>
    BY <2>2, AppendIsConcat DEF News
  <2>4. Owed(u.runtime, noTrials, Append(fresh, "failed"))
    <3>1. Announces(u.runtime, noTrials, Append(fresh, "failed"))
      BY <2>6, <2>7
    <3>2. QED BY <1>2, <2>3, <3>1, UniverseGrows DEF Owed, noTrials
  <2>5. QED BY <2>1, <2>4
<1>5. CASE Scan(r, heard)
  <2>1. PICK u \in Universe(stored) :
            Markets(r, u, IF Cardinality(Pending(u.fresh)) < MarketsPerRun
                          THEN Cardinality(Pending(u.fresh)) ELSE MarketsPerRun, heard)
    BY <1>2, <1>5 DEF Scan
  <2>2. Cardinality(Pending(u.fresh)) \in Nat
    BY <1>2, UniverseGrows, FS_Subset, FS_CardinalityType, DiscoveryAssumption DEF Pending
  <2> DEFINE n == IF Cardinality(Pending(u.fresh)) < MarketsPerRun
                  THEN Cardinality(Pending(u.fresh)) ELSE MarketsPerRun
  <2>3. n \in Nat /\ n <= Cardinality(Pending(u.fresh))
    BY <2>2, DiscoveryAssumption
  <2>4. Markets(r, u, n, heard)
    BY <2>1
  <2> HIDE DEF n
  <2>5. QED BY <1>2, <2>3, <2>4, MarketsOwe
<1>6. CASE ScanSlow(r, heard)
  <2>1. PICK u \in Universe(stored) : \E n \in 0..MarketsPerRun - 1 :
            n < Cardinality(Pending(u.fresh)) /\ Markets(r, u, n, heard)
    BY <1>2, <1>6 DEF ScanSlow
  <2>2. Cardinality(Pending(u.fresh)) \in Nat
    BY <1>2, UniverseGrows, FS_Subset, FS_CardinalityType, DiscoveryAssumption DEF Pending
  <2>3. PICK n \in 0..MarketsPerRun - 1 : n < Cardinality(Pending(u.fresh)) /\ Markets(r, u, n, heard)
    BY <2>1
  <2>4. n \in Nat /\ n <= Cardinality(Pending(u.fresh))
    BY <2>2, <2>3, DiscoveryAssumption
  <2>5. QED BY <1>2, <2>3, <2>4, MarketsOwe
<1>7. QED
  BY <1>3, <1>4, <1>5, <1>6 DEF Scans

(* No step of the export and of its surroundings touches what is stored. *)
Learnt(p) ==
    /\ stored.known[p] # "no" => stored'.known[p] = stored.known[p]
    /\ trial[p] # "none" => trial'[p] # "none"
    /\ trial[p] = "over" => trial'[p] = "over"

Stores(r) ==
    \/ Close(r)
    \/ \E heard \in BOOLEAN : Stamp(r, heard) \/ Scans(r, heard)

LEMMA StoresOwe ==
    ASSUME IInv, NEW r \in Run, Stores(r)
    PROVE  \E x, trials, news : Owed(x, trials, news) /\ Save(r, x, trials, news) /\ GoesOn(r)
<1>1. CASE Close(r)
  <2>1. run[r].runtime = stored /\ IsRuntime(stored)
    BY <1>1, HeldRuntime DEF Close, At, Save
  <2>2. Owed(stored, noTrials, <<>>)
    BY <2>1 DEF Owed, Announces, noTrials
  <2>3. GoesOn(r)
    BY <1>1, SavedGoesOn DEF Close, IInv, TypeOK
  <2>4. QED BY <1>1, <2>1, <2>2, <2>3 DEF Close
<1>2. ASSUME NEW heard \in BOOLEAN, Stamp(r, heard)
      PROVE  \E x, trials, news : Owed(x, trials, news) /\ Save(r, x, trials, news) /\ GoesOn(r)
  <2>1. run[r].runtime = stored /\ IsRuntime(stored)
    BY <1>2, HeldRuntime DEF Stamp, At, Save
  <2>2. Owed(stored, noTrials, <<>>)
    BY <2>1 DEF Owed, Announces, noTrials
  <2>3. Saved(r, "scan", heard) /\ recent' \in BOOLEAN
    BY <1>2, Zenon DEF Stamp
  <2>4. GoesOn(r)
    BY <2>3, SavedGoesOn DEF IInv
  <2>5. QED BY <1>2, <2>1, <2>2, <2>4 DEF Stamp
<1>3. ASSUME NEW heard \in BOOLEAN, Scans(r, heard)
      PROVE  \E x, trials, news : Owed(x, trials, news) /\ Save(r, x, trials, news) /\ GoesOn(r)
  <2>1. PICK x, trials, news : Owed(x, trials, news) /\ Recorded(r, x, trials, news, heard)
    BY <1>3, ScansOwe
  <2>2. Save(r, x, trials, news) /\ Saved(r, "export", heard) /\ recent' \in BOOLEAN
    BY <2>1 DEF Recorded, IInv, TypeOK
  <2>3. GoesOn(r)
    BY <2>2, SavedGoesOn DEF IInv
  <2>4. QED BY <2>1, <2>2, <2>3
<1>4. QED BY <1>1, <1>2, <1>3 DEF Stores

LEMMA StoresKeeps ==
    ASSUME IInv, NEW r \in Run, Stores(r)
    PROVE  IInv' /\ sheet' = sheet /\ \A p \in Pair : Learnt(p)
<1>2. PICK x, trials, news : Owed(x, trials, news) /\ Save(r, x, trials, news) /\ GoesOn(r)
  BY StoresOwe
<1>3. IInv'
  BY <1>2, SaveKeeps
<1>4. \A p \in Pair : Learnt(p)
  BY <1>2, SaveForgetsNothing DEF Learnt
<1>5. QED
  BY <1>2, <1>3, <1>4 DEF Save

(* A run that moves on, within its work on the stored runtime, and with a batch *)
(* that is in the sheet, or free of what others have typed, where it has to be. *)
LEMMA MoveKeeps ==
    ASSUME IInv, NEW r \in Run, NEW pc \in PC, NEW x, NEW b \in SUBSET DOMAIN journal,
           Move(r, pc, x, b), UNCHANGED <<stored, trial, journal, sheet>>,
           recent' \in BOOLEAN, lock' \in {lock, None} \/ (lock' = r /\ pc = "begin"),
           \/ pc \in {"idle", "begin", "release"} \/ x = stored
           \/ x = run[r].runtime /\ run[r].pc \notin {"idle", "begin", "release"},
           pc = "acknowledge" => \A i \in b : sheet[journal[i].row] = i,
           pc = "write" => \A i \in b : sheet[journal[i].row] # Typed,
           flying' \subseteq SUBSET DOMAIN journal,
           \A f \in flying' : \A i \in f : sheet[journal[i].row] # Typed
    PROVE  IInv'
<1>1. run' = [run EXCEPT ![r] = [pc |-> pc, runtime |-> x, batch |-> b]]
  BY DEF Move
<1>2. /\ DOMAIN run' = Run /\ \A q \in Run \ {r} : run'[q] = run[q]
      /\ run'[r] = [pc |-> pc, runtime |-> x, batch |-> b]
  BY <1>1 DEF IInv, TypeOK
<1>3. \A q \in Run : IsRun(run[q])'
  BY <1>2 DEF IInv, TypeOK, IsRun
<1>4. TypeOK'
  <2>1. IsRuntime(stored)'
    BY DEF IInv, TypeOK, IsRuntime
  <2>2. (journal \in Seq([what : News, row : Row, synced : BOOLEAN]))'
    BY DEF IInv, TypeOK
  <2>3. (trial \in [Pair -> {"none", "on", "over"}])' /\ (sheet \in [Row -> Int])'
    BY DEF IInv, TypeOK
  <2>4. lock' \in Run \cup {None}
    BY DEF IInv, TypeOK
  <2>5. QED BY <1>2, <1>3, <2>1, <2>2, <2>3, <2>4 DEF TypeOK
<1>5. HolderIsCurrent'
  BY <1>2, DiscoveryAssumption DEF IInv, TypeOK, HolderIsCurrent, Owned
<1>6. BatchesAreSafe'
  BY <1>2 DEF IInv, BatchesAreSafe, At
<1>7. OneRowEach' /\ SyncedIsInSheet' /\ \A p \in Pair : trial'[p] # "none" => stored'.known[p] = "new"
  BY DEF IInv, OneRowEach, SyncedIsInSheet
<1>8. QED
  BY <1>4, <1>5, <1>6, <1>7 DEF IInv

(* The steps of a run that change neither what is stored nor the sheet. *)
Moves(r) ==
    \/ Start(r) \/ Begin(r) \/ Release(r) \/ Stop(r) \/ Throws(r) \/ Export(r) \/ NoExport(r)
    \/ Check(r) \/ WriteUnheard(r) \/ Verify(r) \/ ExportFails(r)

LEMMA MovesKeep ==
    ASSUME IInv, NEW r \in Run, Moves(r)
    PROVE  IInv' /\ UNCHANGED <<stored, trial, journal, sheet>>
<1> UNCHANGED <<stored, trial, journal, sheet>>
  BY DEF Moves, Start, Begin, Release, Stop, Throws, Export, NoExport, Check, WriteUnheard, Verify,
         ExportFails
<1>1. recent' \in BOOLEAN
  BY Zenon DEF IInv, TypeOK, Moves, Start, Begin, Release, Stop, Throws, Export, NoExport, Check,
               WriteUnheard, Verify, ExportFails
<1>2. /\ flying \subseteq SUBSET DOMAIN journal
      /\ \A f \in flying : \A i \in f : sheet[journal[i].row] # Typed
  BY DEF IInv, TypeOK, BatchesAreSafe
<1>3. run[r].batch \in SUBSET DOMAIN journal /\ {} \in SUBSET DOMAIN journal
  BY DEF IInv, TypeOK, IsRun
<1>4. CASE Start(r)
  BY <1>1, <1>2, <1>3, <1>4, MoveKeeps DEF Start, Goto, PC
<1>5. CASE Begin(r)
  <2>1. CASE Finally(r)
    BY <1>1, <1>2, <1>3, <1>5, <2>1, MoveKeeps DEF Begin, Finally, PC
  <2>2. CASE Move(r, "stamp", stored, {})
    BY <1>1, <1>2, <1>3, <1>5, <2>2, MoveKeeps DEF Begin, PC
  <2>3. QED BY <1>5, <2>1, <2>2 DEF Begin
<1>6. CASE Release(r)
  BY <1>1, <1>2, <1>3, <1>6, MoveKeeps DEF Release, End, PC
<1>7. CASE Stop(r)
  BY <1>1, <1>2, <1>3, <1>7, MoveKeeps DEF Stop, End, PC
<1>8. CASE Throws(r) \/ NoExport(r)
  BY <1>1, <1>2, <1>3, <1>8, MoveKeeps DEF Throws, NoExport, Finally, PC
<1>9. CASE Export(r)
  <2>1. CASE Finally(r)
    BY <1>1, <1>2, <1>3, <1>9, <2>1, MoveKeeps DEF Export, Finally, PC
  <2>2. CASE Move(r, "check", run[r].runtime, NextBatch)
    <3>1. NextBatch \in SUBSET DOMAIN journal
      BY DEF NextBatch, Unsynced
    <3>2. QED BY <1>1, <1>2, <1>9, <2>2, <3>1, MoveKeeps DEF Export, At, PC
  <2>3. QED BY <1>9, <2>1, <2>2 DEF Export
<1>10. ASSUME GiveUp(r), run[r].pc \in {"check", "write", "verify", "acknowledge"},
              UNCHANGED lock, flying' \in {flying, flying \cup {run[r].batch}},
              flying' # flying => run[r].pc = "write"
       PROVE  IInv'
  <2>1. run[r].pc = "write" => \A i \in run[r].batch : sheet[journal[i].row] # Typed
    BY DEF IInv, BatchesAreSafe, At
  <2>2. /\ flying' \subseteq SUBSET DOMAIN journal
        /\ \A f \in flying' : \A i \in f : sheet[journal[i].row] # Typed
    BY <1>2, <1>3, <1>10, <2>1
  <2>3. QED BY <1>1, <1>3, <1>10, <2>2, MoveKeeps DEF GiveUp, PC
<1>11. CASE WriteUnheard(r) \/ ExportFails(r)
  BY <1>10, <1>11 DEF WriteUnheard, ExportFails, At
<1>12. CASE Check(r)
  <2>1. CASE SharedRow(run[r].batch) \/ Conflict(run[r].batch)
    BY <1>10, <1>12, <2>1 DEF Check, At
  <2>2. CASE ~(SharedRow(run[r].batch) \/ Conflict(run[r].batch))
    <3>1. \A i \in run[r].batch : i \in Nat
      BY <1>3, LenProperties DEF IInv, TypeOK
    <3>2. \A i \in run[r].batch : sheet[journal[i].row] # Typed
      BY <2>2, <3>1 DEF Conflict, Empty, Typed
    <3>3. QED BY <1>1, <1>2, <1>3, <1>12, <2>2, <3>2, MoveKeeps DEF Check, Goto, At, PC
  <2>3. QED BY <2>1, <2>2
<1>13. CASE Verify(r)
  <2>1. CASE \A i \in run[r].batch : sheet[journal[i].row] = i
    BY <1>1, <1>2, <1>3, <1>13, <2>1, MoveKeeps DEF Verify, Goto, At, PC
  <2>2. CASE ~(\A i \in run[r].batch : sheet[journal[i].row] = i)
    BY <1>10, <1>13, <2>2 DEF Verify, At
  <2>3. QED BY <2>1, <2>2
<1>14. QED
  BY <1>4, <1>5, <1>6, <1>7, <1>8, <1>9, <1>11, <1>12, <1>13 DEF Moves

(* A batch of events that lands in the sheet leaves every event that is there    *)
(* where it is, as no other has its row, and nothing typed by others is replaced. *)
LEMMA LandKeeps ==
    ASSUME IInv, NEW b \in SUBSET DOMAIN journal, Land(b),
           \A i \in b : sheet[journal[i].row] # Typed
    PROVE  /\ sheet' \in [Row -> Int]
           /\ \A i \in b : sheet'[journal[i].row] = i
           /\ \A i \in DOMAIN journal : sheet[journal[i].row] = i => sheet'[journal[i].row] = i
           /\ \A k \in Row : sheet'[k] = Typed <=> sheet[k] = Typed
<1>1. \A i \in DOMAIN journal : i \in Nat /\ i # Typed /\ journal[i].row \in Row
  <2>1. journal \in Seq(Event)
    BY DEF IInv, TypeOK, Event
  <2>2. \A i \in DOMAIN journal : i \in Nat /\ journal[i] \in Event
    BY <2>1, LenProperties, ElementOfSeq
  <2>3. QED BY <2>2 DEF Event, Typed
<1>2. \A i, j \in DOMAIN journal : journal[i].row = journal[j].row => i = j
  BY DEF IInv, OneRowEach
<1>3. \A i \in b : sheet'[journal[i].row] = i
  <2> TAKE i \in b
  <2>1. journal[i].row \in Row
    BY <1>1
  <2>2. sheet'[journal[i].row] = CHOOSE j \in b : journal[j].row = journal[i].row
    BY <2>1 DEF Land
  <2>3. (CHOOSE j \in b : journal[j].row = journal[i].row) = i
    BY <1>2
  <2>4. QED BY <2>2, <2>3
<1>4. \A k \in Row : (\A i \in b : journal[i].row # k) => sheet'[k] = sheet[k]
  BY DEF Land
<1>5. sheet \in [Row -> Int] /\ DOMAIN sheet' = Row
  BY DEF IInv, TypeOK, Land
<1>6. \A k \in Row : sheet'[k] \in Int
  BY <1>1, <1>3, <1>4, <1>5
<1>7. sheet' \in [Row -> Int]
  <2>1. sheet' = [k \in Row |-> sheet'[k]]
    BY DEF Land
  <2>2. QED BY <1>6, <2>1
<1>8. QED
  BY <1>1, <1>2, <1>3, <1>4, <1>7

(* The steps that change the sheet. *)
LEMMA SheetKeeps ==
    ASSUME IInv,
           \/ \E r \in Run : Write(r)
           \/ WriteLate
           \/ TypeByHand
    PROVE  IInv' /\ UNCHANGED <<stored, trial>> /\ \A k \in Row : sheet[k] = Typed => sheet'[k] = Typed
<1>0. UNCHANGED <<lock, recent, stored, trial, journal>>
  BY DEF Write, WriteLate, TypeByHand
<1>1. \A i \in DOMAIN journal : journal[i].row \in Row /\ i # Empty
  <2>1. journal \in Seq(Event)
    BY DEF IInv, TypeOK, Event
  <2>2. DOMAIN journal = 1..Len(journal) /\ Len(journal) \in Nat
    BY <2>1, LenProperties
  <2>3. \A i \in DOMAIN journal : journal[i] \in Event
    BY <2>1, <2>2, ElementOfSeq
  <2>4. QED BY <2>2, <2>3 DEF Event, Empty
<1>2. ASSUME sheet' \in [Row -> Int],
             \A i \in DOMAIN journal : sheet[journal[i].row] = i => sheet'[journal[i].row] = i,
             flying' \subseteq flying,
             DOMAIN run' = Run,
             \A q \in Run : /\ IsRun(run'[q]) /\ run'[q].batch = run[q].batch
                            /\ run'[q].runtime = run[q].runtime
                            /\ \/ run'[q].pc = run[q].pc
                               \/ run'[q].pc = "verify" /\ run[q].pc = "write",
             \A f \in flying' : \A i \in f : sheet'[journal[i].row] # Typed,
             \A q \in Run : run'[q].pc = "write" => \A i \in run[q].batch : sheet'[journal[i].row] # Typed
      PROVE  IInv'
  <2>1. TypeOK'
    BY <1>0, <1>2 DEF IInv, TypeOK, IsRuntime, IsRun
  <2>2. OneRowEach' /\ HolderIsCurrent' /\ \A p \in Pair : trial'[p] # "none" => stored'.known[p] = "new"
    BY <1>0, <1>2 DEF IInv, OneRowEach, HolderIsCurrent, Owned
  <2>3. SyncedIsInSheet'
    BY <1>0, <1>2 DEF IInv, SyncedIsInSheet
  <2>4. \A q \in Run : run[q].batch \subseteq DOMAIN journal
    BY DEF IInv, TypeOK, IsRun
  <2>5. BatchesAreSafe'
    BY <1>0, <1>2, <2>4 DEF IInv, BatchesAreSafe, At
  <2>6. QED BY <2>1, <2>2, <2>3, <2>5 DEF IInv
<1>3. /\ DOMAIN run = Run /\ \A q \in Run : IsRun(run[q]) /\ run[q].batch \in SUBSET DOMAIN journal
      /\ flying \subseteq SUBSET DOMAIN journal
      /\ \A f \in flying : \A i \in f : sheet[journal[i].row] # Typed
      /\ \A q \in Run : run[q].pc = "write" => \A i \in run[q].batch : sheet[journal[i].row] # Typed
  BY DEF IInv, TypeOK, IsRun, BatchesAreSafe, At
<1>4. ASSUME NEW r \in Run, Write(r)
      PROVE  IInv' /\ \A k \in Row : sheet[k] = Typed => sheet'[k] = Typed
  <2>1. /\ sheet' \in [Row -> Int]
        /\ \A i \in DOMAIN journal : sheet[journal[i].row] = i => sheet'[journal[i].row] = i
        /\ \A k \in Row : sheet'[k] = Typed <=> sheet[k] = Typed
    BY <1>3, <1>4, LandKeeps DEF Write, At
  <2>2. run' = [run EXCEPT ![r] = [pc |-> "verify", runtime |-> run[r].runtime, batch |-> run[r].batch]]
    BY <1>4 DEF Write, Goto, Move
  <2>3. /\ DOMAIN run' = Run /\ \A q \in Run \ {r} : run'[q] = run[q]
        /\ run'[r] = [pc |-> "verify", runtime |-> run[r].runtime, batch |-> run[r].batch]
        /\ run[r].pc = "write"
    BY <1>3, <1>4, <2>2 DEF Write, At
  <2>4. \A q \in Run : /\ IsRun(run'[q]) /\ run'[q].batch = run[q].batch
                       /\ run'[q].runtime = run[q].runtime
                       /\ \/ run'[q].pc = run[q].pc
                          \/ run'[q].pc = "verify" /\ run[q].pc = "write"
    BY <1>3, <2>3 DEF IsRun, PC
  <2>5. /\ flying' = flying
        /\ \A f \in flying : \A i \in f : sheet'[journal[i].row] # Typed
        /\ \A q \in Run : run'[q].pc = "write" => \A i \in run[q].batch : sheet'[journal[i].row] # Typed
    BY <1>1, <1>3, <1>4, <2>1, <2>3 DEF Write
  <2>6. QED BY <1>2, <2>1, <2>3, <2>4, <2>5
<1>5. CASE WriteLate
  <2>1. PICK b \in flying : Land(b) /\ flying' = flying \ {b} /\ run' = run
    BY <1>5 DEF WriteLate
  <2>2. /\ sheet' \in [Row -> Int]
        /\ \A i \in DOMAIN journal : sheet[journal[i].row] = i => sheet'[journal[i].row] = i
        /\ \A k \in Row : sheet'[k] = Typed <=> sheet[k] = Typed
    BY <1>3, <2>1, LandKeeps
  <2>3. /\ \A f \in flying' : \A i \in f : sheet'[journal[i].row] # Typed
        /\ \A q \in Run : run'[q].pc = "write" => \A i \in run[q].batch : sheet'[journal[i].row] # Typed
    BY <1>1, <1>3, <2>1, <2>2
  <2>4. IInv'
    BY <1>2, <1>3, <2>1, <2>2, <2>3
  <2>5. QED BY <1>0, <2>2, <2>4
<1>6. CASE TypeByHand
  <2>1. PICK k \in Row : sheet[k] = Empty /\ sheet' = [sheet EXCEPT ![k] = Typed]
    BY <1>6 DEF TypeByHand
  <2>2. /\ sheet' \in [Row -> Int] /\ flying = {} /\ flying' = flying /\ run' = run
        /\ \A q \in Run : run[q].pc \notin {"write", "acknowledge"}
    BY <1>6, <2>1 DEF TypeByHand, IInv, TypeOK, Typed
  <2>3. \A i \in DOMAIN journal : sheet[journal[i].row] = i => sheet'[journal[i].row] = i
    BY <1>1, <2>1 DEF IInv, TypeOK
  <2>4. IInv'
    BY <1>2, <1>3, <2>2, <2>3
  <2>5. \A j \in Row : sheet[j] = Typed => sheet'[j] = Typed
    BY <2>1 DEF IInv, TypeOK
  <2>6. QED BY <1>0, <2>4, <2>5
<1>7. QED
  BY <1>0, <1>4, <1>5, <1>6

LEMMA AcknowledgeKeeps ==
    ASSUME IInv, NEW r \in Run, Acknowledge(r)
    PROVE  IInv' /\ UNCHANGED <<stored, trial, sheet>>
<1> DEFINE marked(i) == [journal[i] EXCEPT !.synced = @ \/ i \in run[r].batch]
<1>1. journal \in Seq(Event) /\ DOMAIN journal = 1..Len(journal) /\ Len(journal) \in Nat
  BY LenProperties DEF IInv, TypeOK, Event
<1>2. \A i \in DOMAIN journal : journal[i] \in Event
  BY <1>1, ElementOfSeq
<1>3. \A i \in DOMAIN journal :
          /\ marked(i) \in Event
          /\ marked(i).row = journal[i].row
          /\ marked(i).synced => journal[i].synced \/ i \in run[r].batch
  <2> TAKE i \in DOMAIN journal
  <2>1. journal[i] = [what |-> journal[i].what, row |-> journal[i].row, synced |-> journal[i].synced]
        /\ journal[i].what \in News /\ journal[i].row \in Row
    BY <1>2 DEF Event
  <2> DEFINE s == journal[i].synced \/ i \in run[r].batch
  <2>2. s \in BOOLEAN
    BY Zenon
  <2>3. marked(i) = [journal[i] EXCEPT !.synced = s]
    BY Zenon
  <2> HIDE DEF s
  <2>4. [journal[i] EXCEPT !.synced = s] = [what |-> journal[i].what, row |-> journal[i].row, synced |-> s]
    BY <2>1
  <2>5. marked(i) = [what |-> journal[i].what, row |-> journal[i].row, synced |-> s]
    BY <2>3, <2>4, Zenon
  <2> HIDE DEF marked
  <2>6. marked(i) \in Event /\ marked(i).row = journal[i].row /\ marked(i).synced = s
    BY <2>1, <2>2, <2>5 DEF Event
  <2>7. QED BY <2>6 DEF s
<1>4. journal' = [i \in DOMAIN journal |-> marked(i)]
  BY Zenon DEF Acknowledge
<1> HIDE DEF marked
<1>5. DOMAIN journal' = DOMAIN journal /\ \A i \in DOMAIN journal : journal'[i] = marked(i)
  BY <1>4
<1>6. journal' \in Seq(Event)
  BY <1>1, <1>3, <1>4, IsASeq
<1>7. UNCHANGED <<lock, recent, stored, trial, sheet, flying>>
  BY DEF Acknowledge
<1>8. run' = [run EXCEPT ![r] = [pc |-> "close", runtime |-> run[r].runtime, batch |-> {}]]
  BY DEF Acknowledge, GiveUp, Move
<1>9. /\ DOMAIN run' = Run /\ \A q \in Run \ {r} : run'[q] = run[q]
      /\ run'[r] = [pc |-> "close", runtime |-> run[r].runtime, batch |-> {}]
      /\ run[r].pc = "acknowledge"
  BY <1>8 DEF IInv, TypeOK, Acknowledge, At
<1>10. TypeOK'
  <2>1. \A q \in Run : IsRun(run[q])'
    BY <1>5, <1>9 DEF IInv, TypeOK, IsRun, PC
  <2>2. IsRuntime(stored)'
    BY <1>7 DEF IInv, TypeOK, IsRuntime
  <2>3. QED BY <1>5, <1>6, <1>7, <1>9, <2>1, <2>2 DEF IInv, TypeOK, Event
<1>11. OneRowEach'
  BY <1>3, <1>5, <1>7 DEF IInv, OneRowEach
<1>12. SyncedIsInSheet'
  <2>1. \A i \in run[r].batch : sheet[journal[i].row] = i
    BY <1>9 DEF IInv, BatchesAreSafe, At
  <2>2. QED BY <1>3, <1>5, <1>7, <2>1 DEF IInv, SyncedIsInSheet
<1>13. HolderIsCurrent'
  BY <1>7, <1>9 DEF IInv, HolderIsCurrent, Owned
<1>14. BatchesAreSafe'
  <2>1. \A q \in Run : run[q].batch \subseteq DOMAIN journal
    BY DEF IInv, TypeOK, IsRun
  <2>2. flying \subseteq SUBSET DOMAIN journal
    BY DEF IInv, TypeOK
  <2>3. QED BY <1>3, <1>5, <1>7, <1>9, <2>1, <2>2 DEF IInv, BatchesAreSafe, At
<1>15. QED
  BY <1>7, <1>10, <1>11, <1>12, <1>13, <1>14 DEF IInv

(* The lease expires, or the minute of the throttle is over. *)
LEMMA TimePassing ==
    ASSUME IInv, Expire \/ MinutePasses \/ UNCHANGED vars
    PROVE  IInv' /\ UNCHANGED <<stored, trial, journal, sheet>>
<1>1. /\ UNCHANGED <<stored, trial, journal, sheet, flying, run>>
      /\ lock' \in {lock, None}
  BY DEF Expire, MinutePasses, vars
<1>2. recent' \in BOOLEAN
  BY Zenon DEF Expire, MinutePasses, vars, IInv, TypeOK
<1>3. TypeOK'
  BY <1>1, <1>2 DEF IInv, TypeOK, IsRuntime, IsRun
<1>4. HolderIsCurrent'
  BY <1>1, DiscoveryAssumption DEF IInv, HolderIsCurrent, Owned
<1>5. QED
  BY <1>1, <1>3, <1>4 DEF IInv, OneRowEach, SyncedIsInSheet, BatchesAreSafe, At

(* The steps of the system, by what they change. *)
LEMMA StepsByKind ==
    ASSUME Next
    PROVE  \/ \E r \in Run : Stores(r) \/ Moves(r) \/ Write(r) \/ Acknowledge(r)
           \/ WriteLate \/ TypeByHand \/ Expire \/ MinutePasses
BY Zenon DEF Next, Running, Step, Failure, LeaseLost, Stores, Scans, Moves

LEMMA StepKeeps ==
    ASSUME IInv, [Next]_vars
    PROVE  /\ IInv'
           /\ \A p \in Pair : Learnt(p)
           /\ \A k \in Row : sheet[k] = Typed => sheet'[k] = Typed
<1>1. UNCHANGED <<stored, trial>> => \A p \in Pair : Learnt(p)
  BY DEF Learnt
<1>2. ASSUME NEW r \in Run, Stores(r)
      PROVE  IInv' /\ sheet' = sheet /\ \A p \in Pair : Learnt(p)
  BY <1>2, StoresKeeps
<1>3. ASSUME NEW r \in Run, Moves(r)
      PROVE  IInv' /\ UNCHANGED <<stored, trial, sheet>>
  BY <1>3, MovesKeep
<1>4. ASSUME NEW r \in Run, Acknowledge(r)
      PROVE  IInv' /\ UNCHANGED <<stored, trial, sheet>>
  BY <1>4, AcknowledgeKeeps
<1>5. CASE (\E r \in Run : Write(r)) \/ WriteLate \/ TypeByHand
  BY <1>1, <1>5, SheetKeeps
<1>6. CASE Expire \/ MinutePasses \/ UNCHANGED vars
  BY <1>1, <1>6, TimePassing
<1>7. QED
  BY <1>1, <1>2, <1>3, <1>4, <1>5, <1>6, StepsByKind

-----------------------------------------------------------------------------

(* However runs overlap, stall, fail or lose their lease, the inductive        *)
(* invariant of the monitor holds: it is what the next four theorems rest on.   *)
THEOREM DiscoveryInvariance == Spec => []IInv
<1>1. IInv /\ [Next]_vars => IInv'
  BY StepKeeps
<1>2. QED
  BY Initially, <1>1, PTL DEF Spec

(* Every event of the journal has a row of the sheet to itself, and the next     *)
(* row that save() will give away is above all of them.                          *)
THEOREM RowsForGood == Spec => []OneRowEach
<1>1. IInv => OneRowEach
  BY DEF IInv
<1>2. QED
  BY DiscoveryInvariance, <1>1, PTL

(* What acknowledge() has marked as exported stands in the sheet in its own row, *)
(* although writes that were given up may still land at any later time.           *)
THEOREM ExportedIsInSheet == Spec => []SyncedIsInSheet
<1>1. IInv => SyncedIsInSheet
  BY DEF IInv
<1>2. QED
  BY DiscoveryInvariance, <1>1, PTL

(* No save() takes back what an earlier one has learnt, whichever run makes it:  *)
(* a known pair stays what it is, a trial stays begun, and one that is over over. *)
THEOREM NothingIsForgotten == Spec => NothingForgotten
<1>1. IInv /\ [Next]_vars =>
          [\A p \in Pair :
              /\ stored.known[p] # "no" => stored'.known[p] = stored.known[p]
              /\ trial[p] # "none" => trial'[p] # "none"
              /\ trial[p] = "over" => trial'[p] = "over"]_vars
  BY StepKeeps DEF Learnt
<1>2. QED
  BY DiscoveryInvariance, <1>1, PTL DEF Spec, NothingForgotten

(* syncSheetEvents() never replaces what someone has typed into the first column  *)
(* of a row, as long as nobody types while an export is under way.                *)
THEOREM TypedSurvives == Spec => TypedIsKept
<1>1. IInv /\ [Next]_vars => [\A k \in Row : sheet[k] = Typed => sheet'[k] = Typed]_vars
  BY StepKeeps
<1>2. QED
  BY DiscoveryInvariance, <1>1, PTL DEF Spec, TypedIsKept

-----------------------------------------------------------------------------
(* AnnouncedOnce without its cardinalities: a pair has at most one announcement, *)
(* and has one just when it is known as new.                                     *)
Announced ==
    \A p \in Pair :
        /\ \A i, j \in DOMAIN journal : journal[i].what = p /\ journal[j].what = p => i = j
        /\ (\E i \in DOMAIN journal : journal[i].what = p) <=> stored.known[p] = "new"

NInv == IInv /\ Announced /\ TrialsOfNewPairs

LEMMA SaveAnnounces ==
    ASSUME NInv, NEW r \in Run, NEW x, NEW trials, NEW news,
           Owed(x, trials, news), Save(r, x, trials, news)
    PROVE  Announced' /\ TrialsOfNewPairs'
<1> DEFINE n == Len(journal)
<1> news \in Seq(News) /\ IsRuntime(x)
  BY DEF Owed
<1>1. /\ Len(journal') = n + Len(news)
      /\ \A i \in 1..n : journal'[i] = journal[i]
      /\ \A i \in 1..Len(news) : journal'[n + i].what = news[i]
      /\ journal' \in Seq(Event)
  <2>1. /\ Len(journal') = n + Len(news)
        /\ \A i \in 1..n : journal'[i] = journal[i]
        /\ \A i \in 1..Len(news) :
               journal'[n + i] = [what |-> news[i], row |-> x.nextRow + i - 1, synced |-> FALSE]
        /\ journal' \in Seq(Event)
    BY SaveAppends DEF NInv, IInv
  <2> HIDE DEF n
  <2>2. ASSUME NEW i \in 1..Len(news) PROVE journal'[n + i].what = news[i]
    <3>1. journal'[n + i] = [what |-> news[i], row |-> x.nextRow + i - 1, synced |-> FALSE]
      BY <2>1
    <3>2. QED BY <3>1
  <2>3. QED BY <2>1, <2>2
<1>2. /\ DOMAIN journal = 1..n /\ DOMAIN journal' = 1..n + Len(news)
      /\ n \in Nat /\ Len(news) \in Nat
  BY <1>1, LenProperties DEF NInv, IInv, TypeOK, Event
<1>3. \A i \in 1..n + Len(news) : i \notin 1..n =>
          i - n \in 1..Len(news) /\ n + (i - n) = i
  BY <1>2
<1> HIDE DEF n
<1>4. \A i \in 1..n + Len(news) : i \notin 1..n => i - n \in 1..Len(news) /\ journal'[i].what = news[i - n]
  BY <1>1, <1>3
<1>5. \A i \in 1..Len(news) : n + i \in 1..n + Len(news) /\ n + i \notin 1..n
  BY <1>2
<1>6. stored'.known = x.known
  <2>1. stored' = [x EXCEPT !.nextRow = x.nextRow + Len(news)]
    BY DEF Save
  <2>2. QED BY <2>1 DEF IsRuntime
<1>7. trial' = [p \in Pair |-> IF p \in DOMAIN trials THEN trials[p] ELSE trial[p]]
  BY DEF Save
<1>8. /\ \A p \in Pair : stored.known[p] # "no" => x.known[p] = stored.known[p]
      /\ \A p \in Pair \cap DOMAIN trials : trials[p] # "none"
      /\ \A p \in Pair : stored.known[p] \in {"no", "baseline", "new"}
  BY DEF Owed, NInv, IInv, TypeOK, IsRuntime
<1>9. \A i \in 1..Len(news) : news[i] \in Pair =>
          /\ stored.known[news[i]] = "no" /\ x.known[news[i]] = "new"
          /\ \A j \in 1..Len(news) : news[j] = news[i] => j = i
          /\ \/ news[i] \in DOMAIN trials
             \/ \E j \in 1..Len(news) :
                    i < j /\ news[j] = "failed" /\ \A k \in i..j - 1 : news[k] \in Pair
  BY DEF Owed, Announces
<1>10. /\ \A p \in Pair : stored.known[p] = "no" /\ x.known[p] = "new" => \E i \in 1..Len(news) : news[i] = p
       /\ \A p \in Pair \cap DOMAIN trials : trial[p] # "none" \/ \E i \in 1..Len(news) : news[i] = p
  BY DEF Owed, Announces
<1>11. Announced'
  <2> SUFFICES ASSUME NEW p \in Pair
               PROVE  /\ \A i, j \in DOMAIN journal' : journal'[i].what = p /\ journal'[j].what = p => i = j
                      /\ (\E i \in DOMAIN journal' : journal'[i].what = p) <=> stored'.known[p] = "new"
    BY DEF Announced
  <2>1. /\ \A i, j \in 1..n : journal[i].what = p /\ journal[j].what = p => i = j
        /\ (\E i \in 1..n : journal[i].what = p) <=> stored.known[p] = "new"
    BY <1>2 DEF NInv, Announced
  <2>2. ASSUME NEW i \in 1..n + Len(news), NEW j \in 1..n + Len(news),
               journal'[i].what = p, journal'[j].what = p
        PROVE  i = j
    <3>1. CASE i \in 1..n /\ j \in 1..n
      BY <1>1, <2>1, <2>2, <3>1
    <3>2. CASE (i \in 1..n /\ j \notin 1..n) \/ (i \notin 1..n /\ j \in 1..n)
      BY <1>1, <1>4, <1>9, <2>1, <2>2, <3>2
    <3>3. CASE i \notin 1..n /\ j \notin 1..n
      <4>1. i - n = j - n
        BY <1>4, <1>9, <2>2, <3>3
      <4>2. QED BY <1>2, <4>1
    <3>4. QED BY <3>1, <3>2, <3>3
  <2>3. (\E i \in 1..n + Len(news) : journal'[i].what = p) => x.known[p] = "new"
    BY <1>1, <1>4, <1>8, <1>9, <2>1
  <2>4. x.known[p] = "new" => \E i \in 1..n + Len(news) : journal'[i].what = p
    <3>1. CASE stored.known[p] = "new"
      <4>1. PICK i \in 1..n : journal[i].what = p
        BY <2>1, <3>1
      <4>2. i \in 1..n + Len(news) /\ journal'[i].what = p
        BY <1>1, <1>2, <4>1
      <4>3. QED BY <4>2
    <3>2. CASE stored.known[p] = "no" /\ x.known[p] = "new"
      <4>1. PICK i \in 1..Len(news) : news[i] = p
        BY <1>10, <3>2
      <4>2. n + i \in 1..n + Len(news) /\ journal'[n + i].what = p
        BY <1>1, <1>5, <4>1
      <4>3. QED BY <4>2
    <3>3. QED BY <1>8, <3>1, <3>2
  <2>5. QED BY <1>2, <1>6, <2>2, <2>3, <2>4
<1>12. TrialsOfNewPairs'
  <2>1. ASSUME NEW p \in Pair, trial'[p] # "none"
        PROVE  \E i \in 1..n + Len(news) : journal'[i].what = p
    <3>1. trial[p] # "none" \/ \E i \in 1..Len(news) : news[i] = p
      BY <1>7, <1>10, <2>1
    <3>2. CASE trial[p] # "none"
      <4>1. PICK i \in 1..n : journal[i].what = p
        BY <1>2, <3>2 DEF NInv, TrialsOfNewPairs
      <4>2. i \in 1..n + Len(news) /\ journal'[i].what = p
        BY <1>1, <1>2, <4>1
      <4>3. QED BY <4>2
    <3>3. CASE \E i \in 1..Len(news) : news[i] = p
      <4>1. PICK i \in 1..Len(news) : news[i] = p
        BY <3>3
      <4>2. n + i \in 1..n + Len(news) /\ journal'[n + i].what = p
        BY <1>1, <1>5, <4>1
      <4>3. QED BY <4>2
    <3>4. QED BY <3>1, <3>2, <3>3
  <2>2. ASSUME NEW i \in 1..n + Len(news), journal'[i].what \in Pair
        PROVE  \/ trial'[journal'[i].what] # "none"
               \/ \E j \in 1..n + Len(news) :
                      i < j /\ journal'[j].what = "failed" /\ \A k \in i..j - 1 : journal'[k].what \in Pair
    <3>1. CASE i \in 1..n
      <4>1. journal'[i] = journal[i]
        BY <1>1, <3>1
      <4>2. \/ trial[journal[i].what] # "none"
            \/ \E j \in 1..n : i < j /\ journal[j].what = "failed" /\ \A k \in i..j - 1 : journal[k].what \in Pair
        BY <1>2, <2>2, <3>1, <4>1 DEF NInv, TrialsOfNewPairs
      <4>3. CASE trial[journal[i].what] # "none"
        BY <1>7, <1>8, <2>2, <4>1, <4>3
      <4>4. CASE \E j \in 1..n : i < j /\ journal[j].what = "failed" /\ \A k \in i..j - 1 : journal[k].what \in Pair
        <5>1. PICK j \in 1..n : i < j /\ journal[j].what = "failed" /\ \A k \in i..j - 1 : journal[k].what \in Pair
          BY <4>4
        <5>2. j \in 1..n + Len(news) /\ \A k \in i..j - 1 : k \in 1..n
          BY <1>2, <3>1, <5>1
        <5>3. QED BY <1>1, <5>1, <5>2
      <4>5. QED BY <4>2, <4>3, <4>4
    <3>2. CASE i \notin 1..n
      <4>1. i - n \in 1..Len(news) /\ journal'[i].what = news[i - n]
        BY <1>4, <3>2
      <4>2. CASE news[i - n] \in DOMAIN trials
        BY <1>7, <1>8, <2>2, <4>1, <4>2
      <4>3. CASE \E j \in 1..Len(news) :
                     i - n < j /\ news[j] = "failed" /\ \A k \in i - n..j - 1 : news[k] \in Pair
        <5>1. PICK j \in 1..Len(news) :
                     i - n < j /\ news[j] = "failed" /\ \A k \in i - n..j - 1 : news[k] \in Pair
          BY <4>3
        <5>2. i < n + j /\ n + j \in 1..n + Len(news) /\ journal'[n + j].what = "failed"
          BY <1>1, <1>2, <1>5, <5>1
        <5>3. ASSUME NEW k \in i..(n + j) - 1
              PROVE  journal'[k].what \in Pair
          <6>1. k - n \in i - n..j - 1 /\ k - n \in 1..Len(news) /\ n + (k - n) = k
            BY <1>2, <4>1, <5>1
          <6>2. journal'[n + (k - n)].what = news[k - n]
            BY <1>1, <6>1
          <6>3. QED BY <5>1, <6>1, <6>2
        <5>4. QED BY <5>2, <5>3
      <4>4. QED BY <1>9, <2>2, <4>1, <4>2, <4>3
    <3>3. QED BY <3>1, <3>2
  <2>3. QED BY <1>2, <2>1, <2>2 DEF TrialsOfNewPairs
<1>13. QED BY <1>11, <1>12

(* Every other step leaves what the events say, what is known and the trials.    *)
LEMMA QuietSteps ==
    ASSUME NInv, UNCHANGED <<stored, trial>>, DOMAIN journal' = DOMAIN journal,
           \A i \in DOMAIN journal : journal'[i].what = journal[i].what
    PROVE  Announced' /\ TrialsOfNewPairs'
<1>1. Announced'
  BY DEF NInv, Announced
<1>2. \A i \in DOMAIN journal, j \in DOMAIN journal : \A k \in i..j - 1 : k \in DOMAIN journal
  BY LenProperties DEF NInv, IInv, TypeOK
<1>3. TrialsOfNewPairs'
  BY <1>2 DEF NInv, TrialsOfNewPairs
<1>4. QED BY <1>1, <1>3

LEMMA StepAnnounces == ASSUME NInv, [Next]_vars PROVE Announced' /\ TrialsOfNewPairs'
<1>1. IInv
  BY DEF NInv
<1>2. ASSUME NEW r \in Run, Stores(r) PROVE Announced' /\ TrialsOfNewPairs'
  BY <1>1, <1>2, StoresOwe, SaveAnnounces
<1>3. ASSUME NEW r \in Run, Moves(r) PROVE Announced' /\ TrialsOfNewPairs'
  BY <1>1, <1>3, MovesKeep, QuietSteps
<1>4. ASSUME NEW r \in Run, Acknowledge(r) PROVE Announced' /\ TrialsOfNewPairs'
  <2>1. journal' = [i \in DOMAIN journal |-> [journal[i] EXCEPT !.synced = @ \/ i \in run[r].batch]]
    BY <1>4, Zenon DEF Acknowledge
  <2>2. \A i \in DOMAIN journal : journal[i] \in Event
    <3>1. journal \in Seq(Event)
      BY <1>1 DEF IInv, TypeOK, Event
    <3>2. QED BY <3>1, LenProperties, ElementOfSeq
  <2>3. DOMAIN journal' = DOMAIN journal /\ \A i \in DOMAIN journal : journal'[i].what = journal[i].what
    BY <2>1, <2>2 DEF Event
  <2>4. QED BY <1>1, <1>4, <2>3, AcknowledgeKeeps, QuietSteps
<1>5. CASE (\E r \in Run : Write(r)) \/ WriteLate \/ TypeByHand
  <2>1. UNCHANGED <<stored, trial, journal>>
    BY <1>5 DEF Write, WriteLate, TypeByHand
  <2>2. QED BY <2>1, QuietSteps
<1>6. CASE Expire \/ MinutePasses \/ UNCHANGED vars
  BY <1>1, <1>6, TimePassing, QuietSteps
<1>7. QED
  BY <1>2, <1>3, <1>4, <1>5, <1>6, StepsByKind

(* A pair that appears after the baseline is announced once, however often it     *)
(* leaves the list and returns and whichever run saves last, and its trials are    *)
(* begun, or the scan that announced it is recorded as failed right after it.      *)
THEOREM NewPairsAnnounced == Spec => []NewPairsOnce
<1>1. Init => NInv
  <2> SUFFICES ASSUME Init PROVE NInv
    OBVIOUS
  <2>1. DOMAIN journal = {}
    BY DEF Init
  <2>2. (\A p \in Pair : stored.known[p] = "no") /\ \A p \in Pair : trial[p] = "none"
    BY DEF Init, initialRuntime
  <2>3. QED BY <2>1, <2>2, Initially DEF NInv, Announced, TrialsOfNewPairs
<1>2. NInv /\ [Next]_vars => NInv'
  BY StepKeeps, StepAnnounces DEF NInv
<1>3. NInv => NewPairsOnce
  <2> SUFFICES ASSUME NInv, NEW p \in Pair
               PROVE  Cardinality({i \in DOMAIN journal : journal[i].what = p}) =
                          IF stored.known[p] = "new" THEN 1 ELSE 0
    BY DEF NewPairsOnce, AnnouncedOnce, NInv
  <2>1. CASE stored.known[p] = "new"
    <3>1. PICK i \in DOMAIN journal : journal[i].what = p
      BY <2>1 DEF NInv, Announced
    <3>2. {j \in DOMAIN journal : journal[j].what = p} = {i}
      BY <3>1 DEF NInv, Announced
    <3>3. QED BY <2>1, <3>2, FS_Singleton
  <2>2. CASE stored.known[p] # "new"
    <3>1. {j \in DOMAIN journal : journal[j].what = p} = {}
      BY <2>2 DEF NInv, Announced
    <3>2. QED BY <2>2, <3>1, FS_EmptySet
  <2>3. QED BY <2>1, <2>2
<1>4. QED
  BY <1>1, <1>2, <1>3, PTL DEF Spec
=============================================================================
