--------------------------- MODULE Orders_proofs ---------------------------
(***************************************************************************)
(* Proofs that manual orders are sent once, one at a time and to the       *)
(* account they were reviewed for, for any number of reviews, concurrent   *)
(* requests and connections.  The argument is the inductive invariant IInv *)
(* of ManualOrders: one lemma for each of its conjuncts, in which the      *)
(* actions that leave the conjunct's variables alone are one case.         *)
(* The end carries what ManagedProtection_proofs shows of one position to  *)
(* the run that has positions and manual orders side by side.              *)
(***************************************************************************)
EXTENDS MCOrders, TLAPS

Position == INSTANCE ManagedProtection_proofs WITH at <- place

LEMMA InitInv == Init => IInv
  <1> SUFFICES ASSUME Init PROVE IInv
    OBVIOUS
  <1>1. TypeOK
    <2>1. order \in [Intents -> [account : Credentials \cup {None}, status : {"none"} \cup Outcome]]
      BY DEF Init, NoOrder
    <2>2. live \in BOOLEAN /\ enabling \in BOOLEAN
      BY DEF Init
    <2>3. expired \subseteq Intents /\ wire \subseteq [account : Credentials, intent : Intents]
      BY DEF Init
    <2> QED
      BY <2>1, <2>2, <2>3 DEF Init, TypeOK
  <1>2. SentOnce /\ ReviewedAccount /\ Wire
    BY DEF Init, SentOnce, ReviewedAccount, Wire
  <1>3. Rows
    BY DEF Init, Rows, Outcome
  <1>4. Knowledge /\ Alone /\ OneOutstanding
    BY DEF Init, Knowledge, Alone, OneOutstanding, Outstanding
  <1> QED
    BY <1>1, <1>2, <1>3, <1>4 DEF IInv

(* Every variable keeps its type. *)
LEMMA TypeOKStep == IInv /\ [Next]_vars => TypeOK'
  <1> SUFFICES ASSUME IInv, [Next]_vars PROVE TypeOK'
    OBVIOUS
  <1>1. ASSUME NEW r \in Requests, NEW i \in Intents, PreviewContext(r, i) PROVE TypeOK'
    BY <1>1 DEF PreviewContext, Go, database, venue, IInv, TypeOK
  <1>2. ASSUME NEW r \in Requests, NEW i \in Intents, ConfirmContext(r, i) PROVE TypeOK'
    BY <1>2 DEF ConfirmContext, Go, database, venue, IInv, TypeOK
  <1>3. ASSUME NEW r \in Requests, NEW i \in Intents, Identity(r, i) PROVE TypeOK'
    BY <1>3 DEF Identity, Go, database, venue, IInv, TypeOK
  <1>4. ASSUME NEW r \in Requests, PreviewInsert(r) PROVE TypeOK'
    BY <1>4 DEF PreviewInsert, Reply, Go, venue, IInv, TypeOK
  <1>5. ASSUME NEW r \in Requests, ClaimSend(r) PROVE TypeOK'
    BY <1>5 DEF ClaimSend, MaySend, Go, venue, IInv, TypeOK
  <1>6. ASSUME NEW r \in Requests, ClaimRefused(r) PROVE TypeOK'
    BY <1>6 DEF ClaimRefused, Reply, Go, database, venue, IInv, TypeOK
  <1>7. ASSUME NEW r \in Requests, Post(r) PROVE TypeOK'
    BY <1>7 DEF Post, Sender, Go, database, IInv, TypeOK, Knowledge
  <1>8. ASSUME NEW r \in Requests, PostAnswered(r) PROVE TypeOK'
    BY <1>8 DEF PostAnswered, Go, database, venue, IInv, TypeOK, Knowledge
  <1>9. ASSUME NEW r \in Requests, PostFails(r) PROVE TypeOK'
    BY <1>9 DEF PostFails, Failed, Reply, Go, venue, IInv, TypeOK
  <1>10. ASSUME NEW r \in Requests, PostRefused(r) PROVE TypeOK'
    BY <1>10 DEF PostRefused, Reply, Go, IInv, TypeOK
  <1>11. ASSUME NEW r \in Requests, Find(r) PROVE TypeOK'
    BY <1>11 DEF Find, Lookup, Reply, Go, database, venue, IInv, TypeOK, Outcome, Knowledge
  <1>12. ASSUME NEW r \in Requests, RecordOutcome(r) PROVE TypeOK'
    BY <1>12 DEF RecordOutcome, Reply, Go, venue, IInv, TypeOK
  <1>13. ASSUME NEW r \in Requests, Stop(r) PROVE TypeOK'
    BY <1>13 DEF Stop, Reply, Go, database, venue, IInv, TypeOK
  <1>14. ASSUME NEW c \in Credentials, Connect(c) PROVE TypeOK'
    BY <1>14 DEF Connect, venue, requests, IInv, TypeOK
  <1>15. ASSUME EnableRead PROVE TypeOK'
    BY <1>15 DEF EnableRead, database, venue, requests, IInv, TypeOK
  <1>16. ASSUME EnableWrite PROVE TypeOK'
    BY <1>16 DEF EnableWrite, venue, requests, IInv, TypeOK
  <1>17. ASSUME Disable PROVE TypeOK'
    BY <1>17 DEF Disable, venue, requests, IInv, TypeOK
  <1>18. ASSUME NEW m \in wire, Accept(m) PROVE TypeOK'
    BY <1>18 DEF Accept, database, requests, IInv, TypeOK, Outcome
  <1>19. ASSUME NEW m \in wire, Lose(m) PROVE TypeOK'
    BY <1>19 DEF Lose, database, requests, IInv, TypeOK
  <1>20. ASSUME NEW i \in Intents, Fill(i) PROVE TypeOK'
    BY <1>20 DEF Fill, database, requests, IInv, TypeOK, Outcome
  <1>21. ASSUME NEW i \in Intents, PreviewExpires(i) PROVE TypeOK'
    BY <1>21 DEF PreviewExpires, venue, requests, IInv, TypeOK
  <1>22. CASE UNCHANGED vars
    BY <1>22 DEF vars, database, venue, requests, IInv, TypeOK
  <1> QED
    BY <1>1, <1>2, <1>3, <1>4, <1>5, <1>6, <1>7, <1>8, <1>9, <1>10, <1>11, <1>12, <1>13,
       <1>14, <1>15, <1>16, <1>17, <1>18, <1>19, <1>20, <1>21, <1>22 DEF Next, Request,
       Settings, Venue, vars, database, venue, requests

(* Only a claimed intent, which has not been sent, is sent. *)
LEMMA SentOnceStep == IInv /\ [Next]_vars => SentOnce'
  <1> SUFFICES ASSUME IInv, [Next]_vars PROVE SentOnce'
    OBVIOUS
  <1>1. ASSUME NEW r \in Requests, Post(r) PROVE SentOnce'
    BY <1>1 DEF Post, Sender, IInv, SentOnce, Knowledge
  <1>2. CASE UNCHANGED <<posts>>
    BY <1>2 DEF IInv, SentOnce
  <1> QED
    BY <1>1, <1>2 DEF Next, Request, Settings, Venue, vars, database, venue, requests,
       PreviewContext, ConfirmContext, Identity, PreviewInsert, ClaimSend, ClaimRefused,
       PostAnswered, PostFails, PostRefused, Find, RecordOutcome, Stop, Connect, EnableRead,
       EnableWrite, Disable, Accept, Lose, Fill, PreviewExpires, Go, Reply

(* Rows follow the proofs that a request holds. *)
LEMMA RowsStep == IInv /\ [Next]_vars => Rows'
  <1> SUFFICES ASSUME IInv, [Next]_vars PROVE Rows'
    OBVIOUS
  <1>1. ASSUME NEW r \in Requests, PreviewInsert(r) PROVE Rows'
    BY <1>1 DEF PreviewInsert, venue, IInv, TypeOK, Rows, Knowledge, Outcome
  <1>2. ASSUME NEW r \in Requests, ClaimSend(r) PROVE Rows'
    BY <1>2 DEF ClaimSend, MaySend, venue, IInv, Rows, Outcome
  <1>3. ASSUME NEW r \in Requests, Post(r) PROVE Rows'
    BY <1>3 DEF Post, Sender, database, IInv, Rows, Knowledge
  <1>4. ASSUME NEW r \in Requests, PostFails(r) PROVE Rows'
    BY <1>4 DEF PostFails, Failed, venue, IInv, Rows, Knowledge, Outcome
  <1>5. ASSUME NEW r \in Requests, PostRefused(r) PROVE Rows'
    BY <1>5 DEF PostRefused, IInv, Rows, Wire, Outcome
  <1>6. ASSUME NEW r \in Requests, RecordOutcome(r) PROVE Rows'
    BY <1>6 DEF RecordOutcome, venue, IInv, Rows, Knowledge, Outcome
  <1>7. ASSUME NEW m \in wire, Accept(m) PROVE Rows'
    BY <1>7 DEF Accept, database, requests, IInv, Rows, Wire, Outcome, Unresolved
  <1>8. ASSUME NEW i \in Intents, Fill(i) PROVE Rows'
    BY <1>8 DEF Fill, database, requests, IInv, Rows, Outcome, NoOrder
  <1>9. CASE UNCHANGED <<state, reviewed, posts, order>>
    BY <1>9 DEF IInv, Rows
  <1> QED
    BY <1>1, <1>2, <1>3, <1>4, <1>5, <1>6, <1>7, <1>8, <1>9 DEF Next, Request, Settings,
       Venue, vars, database, venue, requests, PreviewContext, ConfirmContext, Identity,
       ClaimRefused, PostAnswered, Find, Stop, Connect, EnableRead, EnableWrite, Disable,
       Lose, PreviewExpires, Go, Reply

(* Orders come from the wire, which carries the reviewed account. *)
LEMMA ReviewedAccountStep == IInv /\ [Next]_vars => ReviewedAccount'
  <1> SUFFICES ASSUME IInv, [Next]_vars PROVE ReviewedAccount'
    OBVIOUS
  <1>1. ASSUME NEW r \in Requests, PreviewInsert(r) PROVE ReviewedAccount'
    BY <1>1 DEF PreviewInsert, venue, IInv, TypeOK, ReviewedAccount, Rows
  <1>2. ASSUME NEW m \in wire, Accept(m) PROVE ReviewedAccount'
    BY <1>2 DEF Accept, database, requests, IInv, ReviewedAccount, Wire
  <1>3. ASSUME NEW i \in Intents, Fill(i) PROVE ReviewedAccount'
    BY <1>3 DEF Fill, database, requests, IInv, ReviewedAccount, NoOrder
  <1>4. CASE UNCHANGED <<reviewed, order>>
    BY <1>4 DEF IInv, ReviewedAccount
  <1> QED
    BY <1>1, <1>2, <1>3, <1>4 DEF Next, Request, Settings, Venue, vars, database, venue,
       requests, PreviewContext, ConfirmContext, Identity, ClaimSend, ClaimRefused, Post,
       PostAnswered, PostFails, PostRefused, Find, RecordOutcome, Stop, Connect, EnableRead,
       EnableWrite, Disable, Lose, PreviewExpires, Go, Reply

(* Nothing resolves an intent while its POST is on the way. *)
LEMMA WireStep == IInv /\ [Next]_vars => Wire'
  <1> SUFFICES ASSUME IInv, [Next]_vars PROVE Wire'
    OBVIOUS
  <1>1. ASSUME NEW r \in Requests, PreviewInsert(r) PROVE Wire'
    BY <1>1 DEF PreviewInsert, venue, IInv, TypeOK, Wire, Unresolved
  <1>2. ASSUME NEW r \in Requests, ClaimSend(r) PROVE Wire'
    BY <1>2 DEF ClaimSend, MaySend, venue, IInv, TypeOK, Rows, Wire
  <1>3. ASSUME NEW r \in Requests, Post(r) PROVE Wire'
    BY <1>3 DEF Post, Sender, database, IInv, TypeOK, Rows, Wire, Knowledge, Unresolved
  <1>4. ASSUME NEW r \in Requests, PostFails(r) PROVE Wire'
    BY <1>4 DEF PostFails, Failed, venue, IInv, Wire, Unresolved
  <1>5. ASSUME NEW r \in Requests, PostRefused(r) PROVE Wire'
    BY <1>5 DEF PostRefused, IInv, TypeOK, Wire, Unresolved
  <1>6. ASSUME NEW r \in Requests, RecordOutcome(r) PROVE Wire'
    BY <1>6 DEF RecordOutcome, venue, IInv, Wire, Knowledge, Outcome, NoOrder, Unresolved
  <1>7. ASSUME NEW m \in wire, Accept(m) PROVE Wire'
    BY <1>7 DEF Accept, database, requests, IInv, TypeOK, Wire, Unresolved
  <1>8. ASSUME NEW m \in wire, Lose(m) PROVE Wire'
    BY <1>8 DEF Lose, database, requests, IInv, Wire, Unresolved
  <1>9. ASSUME NEW i \in Intents, Fill(i) PROVE Wire'
    BY <1>9 DEF Fill, database, requests, IInv, Wire, NoOrder, Unresolved
  <1>10. CASE UNCHANGED <<wire, posts, order, state, reviewed>>
    BY <1>10 DEF IInv, Wire, Unresolved
  <1> QED
    BY <1>1, <1>2, <1>3, <1>4, <1>5, <1>6, <1>7, <1>8, <1>9, <1>10 DEF Next, Request,
       Settings, Venue, vars, database, venue, requests, PreviewContext, ConfirmContext,
       Identity, ClaimRefused, PostAnswered, Find, Stop, Connect, EnableRead, EnableWrite,
       Disable, PreviewExpires, Go, Reply

(* What a request has read stays true until it answers. *)
LEMMA KnowledgeStep == IInv /\ [Next]_vars => Knowledge'
  <1> SUFFICES ASSUME IInv, [Next]_vars PROVE Knowledge'
    OBVIOUS
  <1>1. ASSUME NEW r \in Requests, NEW i \in Intents, PreviewContext(r, i) PROVE Knowledge'
    BY <1>1 DEF PreviewContext, Go, database, venue, IInv, TypeOK, Knowledge
  <1>2. ASSUME NEW r \in Requests, NEW i \in Intents, ConfirmContext(r, i) PROVE Knowledge'
    BY <1>2 DEF ConfirmContext, Go, database, venue, IInv, TypeOK, Rows, Knowledge
  <1>3. ASSUME NEW r \in Requests, NEW i \in Intents, Identity(r, i) PROVE Knowledge'
    BY <1>3 DEF Identity, Go, database, venue, IInv, TypeOK, Knowledge
  <1>4. ASSUME NEW r \in Requests, PreviewInsert(r) PROVE Knowledge'
    BY <1>4 DEF PreviewInsert, Reply, Go, venue, IInv, TypeOK, Knowledge
  <1>5. ASSUME NEW r \in Requests, ClaimSend(r) PROVE Knowledge'
    BY <1>5 DEF ClaimSend, MaySend, Go, venue, IInv, TypeOK, Rows, Knowledge
  <1>6. ASSUME NEW r \in Requests, ClaimRefused(r) PROVE Knowledge'
    BY <1>6 DEF ClaimRefused, Reply, Go, database, venue, IInv, TypeOK, Knowledge
  <1>7. ASSUME NEW r \in Requests, Post(r) PROVE Knowledge'
    BY <1>7 DEF Post, Sender, Go, database, IInv, TypeOK, Knowledge, Alone
  <1>8. ASSUME NEW r \in Requests, PostAnswered(r) PROVE Knowledge'
    <2>1. intent[r] \in Intents /\ bound[r] # None
      BY <1>8, ManualAssumption DEF PostAnswered, IInv, Knowledge
    <2>2. order[intent[r]].status \in Outcome
      BY <1>8, <2>1 DEF PostAnswered, IInv, Rows, NoOrder
    <2> QED
      BY <1>8, <2>2 DEF PostAnswered, Go, database, venue, IInv, TypeOK, Knowledge, Outcome
  <1>9. ASSUME NEW r \in Requests, PostFails(r) PROVE Knowledge'
    BY <1>9 DEF PostFails, Failed, Reply, Go, venue, IInv, TypeOK, Knowledge, Alone
  <1>10. ASSUME NEW r \in Requests, PostRefused(r) PROVE Knowledge'
    BY <1>10 DEF PostRefused, Reply, Go, IInv, TypeOK, Knowledge, Alone
  <1>11. ASSUME NEW r \in Requests, Find(r) PROVE Knowledge'
    BY <1>11 DEF Find, Lookup, Reply, Go, database, venue, IInv, TypeOK, Knowledge
  <1>12. ASSUME NEW r \in Requests, RecordOutcome(r) PROVE Knowledge'
    BY <1>12 DEF RecordOutcome, Reply, Go, venue, IInv, TypeOK, Rows, Knowledge, Outcome,
       NoOrder
  <1>13. ASSUME NEW r \in Requests, Stop(r) PROVE Knowledge'
    BY <1>13 DEF Stop, Reply, Go, database, venue, IInv, TypeOK, Knowledge
  <1>14. ASSUME NEW m \in wire, Accept(m) PROVE Knowledge'
    BY <1>14 DEF Accept, database, requests, IInv, Knowledge, Outcome
  <1>15. ASSUME NEW i \in Intents, Fill(i) PROVE Knowledge'
    BY <1>15 DEF Fill, database, requests, IInv, Knowledge, Outcome
  <1>16. CASE UNCHANGED <<at, intent, bound, saw, state, reviewed, posts, order>>
    BY <1>16 DEF IInv, Knowledge
  <1> QED
    BY <1>1, <1>2, <1>3, <1>4, <1>5, <1>6, <1>7, <1>8, <1>9, <1>10, <1>11, <1>12, <1>13,
       <1>14, <1>15, <1>16 DEF Next, Request, Settings, Venue, vars, database, venue,
       requests, Connect, EnableRead, EnableWrite, Disable, Lose, PreviewExpires

(* The transaction admits one sender of an intent. *)
LEMMA AloneStep == IInv /\ [Next]_vars => Alone'
  <1> SUFFICES ASSUME IInv, [Next]_vars PROVE Alone'
    OBVIOUS
  <1>1. ASSUME NEW r \in Requests, NEW i \in Intents, PreviewContext(r, i) PROVE Alone'
    BY <1>1 DEF PreviewContext, Go, IInv, Alone
  <1>2. ASSUME NEW r \in Requests, NEW i \in Intents, ConfirmContext(r, i) PROVE Alone'
    BY <1>2 DEF ConfirmContext, Go, IInv, Alone
  <1>3. ASSUME NEW r \in Requests, NEW i \in Intents, Identity(r, i) PROVE Alone'
    BY <1>3 DEF Identity, Go, IInv, Alone
  <1>4. ASSUME NEW r \in Requests, PreviewInsert(r) PROVE Alone'
    BY <1>4 DEF PreviewInsert, Reply, Go, IInv, Alone
  <1>5. ASSUME NEW r \in Requests, ClaimSend(r) PROVE Alone'
    <2>1. \A q \in Requests : at[q] \in {"claimed", "posted"} => intent[q] # intent[r]
      BY <1>5 DEF ClaimSend, MaySend, IInv, Knowledge, Outcome
    <2>2. /\ at' = [at EXCEPT ![r] = "claimed"] /\ intent' = intent
          /\ at \in [Requests -> {"idle", "reviewing", "confirming", "claimed", "posted",
                                  "answered", "asking", "found"}]
      BY <1>5 DEF ClaimSend, Go, IInv, TypeOK
    <2> QED
      BY <2>1, <2>2 DEF IInv, Alone
  <1>6. ASSUME NEW r \in Requests, ClaimRefused(r) PROVE Alone'
    BY <1>6 DEF ClaimRefused, Reply, Go, IInv, Alone
  <1>7. ASSUME NEW r \in Requests, Post(r) PROVE Alone'
    BY <1>7 DEF Post, Sender, Go, IInv, Alone
  <1>8. ASSUME NEW r \in Requests, PostAnswered(r) PROVE Alone'
    BY <1>8 DEF PostAnswered, Go, IInv, Alone
  <1>9. ASSUME NEW r \in Requests, PostFails(r) PROVE Alone'
    BY <1>9 DEF PostFails, Failed, Reply, Go, IInv, TypeOK, Alone
  <1>10. ASSUME NEW r \in Requests, PostRefused(r) PROVE Alone'
    BY <1>10 DEF PostRefused, Reply, Go, IInv, TypeOK, Alone
  <1>11. ASSUME NEW r \in Requests, Find(r) PROVE Alone'
    BY <1>11 DEF Find, Lookup, Reply, Go, IInv, TypeOK, Alone
  <1>12. ASSUME NEW r \in Requests, RecordOutcome(r) PROVE Alone'
    BY <1>12 DEF RecordOutcome, Reply, Go, IInv, Alone
  <1>13. ASSUME NEW r \in Requests, Stop(r) PROVE Alone'
    BY <1>13 DEF Stop, Reply, Go, IInv, TypeOK, Alone
  <1>14. CASE UNCHANGED <<at, intent>>
    BY <1>14 DEF IInv, Alone
  <1> QED
    BY <1>1, <1>2, <1>3, <1>4, <1>5, <1>6, <1>7, <1>8, <1>9, <1>10, <1>11, <1>12, <1>13,
       <1>14 DEF Next, Request, Settings, Venue, vars, database, venue, requests, Connect,
       EnableRead, EnableWrite, Disable, Accept, Lose, Fill, PreviewExpires

(* An intent is claimed when no other one is unresolved. *)
LEMMA OneOutstandingStep == IInv /\ [Next]_vars => OneOutstanding'
  <1> SUFFICES ASSUME IInv, [Next]_vars PROVE OneOutstanding'
    OBVIOUS
  <1>1. ASSUME NEW r \in Requests, NEW i \in Intents, PreviewContext(r, i) PROVE OneOutstanding'
    BY <1>1 DEF PreviewContext, Go, venue, IInv, OneOutstanding, Outstanding
  <1>2. ASSUME NEW r \in Requests, NEW i \in Intents, ConfirmContext(r, i) PROVE OneOutstanding'
    BY <1>2 DEF ConfirmContext, Go, venue, IInv, OneOutstanding, Outstanding
  <1>3. ASSUME NEW r \in Requests, NEW i \in Intents, Identity(r, i) PROVE OneOutstanding'
    BY <1>3 DEF Identity, Go, venue, IInv, OneOutstanding, Outstanding
  <1>4. ASSUME NEW r \in Requests, PreviewInsert(r) PROVE OneOutstanding'
    BY <1>4 DEF PreviewInsert, Reply, Go, venue, IInv, OneOutstanding, Outstanding
  <1>5. ASSUME NEW r \in Requests, ClaimSend(r) PROVE OneOutstanding'
    BY <1>5 DEF ClaimSend, MaySend, Unresolved, Go, venue, IInv, OneOutstanding,
       Outstanding, Wire, Knowledge
  <1>6. ASSUME NEW r \in Requests, ClaimRefused(r) PROVE OneOutstanding'
    BY <1>6 DEF ClaimRefused, Reply, Go, venue, IInv, OneOutstanding, Outstanding
  <1>7. ASSUME NEW r \in Requests, Post(r) PROVE OneOutstanding'
    BY <1>7 DEF Post, Sender, Go, IInv, OneOutstanding, Outstanding
  <1>8. ASSUME NEW r \in Requests, PostAnswered(r) PROVE OneOutstanding'
    BY <1>8 DEF PostAnswered, Go, venue, IInv, OneOutstanding, Outstanding
  <1>9. ASSUME NEW r \in Requests, PostFails(r) PROVE OneOutstanding'
    BY <1>9 DEF PostFails, Failed, Reply, Go, venue, IInv, OneOutstanding, Outstanding
  <1>10. ASSUME NEW r \in Requests, PostRefused(r) PROVE OneOutstanding'
    BY <1>10 DEF PostRefused, Reply, Go, IInv, OneOutstanding, Outstanding
  <1>11. ASSUME NEW r \in Requests, Find(r) PROVE OneOutstanding'
    BY <1>11 DEF Find, Lookup, Reply, Go, venue, IInv, TypeOK, OneOutstanding, Outstanding
  <1>12. ASSUME NEW r \in Requests, RecordOutcome(r) PROVE OneOutstanding'
    BY <1>12 DEF RecordOutcome, Reply, Go, venue, IInv, OneOutstanding, Outstanding
  <1>13. ASSUME NEW r \in Requests, Stop(r) PROVE OneOutstanding'
    BY <1>13 DEF Stop, Reply, Go, venue, IInv, TypeOK, OneOutstanding, Outstanding
  <1>14. ASSUME NEW m \in wire, Accept(m) PROVE OneOutstanding'
    BY <1>14 DEF Accept, requests, IInv, OneOutstanding, Outstanding
  <1>15. ASSUME NEW m \in wire, Lose(m) PROVE OneOutstanding'
    BY <1>15 DEF Lose, requests, IInv, OneOutstanding, Outstanding
  <1>16. CASE UNCHANGED <<at, intent, wire>>
    BY <1>16 DEF IInv, OneOutstanding, Outstanding
  <1> QED
    BY <1>1, <1>2, <1>3, <1>4, <1>5, <1>6, <1>7, <1>8, <1>9, <1>10, <1>11, <1>12, <1>13,
       <1>14, <1>15, <1>16 DEF Next, Request, Settings, Venue, vars, database, venue,
       requests, Connect, EnableRead, EnableWrite, Disable, Fill, PreviewExpires

-----------------------------------------------------------------------------
(* The inductive invariant holds: of rows, POSTs on the way, orders and what the
   requests know, for any number of each. *)
THEOREM Invariance == Spec => []IInv
  <1>1. IInv /\ [Next]_vars => IInv'
    BY TypeOKStep, SentOnceStep, RowsStep, ReviewedAccountStep, WireStep, KnowledgeStep,
       AloneStep, OneOutstandingStep DEF IInv
  <1> QED
    BY InitInv, <1>1, PTL DEF Spec

(* However many requests confirm it, a reviewed order is POSTed once. *)
THEOREM ManualSentOnce == Spec => []SentOnce
  <1>1. IInv => SentOnce
    BY DEF IInv
  <1> QED
    BY Invariance, <1>1, PTL

(* The account never has two orders of unproven outcome under way. *)
THEOREM ManualOneOutstanding == Spec => []OneOutstanding
  <1>1. IInv => OneOutstanding
    BY DEF IInv
  <1> QED
    BY Invariance, <1>1, PTL

(* Both together: a reviewed order is sent once, and beside no other one. *)
THEOREM ManualSentAlone == Spec => []SentAlone
  BY ManualSentOnce, ManualOneOutstanding, PTL DEF SentAlone

(* An order reaches only the account it was reviewed for. *)
THEOREM ManualReviewedAccount == Spec => []ReviewedAccount
  <1>1. IInv => ReviewedAccount
    BY DEF IInv
  <1> QED
    BY Invariance, <1>1, PTL

(* The rows tell the truth about the venue. *)
THEOREM ManualOutcomeIsTrue == Spec => []OutcomeIsTrue
  <1>1. IInv => OutcomeIsTrue
    BY DEF IInv, OutcomeIsTrue, Rows, Wire, Knowledge, Outstanding, Unresolved, NoOrder, Outcome
  <1> QED
    BY Invariance, <1>1, PTL

(* The owner's switch binds every claim of a confirmation. *)
THEOREM ManualSwitchHolds == Spec => SwitchHolds
  <1> DEFINE Gate == \A i \in Intents : state'[i] = "SUBMITTING" /\ state[i] # "SUBMITTING" => live
  <1>1. IInv /\ [Next]_vars => [Gate]_state
    <2> SUFFICES ASSUME IInv, [Next]_vars, UNCHANGED state => FALSE PROVE Gate
      OBVIOUS
    <2>1. ASSUME NEW r \in Requests, ClaimSend(r) PROVE Gate
      BY <2>1 DEF ClaimSend, MaySend
    <2>2. ASSUME NEW r \in Requests, PreviewInsert(r) PROVE Gate
      BY <2>2 DEF PreviewInsert, IInv, TypeOK
    <2>3. ASSUME NEW r \in Requests, PostFails(r) \/ PostRefused(r) PROVE Gate
      BY <2>3 DEF PostFails, PostRefused, Failed, IInv, TypeOK
    <2>4. ASSUME NEW r \in Requests, RecordOutcome(r) PROVE Gate
      BY <2>4 DEF RecordOutcome, IInv, TypeOK, Outcome
    <2> QED
      BY <2>1, <2>2, <2>3, <2>4
      DEF Next, Request, Settings, Venue, vars, database, PreviewContext, ConfirmContext, Identity, ClaimRefused, Post, PostAnswered, Find, Stop, Connect, EnableRead, EnableWrite, Disable, Accept, Lose, Fill, PreviewExpires
  <1> QED
    BY Invariance, <1>1, PTL DEF Spec, SwitchHolds

-----------------------------------------------------------------------------
(* Seen from the venue: review i moves from one phase to the next, and no other
   review moves. *)
Moves(i, from, to) ==
    /\ PhaseOf(i) = from
    /\ PhaseOf(i)' = to
    /\ \A j \in Intents \ {i} : PhaseOf(j)' = PhaseOf(j)

Doubt(i) == \E j \in Intents \ {i} : PhaseOf(j) \in {"authorised", "sent"}

(* An order in doubt keeps its row unresolved, which is what a confirmation
   looks at before it claims another one. *)
LEMMA DoubtIsUnresolved ==
  ASSUME IInv, NEW j \in Intents, PhaseOf(j) \in {"authorised", "sent"}
  PROVE  Unresolved(j)
  BY DEF IInv, TypeOK, Rows, PhaseOf, Unresolved, Outcome, NoOrder

(* What a step does to the rows, the POSTs and the orders. *)
LEMMA ManualPhases ==
  ASSUME IInv, [Next]_vars
  PROVE  \/ \A i \in Intents : PhaseOf(i)' = PhaseOf(i)
         \/ \E i \in Intents : \/ Moves(i, "new", "authorised") /\ ~Doubt(i)
                               \/ Moves(i, "authorised", "sent")
                               \/ Moves(i, "sent", "live")
                               \/ Moves(i, "sent", "refused")
                               \/ Moves(i, "live", "final")
  <1> DEFINE Stays == \A i \in Intents : PhaseOf(i)' = PhaseOf(i)
  <1>1. CASE UNCHANGED <<state, order, posts>>
    BY <1>1 DEF PhaseOf
  <1>2. ASSUME NEW r \in Requests, PreviewInsert(r) PROVE Stays
    BY <1>2 DEF PreviewInsert, venue, IInv, TypeOK, Rows, PhaseOf
  <1>3. ASSUME NEW r \in Requests, NEW i \in Intents, i = intent[r], ClaimSend(r)
        PROVE  Moves(i, "new", "authorised") /\ ~Doubt(i)
    <2>1. /\ UNCHANGED <<order, posts>>
          /\ state[i] = "PREVIEW" /\ posts[i] = 0 /\ order[i] = NoOrder
          /\ state' = [state EXCEPT ![i] = "SUBMITTING"]
      BY <1>3 DEF ClaimSend, MaySend, venue, IInv, Knowledge, Rows
    <2>2. /\ state'[i] = "SUBMITTING"
          /\ \A j \in Intents \ {i} : state'[j] = state[j]
      BY <2>1 DEF IInv, TypeOK
    <2>3. Moves(i, "new", "authorised")
      BY <2>1, <2>2 DEF Moves, PhaseOf
    <2>4. ~Doubt(i)
      BY <1>3, DoubtIsUnresolved DEF ClaimSend, MaySend, Doubt
    <2> QED
      BY <2>1, <2>3, <2>4
  <1>4. ASSUME NEW r \in Requests, NEW i \in Intents, i = intent[r], Post(r)
        PROVE  Moves(i, "authorised", "sent")
    <2>1. /\ UNCHANGED <<state, order>>
          /\ state[i] = "SUBMITTING" /\ posts[i] = 0 /\ order[i] = NoOrder
      BY <1>4 DEF Post, database, IInv, Knowledge, Rows
    <2>2. /\ posts'[i] # 0
          /\ \A j \in Intents \ {i} : posts'[j] = posts[j]
      BY <1>4, <2>1 DEF Post, IInv, TypeOK
    <2> QED
      BY <2>1, <2>2 DEF Moves, PhaseOf
  <1>5. ASSUME NEW r \in Requests, PostFails(r) PROVE Stays
    <2>1. /\ intent[r] \in Intents /\ UNCHANGED <<order, posts>> /\ posts[intent[r]] = 1
          /\ state[intent[r]] \in {"SUBMITTING"} \cup Outcome
          /\ state' = [state EXCEPT ![intent[r]] = "UNKNOWN"]
      BY <1>5 DEF PostFails, Failed, venue, IInv, Knowledge
    <2> QED
      BY <2>1 DEF PhaseOf, Outcome, IInv, TypeOK
  <1>6. ASSUME NEW r \in Requests, NEW i \in Intents, i = intent[r], PostRefused(r)
        PROVE  Moves(i, "sent", "refused")
    <2>1. /\ UNCHANGED <<order, posts>> /\ posts[i] = 1
          /\ order[i] = NoOrder /\ Unresolved(i)
          /\ state' = [state EXCEPT ![i] = "REJECTED"]
      BY <1>6 DEF PostRefused, IInv, Knowledge, Wire
    <2>2. /\ state'[i] = "REJECTED"
          /\ \A j \in Intents \ {i} : state'[j] = state[j]
      BY <2>1 DEF IInv, TypeOK
    <2> QED
      BY <2>1, <2>2 DEF Moves, PhaseOf, Unresolved
  <1>7. ASSUME NEW r \in Requests, RecordOutcome(r) PROVE Stays
    <2>1. /\ intent[r] \in Intents /\ UNCHANGED <<order, posts>>
          /\ order[intent[r]].status \in Outcome
      BY <1>7 DEF RecordOutcome, venue, IInv, Knowledge
    <2>2. order[intent[r]] # NoOrder
      BY <2>1 DEF NoOrder, Outcome
    <2>3. \A j \in Intents \ {intent[r]} : state'[j] = state[j]
      BY <1>7, <2>1 DEF RecordOutcome, IInv, TypeOK
    <2> QED
      BY <2>1, <2>2, <2>3 DEF PhaseOf
  <1>8. ASSUME NEW m \in wire, Accept(m)
        PROVE  m.intent \in Intents /\ Moves(m.intent, "sent", "live")
    <2>1. /\ m.intent \in Intents /\ UNCHANGED <<state, posts>> /\ posts[m.intent] = 1
          /\ order[m.intent] = NoOrder /\ Unresolved(m.intent)
          /\ order' = [order EXCEPT ![m.intent] = [account |-> m.account, status |-> "OPEN"]]
      BY <1>8 DEF Accept, database, IInv, TypeOK, Wire
    <2> QED
      BY <2>1 DEF Moves, PhaseOf, Unresolved, NoOrder, IInv, TypeOK
  <1>9. ASSUME NEW i \in Intents, Fill(i) PROVE Moves(i, "live", "final")
    <2>1. /\ UNCHANGED <<state, posts>> /\ order[i].status = "OPEN"
          /\ order' = [order EXCEPT ![i] = [order[i] EXCEPT !.status = "FILLED"]]
          /\ order[i] \in [account : Credentials \cup {None}, status : {"none"} \cup Outcome]
      BY <1>9 DEF Fill, database, IInv, TypeOK
    <2> QED
      BY <2>1 DEF Moves, PhaseOf, NoOrder, IInv, TypeOK
  <1> HIDE DEF Stays
  <1>10. \/ UNCHANGED <<state, order, posts>>
         \/ \E r \in Requests : \/ PreviewInsert(r) \/ ClaimSend(r) \/ Post(r) \/ PostFails(r)
                                \/ PostRefused(r) \/ RecordOutcome(r)
         \/ \E m \in wire : Accept(m)
         \/ \E i \in Intents : Fill(i)
    BY DEF Next, Request, Settings, Venue, vars, database, venue, requests, PreviewContext,
       ConfirmContext, Identity, ClaimRefused, PostAnswered, Find, Stop, Connect, EnableRead,
       EnableWrite, Disable, Lose, PreviewExpires, Reply
  <1>11. ASSUME NEW r \in Requests, ClaimSend(r) \/ Post(r) \/ PostRefused(r)
         PROVE  intent[r] \in Intents
    BY <1>11 DEF ClaimSend, Post, PostRefused, IInv, Knowledge
  <1> QED
    BY <1>1, <1>2, <1>3, <1>4, <1>5, <1>6, <1>7, <1>8, <1>9, <1>10, <1>11 DEF Stays

(* A move of one review is the same move of the abstract phase function. *)
LEMMA ManualMoveIsStep ==
  ASSUME NEW i \in Intents, NEW from, NEW to, from # to, Moves(i, from, to)
  PROVE  /\ Once!Step(i, from, to)
         /\ [j \in Intents |-> PhaseOf(j)]'[i] # [j \in Intents |-> PhaseOf(j)][i]
  <1>1. Once!Step(i, from, to)
    <2>1. PhaseOf(i) = from /\ PhaseOf(i)' = to
      BY DEF Moves
    <2>2. \A j \in Intents \ {i} : PhaseOf(j)' = PhaseOf(j)
      BY DEF Moves
    <2>3. [j \in Intents |-> PhaseOf(j)]' = [[j \in Intents |-> PhaseOf(j)] EXCEPT ![i] = to]
      <3>1. \A j \in Intents : PhaseOf(j)' = IF j = i THEN to ELSE PhaseOf(j)
        BY <2>1, <2>2
      <3> QED
        BY <3>1
    <2>4. [j \in Intents |-> PhaseOf(j)][i] = from
      BY <2>1
    <2> QED
      BY <2>3, <2>4 DEF Once!Step
  <1>2. [j \in Intents |-> PhaseOf(j)]'[i] # [j \in Intents |-> PhaseOf(j)][i]
    BY DEF Moves
  <1> QED
    BY <1>1, <1>2

(* Manual orders implement OrderOnce for the account as a whole: whatever stops
   a request, whatever is lost or late, and whichever requests replay it, a
   review becomes one order request at most, and none is authorised beside one
   in doubt. *)
THEOREM ManualRefinement == Spec => ImplementsOrderOnce
  <1>1. Init => Once!Init
    BY DEF Init, Once!Init, PhaseOf, NoOrder
  <1>2. IInv /\ [Next]_vars => [Once!Next]_([i \in Intents |-> PhaseOf(i)])
    <2> SUFFICES ASSUME IInv, [Next]_vars PROVE [Once!Next]_([i \in Intents |-> PhaseOf(i)])
      OBVIOUS
    <2>1. ASSUME \A i \in Intents : PhaseOf(i)' = PhaseOf(i)
          PROVE  UNCHANGED [i \in Intents |-> PhaseOf(i)]
      BY <2>1
    <2>2. ASSUME NEW i \in Intents,
                 \/ Moves(i, "new", "authorised") /\ ~Doubt(i)
                 \/ Moves(i, "authorised", "sent")
                 \/ Moves(i, "sent", "live")
                 \/ Moves(i, "sent", "refused")
                 \/ Moves(i, "live", "final")
          PROVE  Once!Next
      <3>1. ~Doubt(i) => ~Once!InDoubt(i)
        BY DEF Doubt, Once!InDoubt
      <3> QED
        BY <2>2, <3>1, ManualMoveIsStep
           DEF Once!Next, Once!Authorise, Once!Send, Once!Accept, Once!Reject, Once!Finish
    <2> QED
      BY <2>1, <2>2, ManualPhases
  <1> QED
    BY <1>1, <1>2, Invariance, PTL DEF Spec, ImplementsOrderOnce, Once!Spec

(* Both together: a review is authorised once, beside no order in doubt, and
   while live orders are on. *)
THEOREM ManualAuthorisedOnce == Spec => AuthorisedOnce
  BY ManualRefinement, ManualSwitchHolds DEF AuthorisedOnce

-----------------------------------------------------------------------------
(* The position beside the manual orders.                                    *)

LEMMA PositionAssumed ==
    /\ Ordered \in Nat \ {0} /\ Faults \subseteq Position!Fault
    /\ Minimum \in Nat \ {0} /\ MinimumAtStop \in Nat /\ Minimum <= MinimumAtStop
  BY OrdersAssumption DEF Position!Fault, Managed!Fault

LEMMA PositionStarts == Managed!Init => Position!IInv /\ Position!SInv
  <1>1. Managed!Init => Position!Init
    BY DEF Position!Init, Managed!Init, Position!NoKey, Managed!NoKey, Position!Keys, Managed!Keys,
           Position!NoExit, Managed!NoExit
  <1>2. Position!Init => Position!IInv
    BY PositionAssumed, Position!InitInvariant
  <1>3. Position!Init => Position!SInv
    BY PositionAssumed, Position!InitSold
  <1> QED
    BY <1>1, <1>2, <1>3

LEMMA PositionMoves ==
    ASSUME Position!IInv, Position!SInv, [Position!Next]_(Position!vars)
    PROVE  Position!IInv' /\ Position!SInv'
  <1>1. Position!IInv'
    BY PositionAssumed, Position!InductiveStep
  <1> QED
    BY <1>1, PositionAssumed, Position!SoldStep

(* The run's instance of ManagedProtection is the one of the proofs.         *)
LEMMA SameSteps == Position!Next <=> Managed!Next
  <1> USE DEF Position!venue, Managed!venue, Position!journal, Managed!journal, Position!pass,
              Managed!pass, Position!Keys, Managed!Keys, Position!NoKey, Managed!NoKey, Position!NoExit,
              Managed!NoExit, Position!Sold, Managed!Sold, Position!Held, Managed!Held, Position!Ended,
              Managed!Ended, Position!LiveExit, Managed!LiveExit, Position!Unsettled, Managed!Unsettled,
              Position!Visible, Managed!Visible, Position!Leave, Managed!Leave, Position!Report,
              Managed!Report, Position!Finish, Managed!Finish, Position!Blocked, Managed!Blocked,
              Position!Closable, Managed!Closable, Position!Reconcile, Managed!Reconcile,
              Position!Protected, Managed!Protected, Position!MayCancel, Managed!MayCancel,
              Position!CancelIssue, Managed!CancelIssue, Position!PriorOver, Managed!PriorOver,
              Position!Least, Managed!Least, Position!Sellable, Managed!Sellable,
              Position!MayExit, Managed!MayExit, Position!SumFunction,
              Managed!SumFunction, Position!SumFunctionOnSet, Managed!SumFunctionOnSet,
              Position!FoldFunctionOnSet, Managed!FoldFunctionOnSet, Position!MapThenFoldSet,
              Managed!MapThenFoldSet
  <1>1. Position!Reason = Managed!Reason
    BY DEF Position!Reason, Managed!Reason
  <1>2. Position!ExitKey = Managed!ExitKey
    BY <1>1 DEF Position!ExitKey, Managed!ExitKey, Position!Cardinality, Managed!Cardinality
  <1>3. Position!NothingHeld <=> Managed!NothingHeld
    BY DEF Position!NothingHeld, Managed!NothingHeld
  <1>4. Position!NothingToDo <=> Managed!NothingToDo
    BY <1>1, <1>2 DEF Position!NothingToDo, Managed!NothingToDo
  <1>5. Position!Stop <=> Managed!Stop
    BY DEF Position!Stop, Managed!Stop
  <1>6. Position!DeadlineOver <=> Managed!DeadlineOver
    BY DEF Position!DeadlineOver, Managed!DeadlineOver
  <1>7. Position!NotReady <=> Managed!NotReady
    BY DEF Position!NotReady, Managed!NotReady
  <1>8. Position!ReadFails <=> Managed!ReadFails
    BY DEF Position!ReadFails, Managed!ReadFails
  <1>9. Position!Ensure <=> Managed!Ensure
    BY DEF Position!Ensure, Managed!Ensure
  <1>10. Position!EnsureFails <=> Managed!EnsureFails
    BY DEF Position!EnsureFails, Managed!EnsureFails
  <1>11. Position!Latch <=> Managed!Latch
    BY <1>1, <1>2 DEF Position!Latch, Managed!Latch
  <1>12. Position!ClaimCancel <=> Managed!ClaimCancel
    BY DEF Position!ClaimCancel, Managed!ClaimCancel
  <1>13. Position!CancelPending <=> Managed!CancelPending
    BY DEF Position!CancelPending, Managed!CancelPending
  <1>14. Position!CancelReply <=> Managed!CancelReply
    BY DEF Position!CancelReply, Managed!CancelReply
  <1>15. Position!CancelUnknown <=> Managed!CancelUnknown
    BY DEF Position!CancelUnknown, Managed!CancelUnknown
  <1>16. Position!PrepareExit <=> Managed!PrepareExit
    BY DEF Position!PrepareExit, Managed!PrepareExit
  <1>17. Position!DeadlineReconcile <=> Managed!DeadlineReconcile
    BY DEF Position!DeadlineReconcile, Managed!DeadlineReconcile
  <1>18. Position!Ready <=> Managed!Ready
    BY DEF Position!Ready, Managed!Ready
  <1>19. Position!Begin <=> Managed!Begin
    BY DEF Position!Begin, Managed!Begin
  <1>20. Position!Claim <=> Managed!Claim
    BY DEF Position!Claim, Managed!Claim
  <1>21. Position!Post <=> Managed!Post
    BY DEF Position!Post, Managed!Post
  <1>22. Position!Acknowledged <=> Managed!Acknowledged
    BY DEF Position!Acknowledged, Managed!Acknowledged
  <1>23. Position!CheckFails <=> Managed!CheckFails
    BY DEF Position!CheckFails, Managed!CheckFails
  <1>24. Position!PostUnknown <=> Managed!PostUnknown
    BY DEF Position!PostUnknown, Managed!PostUnknown
  <1>25. Position!Idle <=> Managed!Idle
    BY DEF Position!Idle, Managed!Idle
  <1>26. \A handler : Position!Start(handler) <=> Managed!Start(handler)
    BY DEF Position!Start, Managed!Start
  <1>27. Position!Venue <=> Managed!Venue
    BY DEF Position!FillEntry, Managed!FillEntry, Position!EndEntry, Managed!EndEntry, Position!MoveBid,
           Managed!MoveBid, Position!ReverseCross, Managed!ReverseCross, Position!AcceptExit,
           Managed!AcceptExit, Position!FillExit, Managed!FillExit, Position!EndExit, Managed!EndExit,
           Position!Venue, Managed!Venue
  <1> HIDE DEF Position!venue, Managed!venue, Position!journal, Managed!journal, Position!pass,
               Managed!pass, Position!Keys, Managed!Keys, Position!NoKey, Managed!NoKey, Position!NoExit,
               Managed!NoExit, Position!Sold, Managed!Sold, Position!Held, Managed!Held, Position!Ended,
               Managed!Ended, Position!LiveExit, Managed!LiveExit, Position!Unsettled, Managed!Unsettled,
               Position!Visible, Managed!Visible, Position!Leave, Managed!Leave, Position!Report,
               Managed!Report, Position!Finish, Managed!Finish, Position!Blocked, Managed!Blocked,
               Position!Closable, Managed!Closable, Position!Reconcile, Managed!Reconcile,
               Position!Protected, Managed!Protected, Position!MayCancel, Managed!MayCancel,
               Position!CancelIssue, Managed!CancelIssue, Position!PriorOver, Managed!PriorOver,
               Position!Least, Managed!Least, Position!Sellable, Managed!Sellable,
               Position!MayExit, Managed!MayExit,
               Position!SumFunction, Managed!SumFunction, Position!SumFunctionOnSet,
               Managed!SumFunctionOnSet, Position!FoldFunctionOnSet, Managed!FoldFunctionOnSet,
               Position!MapThenFoldSet, Managed!MapThenFoldSet
  <1> QED
    BY <1>3, <1>4, <1>5, <1>6, <1>7, <1>8, <1>9, <1>10, <1>11, <1>12, <1>13, <1>14, <1>15, <1>16, <1>17,
       <1>18, <1>19, <1>20, <1>21, <1>22, <1>23, <1>24, <1>25, <1>26, <1>27
       DEF Position!Next, Managed!Next, Position!Handler, Managed!Handler, Position!Setback,
           Managed!Setback

LEMMA SameProperties ==
    /\ UNCHANGED managed <=> UNCHANGED Position!vars
    /\ UNCHANGED managed <=> UNCHANGED Managed!vars
    /\ Position!NeverOversold <=> Managed!NeverOversold
    /\ Position!NoBlindRepeat <=> Managed!NoBlindRepeat
    /\ Position!ClosedIsSold <=> Managed!ClosedIsSold
    /\ Position!RecordBehindVenue <=> Managed!RecordBehindVenue
  <1> USE DEF Position!Keys, Managed!Keys, Position!Sold, Managed!Sold, Position!Held, Managed!Held,
              Position!Committed, Managed!Committed, Position!SumFunction, Managed!SumFunction,
              Position!SumFunctionOnSet, Managed!SumFunctionOnSet,
              Position!FoldFunctionOnSet, Managed!FoldFunctionOnSet,
              Position!MapThenFoldSet, Managed!MapThenFoldSet
  <1>1. (UNCHANGED managed <=> UNCHANGED Position!vars) /\ (UNCHANGED managed <=> UNCHANGED Managed!vars)
    BY DEF Position!vars, Managed!vars, managed, Position!venue, Managed!venue, Position!journal,
           Managed!journal, Position!pass, Managed!pass
  <1>2. Position!NeverOversold <=> Managed!NeverOversold
    BY DEF Position!NeverOversold, Managed!NeverOversold
  <1>3. Position!NoBlindRepeat <=> Managed!NoBlindRepeat
    BY DEF Position!NoBlindRepeat, Managed!NoBlindRepeat
  <1>4. Position!ClosedIsSold <=> Managed!ClosedIsSold
    BY DEF Position!ClosedIsSold, Managed!ClosedIsSold
  <1>5. Position!RecordBehindVenue <=> Managed!RecordBehindVenue
    BY DEF Position!RecordBehindVenue, Managed!RecordBehindVenue
  <1> HIDE DEF Position!Keys, Managed!Keys, Position!Sold, Managed!Sold, Position!Held, Managed!Held,
               Position!Committed, Managed!Committed, Position!SumFunction, Managed!SumFunction,
               Position!SumFunctionOnSet, Managed!SumFunctionOnSet,
               Position!FoldFunctionOnSet, Managed!FoldFunctionOnSet,
               Position!MapThenFoldSet, Managed!MapThenFoldSet
  <1> QED
    BY <1>1, <1>2, <1>3, <1>4, <1>5

PositionInv == part = "managed" => Position!IInv /\ Position!SInv

LEMMA PositionInvariance == MCSpec => []PositionInv
  <1>1. MCInit => PositionInv
    BY PositionStarts DEF MCInit, PositionInv
  <1>2. PositionInv /\ [MCNext]_<<part, vars, managed>> => PositionInv'
    <2> SUFFICES ASSUME PositionInv, [MCNext]_<<part, vars, managed>>, part' = "managed"
                 PROVE  Position!IInv' /\ Position!SInv'
      BY DEF PositionInv
    <2>1. part = "managed" /\ [Position!Next]_(Position!vars)
      BY SameSteps, SameProperties DEF MCNext
    <2> QED
      BY <2>1, PositionMoves DEF PositionInv
  <1> QED
    BY <1>1, <1>2, PTL DEF MCSpec

(* No exit of a position sells what another one sells, or may have sold, and
   none follows an exit whose end is in doubt. *)
THEOREM PositionSoldOnce == MCSpec => []SoldOnce
  <1>1. PositionInv => SoldOnce
    BY SameProperties DEF PositionInv, SoldOnce, Position!IInv, Position!SInv
  <1> QED
    BY <1>1, PositionInvariance, PTL

(* A closed record is sold, and no record is ahead of the venue.             *)
THEOREM PositionRecordIsTrue == MCSpec => []RecordIsTrue
  <1>1. PositionInv => RecordIsTrue
    BY SameProperties DEF PositionInv, RecordIsTrue, Position!SInv
  <1> QED
    BY <1>1, PositionInvariance, PTL

(* The reason for an exit is on record before the exit is decided, and stays. *)
THEOREM PositionTriggerKept == MCSpec => TriggerKept
  <1>1. PositionInv /\ PositionInv' /\ [MCNext]_<<part, vars, managed>> =>
          [/\ record.trigger # "none" => record'.trigger = record.trigger
           /\ \A k \in Managed!Keys : decision'[k] # "none" => record'.trigger # "none"]_(Managed!vars)
    <2> SUFFICES ASSUME PositionInv, PositionInv', [MCNext]_<<part, vars, managed>>, ~ UNCHANGED Managed!vars
                 PROVE  /\ record.trigger # "none" => record'.trigger = record.trigger
                        /\ \A k \in Managed!Keys : decision'[k] # "none" => record'.trigger # "none"
      OBVIOUS
    <2>1. part = "managed" /\ part' = "managed" /\ Position!Next
      BY SameSteps, SameProperties DEF MCNext
    <2>2. Position!IInv /\ Position!IInv'
      BY <2>1 DEF PositionInv
    <2>3. record.trigger # "none" => record'.trigger = record.trigger
      BY <2>1, <2>2, PositionAssumed, Position!LatchStep
    <2>4. Position!TriggerIsDurable'
      BY <2>2 DEF Position!IInv
    <2>5. \A k \in Managed!Keys : decision'[k] # "none" => record'.trigger # "none"
      BY <2>4 DEF Position!TriggerIsDurable, Position!Keys, Managed!Keys
    <2> QED
      BY <2>3, <2>5
  <1> QED
    BY <1>1, PositionInvariance, PTL DEF MCSpec, TriggerKept, Managed!TriggerKept
=============================================================================
