------------------------ MODULE SourceWrites_proofs ------------------------
(***************************************************************************)
(* Proofs about SourceWrites, for any number of invocations, decisions and *)
(* assets.  Each lemma below shows that one conjunct of IInv survives a    *)
(* step, with one proof step per action; Invariance puts them together,    *)
(* and the theorems about the properties follow from it.                   *)
(***************************************************************************)
EXTENDS SourceWrites, TLAPS

USE KeyAssumption, NoneAssumption DEF journal, venue, worker

(* Nothing is claimed, sent or read in the initial state. *)
LEMMA InitInv == Init => IInv
  BY DEF Init, IInv, TypeOK, Jobs, Sending, Sights, Records, Leased,
     OneOpenWritePerAsset, OneOutstanding, Outstanding, Submitting, Reading,
     Status, Claim, Order, Switch, Place, Off, NoOlder, Owned

(* Every step keeps the types; a handler uses a local only where it is set. *)
LEMMA TypeOKStep == IInv /\ Next => TypeOK'
<1> SUFFICES ASSUME TypeOK, Jobs, Next PROVE TypeOK'
  BY DEF IInv
<1> USE DEF TypeOK
<1>1. CASE Expire
  BY <1>1 DEF Expire
<1>2. ASSUME NEW w \in Worker, Acquire(w) PROVE TypeOK'
  BY <1>2 DEF Acquire, Goto, Place
<1>3. ASSUME NEW w \in Worker, Release(w) PROVE TypeOK'
  BY <1>3 DEF Release, Return, Forget, Goto, Owned, Place, Order, Off, Switch
<1>4. ASSUME NEW w \in Worker, Stop(w) PROVE TypeOK'
  BY <1>4 DEF Stop, Return, Forget, Goto, Place, Order, Off, Switch
<1>5. ASSUME NEW w \in Worker, EnableEntries(w) PROVE TypeOK'
  BY <1>5 DEF EnableEntries, Save, Switch
<1>6. ASSUME NEW w \in Worker, PauseEntries(w) PROVE TypeOK'
  <2>1. [view[w] EXCEPT !.entriesEnabled = FALSE] \in Switch
    BY DEF Switch
  <2> QED
    BY <1>6, <2>1 DEF PauseEntries, Save
<1>7. ASSUME NEW w \in Worker, SaveCycle(w) PROVE TypeOK'
  BY <1>7 DEF SaveCycle, Save, Switch
<1>8. ASSUME NEW w \in Worker, Check(w) PROVE TypeOK'
  BY <1>8 DEF Check, MayEnter, MayExit, Goto, Jobs, Submitting, Reading, Place
<1>9. ASSUME NEW w \in Worker, RejectBeforeSend(w) PROVE TypeOK'
  BY <1>9 DEF RejectBeforeSend, Result, Goto, Jobs, Submitting, Reading, Place,
     Status, Order
<1>10. ASSUME NEW w \in Worker, FailBeforeSubmit(w) PROVE TypeOK'
  BY <1>10 DEF FailBeforeSubmit, Goto, Place
<1>11. ASSUME NEW w \in Worker, ClaimSubmit(w) PROVE TypeOK'
  <2>1. job[w] \in Key
    BY <1>11 DEF ClaimSubmit, Jobs, Submitting
  <2>2. CASE Claimable(w, job[w], submitClaim[job[w]])
    BY <1>11, <2>1, <2>2 DEF ClaimSubmit, Goto, Claim, Place
  <2>3. CASE ~Claimable(w, job[w], submitClaim[job[w]])
    BY <1>11, <2>1, <2>3 DEF ClaimSubmit, Goto, Claim, Place
  <2> QED
    BY <2>2, <2>3
<1>12. ASSUME NEW w \in Worker, Post(w) PROVE TypeOK'
  BY <1>12 DEF Post, Goto, Jobs, Submitting, Reading, Place
<1>13. ASSUME NEW w \in Worker, PostAcknowledged(w) PROVE TypeOK'
  BY <1>13 DEF PostAcknowledged, Goto, Jobs, Submitting, Reading, Place, Order
<1>14. ASSUME NEW w \in Worker, PostFails(w) PROVE TypeOK'
  BY <1>14 DEF PostFails, Forget, Goto, Place, Order
<1>15. ASSUME NEW w \in Worker, RecordSubmit(w) PROVE TypeOK'
  BY <1>15 DEF RecordSubmit, Result, Goto, Jobs, Submitting, Reading, Place,
     Status, Order
<1>16. ASSUME NEW w \in Worker, SettleSubmit(w) PROVE TypeOK'
  BY <1>16 DEF SettleSubmit, Resume, Forget, Goto, Jobs, Submitting, Reading,
     Place, Order, Claim
<1>17. ASSUME NEW w \in Worker, MarkUnknown(w) PROVE TypeOK'
  BY <1>17 DEF MarkUnknown, Result, Resume, Forget, Goto, Jobs, Submitting,
     Reading, Place, Status, Order
<1>18. ASSUME NEW w \in Worker, RecordFound(w) PROVE TypeOK'
  BY <1>18 DEF RecordFound, Result, Goto, Jobs, Submitting, Reading, Place,
     Status, Order
<1>19. ASSUME NEW w \in Worker, SettleFound(w) PROVE TypeOK'
  BY <1>19 DEF SettleFound, Resume, Forget, Goto, Jobs, Submitting, Reading,
     Place, Order, Claim
<1>20. ASSUME NEW w \in Worker, GiveUp(w) PROVE TypeOK'
  BY <1>20 DEF GiveUp, Resume, Forget, Goto, Place, Order
<1>21. ASSUME NEW w \in Worker, AlreadyFinal(w) PROVE TypeOK'
  BY <1>21 DEF AlreadyFinal, Result, Resume, Forget, Goto, Jobs, Submitting,
     Reading, Place, Status, Order
<1>22. ASSUME NEW w \in Worker, ClaimCancel(w) PROVE TypeOK'
  <2>1. target[w] \in Key
    BY <1>22 DEF ClaimCancel, Jobs, Reading
  <2>2. CASE Claimable(w, target[w], cancelClaim[target[w]])
    BY <1>22, <2>1, <2>2 DEF ClaimCancel, Goto, Claim, Place
  <2>3. CASE ~Claimable(w, target[w], cancelClaim[target[w]])
    BY <1>22, <2>1, <2>3 DEF ClaimCancel, Goto, Resume, Forget, Place, Order
  <2> QED
    BY <2>2, <2>3
<1>23. ASSUME NEW w \in Worker, Delete(w) PROVE TypeOK'
  <2>1. target[w] \in Key
    BY <1>23 DEF Delete, Jobs, Reading
  <2>2. /\ pc' \in [Worker -> Place]
        /\ seen' \in [Worker -> Order]
        /\ deletes' \subseteq Key
    BY <1>23, <2>1 DEF Delete, Goto, Place, Order
  <2> QED
    BY <1>23, <2>2 DEF Delete
<1>24. ASSUME NEW w \in Worker, DeleteAcknowledged(w) PROVE TypeOK'
  BY <1>24 DEF DeleteAcknowledged, Goto, Jobs, Submitting, Reading, Place,
     Order
<1>25. ASSUME NEW w \in Worker, RecordCancel(w) PROVE TypeOK'
  <2>1. target[w] \in Key
    BY <1>25 DEF RecordCancel, Jobs, Reading
  <2>2. /\ target' \in [Worker -> Key \cup {None}]
        /\ seen' \in [Worker -> Order]
        /\ pc' \in [Worker -> Place]
    BY <1>25, <2>1 DEF RecordCancel, Goto, Resume, Forget, Place, Order
  <2>3. decision' \in [Key -> Status] /\ source' \in [Key -> Order]
    BY <1>25, <2>1 DEF RecordCancel, Result, Status, Order
  <2> QED
    BY <1>25, <2>2, <2>3 DEF RecordCancel
<1>26. ASSUME NEW w \in Worker, SettleCancel(w) PROVE TypeOK'
  BY <1>26 DEF SettleCancel, Resume, Forget, Goto, Jobs, Submitting, Reading,
     Place, Order, Claim
<1>27. ASSUME NEW w \in Worker, NEW k \in Key, Begin(w, k) PROVE TypeOK'
  BY <1>27 DEF Begin, MayEnter, MayExit, Goto, Place, Status
<1>28. ASSUME NEW w \in Worker, NEW k \in Key, Find(w, k) PROVE TypeOK'
  BY <1>28 DEF Find, MayRead, Goto, Place, Order
<1>29. ASSUME NEW w \in Worker, NEW k \in Key, ReadEntry(w, k) PROVE TypeOK'
  BY <1>29 DEF ReadEntry, MayRead, Goto, Place, Order
<1>30. ASSUME NEW k \in Key, AcceptPost(k) PROVE TypeOK'
  BY <1>30 DEF AcceptPost, Order
<1>31. ASSUME NEW k \in Key, LosePost(k) PROVE TypeOK'
  BY <1>31 DEF LosePost
<1>32. ASSUME NEW k \in Key, ReceiveDelete(k) PROVE TypeOK'
  BY <1>32 DEF ReceiveDelete
<1>33. ASSUME NEW k \in Key, FinishOrder(k) PROVE TypeOK'
  BY <1>33 DEF FinishOrder, Order
<1> QED
  BY <1>1, <1>2, <1>3, <1>4, <1>5, <1>6, <1>7, <1>8, <1>9, <1>10, <1>11, <1>12,
     <1>13, <1>14, <1>15, <1>16, <1>17, <1>18, <1>19, <1>20, <1>21, <1>22,
     <1>23, <1>24, <1>25, <1>26, <1>27, <1>28, <1>29, <1>30, <1>31, <1>32,
     <1>33
     DEF Next, Lease, State, Submit, Lookup, Cancel, Venue

(* A decision keeps one submitter: begin() gives a key out once. *)
LEMMA JobsStep == IInv /\ Next => Jobs'
<1> SUFFICES ASSUME IInv, Next PROVE Jobs'
  OBVIOUS
<1> USE DEF IInv, TypeOK, Jobs, Submitting, Reading, Place
<1>1. CASE Expire
  BY <1>1 DEF Expire
<1>2. ASSUME NEW w \in Worker, Acquire(w) PROVE Jobs'
  BY <1>2 DEF Acquire, Goto
<1>3. ASSUME NEW w \in Worker, Release(w) PROVE Jobs'
  BY <1>3 DEF Release, Return, Forget, Goto, Owned
<1>4. ASSUME NEW w \in Worker, Stop(w) PROVE Jobs'
  BY <1>4 DEF Stop, Return, Forget, Goto
<1>5. ASSUME NEW w \in Worker, EnableEntries(w) PROVE Jobs'
  BY <1>5 DEF EnableEntries, Save, Owned
<1>6. ASSUME NEW w \in Worker, PauseEntries(w) PROVE Jobs'
  BY <1>6 DEF PauseEntries, Save, Owned
<1>7. ASSUME NEW w \in Worker, SaveCycle(w) PROVE Jobs'
  BY <1>7 DEF SaveCycle, Save, Owned
<1>8. ASSUME NEW w \in Worker, Check(w) PROVE Jobs'
  BY <1>8 DEF Check, MayEnter, MayExit, Goto, Owned
<1>9. ASSUME NEW w \in Worker, RejectBeforeSend(w) PROVE Jobs'
  BY <1>9 DEF RejectBeforeSend, Result, Goto, Owned
<1>10. ASSUME NEW w \in Worker, FailBeforeSubmit(w) PROVE Jobs'
  BY <1>10 DEF FailBeforeSubmit, Goto
<1>11. ASSUME NEW w \in Worker, ClaimSubmit(w) PROVE Jobs'
  BY <1>11 DEF ClaimSubmit, Claimable, Goto, Owned
<1>12. ASSUME NEW w \in Worker, Post(w) PROVE Jobs'
  BY <1>12 DEF Post, Goto
<1>13. ASSUME NEW w \in Worker, PostAcknowledged(w) PROVE Jobs'
  BY <1>13 DEF PostAcknowledged, Goto
<1>14. ASSUME NEW w \in Worker, PostFails(w) PROVE Jobs'
  BY <1>14 DEF PostFails, Forget, Goto
<1>15. ASSUME NEW w \in Worker, RecordSubmit(w) PROVE Jobs'
  BY <1>15 DEF RecordSubmit, Result, Goto, Owned
<1>16. ASSUME NEW w \in Worker, SettleSubmit(w) PROVE Jobs'
  BY <1>16 DEF SettleSubmit, Resume, Forget, Goto, Owned
<1>17. ASSUME NEW w \in Worker, MarkUnknown(w) PROVE Jobs'
  BY <1>17 DEF MarkUnknown, Result, Resume, Forget, Goto, Owned
<1>18. ASSUME NEW w \in Worker, RecordFound(w) PROVE Jobs'
  BY <1>18 DEF RecordFound, Result, Goto, Owned
<1>19. ASSUME NEW w \in Worker, SettleFound(w) PROVE Jobs'
  BY <1>19 DEF SettleFound, Resume, Forget, Goto, Owned
<1>20. ASSUME NEW w \in Worker, GiveUp(w) PROVE Jobs'
  BY <1>20 DEF GiveUp, Resume, Forget, Goto
<1>21. ASSUME NEW w \in Worker, AlreadyFinal(w) PROVE Jobs'
  BY <1>21 DEF AlreadyFinal, Result, Resume, Forget, Goto, Owned
<1>22. ASSUME NEW w \in Worker, ClaimCancel(w) PROVE Jobs'
  BY <1>22 DEF ClaimCancel, Claimable, Resume, Forget, Goto, Owned
<1>23. ASSUME NEW w \in Worker, Delete(w) PROVE Jobs'
  BY <1>23 DEF Delete, Goto
<1>24. ASSUME NEW w \in Worker, DeleteAcknowledged(w) PROVE Jobs'
  BY <1>24 DEF DeleteAcknowledged, Goto
<1>25. ASSUME NEW w \in Worker, RecordCancel(w) PROVE Jobs'
  BY <1>25 DEF RecordCancel, Result, Resume, Forget, Goto, Owned
<1>26. ASSUME NEW w \in Worker, SettleCancel(w) PROVE Jobs'
  BY <1>26 DEF SettleCancel, Resume, Forget, Goto, Owned
<1>27. ASSUME NEW w \in Worker, NEW k \in Key, Begin(w, k) PROVE Jobs'
  BY <1>27 DEF Begin, MayEnter, MayExit, Goto, Owned
<1>28. ASSUME NEW w \in Worker, NEW k \in Key, Find(w, k) PROVE Jobs'
  BY <1>28 DEF Find, MayRead, Goto, Owned
<1>29. ASSUME NEW w \in Worker, NEW k \in Key, ReadEntry(w, k) PROVE Jobs'
  BY <1>29 DEF ReadEntry, MayRead, Goto, Owned
<1>30. ASSUME NEW k \in Key, AcceptPost(k) PROVE Jobs'
  BY <1>30 DEF AcceptPost
<1>31. ASSUME NEW k \in Key, LosePost(k) PROVE Jobs'
  BY <1>31 DEF LosePost
<1>32. ASSUME NEW k \in Key, ReceiveDelete(k) PROVE Jobs'
  BY <1>32 DEF ReceiveDelete
<1>33. ASSUME NEW k \in Key, FinishOrder(k) PROVE Jobs'
  BY <1>33 DEF FinishOrder
<1> QED
  BY <1>1, <1>2, <1>3, <1>4, <1>5, <1>6, <1>7, <1>8, <1>9, <1>10, <1>11, <1>12,
     <1>13, <1>14, <1>15, <1>16, <1>17, <1>18, <1>19, <1>20, <1>21, <1>22,
     <1>23, <1>24, <1>25, <1>26, <1>27, <1>28, <1>29, <1>30, <1>31, <1>32,
     <1>33
     DEF Next, Lease, State, Submit, Lookup, Cancel, Venue

(* Claims precede requests, requests precede orders, orders precede settlement. *)
LEMMA SendingStep == IInv /\ Next => Sending'
<1> SUFFICES ASSUME IInv, Next PROVE Sending'
  OBVIOUS
<1> USE DEF IInv, TypeOK, Jobs, Sending, Sights, NoOlder, Submitting, Reading,
      Status, Claim, Order, Place
<1>1. CASE Expire
  BY <1>1 DEF Expire
<1>2. ASSUME NEW w \in Worker, Acquire(w) PROVE Sending'
  BY <1>2 DEF Acquire, Goto
<1>3. ASSUME NEW w \in Worker, Release(w) PROVE Sending'
  BY <1>3 DEF Release, Return, Forget, Goto, Owned
<1>4. ASSUME NEW w \in Worker, Stop(w) PROVE Sending'
  BY <1>4 DEF Stop, Return, Forget, Goto
<1>5. ASSUME NEW w \in Worker, EnableEntries(w) PROVE Sending'
  BY <1>5 DEF EnableEntries, Save, Owned
<1>6. ASSUME NEW w \in Worker, PauseEntries(w) PROVE Sending'
  BY <1>6 DEF PauseEntries, Save, Owned
<1>7. ASSUME NEW w \in Worker, SaveCycle(w) PROVE Sending'
  BY <1>7 DEF SaveCycle, Save, Owned
<1>8. ASSUME NEW w \in Worker, Check(w) PROVE Sending'
  BY <1>8 DEF Check, MayEnter, MayExit, Goto, Owned
<1>9. ASSUME NEW w \in Worker, RejectBeforeSend(w) PROVE Sending'
  BY <1>9 DEF RejectBeforeSend, Result, Goto, Owned
<1>10. ASSUME NEW w \in Worker, FailBeforeSubmit(w) PROVE Sending'
  BY <1>10 DEF FailBeforeSubmit, Goto
<1>11. ASSUME NEW w \in Worker, ClaimSubmit(w) PROVE Sending'
  BY <1>11 DEF ClaimSubmit, Claimable, Goto, Owned
<1>12. ASSUME NEW w \in Worker, Post(w) PROVE Sending'
  BY <1>12 DEF Post, Goto
<1>13. ASSUME NEW w \in Worker, PostAcknowledged(w) PROVE Sending'
  BY <1>13 DEF PostAcknowledged, Goto
<1>14. ASSUME NEW w \in Worker, PostFails(w) PROVE Sending'
  BY <1>14 DEF PostFails, Forget, Goto
<1>15. ASSUME NEW w \in Worker, RecordSubmit(w) PROVE Sending'
  BY <1>15 DEF RecordSubmit, Result, Goto, Owned
<1>16. ASSUME NEW w \in Worker, SettleSubmit(w) PROVE Sending'
  BY <1>16 DEF SettleSubmit, Resume, Forget, Goto, Owned
<1>17. ASSUME NEW w \in Worker, MarkUnknown(w) PROVE Sending'
  BY <1>17 DEF MarkUnknown, Result, Resume, Forget, Goto, Owned
<1>18. ASSUME NEW w \in Worker, RecordFound(w) PROVE Sending'
  BY <1>18 DEF RecordFound, Result, Goto, Owned
<1>19. ASSUME NEW w \in Worker, SettleFound(w) PROVE Sending'
  BY <1>19 DEF SettleFound, Resume, Forget, Goto, Owned
<1>20. ASSUME NEW w \in Worker, GiveUp(w) PROVE Sending'
  BY <1>20 DEF GiveUp, Resume, Forget, Goto
<1>21. ASSUME NEW w \in Worker, AlreadyFinal(w) PROVE Sending'
  BY <1>21 DEF AlreadyFinal, Result, Resume, Forget, Goto, Owned
<1>22. ASSUME NEW w \in Worker, ClaimCancel(w) PROVE Sending'
  BY <1>22 DEF ClaimCancel, Claimable, Resume, Forget, Goto, Owned
<1>23. ASSUME NEW w \in Worker, Delete(w) PROVE Sending'
  BY <1>23 DEF Delete, Goto
<1>24. ASSUME NEW w \in Worker, DeleteAcknowledged(w) PROVE Sending'
  BY <1>24 DEF DeleteAcknowledged, Goto
<1>25. ASSUME NEW w \in Worker, RecordCancel(w) PROVE Sending'
  BY <1>25 DEF RecordCancel, Result, Resume, Forget, Goto, Owned
<1>26. ASSUME NEW w \in Worker, SettleCancel(w) PROVE Sending'
  BY <1>26 DEF SettleCancel, Resume, Forget, Goto, Owned
<1>27. ASSUME NEW w \in Worker, NEW k \in Key, Begin(w, k) PROVE Sending'
  BY <1>27 DEF Begin, MayEnter, MayExit, Goto, Owned
<1>28. ASSUME NEW w \in Worker, NEW k \in Key, Find(w, k) PROVE Sending'
  BY <1>28 DEF Find, MayRead, Goto, Owned
<1>29. ASSUME NEW w \in Worker, NEW k \in Key, ReadEntry(w, k) PROVE Sending'
  BY <1>29 DEF ReadEntry, MayRead, Goto, Owned
<1>30. ASSUME NEW k \in Key, AcceptPost(k) PROVE Sending'
  BY <1>30 DEF AcceptPost
<1>31. ASSUME NEW k \in Key, LosePost(k) PROVE Sending'
  BY <1>31 DEF LosePost
<1>32. ASSUME NEW k \in Key, ReceiveDelete(k) PROVE Sending'
  BY <1>32 DEF ReceiveDelete
<1>33. ASSUME NEW k \in Key, FinishOrder(k) PROVE Sending'
  BY <1>33 DEF FinishOrder
<1> QED
  BY <1>1, <1>2, <1>3, <1>4, <1>5, <1>6, <1>7, <1>8, <1>9, <1>10, <1>11, <1>12,
     <1>13, <1>14, <1>15, <1>16, <1>17, <1>18, <1>19, <1>20, <1>21, <1>22,
     <1>23, <1>24, <1>25, <1>26, <1>27, <1>28, <1>29, <1>30, <1>31, <1>32,
     <1>33
     DEF Next, Lease, State, Submit, Lookup, Cancel, Venue

(* What a handler read stays a sight of the order while the venue goes on. *)
LEMMA SightsStep == IInv /\ Next => Sights'
<1> SUFFICES ASSUME IInv, Next PROVE Sights'
  OBVIOUS
<1> USE DEF IInv, TypeOK, Jobs, Sending, Sights, Submitting, Reading, Order,
      Place, NoOlder
<1>1. CASE Expire
  BY <1>1 DEF Expire
<1>2. ASSUME NEW w \in Worker, Acquire(w) PROVE Sights'
  BY <1>2 DEF Acquire, Goto
<1>3. ASSUME NEW w \in Worker, Release(w) PROVE Sights'
  BY <1>3 DEF Release, Return, Forget, Goto, Owned
<1>4. ASSUME NEW w \in Worker, Stop(w) PROVE Sights'
  BY <1>4 DEF Stop, Return, Forget, Goto
<1>5. ASSUME NEW w \in Worker, EnableEntries(w) PROVE Sights'
  BY <1>5 DEF EnableEntries, Save, Owned
<1>6. ASSUME NEW w \in Worker, PauseEntries(w) PROVE Sights'
  BY <1>6 DEF PauseEntries, Save, Owned
<1>7. ASSUME NEW w \in Worker, SaveCycle(w) PROVE Sights'
  BY <1>7 DEF SaveCycle, Save, Owned
<1>8. ASSUME NEW w \in Worker, Check(w) PROVE Sights'
  BY <1>8 DEF Check, MayEnter, MayExit, Goto, Owned
<1>9. ASSUME NEW w \in Worker, RejectBeforeSend(w) PROVE Sights'
  BY <1>9 DEF RejectBeforeSend, Result, Goto, Owned
<1>10. ASSUME NEW w \in Worker, FailBeforeSubmit(w) PROVE Sights'
  BY <1>10 DEF FailBeforeSubmit, Goto
<1>11. ASSUME NEW w \in Worker, ClaimSubmit(w) PROVE Sights'
  BY <1>11 DEF ClaimSubmit, Claimable, Goto, Owned
<1>12. ASSUME NEW w \in Worker, Post(w) PROVE Sights'
  BY <1>12 DEF Post, Goto
<1>13. ASSUME NEW w \in Worker, PostAcknowledged(w) PROVE Sights'
  BY <1>13 DEF PostAcknowledged, Goto
<1>14. ASSUME NEW w \in Worker, PostFails(w) PROVE Sights'
  BY <1>14 DEF PostFails, Forget, Goto
<1>15. ASSUME NEW w \in Worker, RecordSubmit(w) PROVE Sights'
  BY <1>15 DEF RecordSubmit, Result, Goto, Owned
<1>16. ASSUME NEW w \in Worker, SettleSubmit(w) PROVE Sights'
  BY <1>16 DEF SettleSubmit, Resume, Forget, Goto, Owned
<1>17. ASSUME NEW w \in Worker, MarkUnknown(w) PROVE Sights'
  BY <1>17 DEF MarkUnknown, Result, Resume, Forget, Goto, Owned
<1>18. ASSUME NEW w \in Worker, RecordFound(w) PROVE Sights'
  BY <1>18 DEF RecordFound, Result, Goto, Owned
<1>19. ASSUME NEW w \in Worker, SettleFound(w) PROVE Sights'
  BY <1>19 DEF SettleFound, Resume, Forget, Goto, Owned
<1>20. ASSUME NEW w \in Worker, GiveUp(w) PROVE Sights'
  BY <1>20 DEF GiveUp, Resume, Forget, Goto
<1>21. ASSUME NEW w \in Worker, AlreadyFinal(w) PROVE Sights'
  BY <1>21 DEF AlreadyFinal, Result, Resume, Forget, Goto, Owned
<1>22. ASSUME NEW w \in Worker, ClaimCancel(w) PROVE Sights'
  BY <1>22 DEF ClaimCancel, Claimable, Resume, Forget, Goto, Owned
<1>23. ASSUME NEW w \in Worker, Delete(w) PROVE Sights'
  BY <1>23 DEF Delete, Goto
<1>24. ASSUME NEW w \in Worker, DeleteAcknowledged(w) PROVE Sights'
  BY <1>24 DEF DeleteAcknowledged, Goto
<1>25. ASSUME NEW w \in Worker, RecordCancel(w) PROVE Sights'
  BY <1>25 DEF RecordCancel, Result, Resume, Forget, Goto, Owned
<1>26. ASSUME NEW w \in Worker, SettleCancel(w) PROVE Sights'
  BY <1>26 DEF SettleCancel, Resume, Forget, Goto, Owned
<1>27. ASSUME NEW w \in Worker, NEW k \in Key, Begin(w, k) PROVE Sights'
  BY <1>27 DEF Begin, MayEnter, MayExit, Goto, Owned
<1>28. ASSUME NEW w \in Worker, NEW k \in Key, Find(w, k) PROVE Sights'
  BY <1>28 DEF Find, MayRead, Goto, Owned
<1>29. ASSUME NEW w \in Worker, NEW k \in Key, ReadEntry(w, k) PROVE Sights'
  BY <1>29 DEF ReadEntry, MayRead, Goto, Owned
<1>30. ASSUME NEW k \in Key, AcceptPost(k) PROVE Sights'
  BY <1>30 DEF AcceptPost
<1>31. ASSUME NEW k \in Key, LosePost(k) PROVE Sights'
  BY <1>31 DEF LosePost
<1>32. ASSUME NEW k \in Key, ReceiveDelete(k) PROVE Sights'
  BY <1>32 DEF ReceiveDelete
<1>33. ASSUME NEW k \in Key, FinishOrder(k) PROVE Sights'
  BY <1>33 DEF FinishOrder
<1> QED
  BY <1>1, <1>2, <1>3, <1>4, <1>5, <1>6, <1>7, <1>8, <1>9, <1>10, <1>11, <1>12,
     <1>13, <1>14, <1>15, <1>16, <1>17, <1>18, <1>19, <1>20, <1>21, <1>22,
     <1>23, <1>24, <1>25, <1>26, <1>27, <1>28, <1>29, <1>30, <1>31, <1>32,
     <1>33
     DEF Next, Lease, State, Submit, Lookup, Cancel, Venue

(* The journal stays behind the venue, and behind what the lease holder read. *)
LEMMA RecordsStep == IInv /\ Next => Records'
<1> SUFFICES ASSUME IInv, Next PROVE Records'
  OBVIOUS
<1> USE DEF IInv, TypeOK, Jobs, Sending, Sights, Records, Submitting, Reading,
      Order, Place, NoOlder, Owned
<1>1. CASE Expire
  BY <1>1 DEF Expire
<1>2. ASSUME NEW w \in Worker, Acquire(w) PROVE Records'
  BY <1>2 DEF Acquire, Goto
<1>3. ASSUME NEW w \in Worker, Release(w) PROVE Records'
  BY <1>3 DEF Release, Return, Forget, Goto
<1>4. ASSUME NEW w \in Worker, Stop(w) PROVE Records'
  BY <1>4 DEF Stop, Return, Forget, Goto
<1>5. ASSUME NEW w \in Worker, EnableEntries(w) PROVE Records'
  BY <1>5 DEF EnableEntries, Save
<1>6. ASSUME NEW w \in Worker, PauseEntries(w) PROVE Records'
  BY <1>6 DEF PauseEntries, Save
<1>7. ASSUME NEW w \in Worker, SaveCycle(w) PROVE Records'
  BY <1>7 DEF SaveCycle, Save
<1>8. ASSUME NEW w \in Worker, Check(w) PROVE Records'
  BY <1>8 DEF Check, MayEnter, MayExit, Goto
<1>9. ASSUME NEW w \in Worker, RejectBeforeSend(w) PROVE Records'
  BY <1>9 DEF RejectBeforeSend, Result, Goto
<1>10. ASSUME NEW w \in Worker, FailBeforeSubmit(w) PROVE Records'
  BY <1>10 DEF FailBeforeSubmit, Goto
<1>11. ASSUME NEW w \in Worker, ClaimSubmit(w) PROVE Records'
  BY <1>11 DEF ClaimSubmit, Claimable, Goto
<1>12. ASSUME NEW w \in Worker, Post(w) PROVE Records'
  BY <1>12 DEF Post, Goto
<1>13. ASSUME NEW w \in Worker, PostAcknowledged(w) PROVE Records'
  BY <1>13 DEF PostAcknowledged, Goto
<1>14. ASSUME NEW w \in Worker, PostFails(w) PROVE Records'
  BY <1>14 DEF PostFails, Forget, Goto
<1>15. ASSUME NEW w \in Worker, RecordSubmit(w) PROVE Records'
  BY <1>15 DEF RecordSubmit, Result, Goto
<1>16. ASSUME NEW w \in Worker, SettleSubmit(w) PROVE Records'
  BY <1>16 DEF SettleSubmit, Resume, Forget, Goto
<1>17. ASSUME NEW w \in Worker, MarkUnknown(w) PROVE Records'
  BY <1>17 DEF MarkUnknown, Result, Resume, Forget, Goto
<1>18. ASSUME NEW w \in Worker, RecordFound(w) PROVE Records'
  BY <1>18 DEF RecordFound, Result, Goto
<1>19. ASSUME NEW w \in Worker, SettleFound(w) PROVE Records'
  BY <1>19 DEF SettleFound, Resume, Forget, Goto
<1>20. ASSUME NEW w \in Worker, GiveUp(w) PROVE Records'
  BY <1>20 DEF GiveUp, Resume, Forget, Goto
<1>21. ASSUME NEW w \in Worker, AlreadyFinal(w) PROVE Records'
  BY <1>21 DEF AlreadyFinal, Result, Resume, Forget, Goto
<1>22. ASSUME NEW w \in Worker, ClaimCancel(w) PROVE Records'
  BY <1>22 DEF ClaimCancel, Claimable, Resume, Forget, Goto
<1>23. ASSUME NEW w \in Worker, Delete(w) PROVE Records'
  BY <1>23 DEF Delete, Goto
<1>24. ASSUME NEW w \in Worker, DeleteAcknowledged(w) PROVE Records'
  BY <1>24 DEF DeleteAcknowledged, Goto
<1>25. ASSUME NEW w \in Worker, RecordCancel(w) PROVE Records'
  BY <1>25 DEF RecordCancel, Result, Resume, Forget, Goto
<1>26. ASSUME NEW w \in Worker, SettleCancel(w) PROVE Records'
  BY <1>26 DEF SettleCancel, Resume, Forget, Goto
<1>27. ASSUME NEW w \in Worker, NEW k \in Key, Begin(w, k) PROVE Records'
  BY <1>27 DEF Begin, MayEnter, MayExit, Goto
<1>28. ASSUME NEW w \in Worker, NEW k \in Key, Find(w, k) PROVE Records'
  BY <1>28 DEF Find, MayRead, Goto
<1>29. ASSUME NEW w \in Worker, NEW k \in Key, ReadEntry(w, k) PROVE Records'
  BY <1>29 DEF ReadEntry, MayRead, Goto
<1>30. ASSUME NEW k \in Key, AcceptPost(k) PROVE Records'
  BY <1>30 DEF AcceptPost
<1>31. ASSUME NEW k \in Key, LosePost(k) PROVE Records'
  BY <1>31 DEF LosePost
<1>32. ASSUME NEW k \in Key, ReceiveDelete(k) PROVE Records'
  BY <1>32 DEF ReceiveDelete
<1>33. ASSUME NEW k \in Key, FinishOrder(k) PROVE Records'
  BY <1>33 DEF FinishOrder
<1> QED
  BY <1>1, <1>2, <1>3, <1>4, <1>5, <1>6, <1>7, <1>8, <1>9, <1>10, <1>11, <1>12,
     <1>13, <1>14, <1>15, <1>16, <1>17, <1>18, <1>19, <1>20, <1>21, <1>22,
     <1>23, <1>24, <1>25, <1>26, <1>27, <1>28, <1>29, <1>30, <1>31, <1>32,
     <1>33
     DEF Next, Lease, State, Submit, Lookup, Cancel, Venue

(* While the lease is held nobody else changes the switch or the claims. *)
LEMMA LeasedStep == IInv /\ Next => Leased'
<1> SUFFICES ASSUME IInv, Next PROVE Leased'
  OBVIOUS
<1> USE DEF IInv, TypeOK, Jobs, Sending, Leased, Submitting, Claim, Switch,
      Place, Owned, Unsettled
<1>1. CASE Expire
  BY <1>1 DEF Expire
<1>2. ASSUME NEW w \in Worker, Acquire(w) PROVE Leased'
  BY <1>2 DEF Acquire, Goto
<1>3. ASSUME NEW w \in Worker, Release(w) PROVE Leased'
  BY <1>3 DEF Release, Return, Forget, Goto
<1>4. ASSUME NEW w \in Worker, Stop(w) PROVE Leased'
  BY <1>4 DEF Stop, Return, Forget, Goto
<1>5. ASSUME NEW w \in Worker, EnableEntries(w) PROVE Leased'
  BY <1>5 DEF EnableEntries, Save
<1>6. ASSUME NEW w \in Worker, PauseEntries(w) PROVE Leased'
  BY <1>6 DEF PauseEntries, Save
<1>7. ASSUME NEW w \in Worker, SaveCycle(w) PROVE Leased'
  BY <1>7 DEF SaveCycle, Save
<1>8. ASSUME NEW w \in Worker, Check(w) PROVE Leased'
  BY <1>8 DEF Check, MayEnter, MayExit, Goto
<1>9. ASSUME NEW w \in Worker, RejectBeforeSend(w) PROVE Leased'
  BY <1>9 DEF RejectBeforeSend, Result, Goto
<1>10. ASSUME NEW w \in Worker, FailBeforeSubmit(w) PROVE Leased'
  BY <1>10 DEF FailBeforeSubmit, Goto
<1>11. ASSUME NEW w \in Worker, ClaimSubmit(w) PROVE Leased'
  BY <1>11 DEF ClaimSubmit, Claimable, Goto
<1>12. ASSUME NEW w \in Worker, Post(w) PROVE Leased'
  BY <1>12 DEF Post, Goto
<1>13. ASSUME NEW w \in Worker, PostAcknowledged(w) PROVE Leased'
  BY <1>13 DEF PostAcknowledged, Goto
<1>14. ASSUME NEW w \in Worker, PostFails(w) PROVE Leased'
  BY <1>14 DEF PostFails, Forget, Goto
<1>15. ASSUME NEW w \in Worker, RecordSubmit(w) PROVE Leased'
  BY <1>15 DEF RecordSubmit, Result, Goto
<1>16. ASSUME NEW w \in Worker, SettleSubmit(w) PROVE Leased'
  BY <1>16 DEF SettleSubmit, Resume, Forget, Goto
<1>17. ASSUME NEW w \in Worker, MarkUnknown(w) PROVE Leased'
  BY <1>17 DEF MarkUnknown, Result, Resume, Forget, Goto
<1>18. ASSUME NEW w \in Worker, RecordFound(w) PROVE Leased'
  BY <1>18 DEF RecordFound, Result, Goto
<1>19. ASSUME NEW w \in Worker, SettleFound(w) PROVE Leased'
  BY <1>19 DEF SettleFound, Resume, Forget, Goto
<1>20. ASSUME NEW w \in Worker, GiveUp(w) PROVE Leased'
  BY <1>20 DEF GiveUp, Resume, Forget, Goto
<1>21. ASSUME NEW w \in Worker, AlreadyFinal(w) PROVE Leased'
  BY <1>21 DEF AlreadyFinal, Result, Resume, Forget, Goto
<1>22. ASSUME NEW w \in Worker, ClaimCancel(w) PROVE Leased'
  BY <1>22 DEF ClaimCancel, Claimable, Resume, Forget, Goto
<1>23. ASSUME NEW w \in Worker, Delete(w) PROVE Leased'
  BY <1>23 DEF Delete, Goto
<1>24. ASSUME NEW w \in Worker, DeleteAcknowledged(w) PROVE Leased'
  BY <1>24 DEF DeleteAcknowledged, Goto
<1>25. ASSUME NEW w \in Worker, RecordCancel(w) PROVE Leased'
  BY <1>25 DEF RecordCancel, Result, Resume, Forget, Goto
<1>26. ASSUME NEW w \in Worker, SettleCancel(w) PROVE Leased'
  BY <1>26 DEF SettleCancel, Resume, Forget, Goto
<1>27. ASSUME NEW w \in Worker, NEW k \in Key, Begin(w, k) PROVE Leased'
  BY <1>27 DEF Begin, MayEnter, MayExit, Goto
<1>28. ASSUME NEW w \in Worker, NEW k \in Key, Find(w, k) PROVE Leased'
  BY <1>28 DEF Find, MayRead, Goto
<1>29. ASSUME NEW w \in Worker, NEW k \in Key, ReadEntry(w, k) PROVE Leased'
  BY <1>29 DEF ReadEntry, MayRead, Goto
<1>30. ASSUME NEW k \in Key, AcceptPost(k) PROVE Leased'
  BY <1>30 DEF AcceptPost
<1>31. ASSUME NEW k \in Key, LosePost(k) PROVE Leased'
  BY <1>31 DEF LosePost
<1>32. ASSUME NEW k \in Key, ReceiveDelete(k) PROVE Leased'
  BY <1>32 DEF ReceiveDelete
<1>33. ASSUME NEW k \in Key, FinishOrder(k) PROVE Leased'
  BY <1>33 DEF FinishOrder
<1> QED
  BY <1>1, <1>2, <1>3, <1>4, <1>5, <1>6, <1>7, <1>8, <1>9, <1>10, <1>11, <1>12,
     <1>13, <1>14, <1>15, <1>16, <1>17, <1>18, <1>19, <1>20, <1>21, <1>22,
     <1>23, <1>24, <1>25, <1>26, <1>27, <1>28, <1>29, <1>30, <1>31, <1>32,
     <1>33
     DEF Next, Lease, State, Submit, Lookup, Cancel, Venue

(* Only claimSourceWrite opens a claim, and only on an asset without one. *)
LEMMA OneOpenWritePerAssetStep == IInv /\ Next => OneOpenWritePerAsset'
<1> SUFFICES ASSUME IInv, Next PROVE OneOpenWritePerAsset'
  OBVIOUS
<1> USE DEF IInv, TypeOK, Jobs, OneOpenWritePerAsset, Submitting, Reading,
      Unsettled
<1>1. ASSUME NEW w \in Worker, ClaimSubmit(w) PROVE OneOpenWritePerAsset'
  BY <1>1 DEF ClaimSubmit, Claimable, Goto, Owned
<1>2. ASSUME NEW w \in Worker, SettleSubmit(w) PROVE OneOpenWritePerAsset'
  BY <1>2 DEF SettleSubmit, Resume, Forget, Goto, Owned
<1>3. ASSUME NEW w \in Worker, SettleFound(w) PROVE OneOpenWritePerAsset'
  BY <1>3 DEF SettleFound, Resume, Forget, Goto, Owned
<1>4. ASSUME NEW w \in Worker, ClaimCancel(w) PROVE OneOpenWritePerAsset'
  BY <1>4 DEF ClaimCancel, Claimable, Resume, Forget, Goto, Owned
<1>5. ASSUME NEW w \in Worker, SettleCancel(w) PROVE OneOpenWritePerAsset'
  BY <1>5 DEF SettleCancel, Resume, Forget, Goto, Owned
<1>6. CASE UNCHANGED <<submitClaim, cancelClaim>>
  BY <1>6
<1> QED
  BY <1>1, <1>2, <1>3, <1>4, <1>5, <1>6
     DEF Next, Lease, State, Submit, Lookup, Cancel, Venue, Expire, Acquire,
         Release, Stop, EnableEntries, Save, PauseEntries, SaveCycle, Check,
         RejectBeforeSend, FailBeforeSubmit, Post, PostAcknowledged, PostFails,
         RecordSubmit, MarkUnknown, RecordFound, GiveUp, AlreadyFinal, Delete,
         DeleteAcknowledged, RecordCancel, Begin, Find, ReadEntry, AcceptPost,
         LosePost, ReceiveDelete, FinishOrder

(* An asset's next request is claimed only when the last one is over. *)
LEMMA OneOutstandingStep == IInv /\ Next => OneOutstanding'
<1> SUFFICES ASSUME IInv, Next PROVE OneOutstanding'
  OBVIOUS
<1> USE DEF IInv, TypeOK, Jobs, Sending, Leased, OneOutstanding, Outstanding,
      Submitting, Unsettled, Owned, Order, Claim
<1>1. ASSUME NEW w \in Worker, ClaimSubmit(w) PROVE OneOutstanding'
  BY <1>1 DEF ClaimSubmit, Claimable, Goto
<1>2. ASSUME NEW w \in Worker, SettleSubmit(w) PROVE OneOutstanding'
  BY <1>2 DEF SettleSubmit, Resume, Forget, Goto
<1>3. ASSUME NEW w \in Worker, SettleFound(w) PROVE OneOutstanding'
  BY <1>3 DEF SettleFound, Resume, Forget, Goto
<1>4. ASSUME NEW k \in Key, AcceptPost(k) PROVE OneOutstanding'
  BY <1>4 DEF AcceptPost
<1>5. ASSUME NEW k \in Key, FinishOrder(k) PROVE OneOutstanding'
  BY <1>5 DEF FinishOrder
<1>6. CASE UNCHANGED <<submitClaim, order>>
  BY <1>6
<1> QED
  BY <1>1, <1>2, <1>3, <1>4, <1>5, <1>6
     DEF Next, Lease, State, Submit, Lookup, Cancel, Venue, Expire, Acquire,
         Release, Stop, EnableEntries, Save, PauseEntries, SaveCycle, Check,
         RejectBeforeSend, FailBeforeSubmit, Post, PostAcknowledged, PostFails,
         RecordSubmit, MarkUnknown, RecordFound, GiveUp, AlreadyFinal,
         ClaimCancel, Delete, DeleteAcknowledged, RecordCancel, SettleCancel,
         Begin, Find, ReadEntry, LosePost, ReceiveDelete

(* The inductive invariant holds throughout. *)
THEOREM Invariance == Spec => []IInv
<1>1. IInv /\ Next => IInv'
  <2> SUFFICES ASSUME IInv, Next PROVE IInv'
    OBVIOUS
  <2> QED
    BY TypeOKStep, JobsStep, SendingStep, SightsStep, RecordsStep, LeasedStep,
       OneOpenWritePerAssetStep, OneOutstandingStep DEF IInv
<1>2. IInv /\ UNCHANGED vars => IInv'
  BY DEF vars, IInv, TypeOK, Jobs, Sending, Sights, Records, Leased,
     OneOpenWritePerAsset, OneOutstanding, Outstanding, Owned
<1> QED
  BY InitInv, <1>1, <1>2, PTL DEF Spec

-----------------------------------------------------------------------------
(* Every variable keeps its type. *)
THEOREM TypeCorrect == Spec => []TypeOK
<1>1. IInv => TypeOK
  BY DEF IInv
<1> QED
  BY <1>1, Invariance, PTL

(* submit(): exactly one POST per decision. *)
THEOREM PostedOnce == Spec => []AtMostOnePost
<1>1. IInv => AtMostOnePost
  BY DEF IInv, Sending, AtMostOnePost
<1> QED
  BY <1>1, Invariance, PTL

(* claimSourceWrite(): one write of unproven outcome per asset. *)
THEOREM OneOpenWrite == Spec => []OneOpenWritePerAsset
<1>1. IInv => OneOpenWritePerAsset
  BY DEF IInv
<1> QED
  BY <1>1, Invariance, PTL

(* The venue never holds two live orders of the engine for one asset. *)
THEOREM OneLiveOrder == Spec => []OneLiveOrderPerAsset
<1>1. IInv => OneLiveOrderPerAsset
  BY DEF IInv, OneOutstanding, Outstanding, OneLiveOrderPerAsset
<1> QED
  BY <1>1, Invariance, PTL

(* Both together: one write at a time on an asset. *)
THEOREM OneWriteAtATime == Spec => []OneAtATime
  BY OneOpenWrite, OneLiveOrder, PTL DEF OneAtATime

(* A decision recorded as absent has not been sent and never will be. *)
THEOREM AbsentNeverSent == Spec => []AbsentWasNeverSent
<1>1. IInv => AbsentWasNeverSent
  BY DEF IInv, TypeOK, Sending, AbsentWasNeverSent, Status, Claim
<1> QED
  BY <1>1, Invariance, PTL

(* A claim is settled by the venue's own evidence only. *)
THEOREM SettledOnProof == Spec => []SettledByProof
<1>1. IInv => SettledByProof
  BY DEF IInv, Sending, Records, SettledByProof
<1> QED
  BY <1>1, Invariance, PTL

(* Both together: what the journal says for good of a decision is proven. *)
THEOREM OutcomesAreProven == Spec => []OutcomesProven
  BY AbsentNeverSent, SettledOnProof, PTL DEF OutcomesProven

-----------------------------------------------------------------------------
(* No transaction of the journal takes a record back: the writer holds the
   lease, and under the lease its sight is no older than the record. *)
THEOREM RecordsNeverRegress == Spec => RecordNeverRegresses
<1>1. IInv /\ [Next]_vars => [RecordsAdvance]_journal
  <2> SUFFICES ASSUME IInv, Next, NEW k \in Key
               PROVE  /\ NoOlder(source[k], source'[k])
                      /\ decision[k] \in {"acknowledged", "absent"} => decision'[k] = decision[k]
    BY DEF vars, RecordsAdvance
  <2> USE DEF IInv, TypeOK, Jobs, Sending, Sights, Records, Submitting, Reading,
          Status, Order, NoOlder, Owned
  <2>1. CASE UNCHANGED <<decision, source>>
    BY <2>1
  <2>2. ASSUME NEW w \in Worker, NEW j \in Key, Begin(w, j)
        PROVE  /\ source' = source
               /\ decision[k] \in {"acknowledged", "absent"} => decision'[k] = decision[k]
    BY <2>2 DEF Begin
  <2>3. ASSUME NEW w \in Worker, RejectBeforeSend(w)
        PROVE  /\ source' = source
               /\ decision[k] \in {"acknowledged", "absent"} => decision'[k] = decision[k]
    BY <2>3 DEF RejectBeforeSend, Result
  <2>4. ASSUME NEW w \in Worker, MarkUnknown(w)
        PROVE  /\ source' = source
               /\ decision[k] \in {"acknowledged", "absent"} => decision'[k] = decision[k]
    BY <2>4 DEF MarkUnknown, Result
  <2>5. ASSUME NEW w \in Worker,
               RecordSubmit(w) \/ RecordFound(w) \/ AlreadyFinal(w) \/ RecordCancel(w)
        PROVE  /\ NoOlder(source[k], source'[k])
               /\ decision[k] \in {"acknowledged", "absent"} => decision'[k] = decision[k]
    BY <2>5 DEF RecordSubmit, RecordFound, AlreadyFinal, RecordCancel, Result
  <2> QED
    BY <2>1, <2>2, <2>3, <2>4, <2>5
       DEF Next, Lease, State, Submit, Lookup, Cancel, Venue, Expire, Acquire, Release,
           Stop, EnableEntries, PauseEntries, SaveCycle, Save, Check, FailBeforeSubmit,
           ClaimSubmit, Post, PostAcknowledged, PostFails, SettleSubmit, SettleFound,
           GiveUp, ClaimCancel, Delete, DeleteAcknowledged, SettleCancel, Find, ReadEntry,
           AcceptPost, LosePost, ReceiveDelete, FinishOrder
<1> QED
  BY <1>1, Invariance, PTL DEF Spec, RecordNeverRegresses

(* A buy is claimed only while the switch is on, in the row and not only in
   the copy the cycle decided with. *)
THEOREM EntriesNeedSwitch == Spec => EntryNeedsSwitch
<1>1. IInv /\ [Next]_vars => [EntriesClaimed]_journal
  <2> SUFFICES ASSUME IInv, Next, NEW k \in Entry,
                      submitClaim[k] = "none", submitClaim'[k] = "open"
               PROVE  switch.entriesEnabled
    BY DEF vars, EntriesClaimed
  <2> USE DEF IInv, TypeOK, Jobs, Leased, Submitting, Owned
  <2>1. CASE UNCHANGED submitClaim
    BY <2>1
  <2>2. ASSUME NEW w \in Worker, ClaimSubmit(w) PROVE switch.entriesEnabled
    BY <2>2 DEF ClaimSubmit
  <2>3. ASSUME NEW w \in Worker, SettleSubmit(w) \/ SettleFound(w) PROVE FALSE
    BY <2>3 DEF SettleSubmit, SettleFound, Reading
  <2> QED
    BY <2>1, <2>2, <2>3
       DEF Next, Lease, State, Submit, Lookup, Cancel, Venue, Expire, Acquire, Release,
           Stop, EnableEntries, PauseEntries, SaveCycle, Save, Check, RejectBeforeSend,
           FailBeforeSubmit, Post, PostAcknowledged, PostFails, RecordSubmit, MarkUnknown,
           RecordFound, GiveUp, AlreadyFinal, ClaimCancel, Delete, DeleteAcknowledged,
           RecordCancel, SettleCancel, Begin, Find, ReadEntry, AcceptPost, LosePost,
           ReceiveDelete, FinishOrder
<1> QED
  BY <1>1, Invariance, PTL DEF Spec, EntryNeedsSwitch

(* A cycle's write of the state row never undoes the owner's pause. *)
THEOREM PausesHold == Spec => PauseHolds
<1>1. IInv /\ [Next]_vars => [EntriesResumed]_journal
  <2> SUFFICES ASSUME IInv, Next, ~switch.entriesEnabled, switch'.entriesEnabled
               PROVE  \E w \in Worker : ~view[w].entriesEnabled /\ EnableEntries(w)
    BY DEF vars, EntriesResumed
  <2> USE DEF IInv, TypeOK, Leased, Owned, Switch
  <2>1. CASE UNCHANGED switch
    BY <2>1
  <2>2. ASSUME NEW w \in Worker, PauseEntries(w) \/ SaveCycle(w) PROVE FALSE
    BY <2>2 DEF PauseEntries, SaveCycle, Save
  <2>3. ASSUME NEW w \in Worker, EnableEntries(w) PROVE ~view[w].entriesEnabled
    BY <2>3 DEF EnableEntries, Save
  <2> QED
    BY <2>1, <2>2, <2>3
       DEF Next, Lease, State, Submit, Lookup, Cancel, Venue, Expire, Acquire, Release,
           Stop, Check, RejectBeforeSend, FailBeforeSubmit, ClaimSubmit, Post,
           PostAcknowledged, PostFails, RecordSubmit, SettleSubmit, MarkUnknown,
           RecordFound, SettleFound, GiveUp, AlreadyFinal, ClaimCancel, Delete,
           DeleteAcknowledged, RecordCancel, SettleCancel, Begin, Find, ReadEntry,
           AcceptPost, LosePost, ReceiveDelete, FinishOrder
<1> QED
  BY <1>1, Invariance, PTL DEF Spec, PauseHolds

(* Both together: the owner's switch binds the cycles that have read it. *)
THEOREM SwitchIsBinding == Spec => SwitchBinds
  BY EntriesNeedSwitch, PausesHold DEF SwitchBinds

-----------------------------------------------------------------------------
(* Decision k moves from one phase to the next and no other decision moves. *)
Moves(k, from, to) ==
    /\ PhaseOf(k) = from
    /\ PhaseOf(k)' = to
    /\ \A j \in Key \ {k} : PhaseOf(j)' = PhaseOf(j)

(* Another decision of the asset may still be on its way to the venue. *)
Doubt(k) ==
    \E j \in Key \ {k} : SymbolOf[j] = SymbolOf[k] /\ PhaseOf(j) \in {"authorised", "sent"}

(* Only five kinds of step move a decision in OrderOnce. *)
LEMMA PhaseStep ==
  ASSUME IInv, Next
  PROVE  \/ \A k \in Key : PhaseOf(k)' = PhaseOf(k)
         \/ \E k \in Key : \/ Moves(k, "new", "refused")
                           \/ Moves(k, "new", "authorised") /\ ~Doubt(k)
                           \/ Moves(k, "authorised", "sent")
                           \/ Moves(k, "sent", "live")
                           \/ Moves(k, "sent", "final")
                           \/ Moves(k, "live", "final")
<1> USE DEF IInv, TypeOK, Jobs, Sending, Sights, Submitting, Reading,
        Status, Claim, Order, PhaseOf, Moves
<1>1. CASE UNCHANGED <<order, sent, submitClaim, decision>>
  BY <1>1
<1>2. ASSUME NEW w \in Worker, RejectBeforeSend(w)
      PROVE  job[w] \in Key /\ Moves(job[w], "new", "refused")
  BY <1>2 DEF RejectBeforeSend, Result
<1>3. ASSUME NEW w \in Worker, ClaimSubmit(w)
      PROVE  \/ UNCHANGED <<order, sent, submitClaim, decision>>
             \/ job[w] \in Key /\ Moves(job[w], "new", "authorised") /\ ~Doubt(job[w])
  <2>1. CASE Claimable(w, job[w], submitClaim[job[w]])
    <3>1. job[w] \in Key /\ submitClaim' = [submitClaim EXCEPT ![job[w]] = "open"]
      BY <1>3, <2>1 DEF ClaimSubmit
    <3>2. Moves(job[w], "new", "authorised")
      BY <1>3, <2>1, <3>1 DEF ClaimSubmit, Claimable
    <3>3. ~Doubt(job[w])
      BY <2>1 DEF Claimable, Unsettled, Doubt
    <3> QED
      BY <3>1, <3>2, <3>3
  <2>2. CASE ~Claimable(w, job[w], submitClaim[job[w]])
    BY <1>3, <2>2 DEF ClaimSubmit
  <2> QED
    BY <2>1, <2>2
<1>4. ASSUME NEW w \in Worker, Post(w)
      PROVE  job[w] \in Key /\ Moves(job[w], "authorised", "sent")
  BY <1>4 DEF Post
<1>5. ASSUME NEW k \in Key, AcceptPost(k)
      PROVE  Moves(k, "sent", "live") \/ Moves(k, "sent", "final")
  BY <1>5 DEF AcceptPost
<1>6. ASSUME NEW k \in Key, FinishOrder(k) PROVE Moves(k, "live", "final")
  BY <1>6 DEF FinishOrder
<1>7. ASSUME NEW w \in Worker, NEW j \in Key, Begin(w, j)
      PROVE  \A k \in Key : PhaseOf(k)' = PhaseOf(k)
  BY <1>7 DEF Begin
<1>8. ASSUME NEW w \in Worker, RecordSubmit(w) \/ RecordFound(w) \/ AlreadyFinal(w) \/ RecordCancel(w)
      PROVE  \A k \in Key : PhaseOf(k)' = PhaseOf(k)
  BY <1>8 DEF RecordSubmit, RecordFound, AlreadyFinal, RecordCancel, Result, NoOlder
<1>9. ASSUME NEW w \in Worker, SettleSubmit(w) \/ SettleFound(w)
      PROVE  \A k \in Key : PhaseOf(k)' = PhaseOf(k)
  BY <1>9 DEF SettleSubmit, SettleFound, NoOlder
<1>10. ASSUME NEW w \in Worker, MarkUnknown(w)
       PROVE  \A k \in Key : PhaseOf(k)' = PhaseOf(k)
  BY <1>10 DEF MarkUnknown, Result
<1> HIDE DEF IInv, TypeOK, Jobs, Sending, Sights, Submitting, Reading,
         Status, Claim, Order, PhaseOf, Moves
<1> QED
  BY <1>1, <1>2, <1>3, <1>4, <1>5, <1>6, <1>7, <1>8, <1>9, <1>10
     DEF Next, Lease, State, Submit, Lookup, Cancel, Venue, Expire, Acquire, Release,
         Stop, EnableEntries, PauseEntries, SaveCycle, Save, Check, FailBeforeSubmit,
         PostAcknowledged, PostFails, GiveUp, ClaimCancel, Delete, DeleteAcknowledged,
         SettleCancel, Find, ReadEntry, LosePost, ReceiveDelete

(* A move of one decision is the same move of the abstract phase function. *)
LEMMA MoveIsStep ==
  ASSUME NEW k \in Key, NEW from, NEW to, Moves(k, from, to)
  PROVE  /\ Abstract!Step(k, from, to)
         /\ from # to => [j \in Key |-> PhaseOf(j)]'[k] # [j \in Key |-> PhaseOf(j)][k]
  BY DEF Moves, Abstract!Step

(* The write path implements OrderOnce, for every interleaving, lease expiry,
   lost request and late reply of the model. *)
THEOREM Refinement == Spec => ImplementsOrderOnce
<1>1. Init => Abstract!Init
  BY DEF Init, Abstract!Init, PhaseOf
<1>2. IInv /\ [Next]_vars => [Abstract!Next]_([k \in Key |-> PhaseOf(k)])
  <2>1. ASSUME \A k \in Key : PhaseOf(k)' = PhaseOf(k)
        PROVE  UNCHANGED [k \in Key |-> PhaseOf(k)]
    BY <2>1
  <2>2. ASSUME UNCHANGED vars PROVE \A k \in Key : PhaseOf(k)' = PhaseOf(k)
    BY <2>2 DEF vars, PhaseOf
  <2>3. ASSUME NEW k \in Key,
               \/ Moves(k, "new", "refused")
               \/ Moves(k, "new", "authorised") /\ ~Doubt(k)
               \/ Moves(k, "authorised", "sent")
               \/ Moves(k, "sent", "live")
               \/ Moves(k, "sent", "final")
               \/ Moves(k, "live", "final")
        PROVE  Abstract!Next
    <3>1. ~Doubt(k) => ~Abstract!InDoubt(k)
      BY DEF Doubt, Abstract!InDoubt
    <3> QED
      BY <2>3, <3>1, MoveIsStep
         DEF Abstract!Next, Abstract!Refuse, Abstract!Authorise, Abstract!Send,
             Abstract!Accept, Abstract!Finish
  <2> QED
    BY <2>1, <2>2, <2>3, PhaseStep
<1> QED
  BY <1>1, <1>2, Invariance, PTL DEF Spec, ImplementsOrderOnce, Abstract!Spec
=============================================================================
