---------------------- MODULE ManagedProtection_proofs ----------------------
(* Theorems about ManagedProtection, for an entry of any quantity and any set
   of faults: first those that follow from where a pass stands and what it has
   decided, then those that count what is sold.                              *)
EXTENDS ManagedProtection, SumTheorems

RecordShape(r) ==
    r \in [status : {"none", "open", "closed"}, filled : Nat, exited : {r.exited},
           trigger : {"none", "stop", "target", "reverse_cross"}]

Shape ==
    /\ entry \in [live : {entry.live}, filled : Nat]
    /\ exit \in [Keys -> [status : {"none", "sent", "live", "final"}, quantity : Nat, filled : Nat]]
    /\ decision \in [Keys -> {"none", "attempting", "unknown", "live", "final", "absent"}]
    /\ RecordShape(record)
    /\ quantity \in Nat

(* From the latch to the end of the pass there is a trigger.                 *)
Latched ==
    \/ at \in {"latched", "prepared", "ready", "begun", "rechecked", "claimed", "posted"}
    \/ at = "cancelling" /\ by # "deadline"

Armed == Latched => record.trigger # "none"

(* An exit that was sent was decided, and so was the one that a pass is about
   to send. *)
Recorded ==
    /\ \A k \in Keys : exit[k].status # "none" => decision[k] # "none"
    /\ at \in {"begun", "rechecked", "claimed", "posted"} /\ key \in Keys => decision[key] # "none"

(* What a pass has seen of the other exits still holds when it decides, and
   when it sends. *)
Checked == at \in {"ready", "claimed"} => PriorOver(key)

IInv == Shape /\ Armed /\ Recorded /\ Checked /\ TriggerIsDurable /\ NoBlindRepeat

LEMMA InitInvariant == Init => IInv
BY DEF Init, IInv, Shape, Armed, Latched, Recorded, Checked, TriggerIsDurable, NoBlindRepeat, NoExit, RecordShape

-----------------------------------------------------------------------------
(* The parts of the invariant that do not look at where the pass stands.     *)
Standing ==
    /\ \A k \in Keys : exit[k].status # "none" => decision[k] # "none"
    /\ TriggerIsDurable /\ NoBlindRepeat

(* No step takes a decision back, and only Begin makes one.                  *)
Undecided == \A k \in Keys : decision'[k] = "none" <=> decision[k] = "none"

Steady == UNCHANGED exit /\ Undecided /\ record'.trigger = record.trigger

LEMMA SteadyStands == IInv /\ Steady => Standing'
BY DEF IInv, Recorded, Steady, Undecided, Standing, TriggerIsDurable, NoBlindRepeat

LEMMA ReconcileIsSteady ==
    ASSUME IInv, Reconcile, UNCHANGED exit
    PROVE  /\ Steady
           /\ decision' \in [Keys -> {"none", "attempting", "unknown", "live", "final", "absent"}]
           /\ RecordShape(record')
<1>1. PICK read \in SUBSET Visible :
        decision' = [k \in Keys |-> IF k \in read THEN exit[k].status ELSE decision[k]]
  BY DEF Reconcile
<1>2. \A k \in read : k \in Keys /\ exit[k].status \in {"live", "final"}
  BY DEF Visible
<1>3. Undecided
  BY <1>1, <1>2 DEF Undecided, IInv, Recorded
<1>4. decision' \in [Keys -> {"none", "attempting", "unknown", "live", "final", "absent"}]
  BY <1>1, <1>2 DEF IInv, Shape
<1>5. /\ record'.trigger = record.trigger
      /\ RecordShape(record')
  <2>1. record' = record \/ record' = [record EXCEPT !.status = "closed", !.filled = entry.filled,
                                                     !.exited = Sold]
    BY DEF Reconcile
  <2> QED
    BY <2>1 DEF IInv, Shape, RecordShape
<1> QED
  BY <1>3, <1>4, <1>5 DEF Steady

(* The end of a pass.                                                        *)
LEMMA LeaveKeeps ==
    ASSUME IInv, Leave, Standing', Shape'
    PROVE  IInv'
<1>1. at' = "idle"
  BY DEF Leave
<1> QED
  BY <1>1 DEF IInv, Standing, Armed, Latched, Recorded, Checked

LEMMA BlockedKeeps ==
    ASSUME IInv, Blocked
    PROVE  /\ record'.trigger = record.trigger
           /\ RecordShape(record')
           /\ Leave
<1>1. record' = record \/ record' = [record EXCEPT !.status = "open"]
  BY DEF Blocked
<1> QED
  BY <1>1 DEF IInv, Shape, RecordShape, Blocked

-----------------------------------------------------------------------------
(* Steps that decide nothing and send nothing: what the invariant says of the
   place they lead to is left to show.                                       *)
Placed == Armed /\ Checked /\ (at \in {"begun", "rechecked", "claimed", "posted"} /\ key \in Keys => decision[key] # "none")

LEMMA QuietKeeps ==
    ASSUME IInv, Steady, Shape', Placed'
    PROVE  IInv'
BY SteadyStands DEF IInv, Standing, Placed, Recorded

LEMMA StartKeeps == IInv /\ (\E handler \in {"protect", "cycle", "deadline"} : Start(handler)) => IInv'
<1> SUFFICES ASSUME IInv, NEW handler \in {"protect", "cycle", "deadline"}, Start(handler) PROVE IInv'
  OBVIOUS
<1>1. Reconcile /\ UNCHANGED <<entry, exit, quantity>> /\ at' = "reconciled"
  BY DEF Start, venue
<1>2. Steady /\ Shape'
  BY <1>1, ReconcileIsSteady DEF Shape, IInv
<1>3. Placed'
  BY <1>1 DEF Placed, Armed, Latched, Checked
<1> QED
  BY <1>2, <1>3, QuietKeeps

(* Passes that end here, with the record as it was or as it is protected.    *)
LEMMA EndKeeps ==
    ASSUME IInv, NothingHeld \/ NothingToDo \/ Stop \/ DeadlineOver
    PROVE  IInv'
<1>1. Leave /\ UNCHANGED <<entry, exit, decision>> /\ record' \in {record, Protected}
  BY DEF NothingHeld, NothingToDo, Stop, DeadlineOver, Finish, venue, journal
<1>2. Steady /\ Shape'
  <2>1. record'.trigger = record.trigger /\ RecordShape(record')
    BY <1>1 DEF Protected, IInv, Shape, RecordShape
  <2> QED
    BY <1>1, <2>1 DEF Steady, Undecided, Leave, IInv, Shape
<1> QED
  BY <1>1, <1>2, SteadyStands, LeaveKeeps

(* Passes that give up before they decide.                                   *)
LEMMA BlockedEnds ==
    ASSUME IInv, Blocked, UNCHANGED <<entry, exit>>,
           decision' \in [Keys -> {"none", "attempting", "unknown", "live", "final", "absent"}], Undecided
    PROVE  IInv'
<1>1. /\ record'.trigger = record.trigger /\ RecordShape(record')
      /\ Leave
  BY BlockedKeeps
<1>2. Steady
  BY <1>1 DEF Steady
<1>3. Shape'
  <2>1. quantity' = 0 /\ UNCHANGED <<entry, exit>>
    BY <1>1 DEF Leave
  <2> QED
    BY <1>1, <2>1 DEF IInv, Shape
<1> QED
  BY <1>1, <1>2, <1>3, SteadyStands, LeaveKeeps

LEMMA GiveUpKeeps ==
    ASSUME IInv, NotReady \/ ReadFails
    PROVE  IInv'
<1>1. UNCHANGED <<entry, exit, decision>> /\ Undecided
  BY DEF NotReady, ReadFails, venue, Undecided
<1>2. CASE Blocked
  BY <1>1, <1>2, BlockedEnds DEF IInv, Shape
<1>3. CASE Leave /\ UNCHANGED record
  <2>1. Steady /\ Shape'
    BY <1>1, <1>3 DEF Steady, Leave, IInv, Shape
  <2> QED
    BY <1>3, <2>1, SteadyStands, LeaveKeeps
<1> QED
  BY <1>2, <1>3 DEF NotReady, ReadFails

LEMMA CancelKeeps ==
    ASSUME IInv, ClaimCancel \/ CancelPending \/ CancelUnknown \/ CancelReply
    PROVE  IInv'
<1>1. UNCHANGED <<entry, exit, decision>> /\ Undecided
  BY DEF ClaimCancel, CancelPending, CancelUnknown, CancelReply, CancelIssue, venue, Undecided
<1>2. CASE Blocked
  BY <1>1, <1>2, BlockedEnds DEF IInv, Shape
<1>3. CASE /\ UNCHANGED <<record, by, key, quantity>>
           /\ at' \in {"settled", "cancelling", "latched"}
           /\ at' # "settled" /\ by # "deadline" => at = "latched" \/ at = "cancelling"
           /\ at' = "latched" => by # "deadline"
  <2>1. Steady /\ Shape'
    BY <1>1, <1>3 DEF Steady, IInv, Shape
  <2>2. Placed'
    BY <1>1, <1>3 DEF Placed, Armed, Latched, Checked, IInv
  <2> QED
    BY <2>1, <2>2, QuietKeeps
<1> QED
  BY <1>2, <1>3 DEF ClaimCancel, CancelPending, CancelUnknown, CancelReply, CancelIssue, MayCancel

LEMMA EnsureKeeps ==
    ASSUME IInv, Ensure \/ EnsureFails
    PROVE  IInv'
<1>1. UNCHANGED <<entry, exit, decision, quantity>> /\ at' = "ensured" /\ record' \in {record, Protected}
  BY DEF Ensure, EnsureFails, venue, journal
<1>2. Steady /\ Shape'
  <2>1. record'.trigger = record.trigger /\ RecordShape(record')
    BY <1>1 DEF Protected, IInv, Shape, RecordShape
  <2> QED
    BY <1>1, <2>1 DEF Steady, Undecided, IInv, Shape
<1>3. Placed'
  BY <1>1 DEF Placed, Armed, Latched, Checked
<1> QED
  BY <1>2, <1>3, QuietKeeps

(* The only step that writes a trigger, where there is none or the same.     *)
LEMMA ReasonKept ==
    ASSUME IInv, Latch
    PROVE  /\ record'.trigger # "none" /\ RecordShape(record')
           /\ record.trigger # "none" => record'.trigger = record.trigger
<1>1. Reason \in {"none", "stop", "target", "reverse_cross"} /\ (record.trigger # "none" => Reason = record.trigger)
  <2>1. record.trigger \in {"none", "stop", "target", "reverse_cross"}
    BY DEF IInv, Shape, RecordShape
  <2> QED
    BY <2>1 DEF Reason
<1> QED
  BY <1>1 DEF Latch, IInv, Shape, RecordShape

LEMMA LatchKeeps == IInv /\ Latch => IInv'
<1> SUFFICES ASSUME IInv, Latch PROVE IInv'
  OBVIOUS
<1>1. UNCHANGED <<entry, exit, decision, quantity>> /\ at' = "latched"
  BY DEF Latch, venue
<1>2. Shape' /\ TriggerIsDurable'
  BY <1>1, ReasonKept DEF IInv, Shape, TriggerIsDurable
<1>3. Armed' /\ Recorded' /\ Checked' /\ NoBlindRepeat'
  BY <1>1, ReasonKept DEF IInv, Armed, Recorded, Checked, NoBlindRepeat
<1> QED
  BY <1>2, <1>3 DEF IInv

LEMMA PrepareKeeps ==
    ASSUME IInv, PrepareExit \/ DeadlineReconcile
    PROVE  IInv'
<1>1. Reconcile /\ UNCHANGED <<entry, exit, key, quantity, by>>
  BY DEF PrepareExit, DeadlineReconcile, venue
<1>2. Steady /\ Shape'
  BY <1>1, ReconcileIsSteady DEF Shape, IInv
<1>3. \/ at' = "protecting"
      \/ at' = "prepared" /\ at = "latched"
      \/ at' = "rechecked" /\ at = "begun"
  BY DEF PrepareExit, DeadlineReconcile
<1>4. Placed'
  BY <1>1, <1>2, <1>3 DEF Placed, Armed, Latched, Checked, Steady, Undecided, Recorded, IInv
<1> QED
  BY <1>2, <1>4, QuietKeeps

-----------------------------------------------------------------------------
(* Deciding and sending.                                                     *)

LEMMA ReadyKeeps ==
    ASSUME IInv, Ready \/ Claim
    PROVE  IInv'
<1>1. /\ UNCHANGED <<entry, exit, decision, record, key>> /\ PriorOver(key) /\ quantity' \in Nat
      /\ (at' = "ready" /\ at = "prepared") \/ (at' = "claimed" /\ at = "rechecked")
  <2>1. CASE Ready
    BY <2>1, ProtectionAssumption DEF Ready, MayExit, venue, journal
  <2>2. CASE Claim
    BY <2>2 DEF Claim, MayExit, venue, IInv, Shape
  <2> QED
    BY <2>1, <2>2
<1>2. Steady /\ Shape'
  BY <1>1 DEF Steady, Undecided, IInv, Shape
<1>3. Placed'
  BY <1>1 DEF Placed, Armed, Latched, Checked, PriorOver, Recorded, IInv
<1> QED
  BY <1>2, <1>3, QuietKeeps

LEMMA BeginKeeps == IInv /\ Begin => IInv'
<1> SUFFICES ASSUME IInv, Begin PROVE IInv'
  OBVIOUS
<1>1. /\ UNCHANGED <<entry, exit, record, key, quantity>> /\ at = "ready" /\ at' = "begun"
      /\ decision' = [decision EXCEPT ![key] = "attempting"]
  BY DEF Begin, venue
<1>2. \A k \in Keys : decision'[k] = IF k = key THEN "attempting" ELSE decision[k]
  BY <1>1 DEF IInv, Shape
<1>3. Shape' /\ Armed' /\ Checked'
  BY <1>1 DEF IInv, Shape, Armed, Latched, Checked
<1>4. Recorded' /\ TriggerIsDurable'
  BY <1>1, <1>2 DEF IInv, Recorded, TriggerIsDurable, Armed, Latched
<1>5. NoBlindRepeat'
  BY <1>1, <1>2 DEF IInv, NoBlindRepeat, Checked, PriorOver
<1> QED
  BY <1>3, <1>4, <1>5 DEF IInv

LEMMA PostKeeps == IInv /\ Post => IInv'
<1> SUFFICES ASSUME IInv, Post PROVE IInv'
  OBVIOUS
<1>1. /\ UNCHANGED <<entry, decision, record, key, quantity>> /\ at = "claimed" /\ at' = "posted"
      /\ exit' = [exit EXCEPT ![key] = [status |-> "sent", quantity |-> quantity, filled |-> 0]]
  BY DEF Post, journal
<1>2. \A k \in Keys : exit'[k] = IF k = key THEN [status |-> "sent", quantity |-> quantity, filled |-> 0] ELSE exit[k]
  BY <1>1 DEF IInv, Shape
<1>3. Shape' /\ Armed' /\ Checked' /\ TriggerIsDurable'
  BY <1>1 DEF IInv, Shape, Armed, Latched, Checked, TriggerIsDurable
<1>4. Recorded'
  BY <1>1, <1>2 DEF IInv, Recorded
<1>5. NoBlindRepeat'
  BY <1>1, <1>2 DEF IInv, NoBlindRepeat, Checked, PriorOver
<1> QED
  BY <1>3, <1>4, <1>5 DEF IInv

(* The outcome of a send, or its refusal, is that of a decision.             *)
LEMMA OutcomeKeeps ==
    ASSUME IInv, Acknowledged \/ PostUnknown \/ CheckFails
    PROVE  IInv'
<1>1. PICK outcome \in {"live", "final", "unknown", "absent"} :
        decision' = [decision EXCEPT ![key] = outcome]
  BY DEF Acknowledged, PostUnknown, CheckFails
<1>2. at \in {"begun", "rechecked", "posted"} /\ UNCHANGED <<entry, exit>>
  BY DEF Acknowledged, PostUnknown, CheckFails, venue
<1>3. /\ decision' \in [Keys -> {"none", "attempting", "unknown", "live", "final", "absent"}]
      /\ Undecided
  BY <1>1, <1>2 DEF IInv, Shape, Undecided, Recorded
<1>4. CASE Blocked
  BY <1>2, <1>3, <1>4, BlockedEnds
<1>5. CASE Finish
  <2>1. Steady /\ Shape'
    BY <1>2, <1>3, <1>5 DEF Finish, Leave, Steady, IInv, Shape
  <2> QED
    BY <1>5, <2>1, SteadyStands, LeaveKeeps DEF Finish
<1> QED
  BY <1>4, <1>5 DEF Acknowledged, PostUnknown, CheckFails

-----------------------------------------------------------------------------
(* At the venue an exit never loses a fill.                                  *)
LEMMA VenueKeeps == IInv /\ Venue => IInv'
<1> SUFFICES ASSUME IInv, Venue PROVE IInv'
  OBVIOUS
<1> DEFINE Order == [status : {"none", "sent", "live", "final"}, quantity : Nat, filled : Nat]
<1>1. UNCHANGED <<decision, record, at, by, key, quantity>>
  BY DEF Venue, FillEntry, EndEntry, MoveBid, ReverseCross, AcceptExit, FillExit, EndExit, journal, pass
<1>2. entry' \in [live : {entry'.live}, filled : Nat]
  <2>1. \/ entry' = entry
        \/ entry' = [entry EXCEPT !.filled = @ + 1]
        \/ entry' = [entry EXCEPT !.live = FALSE]
    BY DEF Venue, FillEntry, EndEntry, MoveBid, ReverseCross, AcceptExit, FillExit, EndExit
  <2> QED
    BY <2>1 DEF IInv, Shape
<1>3. \/ exit' = exit
      \/ \E k \in Keys, x \in Order : /\ exit' = [exit EXCEPT ![k] = x]
                                     /\ x.filled >= exit[k].filled /\ exit[k].status # "none"
  <2>1. CASE FillEntry \/ EndEntry \/ MoveBid \/ ReverseCross
    BY <2>1 DEF FillEntry, EndEntry, MoveBid, ReverseCross
  <2>2. ASSUME NEW k \in Keys, AcceptExit(k) \/ FillExit(k) \/ EndExit(k)
        PROVE  \E x \in Order : /\ exit' = [exit EXCEPT ![k] = x]
                                 /\ x.filled >= exit[k].filled /\ exit[k].status # "none"
    BY <2>2 DEF AcceptExit, FillExit, EndExit, IInv, Shape
  <2> QED
    BY <2>1, <2>2 DEF Venue
<1>4. exit \in [Keys -> Order]
  BY DEF IInv, Shape
<1>5. exit' \in [Keys -> Order]
  BY <1>3, <1>4
<1>6. \A k \in Keys : exit'[k].status # "none" => exit[k].status # "none"
  BY <1>3, <1>4
<1>7. \A k \in Keys : exit[k].filled > 0 => exit'[k].filled > 0
  BY <1>3, <1>4
<1>8. Shape'
  BY <1>1, <1>2, <1>5 DEF IInv, Shape
<1>9. Armed' /\ TriggerIsDurable'
  BY <1>1 DEF IInv, Armed, Latched, TriggerIsDurable
<1>10. Recorded'
  BY <1>1, <1>6 DEF IInv, Recorded
<1>11. Checked'
  BY <1>1, <1>7 DEF IInv, Checked, PriorOver
<1>12. NoBlindRepeat'
  BY <1>1, <1>7 DEF IInv, NoBlindRepeat
<1> QED
  BY <1>8, <1>9, <1>10, <1>11, <1>12 DEF IInv

LEMMA IdleKeeps == IInv /\ (Idle \/ UNCHANGED vars) => IInv'
<1> SUFFICES ASSUME IInv, Idle \/ UNCHANGED vars PROVE IInv'
  OBVIOUS
<1>1. UNCHANGED <<entry, exit, decision, record, pass>>
  BY DEF Idle, vars, venue, journal
<1> QED
  BY <1>1 DEF IInv, Shape, Armed, Latched, Recorded, Checked, PriorOver, TriggerIsDurable, NoBlindRepeat, pass

LEMMA InductiveStep == IInv /\ [Next]_vars => IInv'
<1> SUFFICES ASSUME IInv, [Next]_vars PROVE IInv'
  OBVIOUS
<1>1. CASE Idle \/ UNCHANGED vars
  BY <1>1, IdleKeeps
<1>2. CASE Start("protect") \/ Start("cycle") \/ Start("deadline")
  BY <1>2, StartKeeps
<1>3. CASE NothingHeld \/ NothingToDo \/ Stop \/ DeadlineOver
  BY <1>3, EndKeeps
<1>4. CASE Ensure \/ EnsureFails
  BY <1>4, EnsureKeeps
<1>5. CASE Latch
  BY <1>5, LatchKeeps
<1>6. CASE ClaimCancel \/ CancelPending \/ CancelReply \/ CancelUnknown
  BY <1>6, CancelKeeps
<1>7. CASE PrepareExit \/ DeadlineReconcile
  BY <1>7, PrepareKeeps
<1>8. CASE Ready \/ Claim
  BY <1>8, ReadyKeeps
<1>9. CASE NotReady \/ ReadFails
  BY <1>9, GiveUpKeeps
<1>10. CASE Begin
  BY <1>10, BeginKeeps
<1>11. CASE Post
  BY <1>11, PostKeeps
<1>12. CASE Acknowledged \/ PostUnknown \/ CheckFails
  BY <1>12, OutcomeKeeps
<1>13. CASE Venue
  BY <1>13, VenueKeeps
<1> QED
  BY <1>1, <1>2, <1>3, <1>4, <1>5, <1>6, <1>7, <1>8, <1>9, <1>10, <1>11, <1>12, <1>13 DEF Next, Handler, Setback

(* The inductive invariant of one protected position.                        *)
THEOREM ProtectionInvariance == Spec => []IInv
<1>1. Init => IInv
  BY InitInvariant
<1>2. IInv /\ [Next]_vars => IInv'
  BY InductiveStep
<1> QED
  BY <1>1, <1>2, PTL DEF Spec

(* An exit that ended without a fill, or whose end nobody has seen, is never
   followed by another one, whichever handler asks and under which key.      *)
THEOREM NoExitOnDoubt == Spec => []NoBlindRepeat
<1>1. IInv => NoBlindRepeat
  BY DEF IInv
<1> QED
  BY <1>1, ProtectionInvariance, PTL

(* The reason for an exit is on record before the exit is decided, and stays
   until the position is sold: no restart, no rebound, no other trigger and no
   rewrite of the record loses or replaces it.                               *)
LEMMA LatchStep ==
    ASSUME IInv, [Next]_vars
    PROVE  record.trigger # "none" => record'.trigger = record.trigger
<1>1. CASE Reconcile
  <2>1. record' = record \/ record' = [record EXCEPT !.status = "closed", !.filled = entry.filled,
                                                     !.exited = Sold]
    BY <1>1 DEF Reconcile
  <2> QED
    BY <2>1 DEF IInv, Shape, RecordShape
<1>2. CASE Blocked
  BY <1>2, BlockedKeeps
<1>3. CASE record' \in {record, Protected}
  BY <1>3 DEF Protected, IInv, Shape, RecordShape
<1>4. CASE Latch
  BY <1>4, ReasonKept
<1>5. \/ Reconcile \/ Blocked \/ record' \in {record, Protected} \/ Latch
  <2>1. CASE Venue \/ Idle \/ UNCHANGED vars
    BY <2>1 DEF Venue, FillEntry, EndEntry, MoveBid, ReverseCross, AcceptExit, FillExit, EndExit,
                Idle, vars, journal
  <2>2. CASE Start("protect") \/ Start("cycle") \/ Start("deadline") \/ DeadlineReconcile \/ PrepareExit
    BY <2>2 DEF Start, DeadlineReconcile, PrepareExit
  <2>3. CASE NothingHeld \/ NothingToDo \/ Stop \/ DeadlineOver \/ Ensure \/ EnsureFails
    BY <2>3 DEF NothingHeld, NothingToDo, Stop, DeadlineOver, Ensure, EnsureFails, Finish, journal
  <2>4. CASE ClaimCancel \/ CancelPending \/ CancelReply \/ CancelUnknown
    BY <2>4 DEF ClaimCancel, CancelPending, CancelReply, CancelUnknown, CancelIssue
  <2>5. CASE Ready \/ NotReady \/ ReadFails \/ Begin \/ Claim \/ Post
    BY <2>5 DEF Ready, NotReady, ReadFails, Begin, Claim, Post, journal
  <2>6. CASE Acknowledged \/ PostUnknown \/ CheckFails
    BY <2>6 DEF Acknowledged, PostUnknown, CheckFails, Finish
  <2> QED
    BY <2>1, <2>2, <2>3, <2>4, <2>5, <2>6 DEF Next, Handler, Setback
<1> QED
  BY <1>1, <1>2, <1>3, <1>4, <1>5

THEOREM TriggerSurvives == Spec => TriggerKept
<1>1. IInv /\ IInv' /\ [Next]_vars =>
        [/\ record.trigger # "none" => record'.trigger = record.trigger
         /\ \A k \in Keys : decision'[k] # "none" => record'.trigger # "none"]_vars
  BY LatchStep DEF IInv, TriggerIsDurable
<1> QED
  BY <1>1, ProtectionInvariance, PTL DEF Spec, TriggerKept

-----------------------------------------------------------------------------
(* What is sold, and what may still be.                                      *)

Total == SumFunction([k \in Keys |-> Committed(k)])

Claims ==
    /\ submit \in [Keys -> {"none", "open", "settled"}]
    /\ \A k \in Keys : exit[k].status = "sent" => submit[k] = "open"
    /\ at = "claimed" /\ key \in Keys => submit[key] = "open"

(* An exit sells no more than its order, and one that was never sent nothing. *)
Bounded ==
    /\ record.exited \in Nat
    /\ \A k \in Keys : exit[k].filled <= exit[k].quantity /\ (exit[k].status = "none" => exit[k].quantity = 0)

(* The key of the exit that a pass prepares has not been used.               *)
Fresh ==
    key \in Keys =>
        /\ \/ at \in {"latched", "prepared", "ready"}
           \/ at = "cancelling" /\ by # "deadline"
           => decision[key] = "none"
        /\ at \in {"begun", "rechecked", "claimed"} => exit[key].status = "none"

(* What is about to be sent is there to sell.                                *)
Room == at = "claimed" => Total + quantity <= entry.filled

SInv == Claims /\ Bounded /\ Fresh /\ Room /\ NeverOversold /\ ClosedIsSold /\ RecordBehindVenue

LEMMA KeysAreFinite == IsFiniteSet(Keys)
<1>1. IsFiniteSet(0..Ordered)
  BY FS_Interval, ProtectionAssumption
<1>2. IsFiniteSet({"latched"} \cup {"signal"})
  BY FS_Singleton, FS_AddElement
<1>3. {"latched"} \cup {"signal"} = {"latched", "signal"}
  OBVIOUS
<1>4. IsFiniteSet({"latched", "signal"})
  BY <1>2, <1>3
<1> QED
  BY <1>1, <1>4, FS_Product DEF Keys

LEMMA TotalsAreNat ==
    ASSUME IInv
    PROVE  /\ Sold \in Nat /\ Total \in Nat
           /\ \A k \in Keys : Committed(k) \in Nat /\ exit[k].filled \in Nat /\ exit[k].quantity \in Nat
           /\ entry.filled \in Nat /\ quantity \in Nat /\ Held = entry.filled - Sold
<1>1. \A k \in Keys : Committed(k) \in Nat /\ exit[k].filled \in Nat /\ exit[k].quantity \in Nat
  BY DEF IInv, Shape, Committed
<1>2. Sold \in Nat
  BY <1>1, KeysAreFinite, SumNat DEF Sold, SumFunction
<1>3. Total \in Nat
  BY <1>1, KeysAreFinite, SumNat DEF Total, SumFunction
<1> QED
  BY <1>1, <1>2, <1>3 DEF IInv, Shape, Held

LEMMA SoldIsCommitted ==
    ASSUME IInv, Bounded
    PROVE  /\ Sold <= Total
           /\ (\A k \in Keys : exit[k].status \notin {"sent", "live"}) => Sold = Total
<1> DEFINE f == [k \in Keys |-> exit[k].filled]
           g == [k \in Keys |-> Committed(k)]
<1>1. \A k \in Keys : f[k] \in Int /\ g[k] \in Int /\ f[k] <= g[k]
  BY TotalsAreNat DEF Committed, Bounded
<1>2. Sold = SumFunctionOnSet(f, Keys) /\ Total = SumFunctionOnSet(g, Keys)
  BY DEF Sold, Total, SumFunction
<1>3. (\A k \in Keys : exit[k].status \notin {"sent", "live"}) => \A k \in Keys : g[k] = f[k]
  BY DEF Committed
<1> HIDE DEF f, g
<1>4. SumFunctionOnSet(f, Keys) <= SumFunctionOnSet(g, Keys)
  BY <1>1, KeysAreFinite, SumMonotone
<1>5. (\A k \in Keys : g[k] = f[k]) => SumFunctionOnSet(f, Keys) = SumFunctionOnSet(g, Keys)
  BY <1>1, KeysAreFinite, SumSame
<1> QED
  BY <1>2, <1>3, <1>4, <1>5

LEMMA OneExitChanges ==
    ASSUME IInv, IInv', NEW k \in Keys, \A j \in Keys \ {k} : exit'[j] = exit[j]
    PROVE  /\ Sold' = Sold + (exit'[k].filled - exit[k].filled)
           /\ Total' = Total + (Committed(k)' - Committed(k))
           /\ Sold' \in Nat /\ Total' \in Nat
           /\ Bounded' => Sold' <= Total'
<1> DEFINE f == [j \in Keys |-> exit[j].filled]
           g == [j \in Keys |-> Committed(j)]
           ff == [j \in Keys |-> exit'[j].filled]
           gg == [j \in Keys |-> Committed(j)']
<1>1. /\ \A j \in Keys : f[j] \in Int /\ g[j] \in Int
      /\ f[k] = exit[k].filled /\ g[k] = Committed(k)
      /\ ff[k] = exit'[k].filled /\ gg[k] = Committed(k)'
  BY TotalsAreNat
<1>2. \A j \in Keys : ff[j] \in Nat /\ gg[j] \in Nat
  <2>1. \A j \in Keys : exit'[j].filled \in Nat /\ exit'[j].quantity \in Nat
    BY DEF IInv, Shape
  <2> QED
    BY <2>1 DEF Committed
<1>3. \A j \in Keys \ {k} : ff[j] = f[j] /\ gg[j] = g[j]
  BY DEF Committed
<1>8. Bounded' => \A j \in Keys : ff[j] <= gg[j]
  BY <1>2 DEF Bounded, Committed
<1>4. /\ Sold = SumFunctionOnSet(f, Keys) /\ Total = SumFunctionOnSet(g, Keys)
      /\ Sold' = SumFunctionOnSet(ff, Keys) /\ Total' = SumFunctionOnSet(gg, Keys)
  BY DEF Sold, Total, SumFunction
<1> HIDE DEF f, g, ff, gg
<1>5. SumFunctionOnSet(ff, Keys) = SumFunctionOnSet(f, Keys) + (ff[k] - f[k])
  BY <1>1, <1>2, <1>3, KeysAreFinite, SumChange
<1>6. SumFunctionOnSet(gg, Keys) = SumFunctionOnSet(g, Keys) + (gg[k] - g[k])
  BY <1>1, <1>2, <1>3, KeysAreFinite, SumChange
<1>7. SumFunctionOnSet(ff, Keys) \in Nat /\ SumFunctionOnSet(gg, Keys) \in Nat
  BY <1>2, KeysAreFinite, SumNat
<1>9. (\A j \in Keys : ff[j] <= gg[j]) => SumFunctionOnSet(ff, Keys) <= SumFunctionOnSet(gg, Keys)
  BY <1>2, KeysAreFinite, SumMonotone
<1> QED
  BY <1>1, <1>4, <1>5, <1>6, <1>7, <1>8, <1>9

LEMMA NothingSold ==
    ASSUME UNCHANGED <<entry, exit>>
    PROVE  UNCHANGED <<Sold, Total, Held>> /\ \A k \in Keys : Committed(k)' = Committed(k)
<1>1. \A k \in Keys : Committed(k)' = Committed(k)
  BY DEF Committed
<1>2. UNCHANGED <<Sold, Held>>
  BY DEF Sold, Held
<1>3. UNCHANGED Total
  BY DEF Total, Committed
<1> QED
  BY <1>1, <1>2, <1>3

(* How a step at a standing venue may write the record.                      *)
RecordStep ==
    /\ record'.status = "closed" => record.status = "closed" \/ (Held = 0 /\ ~entry.live)
    /\ \/ record'.filled = record.filled /\ record'.exited = record.exited
       \/ record'.filled = entry.filled /\ record'.exited = Sold

LEMMA StandingKeeps ==
    ASSUME IInv, IInv', SInv, UNCHANGED <<entry, exit>>, RecordStep, Claims', Fresh', at' # "claimed"
    PROVE  SInv'
<1>1. UNCHANGED <<Sold, Total, Held>>
  BY NothingSold
<1>2. Bounded' /\ Room' /\ NeverOversold'
  BY <1>1, TotalsAreNat DEF SInv, Bounded, Room, NeverOversold, Total, RecordStep
<1>3. ClosedIsSold'
  BY <1>1 DEF SInv, ClosedIsSold, RecordStep
<1>4. RecordBehindVenue'
  BY <1>1, TotalsAreNat DEF SInv, RecordBehindVenue, RecordStep
<1> QED
  BY <1>2, <1>3, <1>4 DEF SInv

LEMMA NoKeyIsNone == NoKey \notin Keys
BY DEF NoKey, Keys

LEMMA BlockedRecord == IInv /\ Blocked => RecordStep
<1> SUFFICES ASSUME IInv, Blocked PROVE RecordStep
  OBVIOUS
<1>1. record' = record \/ record' = [record EXCEPT !.status = "open"]
  BY DEF Blocked
<1> QED
  BY <1>1 DEF IInv, Shape, RecordShape, RecordStep

LEMMA ProtectedRecord ==
    ASSUME IInv, record' = record \/ record' = [record EXCEPT !.trigger = Reason] \/ record' = Protected
    PROVE  RecordStep
<1> record.status \in {"none", "open", "closed"} /\ record \in [status : {record.status}, filled : {record.filled}, exited : {record.exited}, trigger : {record.trigger}]
  BY DEF IInv, Shape, RecordShape
<1>1. CASE record' = record
  BY <1>1 DEF RecordStep
<1>2. CASE record' = [record EXCEPT !.trigger = Reason]
  BY <1>2 DEF RecordStep
<1>3. CASE record' = Protected
  BY <1>3 DEF RecordStep, Protected
<1> QED
  BY <1>1, <1>2, <1>3

(* Passes that end, and steps of no pass.                                    *)
LEMMA EndsSold ==
    ASSUME IInv, IInv', SInv,
           NothingHeld \/ NothingToDo \/ Stop \/ DeadlineOver \/ NotReady \/ ReadFails
           \/ CheckFails \/ PostUnknown \/ Acknowledged
    PROVE  SInv'
<1>1. UNCHANGED <<entry, exit>> /\ Leave
  BY DEF NothingHeld, NothingToDo, Stop, DeadlineOver, NotReady, ReadFails, CheckFails, PostUnknown,
         Acknowledged, Finish, Blocked, venue, journal
<1>2. RecordStep
  <2>1. CASE Blocked
    BY <2>1, BlockedRecord
  <2>2. CASE record' = record \/ record' = Protected
    BY <2>2, ProtectedRecord
  <2> QED
    BY <2>1, <2>2 DEF NothingHeld, NothingToDo, Stop, DeadlineOver, NotReady, ReadFails, CheckFails,
                      PostUnknown, Acknowledged, Finish, journal
<1>3. Fresh' /\ at' # "claimed"
  BY <1>1, NoKeyIsNone DEF Leave, Fresh
<1>4. Claims'
  <2>1. CASE submit' = submit
    BY <1>1, <1>3, <2>1 DEF Claims, SInv
  <2>2. CASE Acknowledged
    BY <1>1, <1>3, <2>2 DEF Acknowledged, Claims, SInv
  <2> QED
    BY <2>1, <2>2 DEF NothingHeld, NothingToDo, Stop, DeadlineOver, NotReady, ReadFails, CheckFails,
                      PostUnknown, journal
<1> QED
  BY <1>1, <1>2, <1>3, <1>4, StandingKeeps

LEMMA IdleSold ==
    ASSUME IInv, IInv', SInv, Idle \/ UNCHANGED vars
    PROVE  SInv'
<1>1. UNCHANGED <<entry, exit, submit, decision, record, at, by, key, quantity>>
  BY DEF Idle, vars, venue, journal, pass
<1> QED
  BY <1>1, NothingSold DEF SInv, Claims, Bounded, Fresh, Room, NeverOversold, ClosedIsSold, RecordBehindVenue, Total

LEMMA ReconcilesSold ==
    ASSUME IInv, IInv', SInv, Reconcile, UNCHANGED <<entry, exit>>, at' # "claimed", Fresh'
    PROVE  SInv'
<1>1. RecordStep
  <2>1. \/ record' = record
        \/ Closable /\ record' = [record EXCEPT !.status = "closed", !.filled = entry.filled, !.exited = Sold]
    BY DEF Reconcile
  <2> QED
    BY <2>1 DEF Closable, IInv, Shape, RecordShape, RecordStep
<1>2. Claims'
  <2>1. PICK read \in SUBSET Visible : submit' = [k \in Keys |-> IF k \in read THEN "settled" ELSE submit[k]]
    BY DEF Reconcile
  <2> QED
    BY <2>1 DEF Claims, SInv, Visible
<1> QED
  BY <1>1, <1>2, StandingKeeps

LEMMA StartsSold ==
    ASSUME IInv, IInv', SInv, NEW handler \in {"protect", "cycle", "deadline"}, Start(handler)
    PROVE  SInv'
<1>1. Reconcile /\ UNCHANGED <<entry, exit, key>> /\ at' = "reconciled"
  BY DEF Start, venue
<1> QED
  BY <1>1, ReconcilesSold DEF Fresh

LEMMA PreparesSold ==
    ASSUME IInv, IInv', SInv, PrepareExit \/ DeadlineReconcile
    PROVE  SInv'
<1>1. Reconcile /\ UNCHANGED <<entry, exit, key>>
  BY DEF PrepareExit, DeadlineReconcile, venue
<1>2. \/ at' = "protecting"
      \/ at' = "prepared" /\ at = "latched"
      \/ at' = "rechecked" /\ at = "begun"
  BY DEF PrepareExit, DeadlineReconcile
<1>3. Undecided
  BY <1>1, ReconcileIsSteady DEF Steady
<1>4. Fresh'
  BY <1>1, <1>2, <1>3 DEF Fresh, SInv, Undecided
<1> QED
  BY <1>1, <1>2, <1>4, ReconcilesSold

(* Steps of a pass that neither reconciles nor sends.                        *)
LEMMA QuietSold ==
    ASSUME IInv, IInv', SInv,
           Ensure \/ EnsureFails \/ Latch \/ ClaimCancel \/ CancelPending \/ CancelUnknown \/ CancelReply
           \/ Ready \/ Begin
    PROVE  SInv'
<1>1. UNCHANGED <<entry, exit, submit>> /\ at' # "claimed"
  BY DEF Ensure, EnsureFails, Latch, ClaimCancel, CancelPending, CancelUnknown, CancelReply, CancelIssue, Blocked,
         Leave, Ready, Begin, venue, journal
<1>2. RecordStep
  <2>1. CASE Blocked
    BY <2>1, BlockedRecord
  <2>2. CASE record' = record \/ record' = [record EXCEPT !.trigger = Reason] \/ record' = Protected
    BY <2>2, ProtectedRecord
  <2> QED
    BY <2>1, <2>2 DEF Ensure, EnsureFails, Latch, ClaimCancel, CancelPending, CancelUnknown, CancelReply,
                      CancelIssue, Ready, Begin, journal
<1>3. Claims'
  BY <1>1 DEF Claims, SInv
<1>4. Fresh'
  <2>1. CASE Ensure \/ EnsureFails
    BY <2>1 DEF Ensure, EnsureFails, Fresh
  <2>2. CASE Latch
    BY <2>2 DEF Latch, Fresh
  <2>3. CASE ClaimCancel \/ CancelPending \/ CancelUnknown \/ CancelReply
    <3>1. CASE Blocked
      BY <3>1, NoKeyIsNone DEF Blocked, Leave, Fresh
    <3>2. CASE at' = "settled"
      BY <3>2 DEF Fresh
    <3>3. CASE /\ at' \in {"cancelling", "latched"} /\ UNCHANGED <<key, decision, by>>
               /\ at' = "latched" => by # "deadline"
               /\ by # "deadline" => at \in {"latched", "cancelling"}
      BY <3>3 DEF Fresh, SInv
    <3> QED
      BY <2>3, <3>1, <3>2, <3>3 DEF ClaimCancel, CancelPending, CancelUnknown, CancelReply, CancelIssue, MayCancel
  <2>4. CASE Ready
    BY <2>4 DEF Ready, Fresh, SInv, journal
  <2>5. CASE Begin
    BY <1>1, <2>5 DEF Begin, Fresh, SInv, IInv, Recorded
  <2> QED
    BY <2>1, <2>2, <2>3, <2>4, <2>5
<1> QED
  BY <1>1, <1>2, <1>3, <1>4, StandingKeeps

(* An exit is sent for what is left when nothing of the position is on its way. *)
LEMMA ClaimSold ==
    ASSUME IInv, IInv', SInv, Claim
    PROVE  SInv'
<1>1. UNCHANGED <<entry, exit, record, key, quantity>> /\ at = "rechecked" /\ at' = "claimed"
  BY DEF Claim, venue
<1>2. UNCHANGED <<Sold, Total, Held>>
  BY <1>1, NothingSold
<1>3. \A k \in Keys : exit[k].status \notin {"sent", "live"}
  BY DEF Claim, MayExit, LiveExit, Unsettled, SInv, Claims
<1>4. Sold = Total
  BY <1>3, SoldIsCommitted DEF SInv
<1>5. quantity <= Held
  BY TotalsAreNat DEF Claim, Sellable
<1>6. Room'
  BY <1>1, <1>2, <1>4, <1>5, TotalsAreNat DEF Room
<1>7. Claims'
  BY <1>1 DEF Claim, Claims, SInv
<1>8. Fresh' /\ Bounded'
  BY <1>1 DEF Fresh, Bounded, SInv
<1>9. NeverOversold' /\ ClosedIsSold' /\ RecordBehindVenue'
  BY <1>1, <1>2 DEF NeverOversold, ClosedIsSold, RecordBehindVenue, SInv, Total
<1> QED
  BY <1>6, <1>7, <1>8, <1>9 DEF SInv

LEMMA PostSold ==
    ASSUME IInv, IInv', SInv, Post
    PROVE  SInv'
<1>1. UNCHANGED <<entry, decision, submit, record, key, quantity>> /\ at = "claimed" /\ at' = "posted"
  BY DEF Post, journal
<1>2. CASE key \notin Keys
  <2>1. exit' = exit
    BY <1>2 DEF Post, IInv, Shape
  <2> QED
    BY <1>1, <2>1, NothingSold DEF SInv, Claims, Bounded, Fresh, Room, NeverOversold, ClosedIsSold,
                                   RecordBehindVenue, Total
<1>3. ASSUME NEW k \in Keys, k = key
      PROVE  SInv'
  <2>1. \A j \in Keys : exit'[j] = IF j = k THEN [status |-> "sent", quantity |-> quantity, filled |-> 0] ELSE exit[j]
    BY <1>3 DEF Post, IInv, Shape
  <2>2. exit[k].status = "none" /\ exit[k].filled = 0 /\ exit[k].quantity = 0 /\ Committed(k) = 0
    BY <1>1, <1>3, TotalsAreNat DEF SInv, Fresh, Bounded, Committed
  <2>3. exit'[k].filled = 0 /\ Committed(k)' = quantity
    BY <1>3, <2>1, <1>1 DEF Committed
  <2>4. Sold' = Sold + (exit'[k].filled - exit[k].filled) /\ Total' = Total + (Committed(k)' - Committed(k))
    <3>1. \A j \in Keys \ {k} : exit'[j] = exit[j]
      BY <2>1
    <3> QED
      BY <1>3, <3>1, OneExitChanges
  <2>5. Sold' = Sold /\ Total' = Total + quantity
    BY <2>2, <2>3, <2>4, TotalsAreNat
  <2>6. Held' = Held
    BY <1>1, <2>5 DEF Held
  <2>7. Total + quantity <= entry.filled
    BY <1>1 DEF SInv, Room
  <2>8. NeverOversold' /\ ClosedIsSold' /\ RecordBehindVenue'
    BY <1>1, <2>5, <2>6, <2>7 DEF NeverOversold, ClosedIsSold, RecordBehindVenue, SInv, Total
  <2>9. Bounded'
    BY <2>1, <1>1, TotalsAreNat DEF Bounded, SInv
  <2>10. Claims' /\ Fresh' /\ Room'
    BY <1>1, <1>3, <2>1 DEF Claims, Fresh, Room, SInv
  <2> QED
    BY <2>8, <2>9, <2>10 DEF SInv
<1> QED
  BY <1>2, <1>3

(* The venue fills what it was asked for, and nothing on its way can outgrow
   what the entry bought: a closed record stays true. *)
LEMMA VenueSold ==
    ASSUME IInv, IInv', SInv, Venue
    PROVE  SInv'
<1>1. UNCHANGED <<decision, submit, record, at, by, key, quantity>>
  BY DEF Venue, FillEntry, EndEntry, MoveBid, ReverseCross, AcceptExit, FillExit, EndExit, journal, pass
<1>2. CASE FillEntry \/ EndEntry \/ MoveBid \/ ReverseCross
  <2>1. /\ exit' = exit /\ entry'.filled >= entry.filled /\ (~entry.live => entry' = entry)
    BY <1>2, TotalsAreNat DEF FillEntry, EndEntry, MoveBid, ReverseCross, IInv, Shape
  <2>2. Sold' = Sold /\ Total' = Total /\ entry'.filled \in Nat
    <3>1. \A k \in Keys : Committed(k)' = Committed(k)
      BY <2>1 DEF Committed
    <3> QED
      BY <2>1, <3>1 DEF Sold, Total, Committed, IInv, Shape
  <2>3. NeverOversold' /\ RecordBehindVenue' /\ Room'
    BY <1>1, <2>1, <2>2, TotalsAreNat DEF NeverOversold, RecordBehindVenue, Room, SInv, Total, IInv, Shape, RecordShape
  <2>4. ClosedIsSold'
    BY <1>1, <2>1, <2>2 DEF ClosedIsSold, SInv, Held
  <2> QED
    BY <1>1, <2>1, <2>3, <2>4 DEF SInv, Claims, Bounded, Fresh
<1>3. ASSUME NEW k \in Keys, AcceptExit(k) \/ FillExit(k) \/ EndExit(k)
      PROVE  SInv'
  <2>1. entry' = entry /\ exit[k].status # "none"
    BY <1>3 DEF AcceptExit, FillExit, EndExit
  <2>2. \A j \in Keys \ {k} : exit'[j] = exit[j]
    BY <1>3 DEF AcceptExit, FillExit, EndExit, IInv, Shape
  <2>3. /\ exit'[k].filled >= exit[k].filled /\ exit'[k].filled <= exit'[k].quantity
        /\ exit'[k].quantity = exit[k].quantity
        /\ exit'[k].status \notin {"none", "sent"}
        /\ Committed(k)' <= Committed(k)
    <3>1. exit[k] \in [status : {"none", "sent", "live", "final"}, quantity : Nat, filled : Nat] /\ exit[k].filled <= exit[k].quantity
      BY DEF IInv, Shape, SInv, Bounded
    <3>2. CASE AcceptExit(k)
      <4>1. exit[k].status = "sent" /\ exit'[k] = [exit[k] EXCEPT !.status = "live"]
        BY <3>2 DEF AcceptExit, IInv, Shape
      <4> QED
        BY <3>1, <4>1 DEF Committed
    <3>3. CASE FillExit(k)
      <4>1. exit[k].status = "live" /\ exit[k].filled < exit[k].quantity /\ exit'[k] = [exit[k] EXCEPT !.filled = exit[k].filled + 1]
        BY <3>3 DEF FillExit, IInv, Shape
      <4> QED
        BY <3>1, <4>1 DEF Committed
    <3>4. CASE EndExit(k)
      <4>1. exit[k].status = "live" /\ exit'[k] = [exit[k] EXCEPT !.status = "final"]
        BY <3>4 DEF EndExit, IInv, Shape
      <4> QED
        BY <3>1, <4>1 DEF Committed
    <3> QED
      BY <1>3, <3>2, <3>3, <3>4
  <2>4. /\ Sold' = Sold + (exit'[k].filled - exit[k].filled) /\ Total' = Total + (Committed(k)' - Committed(k))
        /\ Sold' \in Nat /\ Total' \in Nat
        /\ Bounded' => Sold' <= Total'
    BY <2>2, OneExitChanges
  <2>5. exit'[k].filled \in Nat /\ Committed(k)' \in Nat
    BY <2>3 DEF IInv, Shape, Committed
  <2>6. Sold' >= Sold /\ Total' <= Total
    BY <2>3, <2>4, <2>5, TotalsAreNat
  <2>7. NeverOversold' /\ RecordBehindVenue' /\ Room'
    BY <1>1, <2>1, <2>4, <2>6, TotalsAreNat DEF NeverOversold, RecordBehindVenue, Room, SInv, Total, Bounded
  <2>8. Bounded'
    BY <1>1, <2>1, <2>2, <2>3 DEF SInv, Bounded
  <2>9. Sold' <= Total'
    BY <2>4, <2>8
  <2>10. ClosedIsSold'
    BY <1>1, <2>1, <2>4, <2>6, <2>7, <2>9, TotalsAreNat DEF ClosedIsSold, SInv, Held, NeverOversold, Total
  <2>11. Claims' /\ Fresh'
    BY <1>1, <2>1, <2>2, <2>3 DEF Claims, Fresh, SInv
  <2> QED
    BY <2>7, <2>8, <2>10, <2>11 DEF SInv
<1> QED
  BY <1>2, <1>3 DEF Venue

LEMMA InitSold == Init => SInv
<1> SUFFICES ASSUME Init PROVE SInv
  OBVIOUS
<1>1. \A k \in Keys : exit[k] = NoExit
  BY DEF Init
<1>2. \A k \in Keys : exit[k].filled = 0 /\ Committed(k) = 0
  BY <1>1 DEF NoExit, Committed
<1>3. Sold = 0 /\ Total = 0
  <2> DEFINE f == [k \in Keys |-> exit[k].filled]
             g == [k \in Keys |-> Committed(k)]
  <2>1. \A k \in Keys : f[k] \in Nat /\ g[k] \in Nat /\ f[k] = 0 /\ g[k] = 0
    BY <1>2
  <2>2. Sold = SumFunctionOnSet(f, Keys) /\ Total = SumFunctionOnSet(g, Keys)
    BY DEF Sold, Total, SumFunction
  <2> HIDE DEF f, g
  <2> QED
    BY <2>1, <2>2, KeysAreFinite, SumNat
<1>4. Claims /\ Bounded /\ Fresh /\ Room
  BY <1>1 DEF Init, NoExit, Claims, Bounded, Fresh, Room
<1>5. NeverOversold /\ ClosedIsSold /\ RecordBehindVenue
  BY <1>3 DEF Init, NeverOversold, ClosedIsSold, RecordBehindVenue, Total
<1> QED
  BY <1>4, <1>5 DEF SInv

LEMMA SoldStep ==
    ASSUME IInv, IInv', SInv, [Next]_vars
    PROVE  SInv'
<1>1. CASE Idle \/ UNCHANGED vars
  BY <1>1, IdleSold
<1>2. CASE Start("protect") \/ Start("cycle") \/ Start("deadline")
  BY <1>2, StartsSold
<1>3. CASE NothingHeld \/ NothingToDo \/ Stop \/ DeadlineOver \/ NotReady \/ ReadFails
           \/ CheckFails \/ PostUnknown \/ Acknowledged
  BY <1>3, EndsSold
<1>4. CASE Ensure \/ EnsureFails \/ Latch \/ ClaimCancel \/ CancelPending \/ CancelUnknown \/ CancelReply
           \/ Ready \/ Begin
  BY <1>4, QuietSold
<1>5. CASE PrepareExit \/ DeadlineReconcile
  BY <1>5, PreparesSold
<1>6. CASE Claim
  BY <1>6, ClaimSold
<1>7. CASE Post
  BY <1>7, PostSold
<1>8. CASE Venue
  BY <1>8, VenueSold
<1> QED
  BY <1>1, <1>2, <1>3, <1>4, <1>5, <1>6, <1>7, <1>8 DEF Next, Handler, Setback

THEOREM SoldInvariance == Spec => [](IInv /\ SInv)
<1>1. Init => IInv /\ SInv
  BY InitInvariant, InitSold
<1>2. IInv /\ SInv /\ [Next]_vars => IInv' /\ SInv'
  BY InductiveStep, SoldStep
<1> QED
  BY <1>1, <1>2, PTL DEF Spec

(* The exits together never ask for more than the entry bought.              *)
THEOREM OversellsNever == Spec => []NeverOversold
<1>1. SInv => NeverOversold
  BY DEF SInv
<1> QED
  BY <1>1, SoldInvariance, PTL

(* A record is closed when the whole fill is sold and no fill can follow, and
   never says more than the venue would confirm. *)
THEOREM RecordTellsTruth == Spec => [](ClosedIsSold /\ RecordBehindVenue)
<1>1. SInv => ClosedIsSold /\ RecordBehindVenue
  BY DEF SInv
<1> QED
  BY <1>1, SoldInvariance, PTL
-----------------------------------------------------------------------------
(* Seen from the venue: the exits of the position implement OrderOnce.       *)

(* A key is claimed after its decision, and the exit that a pass prepares has
   no claim before its own. *)
Prepared ==
    /\ \A k \in Keys : decision[k] = "none" => submit[k] = "none"
    /\ key \in Keys =>
        /\ at \in {"begun", "rechecked"} => decision[key] = "attempting" /\ submit[key] = "none"
        /\ at = "posted" => exit[key].status # "none"

OInv == IInv /\ SInv /\ Prepared

LEMMA InitPrepared == Init => Prepared
BY NoKeyIsNone DEF Init, Prepared

(* A reconciliation records orders that exist, and no other one.             *)
LEMMA ReconcileShows ==
    ASSUME OInv, Reconcile
    PROVE  /\ \A k \in Keys : exit[k].status = "none" => decision'[k] = decision[k] /\ submit'[k] = submit[k]
           /\ \A k \in Keys : decision'[k] = "none" => submit'[k] = "none"
<1>1. PICK read \in SUBSET Visible :
        /\ decision' = [k \in Keys |-> IF k \in read THEN exit[k].status ELSE decision[k]]
        /\ submit' = [k \in Keys |-> IF k \in read THEN "settled" ELSE submit[k]]
  BY DEF Reconcile
<1>2. \A k \in read : k \in Keys /\ exit[k].status \in {"live", "final"}
  BY DEF Visible
<1> QED
  BY <1>1, <1>2 DEF OInv, Prepared

(* Decisions and claims change only with the exits that are begun, claimed,
   refused or known. *)
LEMMA PreparedStep ==
    ASSUME OInv, IInv', [Next]_vars
    PROVE  Prepared'
<1> DEFINE Sound == \A k \in Keys : decision'[k] = "none" => submit'[k] = "none"
<1>1. CASE UNCHANGED <<exit, decision, submit, key>> /\ (at' = at \/ at' \notin {"begun", "rechecked", "posted"})
  BY <1>1 DEF OInv, Prepared
<1>2. CASE UNCHANGED <<decision, submit>> /\ Leave
  BY <1>2, NoKeyIsNone DEF OInv, Prepared, Leave
<1>3. ASSUME NEW handler \in {"protect", "cycle", "deadline"}, Start(handler) PROVE Prepared'
  BY <1>3, ReconcileShows DEF Start, Prepared
<1>4. CASE DeadlineReconcile
  BY <1>4, ReconcileShows DEF DeadlineReconcile, Prepared
<1>5. CASE PrepareExit
  <2>1. /\ Reconcile /\ UNCHANGED <<exit, key>>
        /\ \/ at = "latched" /\ at' = "prepared"
           \/ at = "begun" /\ at' = "rechecked"
    BY <1>5 DEF PrepareExit, venue
  <2>2. key \in Keys /\ at = "begun" => exit[key].status = "none"
    BY DEF OInv, SInv, Fresh
  <2> QED
    BY <2>1, <2>2, ReconcileShows DEF OInv, Prepared
<1>6. CASE Latch \/ Ready
  BY <1>6 DEF Latch, Ready, journal, OInv, Prepared
<1>7. CASE Begin
  <2>1. key \in Keys => decision[key] = "none" /\ submit[key] = "none"
    BY <1>7 DEF Begin, OInv, SInv, Fresh, Prepared
  <2> QED
    BY <1>7, <2>1 DEF Begin, OInv, IInv, Shape, Prepared
<1>8. CASE Claim
  <2>1. key \in Keys => decision[key] # "none"
    BY <1>8 DEF Claim, OInv, IInv, Recorded
  <2> QED
    BY <1>8, <2>1 DEF Claim, OInv, SInv, Claims, Prepared
<1>9. CASE Post
  BY <1>9 DEF Post, journal, OInv, IInv, Shape, Prepared
<1>10. CASE Acknowledged \/ CheckFails \/ PostUnknown
  <2>1. /\ Leave
        /\ \E outcome \in {"live", "final", "unknown", "absent"} : decision' = [decision EXCEPT ![key] = outcome]
        /\ submit' \in {submit, [submit EXCEPT ![key] = "settled"]}
    BY <1>10 DEF Acknowledged, CheckFails, PostUnknown, Finish, Blocked
  <2>2. Sound
    BY <2>1 DEF OInv, IInv, Shape, SInv, Claims, Prepared
  <2> QED
    BY <2>1, <2>2, NoKeyIsNone DEF Leave, Prepared
<1>11. CASE Venue
  <2>1. UNCHANGED <<decision, submit, key, at>>
    BY <1>11 DEF Venue, FillEntry, EndEntry, MoveBid, ReverseCross, AcceptExit, FillExit, EndExit, journal, pass
  <2>2. \A k \in Keys : exit[k].status # "none" => exit'[k].status # "none"
    BY <1>11 DEF Venue, FillEntry, EndEntry, MoveBid, ReverseCross, AcceptExit, FillExit, EndExit, OInv, IInv, Shape
  <2> QED
    BY <2>1, <2>2 DEF OInv, Prepared
<1>12. CASE Idle \/ UNCHANGED vars
  BY <1>1, <1>12 DEF Idle, vars, venue, journal, pass
<1>13. CASE NothingHeld \/ NothingToDo \/ Stop \/ DeadlineOver \/ NotReady \/ ReadFails
  BY <1>2, <1>13 DEF NothingHeld, NothingToDo, Stop, DeadlineOver, NotReady, ReadFails, Finish, Blocked, journal
<1>14. CASE Ensure \/ EnsureFails
  BY <1>1, <1>14 DEF Ensure, EnsureFails, venue, journal
<1>15. CASE ClaimCancel \/ CancelPending \/ CancelUnknown \/ CancelReply
  BY <1>1, <1>2, <1>15 DEF ClaimCancel, CancelPending, CancelUnknown, CancelReply, CancelIssue, Blocked, venue
<1> QED
  BY <1>3, <1>4, <1>5, <1>6, <1>7, <1>8, <1>9, <1>10, <1>11, <1>12, <1>13, <1>14, <1>15
     DEF Next, Handler, Setback

(* Exit k moves from one phase to the next, and no other exit moves.         *)
Moves(k, from, to) ==
    /\ PhaseOf(k) = from
    /\ PhaseOf(k)' = to
    /\ \A j \in Keys \ {k} : PhaseOf(j)' = PhaseOf(j)

Doubt(k) == \E j \in Keys \ {k} : PhaseOf(j) \in {"authorised", "sent"}

LEMMA DoubtIsUnsettled ==
    ASSUME OInv, NEW j \in Keys, PhaseOf(j) \in {"authorised", "sent"}
    PROVE  submit[j] = "open"
BY DEF OInv, IInv, Shape, SInv, Claims, PhaseOf

LEMMA ExitPhases ==
    ASSUME OInv, [Next]_vars
    PROVE  \/ \A k \in Keys : PhaseOf(k)' = PhaseOf(k)
           \/ \E k \in Keys : \/ Moves(k, "new", "refused")
                              \/ Moves(k, "new", "authorised") /\ ~Doubt(k)
                              \/ Moves(k, "authorised", "sent")
                              \/ Moves(k, "sent", "live")
                              \/ Moves(k, "live", "final")
<1> DEFINE Stays == \A k \in Keys : PhaseOf(k)' = PhaseOf(k)
<1>1. CASE UNCHANGED <<exit, decision, submit>>
  BY <1>1 DEF PhaseOf
<1>2. CASE Reconcile /\ UNCHANGED exit
  BY <1>2, ReconcileShows DEF PhaseOf
<1>3. CASE key \notin Keys /\ (Begin \/ Claim \/ Post \/ Acknowledged \/ CheckFails \/ PostUnknown)
  <2>1. UNCHANGED <<exit, decision, submit>>
    BY <1>3 DEF Begin, Claim, Post, Acknowledged, CheckFails, PostUnknown, venue, journal, OInv, IInv, Shape,
                SInv, Claims
  <2> QED
    BY <1>1, <2>1
<1>4. ASSUME NEW k \in Keys, k = key, Begin PROVE Stays
  <2>1. UNCHANGED <<exit, submit>> /\ decision[k] = "none" /\ decision' = [decision EXCEPT ![k] = "attempting"]
    BY <1>4 DEF Begin, venue, OInv, SInv, Fresh
  <2> QED
    BY <2>1 DEF PhaseOf, OInv, IInv, Shape
<1>5. ASSUME NEW k \in Keys, k = key, Claim PROVE Moves(k, "new", "authorised") /\ ~Doubt(k)
  <2>1. /\ UNCHANGED <<exit, decision>> /\ exit[k].status = "none"
        /\ decision[k] = "attempting" /\ submit[k] = "none"
    BY <1>5 DEF Claim, venue, OInv, SInv, Fresh, Prepared
  <2>2. submit'[k] = "open" /\ \A j \in Keys \ {k} : submit'[j] = submit[j]
    BY <1>5 DEF Claim, OInv, SInv, Claims
  <2>3. Moves(k, "new", "authorised")
    BY <2>1, <2>2 DEF Moves, PhaseOf
  <2>4. ~Doubt(k)
    BY <1>5, DoubtIsUnsettled DEF Claim, MayExit, Unsettled, Doubt
  <2> QED
    BY <2>3, <2>4
<1>6. ASSUME NEW k \in Keys, k = key, Post PROVE Moves(k, "authorised", "sent")
  <2>1. UNCHANGED <<submit, decision>> /\ exit[k].status = "none" /\ submit[k] = "open"
    BY <1>6 DEF Post, journal, OInv, SInv, Fresh, Claims
  <2>2. exit'[k].status = "sent" /\ \A j \in Keys \ {k} : exit'[j] = exit[j]
    BY <1>6 DEF Post, OInv, IInv, Shape
  <2> QED
    BY <2>1, <2>2 DEF Moves, PhaseOf
<1>7. ASSUME NEW k \in Keys, k = key, Acknowledged \/ PostUnknown PROVE Stays
  <2>1. /\ UNCHANGED exit /\ exit[k].status # "none"
        /\ \A j \in Keys \ {k} : decision'[j] = decision[j] /\ submit'[j] = submit[j]
    BY <1>7 DEF Acknowledged, PostUnknown, venue, OInv, IInv, Shape, SInv, Claims, Prepared
  <2> QED
    BY <2>1 DEF PhaseOf
<1>8. ASSUME NEW k \in Keys, k = key, CheckFails PROVE Moves(k, "new", "refused")
  <2>1. /\ UNCHANGED <<exit, submit>> /\ exit[k].status = "none"
        /\ decision[k] = "attempting" /\ submit[k] = "none"
    BY <1>8 DEF CheckFails, venue, OInv, SInv, Fresh, Prepared
  <2>2. decision'[k] = "absent" /\ \A j \in Keys \ {k} : decision'[j] = decision[j]
    BY <1>8 DEF CheckFails, OInv, IInv, Shape
  <2> QED
    BY <2>1, <2>2 DEF Moves, PhaseOf
<1>9. ASSUME NEW k \in Keys, AcceptExit(k) \/ EndExit(k)
      PROVE  Moves(k, "sent", "live") \/ Moves(k, "live", "final")
  <2>1. /\ UNCHANGED <<decision, submit>>
        /\ \/ exit[k].status = "sent" /\ exit'[k].status = "live"
           \/ exit[k].status = "live" /\ exit'[k].status = "final"
        /\ \A j \in Keys \ {k} : exit'[j] = exit[j]
    BY <1>9 DEF AcceptExit, EndExit, journal, OInv, IInv, Shape
  <2> QED
    BY <2>1 DEF Moves, PhaseOf
<1>10. ASSUME NEW k \in Keys, FillExit(k) PROVE Stays
  <2>1. /\ UNCHANGED <<decision, submit>>
        /\ \A j \in Keys : exit'[j].status = exit[j].status
    BY <1>10 DEF FillExit, journal, OInv, IInv, Shape
  <2> QED
    BY <2>1 DEF PhaseOf
<1> HIDE DEF Stays
<1>11. \/ UNCHANGED <<exit, decision, submit>>
       \/ Reconcile /\ UNCHANGED exit
       \/ Begin \/ Claim \/ Post \/ Acknowledged \/ PostUnknown \/ CheckFails
       \/ \E k \in Keys : AcceptExit(k) \/ EndExit(k) \/ FillExit(k)
  <2>1. CASE Start("protect") \/ Start("cycle") \/ Start("deadline") \/ DeadlineReconcile \/ PrepareExit
    BY <2>1 DEF Start, DeadlineReconcile, PrepareExit, venue
  <2>2. CASE FillEntry \/ EndEntry \/ MoveBid \/ ReverseCross \/ Idle \/ UNCHANGED vars
    BY <2>2 DEF FillEntry, EndEntry, MoveBid, ReverseCross, Idle, vars, venue, journal
  <2>3. CASE NothingHeld \/ NothingToDo \/ Stop \/ DeadlineOver \/ NotReady \/ ReadFails \/ Ready
             \/ Ensure \/ EnsureFails \/ Latch
    BY <2>3 DEF NothingHeld, NothingToDo, Stop, DeadlineOver, NotReady, ReadFails, Ready, Ensure, EnsureFails,
                Latch, venue, journal
  <2>4. CASE ClaimCancel \/ CancelPending \/ CancelUnknown \/ CancelReply
    BY <2>4 DEF ClaimCancel, CancelPending, CancelUnknown, CancelReply, CancelIssue, venue
  <2> QED
    BY <2>1, <2>2, <2>3, <2>4 DEF Next, Handler, Setback, Venue
<1> QED
  BY <1>1, <1>2, <1>3, <1>4, <1>5, <1>6, <1>7, <1>8, <1>9, <1>10, <1>11 DEF Stays

(* A move of one exit is the same move of the abstract phase function.       *)
LEMMA ExitMoveIsStep ==
    ASSUME NEW k \in Keys, NEW from, NEW to, from # to, Moves(k, from, to)
    PROVE  /\ Once!Step(k, from, to)
           /\ [j \in Keys |-> PhaseOf(j)]'[k] # [j \in Keys |-> PhaseOf(j)][k]
<1>1. PhaseOf(k) = from /\ PhaseOf(k)' = to
  BY DEF Moves
<1>2. \A j \in Keys : PhaseOf(j)' = IF j = k THEN to ELSE PhaseOf(j)
  BY DEF Moves
<1>3. Keys' = Keys
  BY DEF Keys
<1>4. [j \in Keys |-> PhaseOf(j)]' = [[j \in Keys |-> PhaseOf(j)] EXCEPT ![k] = to]
  BY <1>2, <1>3
<1>5. [j \in Keys |-> PhaseOf(j)]'[k] = to /\ [j \in Keys |-> PhaseOf(j)][k] = from
  BY <1>1, <1>3
<1> QED
  BY <1>4, <1>5 DEF Once!Step

(* However passes are killed, fail or are repeated, each exit of a position is
   one order request at most, and none is authorised beside one in doubt.    *)
THEOREM ProtectionRefinement == Spec => ImplementsOrderOnce
<1>1. Init => Once!Init
  BY DEF Init, Once!Init, PhaseOf, NoExit
<1>2. Init => OInv
  BY InitInvariant, InitSold, InitPrepared DEF OInv
<1>3. OInv /\ [Next]_vars => OInv'
  BY InductiveStep, SoldStep, PreparedStep DEF OInv
<1>4. OInv /\ [Next]_vars => [Once!Next]_([k \in Keys |-> PhaseOf(k)])
  <2> SUFFICES ASSUME OInv, [Next]_vars PROVE [Once!Next]_([k \in Keys |-> PhaseOf(k)])
    OBVIOUS
  <2>1. ASSUME \A k \in Keys : PhaseOf(k)' = PhaseOf(k)
        PROVE  UNCHANGED [k \in Keys |-> PhaseOf(k)]
    BY <2>1 DEF Keys
  <2>2. ASSUME NEW k \in Keys,
               \/ Moves(k, "new", "refused")
               \/ Moves(k, "new", "authorised") /\ ~Doubt(k)
               \/ Moves(k, "authorised", "sent")
               \/ Moves(k, "sent", "live")
               \/ Moves(k, "live", "final")
        PROVE  Once!Next
    <3>1. ~Doubt(k) => ~Once!InDoubt(k)
      BY DEF Doubt, Once!InDoubt
    <3> QED
      BY <2>2, <3>1, ExitMoveIsStep
         DEF Once!Next, Once!Refuse, Once!Authorise, Once!Send, Once!Accept, Once!Finish
  <2> QED
    BY <2>1, <2>2, ExitPhases
<1> QED
  BY <1>1, <1>2, <1>3, <1>4, PTL DEF Spec, ImplementsOrderOnce, Once!Spec
=============================================================================
