------------------------ MODULE DeadlineWorker_proofs ------------------------
(***************************************************************************)
(* The inductive invariant of DeadlineWorker and the three safety           *)
(* properties that follow from it, for any number of passes and any         *)
(* quantity.                                                               *)
(*                                                                         *)
(* There is one lemma for each party, with one step for each of its         *)
(* actions.  The invariant only speaks of small finite data, so that each   *)
(* step is a leaf: it needs the definition of its action and the invariant. *)
(***************************************************************************)
EXTENDS DeadlineWorker, TLAPS

(* Other handlers record what the venue shows, and protect what was bought, no more. *)
LEMMA OtherKeeps ==
    ASSUME IInv, OtherStep
    PROVE  IInv'
<1> USE DeadlineAssumption
        DEF IInv, TypeOK, Arming, Sending, Decided, Passing, HandedOver, WatchKept, Settled,
            Answer, venue, journal, worker
<1>1. CASE OtherAcquires
  BY <1>1 DEF OtherAcquires
<1>2. CASE OtherReconciles
  BY <1>2 DEF OtherReconciles, Look
<1>3. CASE OtherCancels
  BY <1>3 DEF OtherCancels
<1>4. CASE Expire
  BY <1>4 DEF Expire
<1>5. QED BY <1>1, <1>2, <1>3, <1>4 DEF OtherStep

(* The cycle sends only after the timer is armed and the watch awake, and only it
   can say that the entry was refused. *)
LEMMA CycleKeeps ==
    ASSUME IInv, CycleStep
    PROVE  IInv'
<1> USE DeadlineAssumption
        DEF IInv, TypeOK, Arming, Sending, Decided, Passing, HandedOver, WatchKept, Settled,
            Answer, venue, journal, worker
<1>1. CASE BeginEntry
  BY <1>1 DEF BeginEntry
<1>2. CASE ArmCancellation
  BY <1>2 DEF ArmCancellation
<1>3. CASE Armed
  BY <1>3 DEF Armed
<1>4. CASE ArmFails
  BY <1>4 DEF ArmFails
<1>5. CASE TooLate
  BY <1>5 DEF TooLate
<1>6. CASE WakeWatch
  BY <1>6 DEF WakeWatch
<1>7. CASE RejectBeforeSend
  BY <1>7 DEF RejectBeforeSend
<1>8. CASE ClaimSubmit
  BY <1>8 DEF ClaimSubmit
<1>9. CASE Post
  BY <1>9 DEF Post
<1>10. CASE Submitted
  BY <1>10 DEF Submitted
<1>11. CASE PostFails
  BY <1>11 DEF PostFails
<1>12. CASE MarkUnknown
  BY <1>12 DEF MarkUnknown
<1>13. CASE StopCycle
  BY <1>13 DEF StopCycle
<1>14. QED BY <1>1, <1>2, <1>3, <1>4, <1>5, <1>6, <1>7, <1>8, <1>9, <1>10, <1>11,
           <1>12, <1>13 DEF CycleStep

(* The worker drops the timer only on an answer, and what the answer said is
   still true when it is heard. *)
LEMMA WorkerKeeps ==
    ASSUME IInv, WorkerStep
    PROVE  IInv'
<1> USE DeadlineAssumption
        DEF IInv, TypeOK, Arming, Sending, Decided, Passing, HandedOver, WatchKept, Settled,
            Answer, venue, journal, worker
<1>1. CASE ReceiveSchedule
  BY <1>1 DEF ReceiveSchedule
<1>2. CASE LoseSchedule
  BY <1>2 DEF LoseSchedule
<1>3. CASE Unanswered
  BY <1>3 DEF Unanswered
<1>4. CASE Cron
  BY <1>4 DEF Cron
<1>5. CASE WatchFires
  BY <1>5 DEF WatchFires
<1>6. CASE WatchAnswered
  BY <1>6 DEF WatchAnswered
<1>7. ASSUME NEW p \in Pass, Fire(p) PROVE IInv'
  BY <1>7 DEF Fire
<1>8. ASSUME NEW p \in Pass, Answered(p) PROVE IInv'
  BY <1>8 DEF Answered, Again
<1>9. QED BY <1>1, <1>2, <1>3, <1>4, <1>5, <1>6, <1>7, <1>8 DEF WorkerStep

(* A pass answers that the entry is settled only where it is. *)
LEMMA PassKeeps ==
    ASSUME IInv, NEW p \in Pass, PassStep(p)
    PROVE  IInv'
<1> USE DeadlineAssumption
        DEF IInv, TypeOK, Arming, Sending, Decided, Passing, HandedOver, WatchKept, Settled,
            Answer, venue, journal, worker
<1>1. CASE Busy(p)
  BY <1>1 DEF Busy, Reply, Release, Goto
<1>2. CASE NotConnected(p)
  BY <1>2 DEF NotConnected, Reply, Release, Goto
<1>3. CASE Acquire(p)
  BY <1>3 DEF Acquire, Goto
<1>4. CASE NotDue(p)
  BY <1>4 DEF NotDue, Reply, Release, Goto
<1>5. CASE Reconcile(p)
  BY <1>5 DEF Reconcile, Look, Goto
<1>6. CASE Found(p)
  BY <1>6 DEF Found, Look, Goto, Holds
<1>7. CASE NotFound(p)
  BY <1>7 DEF NotFound, Reply, Holds, Release, Goto
<1>8. CASE NothingToCancel(p)
  BY <1>8 DEF NothingToCancel, Look, Goto, Holds
<1>9. CASE CancelFails(p)
  BY <1>9 DEF CancelFails, Goto, Holds
<1>10. CASE ClaimCancel(p)
  BY <1>10 DEF ClaimCancel, Goto, Holds
<1>11. CASE Delete(p)
  BY <1>11 DEF Delete, Goto
<1>12. CASE Deleted(p)
  BY <1>12 DEF Deleted, Look, Goto
<1>13. CASE Recheck(p)
  BY <1>13 DEF Recheck, Look, Goto, Holds
<1>14. CASE RecheckMisses(p)
  BY <1>14 DEF RecheckMisses, Goto, Holds
<1>15. CASE ProtectRest(p)
  BY <1>15 DEF ProtectRest, Reply, Holds, Release, Goto
<1>16. CASE Protect(p)
  BY <1>16 DEF Protect, Goto, Holds
<1>17. CASE Conclude(p)
  BY <1>17 DEF Conclude, Reply, Holds, Release, Goto
<1>18. CASE Fail(p)
  BY <1>18 DEF Fail, Reply, Release, Goto
<1>19. CASE StopPass(p)
  BY <1>19 DEF StopPass, Goto
<1>20. QED BY <1>1, <1>2, <1>3, <1>4, <1>5, <1>6, <1>7, <1>8, <1>9, <1>10, <1>11,
           <1>12, <1>13, <1>14, <1>15, <1>16, <1>17, <1>18, <1>19 DEF PassStep

(* An order that is over stays over, and buys nothing more. *)
LEMMA VenueKeeps ==
    ASSUME IInv, VenueStep
    PROVE  IInv'
<1> USE DeadlineAssumption
        DEF IInv, TypeOK, Arming, Sending, Decided, Passing, HandedOver, WatchKept, Settled,
            Answer, venue, journal, worker
<1>1. CASE Tick
  BY <1>1 DEF Tick
<1>2. CASE AcceptPost
  BY <1>2 DEF AcceptPost
<1>3. CASE LoseRequest
  BY <1>3 DEF LoseRequest
<1>4. CASE Fill
  BY <1>4 DEF Fill
<1>5. CASE EndEntry
  BY <1>5 DEF EndEntry
<1>6. CASE AcceptDelete
  BY <1>6 DEF AcceptDelete
<1>7. QED BY <1>1, <1>2, <1>3, <1>4, <1>5, <1>6 DEF VenueStep

(* Nothing is armed, sent or decided at the start. *)
LEMMA InitIInv == Init => IInv
<1> SUFFICES ASSUME Init PROVE IInv
  OBVIOUS
<1> USE DeadlineAssumption DEF Init
<1>1. TypeOK
  <2>1. 0 \in 0..Ordered
    OBVIOUS
  <2>2. entry \in [status : {"none", "live", "final"}, filled : 0..Ordered]
    BY <2>1
  <2>3. QED BY <2>1, <2>2 DEF TypeOK
<1>2. Arming /\ Sending /\ HandedOver /\ WatchKept
  BY DEF Arming, Sending, HandedOver, WatchKept
<1>3. Decided
  BY DEF Decided
<1>4. Passing
  BY DEF Passing, Answer
<1>5. QED BY <1>1, <1>2, <1>3, <1>4 DEF IInv

LEMMA StepIInv == IInv /\ [Next]_vars => IInv'
<1> SUFFICES ASSUME IInv, [Next]_vars PROVE IInv'
  OBVIOUS
<1>1. CASE UNCHANGED vars
  BY <1>1 DEF vars, venue, journal, worker, IInv, TypeOK, Arming, Sending, Decided, Passing,
              HandedOver, WatchKept, Settled, Answer
<1>2. CASE Next
  BY <1>2, OtherKeeps, CycleKeeps, WorkerKeeps, PassKeeps, VenueKeeps DEF Next
<1>3. QED BY <1>1, <1>2

(* The invariant of the entry, its timer, its record and the passes that call it. *)
THEOREM DeadlineInvariance == Spec => []IInv
BY InitIInv, StepIInv, PTL DEF Spec

(* As long as the entry may still buy something, its timer will fire again, whatever
   the calls of the host returned, and however many of them overlap: a dropped timer
   belongs to an entry that is settled, and a settled entry buys nothing. *)
THEOREM TimerKept == Spec => []TimerOutlivesEntry
<1>1. IInv => TimerOutlivesEntry
  BY DEF IInv, TypeOK, Arming, Sending, Decided, HandedOver, Settled, TimerOutlivesEntry, MayBuy
<1>2. QED BY <1>1, DeadlineInvariance, PTL

(* The timer of an entry is dropped only when it was refused before it was sent, or
   when it is over and all that it bought is under protection. *)
THEOREM TimerHandsOver == Spec => []HandedOver
<1>1. IInv => HandedOver
  BY DEF IInv
<1>2. QED BY <1>1, DeadlineInvariance, PTL

(* An entry that may have been sent has the protection watch awake. *)
THEOREM WatchStays == Spec => []WatchKept
<1>1. IInv => WatchKept
  BY DEF IInv
<1>2. QED BY <1>1, DeadlineInvariance, PTL

=============================================================================
