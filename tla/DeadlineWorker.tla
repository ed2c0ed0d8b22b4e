--------------------------- MODULE DeadlineWorker ---------------------------
(***************************************************************************)
(* How the engine makes sure that an entry order does not outlive its       *)
(* deadline.  Four parties act on one entry:                               *)
(*                                                                         *)
(*   - the strategy cycle that decides it, has its timer armed, wakes the  *)
(*     protection watch and only then sends it;                            *)
(*   - the entry's own Durable Object, which keeps the timer and calls the *)
(*     host when it fires, for as long as the answer tells it to;          *)
(*   - the passes of cancelDeadline() on the host.  The object waits 55    *)
(*     seconds for one and fires again, while the pass may still run;      *)
(*   - the venue.                                                          *)
(*                                                                         *)
(* A lookup is one step here: its read, its record and the claim that it   *)
(* settles.  SourceWrites has them as steps of their own.                  *)
(***************************************************************************)
EXTENDS Integers

CONSTANTS
    Pass,      \* passes of cancelDeadline() that may run at one time
    Ordered,   \* quantity of the entry, in the instrument's quantity steps
    None

ASSUME DeadlineAssumption ==
    Ordered \in Nat \ {0} /\ {None, "cycle", "other"} \cap Pass = {} /\ None \notin {"cycle", "other"}

VARIABLES
    due,       \* the entry's expiresAt has passed
    entry,     \* the order at the venue: status, quantity filled
    wire,      \* requests on their way to the worker and to the venue
    \* Journal
    lease,     \* who holds the account's lease; "other" is any other handler
    decision,  \* status of the decision; "acknowledged" is split into "live"
               \* and "final", by the order it was last seen as
    submit,    \* write claim submit:<key>
    cancel,    \* write claim cancel:<order>
    kept,      \* entryFilled of the protection record
    \* Durable Objects
    timer,     \* the entry's object: its job and its alarm
    caller,    \* the pass that the object's alarm() waits for
    watch,     \* the object of the protection watch
    \* Host
    cycle,     \* where the cycle stands
    at         \* where each pass stands, or what it has answered

venue   == <<due, entry>>
journal == <<decision, submit, cancel, kept>>
worker  == <<timer, caller, watch>>
vars    == <<venue, wire, lease, journal, worker, cycle, at>>

Answer == {"retry",        \* the answer has a retryAt
           "unconnected",  \* it has none: order_api_not_connected
           "settled"}      \* it has none: the entry is over, or was never sent

Init ==
    /\ due = FALSE
    /\ entry = [status |-> "none", filled |-> 0]
    /\ wire = {}
    /\ lease = None
    /\ decision = "none" /\ submit = "none" /\ cancel = "none"
    /\ kept = 0
    /\ timer = "none" /\ caller = None
    /\ watch = "none"
    /\ cycle = "idle"
    /\ at = [p \in Pass |-> "free"]

-----------------------------------------------------------------------------
(* The account's lease.                                                    *)

OtherAcquires ==
    /\ lease = None
    /\ lease' = "other"
    /\ UNCHANGED <<venue, wire, journal, worker, cycle, at>>

(* It runs out, or the other handler releases it. *)
Expire ==
    /\ lease # None
    /\ lease' = None
    /\ UNCHANGED <<venue, wire, journal, worker, cycle, at>>

Release(holder) == lease' = IF lease = holder THEN None ELSE lease

(* lookup(): what the venue shows is recorded, and settles what it proves. *)
Look ==
    /\ entry.status # "none"
    /\ decision' = entry.status
    /\ submit' = "settled"
    /\ cancel' = IF cancel = "open" /\ entry.status = "final" THEN "settled" ELSE cancel
    /\ UNCHANGED kept

(* Other handlers look the entry up and protect its fill, and an exit of theirs
   may cancel its rest. *)
OtherReconciles ==
    /\ lease = "other"
    /\ \/ Look
       \/ kept' = entry.filled /\ UNCHANGED <<decision, submit, cancel>>
    /\ UNCHANGED <<venue, wire, lease, worker, cycle, at>>

OtherCancels ==
    /\ lease = "other"
    /\ entry.status = "live" /\ entry.filled > 0
    /\ cancel = "none" /\ submit # "open"
    /\ cancel' = "open"
    /\ wire' \in {wire, wire \cup {"delete"}}
    /\ UNCHANGED <<venue, lease, decision, submit, kept, worker, cycle, at>>

-----------------------------------------------------------------------------
(* The cycle.                                                              *)

BeginEntry ==
    /\ cycle = "idle" /\ lease = None
    /\ decision = "none"
    /\ lease' = "cycle"
    /\ decision' = "attempting"
    /\ cycle' = "begun"
    /\ UNCHANGED <<venue, wire, submit, cancel, kept, worker, at>>

(* armCancellation(): a request to the worker, answered within five seconds. *)
ArmCancellation ==
    /\ cycle = "begun"
    /\ wire' = wire \cup {"schedule"}
    /\ cycle' = "arming"
    /\ UNCHANGED <<venue, lease, journal, worker, at>>

Armed ==
    /\ cycle = "arming" /\ timer # "none"
    /\ cycle' = "armed"
    /\ UNCHANGED <<venue, wire, lease, journal, worker, at>>

ArmFails ==
    /\ cycle = "arming"
    /\ cycle' = "failed"
    /\ UNCHANGED <<venue, wire, lease, journal, worker, at>>

(* Quote or signal are too old, or the entry has expired. *)
TooLate ==
    /\ cycle = "armed"
    /\ cycle' = "failed"
    /\ UNCHANGED <<venue, wire, lease, journal, worker, at>>

(* submit(): the last of its checks wakes the protection watch. *)
WakeWatch ==
    /\ cycle = "armed" /\ ~due
    /\ lease = "cycle"
    /\ watch' = IF watch = "none" THEN "armed" ELSE watch
    /\ cycle' = "watched"
    /\ UNCHANGED <<venue, wire, lease, journal, timer, caller, at>>

(* One of the checks fails; the watch may have been woken all the same. *)
RejectBeforeSend ==
    /\ cycle = "armed"
    /\ lease = "cycle"
    /\ decision' = "absent"
    /\ watch' \in {watch, IF watch = "none" THEN "armed" ELSE watch}
    /\ cycle' = "failed"
    /\ UNCHANGED <<venue, wire, lease, submit, cancel, kept, timer, caller, at>>

ClaimSubmit ==
    /\ cycle = "watched"
    /\ lease = "cycle"
    /\ submit = "none" /\ cancel # "open"
    /\ submit' = "open"
    /\ cycle' = "claimed"
    /\ UNCHANGED <<venue, wire, lease, decision, cancel, kept, worker, at>>

Post ==
    /\ cycle = "claimed"
    /\ wire' = wire \cup {"post"}
    /\ cycle' = "posted"
    /\ UNCHANGED <<venue, lease, journal, worker, at>>

Submitted ==
    /\ cycle = "posted" /\ entry.status # "none"
    /\ lease = "cycle"
    /\ decision' = entry.status
    /\ submit' = "settled"
    /\ lease' = None
    /\ cycle' = "over"
    /\ UNCHANGED <<venue, wire, cancel, kept, worker, at>>

PostFails ==
    /\ cycle = "posted"
    /\ cycle' = "failed"
    /\ UNCHANGED <<venue, wire, lease, journal, worker, at>>

(* The catch of cycle(), and the release of its lease. *)
MarkUnknown ==
    /\ cycle = "failed"
    /\ lease = "cycle"
    /\ decision' = IF decision = "attempting" THEN "unknown" ELSE decision
    /\ lease' = None
    /\ cycle' = "over"
    /\ UNCHANGED <<venue, wire, submit, cancel, kept, worker, at>>

(* The host ends the invocation, or it has lost its lease. *)
StopCycle ==
    /\ cycle \notin {"idle", "over"}
    /\ cycle' = "over"
    /\ UNCHANGED <<venue, wire, lease, journal, worker, at>>

-----------------------------------------------------------------------------
(* The worker.  Its alarm is kept by the platform until alarm() has        *)
(* returned; an object that is evicted before runs it again.               *)

(* OrderDeadline.fetch(): job and alarm are stored, then acknowledged. *)
ReceiveSchedule ==
    /\ "schedule" \in wire
    /\ wire' = wire \ {"schedule"}
    /\ timer' = "armed"
    /\ UNCHANGED <<venue, lease, journal, caller, watch, cycle, at>>

LoseSchedule ==
    /\ "schedule" \in wire
    /\ wire' = wire \ {"schedule"}
    /\ UNCHANGED <<venue, lease, journal, worker, cycle, at>>

(* alarm() calls the host; the worker's clock may be ahead of the host's. *)
Fire(p) ==
    /\ timer = "armed"
    /\ at[p] = "free"
    /\ timer' = "firing" /\ caller' = p
    /\ at' = [at EXCEPT ![p] = "called"]
    /\ UNCHANGED <<venue, wire, lease, journal, watch, cycle>>

(* What keeps the job and sets its alarm again. *)
Again(answer) == answer \in {"retry", "unconnected"}

Answered(p) ==
    /\ caller = p /\ at[p] \in Answer
    /\ timer' = IF Again(at[p]) THEN "armed" ELSE "dropped"
    /\ caller' = None
    /\ at' = [at EXCEPT ![p] = "free"]
    /\ UNCHANGED <<venue, wire, lease, journal, watch, cycle>>

(* Slip: an error leaves the job without an alarm. *)
UnansweredOnce ==
    /\ caller # None
    /\ timer' = "asleep" /\ caller' = None
    /\ at' = [at EXCEPT ![caller] = IF @ \in Answer THEN "free" ELSE @]
    /\ UNCHANGED <<venue, wire, lease, journal, watch, cycle>>

(* No answer within 55 seconds, an HTTP error, an evicted object: the pass,
   if there still is one, goes on unheard. *)
Unanswered ==
    /\ caller # None
    /\ timer' = "armed" /\ caller' = None
    /\ at' = [at EXCEPT ![caller] = IF @ \in Answer THEN "free" ELSE @]
    /\ UNCHANGED <<venue, wire, lease, journal, watch, cycle>>

(* The cron trigger wakes the watch too. *)
Cron ==
    /\ watch = "none"
    /\ watch' = "armed"
    /\ UNCHANGED <<venue, wire, lease, journal, timer, caller, cycle, at>>

(* The watch's next alarm is set before the host is called. *)
WatchFires ==
    /\ watch = "armed"
    /\ watch' = "firing"
    /\ UNCHANGED <<venue, wire, lease, journal, timer, caller, cycle, at>>

(* Slip: a watch with nothing to watch is dropped. *)
WatchAnsweredIdle ==
    /\ watch = "firing"
    /\ watch' \in {"armed", "none"}
    /\ UNCHANGED <<venue, wire, lease, journal, timer, caller, cycle, at>>

(* Whatever the host answers, or does not, another alarm follows. *)
WatchAnswered ==
    /\ watch = "firing"
    /\ watch' = "armed"
    /\ UNCHANGED <<venue, wire, lease, journal, timer, caller, cycle, at>>

-----------------------------------------------------------------------------
(* A pass of cancelDeadline().                                             *)

Goto(p, step) == at' = [at EXCEPT ![p] = step]

(* The pass ends.  Nobody hears an answer that the worker has given up on. *)
Reply(p, answer) ==
    /\ Goto(p, IF caller = p THEN answer ELSE "free")
    /\ Release(p)

Busy(p) ==
    /\ at[p] = "called" /\ lease # None
    /\ Reply(p, "retry")
    /\ UNCHANGED <<venue, wire, journal, worker, cycle>>

NotConnected(p) ==
    /\ at[p] = "called"
    /\ Reply(p, "unconnected")
    /\ UNCHANGED <<venue, wire, journal, worker, cycle>>

Acquire(p) ==
    /\ at[p] = "called" /\ lease = None
    /\ lease' = p
    /\ Goto(p, "leased")
    /\ UNCHANGED <<venue, wire, journal, worker, cycle>>

NotDue(p) ==
    /\ at[p] = "leased" /\ ~due
    /\ Reply(p, "retry")
    /\ UNCHANGED <<venue, wire, journal, worker, cycle>>

(* Steps that begin with a read or a write of the journal. *)
Holds(p, step) == at[p] = step /\ lease = p

(* reconcile(), before the order is looked up and after it was cancelled; a
   read that fails or finds nothing leaves everything as it was. *)
Reconcile(p) ==
    /\ \/ at[p] = "leased" /\ due /\ Goto(p, "reconciled")
       \/ at[p] = "ended" /\ Goto(p, "checking")
    /\ lease = p
    /\ Look \/ UNCHANGED journal
    /\ UNCHANGED <<venue, wire, lease, worker, cycle>>

(* Slip: an order that is over needs nothing more. *)
FoundOver(p) ==
    /\ Holds(p, "reconciled")
    /\ Look
    /\ IF entry.status = "live" THEN Goto(p, "cancelling") /\ UNCHANGED lease
       ELSE Reply(p, "settled")
    /\ UNCHANGED <<venue, wire, worker, cycle>>

Found(p) ==
    /\ Holds(p, "reconciled")
    /\ Look
    /\ Goto(p, IF entry.status = "live" THEN "cancelling" ELSE "ended")
    /\ UNCHANGED <<venue, wire, lease, worker, cycle>>

(* Slip: a scan without the order proves that it was never sent. *)
NotFoundAbsent(p) ==
    /\ Holds(p, "reconciled")
    /\ Reply(p, "settled")
    /\ UNCHANGED <<venue, wire, journal, worker, cycle>>

(* Only the record of a refusal before it was sent makes absence a fact. *)
NotFound(p) ==
    /\ Holds(p, "reconciled")
    /\ Reply(p, IF decision = "absent" THEN "settled" ELSE "retry")
    /\ UNCHANGED <<venue, wire, journal, worker, cycle>>

(* cancelRemainder() reads the order again: it is over, or a write on the asset
   is without proof, perhaps an earlier DELETE. *)
NothingToCancel(p) ==
    /\ Holds(p, "cancelling")
    /\ \/ entry.status = "final" /\ Look
       \/ (cancel # "none" \/ submit = "open") /\ UNCHANGED journal
    /\ Goto(p, "ended")
    /\ UNCHANGED <<venue, wire, lease, worker, cycle>>

CancelFails(p) ==
    /\ Holds(p, "cancelling")
    /\ UNCHANGED journal
    /\ Goto(p, "ended")
    /\ UNCHANGED <<venue, wire, lease, worker, cycle>>

ClaimCancel(p) ==
    /\ Holds(p, "cancelling")
    /\ entry.status = "live"
    /\ cancel = "none" /\ submit # "open"
    /\ cancel' = "open"
    /\ Goto(p, "claimed")
    /\ UNCHANGED <<venue, wire, lease, decision, submit, kept, worker, cycle>>

Delete(p) ==
    /\ at[p] = "claimed"
    /\ wire' = wire \cup {"delete"}
    /\ Goto(p, "deleting")
    /\ UNCHANGED <<venue, lease, journal, worker, cycle>>

(* The answer shows the order over, or live, or does not come. *)
Deleted(p) ==
    /\ at[p] = "deleting"
    /\ \/ lease = p /\ entry.status = "final" /\ Look
       \/ UNCHANGED journal
    /\ Goto(p, "ended")
    /\ UNCHANGED <<venue, wire, lease, worker, cycle>>

(* The second lookup; the account is read after it. *)
Recheck(p) ==
    /\ Holds(p, "checking")
    /\ Look
    /\ Goto(p, IF entry.status = "live" THEN "stillLive" ELSE "final")
    /\ UNCHANGED <<venue, wire, lease, worker, cycle>>

RecheckMisses(p) ==
    /\ Holds(p, "checking")
    /\ Goto(p, "stillLive")
    /\ UNCHANGED <<venue, wire, lease, journal, worker, cycle>>

(* ensureProtection() of what the account shows as bought. *)
ProtectRest(p) ==
    /\ Holds(p, "stillLive")
    /\ kept' \in {kept, entry.filled}
    /\ Reply(p, "retry")
    /\ UNCHANGED <<venue, wire, decision, submit, cancel, worker, cycle>>

Protect(p) ==
    /\ Holds(p, "final")
    /\ kept' = entry.filled
    /\ Goto(p, "protected")
    /\ UNCHANGED <<venue, wire, lease, decision, submit, cancel, worker, cycle>>

Conclude(p) ==
    /\ Holds(p, "protected")
    /\ decision' = "final"
    /\ Reply(p, "settled")
    /\ UNCHANGED <<venue, wire, submit, cancel, kept, worker, cycle>>

(* A failed read, or a lease that is lost, is an HTTP error.  The worker calls
   again, as after a "retry". *)
Fail(p) ==
    /\ at[p] \notin {"free"} \cup Answer
    /\ Reply(p, "retry")
    /\ UNCHANGED <<venue, wire, journal, worker, cycle>>

LeaseLost(p) == lease # p /\ at[p] \notin {"called", "claimed", "deleting"} /\ Fail(p)

(* The host ends the invocation, which keeps its lease. *)
StopPass(p) ==
    /\ at[p] \notin {"free"} \cup Answer
    /\ Goto(p, "free")
    /\ UNCHANGED <<venue, wire, lease, journal, worker, cycle>>

-----------------------------------------------------------------------------
(* The venue and the clock.                                                *)

Tick ==
    /\ ~due
    /\ due' = TRUE
    /\ UNCHANGED <<entry, wire, lease, journal, worker, cycle, at>>

AcceptPost ==
    /\ "post" \in wire
    /\ wire' = wire \ {"post"}
    /\ entry' = [entry EXCEPT !.status = "live"]
    /\ UNCHANGED <<due, lease, journal, worker, cycle, at>>

LoseRequest ==
    /\ \E request \in wire \cap {"post", "delete"} : wire' = wire \ {request}
    /\ UNCHANGED <<venue, lease, journal, worker, cycle, at>>

Fill ==
    /\ entry.status = "live" /\ entry.filled < Ordered
    /\ entry' = [entry EXCEPT !.filled = @ + 1]
    /\ UNCHANGED <<due, wire, lease, journal, worker, cycle, at>>

(* Filled, rejected, or cancelled by the owner. *)
EndEntry ==
    /\ entry.status = "live"
    /\ entry' = [entry EXCEPT !.status = "final"]
    /\ UNCHANGED <<due, wire, lease, journal, worker, cycle, at>>

(* What was bought until the DELETE takes effect stays bought. *)
AcceptDelete ==
    /\ "delete" \in wire
    /\ wire' = wire \ {"delete"}
    /\ entry' = [entry EXCEPT !.status = "final"]
    /\ UNCHANGED <<due, lease, journal, worker, cycle, at>>

-----------------------------------------------------------------------------
OtherStep == OtherAcquires \/ OtherReconciles \/ OtherCancels \/ Expire

CycleStep ==
    \/ BeginEntry \/ ArmCancellation \/ Armed \/ ArmFails \/ TooLate
    \/ WakeWatch \/ RejectBeforeSend \/ ClaimSubmit \/ Post \/ Submitted \/ PostFails
    \/ MarkUnknown \/ StopCycle

WorkerStep ==
    \/ ReceiveSchedule \/ LoseSchedule \/ Unanswered
    \/ Cron \/ WatchFires \/ WatchAnswered
    \/ \E p \in Pass : Fire(p) \/ Answered(p)

PassStep(p) ==
    \/ Busy(p) \/ NotConnected(p) \/ Acquire(p) \/ NotDue(p)
    \/ Reconcile(p) \/ Found(p) \/ NotFound(p)
    \/ NothingToCancel(p) \/ CancelFails(p) \/ ClaimCancel(p) \/ Delete(p) \/ Deleted(p)
    \/ Recheck(p) \/ RecheckMisses(p) \/ ProtectRest(p) \/ Protect(p) \/ Conclude(p)
    \/ Fail(p) \/ StopPass(p)

VenueStep == Tick \/ AcceptPost \/ LoseRequest \/ Fill \/ EndEntry \/ AcceptDelete

Next == OtherStep \/ CycleStep \/ WorkerStep \/ (\E p \in Pass : PassStep(p)) \/ VenueStep

Spec == Init /\ [][Next]_vars

TypeOK ==
    /\ due \in BOOLEAN
    /\ entry \in [status : {"none", "live", "final"}, filled : 0..Ordered]
    /\ wire \subseteq {"schedule", "post", "delete"}
    /\ lease \in {None, "cycle", "other"} \cup Pass
    /\ decision \in {"none", "attempting", "unknown", "absent", "live", "final"}
    /\ submit \in {"none", "open", "settled"}
    /\ cancel \in {"none", "open", "settled"}
    /\ kept \in 0..Ordered
    /\ timer \in {"none", "armed", "firing", "dropped"}
    /\ caller \in {None} \cup Pass
    /\ watch \in {"none", "armed", "firing"}
    /\ cycle \in {"idle", "begun", "arming", "armed", "watched", "claimed", "posted",
                  "failed", "over"}
    /\ at \in [Pass -> {"free", "called", "leased", "reconciled", "cancelling", "claimed",
                        "deleting", "ended", "checking", "stillLive", "final", "protected"}
                       \cup Answer]

-----------------------------------------------------------------------------
(* Properties.                                                             *)

(* Something of the entry may still be bought, now or later. *)
MayBuy == cycle = "claimed" \/ "post" \in wire \/ entry.status = "live"

(* As long as the entry may still buy something, its timer will fire again:
   neither a timeout, nor an unanswered, misdirected or late call makes alarm()
   drop the job. *)
TimerOutlivesEntry == MayBuy => timer \in {"armed", "firing"}

(* Refused before it was sent, or over, recorded and protected. *)
Settled ==
    \/ decision = "absent" /\ submit = "none"
    \/ entry.status = "final" /\ decision = "final" /\ kept = entry.filled

(* The timer of an entry is dropped only for one that was refused before it was
   sent, or once the order is over, recorded, and everything that it bought is
   under protection: cancelDeadline() reads the account after the order's end. *)
HandedOver == timer = "dropped" => Settled

(* No entry is sent before the protection watch is awake, and it never falls
   asleep again, whatever a call of the host returned meanwhile. *)
WatchKept == submit # "none" => watch # "none"

(* What the properties above rest on. *)

(* The timer is armed once, and before the entry is sent. *)
Arming ==
    /\ "schedule" \in wire \/ cycle \in {"idle", "begun"} => timer = "none"
    /\ cycle \in {"idle", "begun"} => wire = {}
    /\ cycle \in {"armed", "watched", "claimed", "posted"} \/ submit # "none" => timer # "none"
    /\ caller # None <=> timer = "firing"

(* The order follows its POST, and the POST its claim. *)
Sending ==
    /\ cycle \in {"idle", "begun", "arming", "armed", "watched"} => submit = "none"
    /\ cycle \in {"claimed", "posted"} => submit # "none"
    /\ cycle = "claimed" => "post" \notin wire /\ entry.status = "none"
    /\ "post" \in wire => entry.status = "none"
    /\ "post" \in wire \/ entry.status # "none" => submit # "none"
    /\ "delete" \in wire => entry.status # "none"
    /\ entry.status = "none" => entry.filled = 0
    /\ cycle \in {"watched", "claimed", "posted"} => watch # "none"

(* The decision says of the order what the venue has shown, and says that it was
   refused only where it was. *)
Decided ==
    /\ decision = "none" <=> cycle = "idle"
    /\ decision = "absent" => submit = "none" /\ cycle \in {"failed", "over"}
    /\ decision = "live" => entry.status # "none"
    /\ decision = "final" => entry.status = "final"
    /\ kept <= entry.filled

(* What a pass has seen stays true until its answer is heard. *)
Passing ==
    \A p \in Pass :
        /\ at[p] \in {"cancelling", "claimed", "deleting"} => entry.status # "none"
        /\ at[p] \in {"final", "protected"} => entry.status = "final"
        /\ at[p] = "protected" => kept = entry.filled
        /\ at[p] = "settled" => Settled
        /\ at[p] \in Answer => caller = p

IInv ==
    /\ TypeOK
    /\ Arming /\ Sending /\ Decided /\ Passing
    /\ HandedOver /\ WatchKept

-----------------------------------------------------------------------------
(* A claimed cancellation whose DELETE has not reached the venue.  It is never
   repeated. *)
CancelLost ==
    /\ cancel = "open" /\ "delete" \notin wire
    /\ \A p \in Pass : at[p] # "claimed"

(* An entry whose deadline has passed ends, unless its DELETE was lost. *)
EntryEnds == (due /\ entry.status = "live") ~> (entry.status = "final" \/ CancelLost)

(* The timer of an entry that is over is dropped in the end. *)
TimerEnds == (entry.status = "final") ~> (timer = "dropped")

(* The deadline is served: the entry ends, and then its timer. *)
DeadlineServed == EntryEnds /\ TimerEnds

-----------------------------------------------------------------------------
(* What must not go on for ever: failed calls and reads, calls that meet a
   busy lease, passes that outlive their own. *)
Disturbance ==
    \/ Unanswered /\ at[caller] # "free"
    \/ LoseRequest
    \/ \E p \in Pass :
        \/ Busy(p) \/ NotConnected(p)
        \/ entry.status # "none" /\ NotFound(p)
        \/ CancelFails(p) \/ RecheckMisses(p)
        \/ Fail(p) /\ ~LeaseLost(p)
        \/ StopPass(p)
        \/ lease = p /\ at[p] # "free" /\ Expire

(* A pass that is not disturbed goes on, and its answer arrives. *)
Proceed(p) ==
    \/ NotDue(p) \/ Reconcile(p) \/ Found(p) \/ NotFound(p)
    \/ NothingToCancel(p) \/ ClaimCancel(p) \/ Delete(p) \/ Deleted(p)
    \/ Recheck(p) \/ ProtectRest(p) \/ Protect(p) \/ Conclude(p)
    \/ LeaseLost(p) \/ Answered(p)

(* Strong fairness of Acquire: the other handlers take the lease again and again. *)
LiveSpec ==
    /\ Spec
    /\ <>[][~Disturbance]_vars
    /\ WF_vars(Tick) /\ WF_vars(Expire) /\ WF_vars(AcceptDelete)
    /\ WF_vars(Unanswered /\ at[caller] = "free")
    /\ WF_vars(\E p \in Pass : Fire(p))
    /\ \A p \in Pass : WF_vars(Proceed(p)) /\ SF_vars(Acquire(p))

=============================================================================
