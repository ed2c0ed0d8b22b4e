---------------------------- MODULE SourceWrites ----------------------------
(***************************************************************************)
(* The write path of the v1 execution engine: host invocations ("workers") *)
(* that share one account lease, the durable journal of decisions and      *)
(* write claims, and a venue without fencing tokens whose requests can be  *)
(* delayed, lost or acknowledged too late.                                 *)
(*                                                                         *)
(* One TLA+ step is one journal transaction, one venue request or one      *)
(* venue reply, so that everything the code does between two awaits is     *)
(* exposed to other workers, to lease expiry and to the end of the         *)
(* invocation.  An order is abstracted to how far it has come: "none",     *)
(* "live" (pending, open, partial) or "final" (the `terminal` statuses).   *)
(***************************************************************************)
EXTENDS Naturals

CONSTANTS
    Worker,     \* invocations of run/tick, protect, deadline and settings
    Key,        \* decision keys
    Entry,      \* the decisions that are buys; the others are exits
    Symbol,     \* assets quoted in EUR
    SymbolOf,   \* the asset of each decision
    EntryOf,    \* the entry whose position an exit sells
    None        \* no worker / no decision

ASSUME KeyAssumption ==
    /\ Entry \subseteq Key
    /\ SymbolOf \in [Key -> Symbol]
    /\ EntryOf \in [Key \ Entry -> Entry]
    /\ \A x \in Key \ Entry : SymbolOf[x] = SymbolOf[EntryOf[x]]

ASSUME NoneAssumption == None \notin Worker /\ None \notin Key

VARIABLES
    \* Durable journal (app_settings rows of the account)
    lock,         \* owner of the unexpired lease; an expired row equals a free one
    switch,       \* the owner's switch: entriesEnabled and executionArmed
    decision,     \* status of each decision record, "none" before begin()
    source,       \* the source order a decision record has proof of
    submitClaim,  \* the write claim submit:<key>
    cancelClaim,  \* the write claim cancel:<order of key>
    \* Venue and network
    order,        \* the order the venue holds for each decision
    posts,        \* POST requests still in flight
    deletes,      \* DELETE requests still in flight
    sent,         \* how often a decision has been POSTed
    \* Workers
    pc, job,      \* where an invocation stands, and the decision it submits
    target, seen, \* the decision it looks up or cancels, and the order it read
    view          \* the RuntimeState it read after acquiring the lease

journal == <<lock, switch, decision, source, submitClaim, cancelClaim>>
venue   == <<order, posts, deletes, sent>>
worker  == <<pc, job, target, seen, view>>
vars    == <<journal, venue, worker>>

Status   == {"none", "attempting", "unknown", "acknowledged", "absent"}
Claim    == {"none", "open", "settled"}
Order    == {"none", "live", "final"}
Switch   == [entriesEnabled : BOOLEAN, executionArmed : BOOLEAN]
Place    == {"idle", "ready",
             "checked", "claimed", "posting", "acked", "recorded", "failed",
             "found", "matched",
             "cancelling", "cancelClaimed", "deleting", "cancelRead", "cancelDone"}

Off == [entriesEnabled |-> FALSE, executionArmed |-> FALSE]

Init ==
    /\ lock = None
    /\ switch = Off
    /\ decision = [k \in Key |-> "none"]
    /\ source = [k \in Key |-> "none"]
    /\ submitClaim = [k \in Key |-> "none"]
    /\ cancelClaim = [k \in Key |-> "none"]
    /\ order = [k \in Key |-> "none"]
    /\ posts = {}
    /\ deletes = {}
    /\ sent = [k \in Key |-> 0]
    /\ pc = [w \in Worker |-> "idle"]
    /\ job = [w \in Worker |-> None]
    /\ target = [w \in Worker |-> None]
    /\ seen = [w \in Worker |-> "none"]
    /\ view = [w \in Worker |-> Off]

-----------------------------------------------------------------------------
(* The journal's operations.                                               *)

(* Slip: a write transaction that does not compare the owner. *)
OwnedUnchecked(w) == lock = lock

(* owned(): the caller's lease is the unexpired one. *)
Owned(w) == lock = w

(* result(): "unknown" never erases an acknowledgment or a proven pre-send
   rejection, and a result without an order keeps the order on record. *)
Result(k, status, found) ==
    /\ decision' = [decision EXCEPT ![k] =
           IF status = "unknown" /\ @ \in {"acknowledged", "absent"} THEN @ ELSE status]
    /\ source' = [source EXCEPT ![k] = IF found = "none" THEN @ ELSE found]

(* A write on asset s whose outcome has no source proof yet. *)
Unsettled(s) ==
    \E k \in Key : SymbolOf[k] = s /\ (submitClaim[k] = "open" \/ cancelClaim[k] = "open")

(* claimSourceWrite() accepts a claim with state `claim` for decision k. *)
Claimable(w, k, claim) ==
    /\ Owned(w)
    /\ switch.executionArmed
    /\ decision[k] # "none"
    /\ claim = "none"
    /\ ~Unsettled(SymbolOf[k])

(* unresolved() *)
Unresolved == {k \in Key : decision[k] \in {"unknown", "attempting"}}

Goto(w, place) == pc' = [pc EXCEPT ![w] = place]

(* The locals of a lookup or a cancellation go out of scope. *)
Forget(w) ==
    /\ target' = [target EXCEPT ![w] = None]
    /\ seen' = [seen EXCEPT ![w] = "none"]

(* The handler goes on after a lookup, a cancellation or a submission. *)
Resume(w) == Goto(w, "ready") /\ Forget(w)

(* The invocation is over and all its locals with it. *)
Return(w) ==
    /\ Goto(w, "idle")
    /\ Forget(w)
    /\ job' = [job EXCEPT ![w] = None]
    /\ view' = [view EXCEPT ![w] = Off]

-----------------------------------------------------------------------------
(* The lease.  acquire() inserts a fresh owner; every handler reads the    *)
(* state row right after it, and that read fails unless the lease is held. *)

Acquire(w) ==
    /\ pc[w] = "idle"
    /\ lock = None
    /\ lock' = w
    /\ view' = [view EXCEPT ![w] = switch]
    /\ Goto(w, "ready")
    /\ UNCHANGED <<switch, decision, source, submitClaim, cancelClaim, venue, job, target, seen>>

(* release() in the finally block; it leaves another owner's lease alone. *)
Release(w) ==
    /\ pc[w] = "ready" /\ job[w] = None
    /\ lock' = IF Owned(w) THEN None ELSE lock
    /\ Return(w)
    /\ UNCHANGED <<switch, decision, source, submitClaim, cancelClaim, venue>>

(* 120 seconds without renew(): the row no longer protects anybody. *)
Expire ==
    /\ lock # None
    /\ lock' = None
    /\ UNCHANGED <<switch, decision, source, submitClaim, cancelClaim, venue, worker>>

(* The invocation ends without its finally block: the host kills it, or
   execution_lock_lost is thrown by an owned() call of a former owner. *)
Stop(w) ==
    /\ pc[w] # "idle"
    /\ Return(w)
    /\ UNCHANGED <<journal, venue>>

-----------------------------------------------------------------------------
(* The state row.  entrySwitch() and cycle() both read it, change their    *)
(* copy and write the whole row back in a later transaction.               *)

(* Slip: the row is written back without the lease. *)
SaveUnfenced(w, state) ==
    /\ pc[w] = "ready" /\ job[w] = None
    /\ switch' = state
    /\ view' = [view EXCEPT ![w] = state]
    /\ UNCHANGED <<lock, decision, source, submitClaim, cancelClaim, venue, pc, job, target, seen>>

Save(w, state) ==
    /\ pc[w] = "ready" /\ job[w] = None
    /\ Owned(w)
    /\ switch' = state
    /\ view' = [view EXCEPT ![w] = state]
    /\ UNCHANGED <<lock, decision, source, submitClaim, cancelClaim, venue, pc, job, target, seen>>

EnableEntries(w) == Save(w, [entriesEnabled |-> TRUE, executionArmed |-> TRUE])
PauseEntries(w)  == Save(w, [view[w] EXCEPT !.entriesEnabled = FALSE])
SaveCycle(w)     == Save(w, view[w])

-----------------------------------------------------------------------------
(* Deciding.  An entry needs the switch as the cycle read it, no decision  *)
(* of unknown outcome anywhere in the account and no live order on its     *)
(* asset: planBuy() refuses a live buy, and while a sell is live the asset *)
(* is still held, which planBuy() refuses too.  An exit needs              *)
(* prepareExit() to find its position, its entry final, the asset free of  *)
(* live orders and unsettled writes, and every earlier exit of that        *)
(* position proven finished.                                               *)

MayEnter(k) ==
    \A j \in Key : SymbolOf[j] = SymbolOf[k] => order[j] # "live"

(* Slip: an exit does not wait for its entry's remainder to be cancelled. *)
MayExitAtOnce(k) ==
    /\ order[EntryOf[k]] # "none"
    /\ ~Unsettled(SymbolOf[k])
    /\ \A j \in Key \ (Entry \cup {k}) :
           EntryOf[j] = EntryOf[k] /\ decision[j] # "none" => source[j] = "final"

MayExit(k) ==
    /\ order[EntryOf[k]] = "final"
    /\ \A j \in Key : SymbolOf[j] = SymbolOf[k] => order[j] # "live"
    /\ ~Unsettled(SymbolOf[k])
    /\ \A j \in Key \ (Entry \cup {k}) :
           EntryOf[j] = EntryOf[k] /\ decision[j] # "none" => source[j] = "final"

Begin(w, k) ==
    /\ pc[w] = "ready" /\ job[w] = None
    /\ Owned(w)
    /\ decision[k] = "none"
    /\ \/ k \in Entry /\ view[w].entriesEnabled /\ Unresolved = {} /\ MayEnter(k)
       \/ k \notin Entry /\ MayExit(k)
    /\ decision' = [decision EXCEPT ![k] = "attempting"]
    /\ job' = [job EXCEPT ![w] = k]
    /\ UNCHANGED <<lock, switch, source, submitClaim, cancelClaim, venue, pc, target, seen, view>>

(* submit(), up to the claim: the decision is this one's first attempt and
   the entry or exit conditions still hold. *)
Check(w) ==
    LET k == job[w] IN
    /\ pc[w] = "ready" /\ k # None
    /\ Owned(w)
    /\ switch.executionArmed
    /\ decision[k] = "attempting" /\ source[k] = "none" /\ submitClaim[k] = "none"
    /\ \/ k \in Entry /\ switch.entriesEnabled /\ MayEnter(k)
       \/ k \notin Entry /\ MayExit(k)
    /\ Goto(w, "checked")
    /\ UNCHANGED <<journal, venue, job, target, seen, view>>

(* Any failing check of submit(): the decision is recorded as absent. *)
RejectBeforeSend(w) ==
    LET k == job[w] IN
    /\ pc[w] = "ready" /\ k # None
    /\ Owned(w)
    /\ switch.executionArmed
    /\ decision[k] = "attempting" /\ source[k] = "none" /\ submitClaim[k] = "none"
    /\ Result(k, "absent", "none")
    /\ Goto(w, "failed")
    /\ UNCHANGED <<lock, switch, submitClaim, cancelClaim, venue, job, target, seen, view>>

(* The caller fails between begin() and submit(): the deadline timer is not
   acknowledged, renew() fails, or the entry expired. *)
FailBeforeSubmit(w) ==
    /\ pc[w] = "ready" /\ job[w] # None
    /\ Goto(w, "failed")
    /\ UNCHANGED <<journal, venue, job, target, seen, view>>

ClaimSubmit(w) ==
    LET k == job[w] IN
    /\ pc[w] = "checked"
    /\ Owned(w)
    /\ \/ /\ Claimable(w, k, submitClaim[k])
          /\ submitClaim' = [submitClaim EXCEPT ![k] = "open"]
          /\ Goto(w, "claimed")
       \/ /\ ~Claimable(w, k, submitClaim[k])
          /\ Goto(w, "failed")
          /\ UNCHANGED submitClaim
    /\ UNCHANGED <<lock, switch, decision, source, cancelClaim, venue, job, target, seen, view>>

(* Exactly one POST.  Nothing fences it: it leaves even if the lease is gone. *)
Post(w) ==
    LET k == job[w] IN
    /\ pc[w] = "claimed"
    /\ posts' = posts \cup {k}
    /\ sent' = [sent EXCEPT ![k] = @ + 1]
    /\ Goto(w, "posting")
    /\ UNCHANGED <<journal, order, deletes, job, target, seen, view>>

(* The acknowledgment arrives and the order is read back. *)
PostAcknowledged(w) ==
    /\ pc[w] = "posting"
    /\ order[job[w]] # "none"
    /\ seen' = [seen EXCEPT ![w] = order[job[w]]]
    /\ Goto(w, "acked")
    /\ UNCHANGED <<journal, venue, job, target, view>>

(* Slip: a failed POST is sent again. *)
PostRetried(w) ==
    /\ pc[w] = "posting"
    /\ Goto(w, "claimed")
    /\ UNCHANGED <<journal, venue, job, target, seen, view>>

(* Timeout, transport error, HTTP error or unreadable reply, or a failed
   write of the reply: all of them leave the claim open, the definite
   rejections included. *)
PostFails(w) ==
    /\ pc[w] \in {"claimed", "posting", "acked", "recorded"}
    /\ Goto(w, "failed")
    /\ Forget(w)
    /\ UNCHANGED <<journal, venue, job, view>>

RecordSubmit(w) ==
    /\ pc[w] = "acked"
    /\ Owned(w)
    /\ Result(job[w], "acknowledged", seen[w])
    /\ Goto(w, "recorded")
    /\ UNCHANGED <<lock, switch, submitClaim, cancelClaim, venue, job, target, seen, view>>

SettleSubmit(w) ==
    /\ pc[w] = "recorded"
    /\ Owned(w)
    /\ submitClaim' = [submitClaim EXCEPT ![job[w]] = "settled"]
    /\ job' = [job EXCEPT ![w] = None]
    /\ Resume(w)
    /\ UNCHANGED <<lock, switch, decision, source, cancelClaim, venue, view>>

(* Slip: a submission that failed is recorded as never sent. *)
MarkAbsent(w) ==
    /\ pc[w] = "failed"
    /\ Owned(w)
    /\ Result(job[w], "absent", "none")
    /\ job' = [job EXCEPT ![w] = None]
    /\ Resume(w)
    /\ UNCHANGED <<lock, switch, submitClaim, cancelClaim, venue, view>>

(* The catch block of cycle() and protectionCycle(). *)
MarkUnknown(w) ==
    /\ pc[w] = "failed"
    /\ Owned(w)
    /\ Result(job[w], "unknown", "none")
    /\ job' = [job EXCEPT ![w] = None]
    /\ Resume(w)
    /\ UNCHANGED <<lock, switch, submitClaim, cancelClaim, venue, view>>

-----------------------------------------------------------------------------
(* lookup(): by reconcile(), by the unresolved loop and by the deadline;   *)
(* inside submit() only an exit reaches it, through prepareExit().         *)

MayRead(w) == pc[w] = "ready" /\ job[w] \notin Entry /\ Owned(w)

(* A scan or a read by id that shows the order; a scan that misses it changes
   nothing, since absence of an order is never proof. *)
Find(w, k) ==
    /\ MayRead(w)
    /\ decision[k] # "none"
    /\ order[k] # "none"
    /\ seen' = [seen EXCEPT ![w] = order[k]]
    /\ target' = [target EXCEPT ![w] = k]
    /\ Goto(w, "found")
    /\ UNCHANGED <<journal, venue, job, view>>

RecordFound(w) ==
    /\ pc[w] = "found"
    /\ Owned(w)
    /\ Result(target[w], "acknowledged", seen[w])
    /\ Goto(w, "matched")
    /\ UNCHANGED <<lock, switch, submitClaim, cancelClaim, venue, job, target, seen, view>>

(* Source proof releases a claim: any order proves a submission, only a
   terminal one proves a cancellation. *)
SettleFound(w) ==
    LET k == target[w] IN
    /\ pc[w] = "matched"
    /\ Owned(w)
    /\ submitClaim' = [submitClaim EXCEPT ![k] = IF @ = "open" THEN "settled" ELSE @]
    /\ cancelClaim' = [cancelClaim EXCEPT ![k] =
           IF @ = "open" /\ seen[w] = "final" THEN "settled" ELSE @]
    /\ Resume(w)
    /\ UNCHANGED <<lock, switch, decision, source, venue, job, view>>

-----------------------------------------------------------------------------
(* cancelRemainder(): by the deadline, and by prepareExit() before an exit *)
(* is begun (afterwards its entry is already final).                       *)

ReadEntry(w, k) ==
    /\ MayRead(w) /\ job[w] = None
    /\ switch.executionArmed
    /\ k \in Entry
    /\ order[k] # "none"
    /\ seen' = [seen EXCEPT ![w] = order[k]]
    /\ target' = [target EXCEPT ![w] = k]
    /\ Goto(w, "cancelling")
    /\ UNCHANGED <<journal, venue, job, view>>

AlreadyFinal(w) ==
    /\ pc[w] = "cancelling" /\ seen[w] = "final"
    /\ Owned(w)
    /\ Result(target[w], "acknowledged", "final")
    /\ Resume(w)
    /\ UNCHANGED <<lock, switch, submitClaim, cancelClaim, venue, job, view>>

ClaimCancel(w) ==
    LET k == target[w] IN
    /\ pc[w] = "cancelling" /\ seen[w] = "live"
    /\ Owned(w)
    /\ \/ /\ Claimable(w, k, cancelClaim[k])
          /\ cancelClaim' = [cancelClaim EXCEPT ![k] = "open"]
          /\ Goto(w, "cancelClaimed")
          /\ UNCHANGED <<target, seen>>
       \/ /\ ~Claimable(w, k, cancelClaim[k])
          /\ Resume(w)
          /\ UNCHANGED cancelClaim
    /\ UNCHANGED <<lock, switch, decision, source, submitClaim, venue, job, view>>

(* cancelOrder() reads the order again and sends DELETE only if it is live. *)
Delete(w) ==
    LET k == target[w] IN
    /\ pc[w] = "cancelClaimed"
    /\ \/ /\ order[k] = "live"
          /\ deletes' = deletes \cup {k}
          /\ Goto(w, "deleting")
          /\ UNCHANGED seen
       \/ /\ order[k] = "final"
          /\ seen' = [seen EXCEPT ![w] = "final"]
          /\ Goto(w, "cancelRead")
          /\ UNCHANGED deletes
    /\ UNCHANGED <<journal, order, posts, sent, job, target, view>>

(* 204, then the order is read back: the cancellation may not show yet. *)
DeleteAcknowledged(w) ==
    /\ pc[w] = "deleting"
    /\ target[w] \notin deletes
    /\ seen' = [seen EXCEPT ![w] = order[target[w]]]
    /\ Goto(w, "cancelRead")
    /\ UNCHANGED <<journal, venue, job, target, view>>

RecordCancel(w) ==
    /\ pc[w] = "cancelRead"
    /\ Owned(w)
    /\ Result(target[w], "acknowledged", seen[w])
    /\ \/ seen[w] = "final" /\ Goto(w, "cancelDone") /\ UNCHANGED <<target, seen>>
       \/ seen[w] # "final" /\ Resume(w)
    /\ UNCHANGED <<lock, switch, submitClaim, cancelClaim, venue, job, view>>

SettleCancel(w) ==
    /\ pc[w] = "cancelDone"
    /\ Owned(w)
    /\ cancelClaim' = [cancelClaim EXCEPT ![target[w]] = "settled"]
    /\ Resume(w)
    /\ UNCHANGED <<lock, switch, decision, source, submitClaim, venue, job, view>>

(* A read, a write or a DELETE of the lookup or the cancellation fails; the
   callers catch it and go on. *)
GiveUp(w) ==
    /\ pc[w] \in {"found", "matched", "cancelling", "cancelClaimed", "deleting",
                  "cancelRead", "cancelDone"}
    /\ Resume(w)
    /\ UNCHANGED <<journal, venue, job, view>>

-----------------------------------------------------------------------------
(* The venue and the network between it and the host.                      *)

AcceptPost(k) ==
    /\ k \in posts
    /\ posts' = posts \ {k}
    /\ \E o \in {"live", "final"} : order' = [order EXCEPT ![k] = o]
    /\ UNCHANGED <<deletes, sent, journal, worker>>

LosePost(k) ==
    /\ k \in posts
    /\ posts' = posts \ {k}
    /\ UNCHANGED <<order, deletes, sent, journal, worker>>

ReceiveDelete(k) ==
    /\ k \in deletes
    /\ deletes' = deletes \ {k}
    /\ UNCHANGED <<order, posts, sent, journal, worker>>

(* A fill, a cancellation taking effect, or a rejection after acceptance. *)
FinishOrder(k) ==
    /\ order[k] = "live"
    /\ order' = [order EXCEPT ![k] = "final"]
    /\ UNCHANGED <<posts, deletes, sent, journal, worker>>

-----------------------------------------------------------------------------
Lease(w)  == Acquire(w) \/ Release(w) \/ Stop(w)
State(w)  == EnableEntries(w) \/ PauseEntries(w) \/ SaveCycle(w)
Submit(w) == \/ Check(w) \/ RejectBeforeSend(w) \/ FailBeforeSubmit(w) \/ ClaimSubmit(w)
             \/ Post(w) \/ PostAcknowledged(w) \/ PostFails(w)
             \/ RecordSubmit(w) \/ SettleSubmit(w) \/ MarkUnknown(w)
Lookup(w) == RecordFound(w) \/ SettleFound(w) \/ GiveUp(w)
Cancel(w) == \/ AlreadyFinal(w) \/ ClaimCancel(w) \/ Delete(w)
             \/ DeleteAcknowledged(w) \/ RecordCancel(w) \/ SettleCancel(w)
Venue(k)  == AcceptPost(k) \/ LosePost(k) \/ ReceiveDelete(k) \/ FinishOrder(k)

Next ==
    \/ Expire
    \/ \E w \in Worker : Lease(w) \/ State(w) \/ Submit(w) \/ Lookup(w) \/ Cancel(w)
    \/ \E w \in Worker, k \in Key : Begin(w, k) \/ Find(w, k) \/ ReadEntry(w, k)
    \/ \E k \in Key : Venue(k)

Spec == Init /\ [][Next]_vars

-----------------------------------------------------------------------------
(* Correctness.                                                            *)

TypeOK ==
    /\ lock \in Worker \cup {None}
    /\ switch \in Switch
    /\ decision \in [Key -> Status]
    /\ source \in [Key -> Order]
    /\ submitClaim \in [Key -> Claim]
    /\ cancelClaim \in [Key -> Claim]
    /\ order \in [Key -> Order]
    /\ posts \subseteq Key
    /\ deletes \subseteq Key
    /\ sent \in [Key -> Nat]
    /\ pc \in [Worker -> Place]
    /\ job \in [Worker -> Key \cup {None}]
    /\ target \in [Worker -> Key \cup {None}]
    /\ seen \in [Worker -> Order]
    /\ view \in [Worker -> Switch]

(* No decision is POSTed twice, whatever times out, crashes or loses its
   lease: "Exactly one POST" of submit(). *)
AtMostOnePost == \A k \in Key : sent[k] <= 1

(* Two writes on one asset never have an unproven outcome together, although
   claims outlive the lease they were made under (claimSourceWrite). *)
OneOpenWritePerAsset ==
    \A j, k \in Key :
        SymbolOf[j] = SymbolOf[k] /\ submitClaim[j] = "open" =>
            /\ submitClaim[k] = "open" => j = k
            /\ cancelClaim[k] # "open"

(* The venue never works on two of the engine's orders for one asset at once:
   no second buy beside a delayed one, no sell beside the entry's remainder,
   no two sells of one position.  No handler reads this off in one step; it
   follows from the checks before the claim, the claim and the venue's proof. *)
OneLiveOrderPerAsset ==
    \A j, k \in Key :
        SymbolOf[j] = SymbolOf[k] /\ order[j] = "live" /\ order[k] = "live" => j = k

(* The writes on one asset, seen from the journal and from the venue. *)
OneAtATime == OneOpenWritePerAsset /\ OneLiveOrderPerAsset

(* "absent" is a proof: the decision was never sent and never will be, in
   spite of the lookups, timeouts and late replies that write the record. *)
AbsentWasNeverSent ==
    \A k \in Key : decision[k] = "absent" =>
        sent[k] = 0 /\ order[k] = "none" /\ submitClaim[k] = "none"

(* A claim is released by the venue only: a settled submission has an order, a
   settled cancellation a final one. *)
SettledByProof ==
    \A k \in Key :
        /\ submitClaim[k] = "settled" => order[k] # "none"
        /\ cancelClaim[k] = "settled" => order[k] = "final"

(* What the journal says for good of a decision is proven, be it that it was
   never sent, or that its order is there or over. *)
OutcomesProven == AbsentWasNeverSent /\ SettledByProof

(* Sight p of an order is no older than sight o. *)
NoOlder(o, p) == o = "none" \/ p = "final" \/ o = p

RecordsAdvance ==
    \A k \in Key :
        /\ NoOlder(source[k], source'[k])
        /\ decision[k] \in {"acknowledged", "absent"} => decision'[k] = decision[k]

(* What the journal holds of an order never gets older: a slow reader cannot
   write a live order over a final one, or lose an acknowledgment (result()). *)
RecordNeverRegresses == [][RecordsAdvance]_journal

EntriesClaimed ==
    \A k \in Entry :
        submitClaim[k] = "none" /\ submitClaim'[k] = "open" => switch.entriesEnabled

(* A buy is authorised only while the owner's switch is on, also when the
   owner pauses entries between the cycle's decision and its claim. *)
EntryNeedsSwitch == [][EntriesClaimed]_journal

EntriesResumed ==
    ~switch.entriesEnabled /\ switch'.entriesEnabled =>
        \E w \in Worker : ~view[w].entriesEnabled /\ EnableEntries(w)

(* Only the owner turns entries on again: a cycle that read the row before the
   pause cannot write its old copy over it. *)
PauseHolds == [][EntriesResumed]_journal

(* The owner's switch binds the cycles that have read it. *)
SwitchBinds == EntryNeedsSwitch /\ PauseHolds

-----------------------------------------------------------------------------
(* The inductive invariant behind these properties.                        *)

Submitting == {"checked", "claimed", "posting", "acked", "recorded", "failed"}
Reading    == {"found", "matched", "cancelling", "cancelClaimed", "deleting",
               "cancelRead", "cancelDone"}

(* Locals exist where the handler uses them, and a decision has one submitter. *)
Jobs ==
    /\ \A w \in Worker :
        /\ pc[w] \in Submitting => job[w] \in Key
        /\ pc[w] = "idle" => job[w] = None
        /\ pc[w] \in Reading => target[w] \in Key
        /\ job[w] \in Key => decision[job[w]] # "none"
    /\ \A v, w \in Worker : job[v] \in Key /\ job[v] = job[w] => v = w

(* A request leaves only after its claim, an order follows only its request,
   and a claim is settled only after its order. *)
Sending ==
    /\ \A k \in Key :
        /\ submitClaim[k] = "none" => sent[k] = 0
        /\ submitClaim[k] = "settled" => order[k] # "none"
        /\ sent[k] = 0 => k \notin posts /\ order[k] = "none"
        /\ k \in posts => order[k] = "none"
        /\ sent[k] <= 1
        /\ decision[k] \in {"none", "absent"} => submitClaim[k] = "none"
    /\ \A w \in Worker : pc[w] = "checked" => decision[job[w]] # "absent"
    /\ \A w \in Worker : pc[w] = "claimed" => sent[job[w]] = 0 /\ submitClaim[job[w]] # "none"

(* What a handler has read is an order of the venue, perhaps an old sight. *)
Sights ==
    \A w \in Worker :
        /\ pc[w] \in {"acked", "recorded"} =>
               seen[w] # "none" /\ NoOlder(seen[w], order[job[w]])
        /\ pc[w] \in Reading =>
               seen[w] # "none" /\ NoOlder(seen[w], order[target[w]])
        /\ pc[w] = "cancelDone" => seen[w] = "final"

(* The journal is behind the venue, and under the lease a handler's sight is
   no older than the journal's. *)
Records ==
    /\ \A k \in Key : NoOlder(source[k], order[k])
    /\ \A k \in Key : cancelClaim[k] = "settled" => order[k] = "final"
    /\ \A w \in Worker : Owned(w) =>
        /\ pc[w] = "acked" => NoOlder(source[job[w]], seen[w])
        /\ pc[w] \in {"found", "cancelling", "cancelRead"} => NoOlder(source[target[w]], seen[w])

(* Under the lease the handler's copy of the switch is the row, and what
   submit() checked still holds: a live order on the asset has an open claim. *)
Leased ==
    \A w \in Worker : Owned(w) =>
        /\ pc[w] # "idle" => view[w] = switch
        /\ pc[w] = "checked" =>
            /\ job[w] \in Entry => switch.entriesEnabled
            /\ \A j \in Key : SymbolOf[j] = SymbolOf[job[w]] /\ order[j] = "live" =>
                   submitClaim[j] = "open"

(* The venue may still have work for decision k. *)
Outstanding(k) == submitClaim[k] = "open" \/ order[k] = "live"

OneOutstanding ==
    \A j, k \in Key :
        SymbolOf[j] = SymbolOf[k] /\ Outstanding(j) /\ Outstanding(k) => j = k

(* Everything a lost lease, a lost reply or the end of an invocation leaves
   behind keeps these together; the properties above follow from them. *)
IInv ==
    /\ TypeOK
    /\ Jobs
    /\ Sending
    /\ Sights
    /\ Records
    /\ Leased
    /\ OneOpenWritePerAsset
    /\ OneOutstanding

-----------------------------------------------------------------------------
(* SourceWrites implements OrderOnce.                                      *)

PhaseOf(k) ==
    CASE order[k] # "none" -> order[k]
      [] order[k] = "none" /\ sent[k] > 0 -> "sent"
      [] order[k] = "none" /\ sent[k] = 0 /\ submitClaim[k] = "open" -> "authorised"
      [] OTHER -> IF decision[k] = "absent" THEN "refused" ELSE "new"

Abstract == INSTANCE OrderOnce WITH phase <- [k \in Key |-> PhaseOf(k)]

(* Seen from the venue, the engine turns each decision into at most one order
   request, and never sends one while another of its asset is in doubt. *)
ImplementsOrderOnce == Abstract!Spec
=============================================================================
