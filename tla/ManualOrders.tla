---------------------------- MODULE ManualOrders ----------------------------
(***************************************************************************)
(* The orders that the owner places by hand on the live account: a review  *)
(* (previewOrder), a confirmation that POSTs the order at most once        *)
(* (confirmOrder), a query for its outcome (reconcileOrder), the broker    *)
(* connection (connectRevolut) and the switch of live orders (toggleLive). *)
(*                                                                         *)
(* Requests of the owner's tabs run side by side.  Each is split where it  *)
(* awaits the database or the venue, and may end at any of those points    *)
(* (the function is stopped after 30 s).  A database transaction is one    *)
(* step.  Prices, balances and the simulated account are left out.         *)
(***************************************************************************)
EXTENDS Naturals

CONSTANTS
    Intents,      \* reviewed orders
    Requests,     \* requests that run at the same time
    Credentials,  \* API keys; each is an account of its own
    None

ASSUME ManualAssumption == None \notin Credentials \cup Intents

VARIABLES
    \* Database
    state,      \* order_intents.state; the venue's open states are one, "OPEN"
    reviewed,   \* credential version that the review was made for
    expired,    \* the intents whose minute is over
    credential, \* broker_credentials
    live,       \* live_enabled
    \* Venue
    wire,       \* POSTs on their way: an account and an intent
    order,      \* the order of each intent: account and status
    \* Requests
    at,         \* where each request stands
    intent,     \* the intent it works on
    bound,      \* boundConnection of its trading port
    saw,        \* the order that it read from the venue
    enabling,   \* toggleLive(true) has checked the connection
    \* History
    posts       \* POSTs of each intent, counted up to two

database == <<state, reviewed, expired, credential, live>>
venue    == <<wire, order>>
requests == <<at, intent, bound, saw>>
vars     == <<database, venue, requests, enabling, posts>>

NoOrder == [account |-> None, status |-> "none"]

Init ==
    /\ state = [i \in Intents |-> "none"]
    /\ reviewed = [i \in Intents |-> None]
    /\ expired = {}
    /\ credential = None
    /\ live = FALSE
    /\ wire = {}
    /\ order = [i \in Intents |-> NoOrder]
    /\ at = [r \in Requests |-> "idle"]
    /\ intent = [r \in Requests |-> None]
    /\ bound = [r \in Requests |-> None]
    /\ saw = [r \in Requests |-> "none"]
    /\ enabling = FALSE
    /\ posts = [i \in Intents |-> 0]

Unresolved(i) == state[i] \in {"SUBMITTING", "UNKNOWN"}

Go(r, to) == at' = [at EXCEPT ![r] = to]

(* The request answers, or fails, and its port is gone. *)
Reply(r) ==
    /\ Go(r, "idle")
    /\ bound' = [bound EXCEPT ![r] = None]
    /\ saw' = [saw EXCEPT ![r] = "none"]
    /\ intent' = [intent EXCEPT ![r] = None]

(* Any other end of a request, for a failed read or a stopped function. *)
Stop(r) ==
    /\ at[r] # "idle"
    /\ Reply(r)
    /\ UNCHANGED <<database, venue, enabling, posts>>

-----------------------------------------------------------------------------
(* previewOrder()                                                          *)

(* No unresolved order, a verified connection, live orders on. *)
PreviewContext(r, i) ==
    /\ at[r] = "idle" /\ state[i] = "none"
    /\ \A j \in Intents : ~Unresolved(j)
    /\ credential # None /\ live
    /\ Go(r, "reviewing")
    /\ intent' = [intent EXCEPT ![r] = i]
    /\ bound' = [bound EXCEPT ![r] = credential]
    /\ UNCHANGED <<database, venue, saw, enabling, posts>>

(* The same idempotency key inserts one row only. *)
PreviewInsert(r) ==
    /\ at[r] = "reviewing"
    /\ IF state[intent[r]] = "none"
       THEN /\ state' = [state EXCEPT ![intent[r]] = "PREVIEW"]
            /\ reviewed' = [reviewed EXCEPT ![intent[r]] = bound[r]]
       ELSE UNCHANGED <<state, reviewed>>
    /\ Reply(r)
    /\ UNCHANGED <<expired, credential, live, venue, enabling, posts>>

PreviewExpires(i) ==
    /\ state[i] = "PREVIEW" /\ i \notin expired
    /\ expired' = expired \cup {i}
    /\ UNCHANGED <<state, reviewed, credential, live, venue, requests, enabling, posts>>

-----------------------------------------------------------------------------
(* confirmOrder()                                                          *)

(* The context is read and checked outside the transaction. *)
ConfirmContext(r, i) ==
    /\ at[r] = "idle"
    /\ state[i] = "PREVIEW" /\ i \notin expired
    /\ live /\ credential = reviewed[i]
    /\ Go(r, "confirming")
    /\ intent' = [intent EXCEPT ![r] = i]
    /\ bound' = [bound EXCEPT ![r] = credential]
    /\ UNCHANGED <<database, venue, saw, enabling, posts>>

(* Slip: the row's state is not read again under its lock. *)
MaySendUnread(i) ==
    /\ \A j \in Intents \ {i} : ~Unresolved(j)
    /\ i \notin expired
    /\ live

(* Slip: the switch is not read again. *)
MaySendUngated(i) ==
    /\ state[i] = "PREVIEW"
    /\ \A j \in Intents \ {i} : ~Unresolved(j)
    /\ i \notin expired

(* What the transaction checks under the account's lock. *)
MaySend(i) ==
    /\ state[i] = "PREVIEW"
    /\ \A j \in Intents \ {i} : ~Unresolved(j)
    /\ i \notin expired
    /\ live

ClaimSend(r) ==
    /\ at[r] = "confirming"
    /\ MaySend(intent[r])
    /\ state' = [state EXCEPT ![intent[r]] = "SUBMITTING"]
    /\ Go(r, "claimed")
    /\ UNCHANGED <<reviewed, expired, credential, live, venue, intent, bound, saw, enabling, posts>>

(* A replay, another unresolved order, an expired review, the switch. *)
ClaimRefused(r) ==
    /\ at[r] = "confirming"
    /\ ~MaySend(intent[r])
    /\ Reply(r)
    /\ UNCHANGED <<database, venue, enabling, posts>>

(* Slip: the port takes the connection that is current when it sends. *)
SenderCurrent(r) == credential

(* submit() uses the connection that context() was read with. *)
Sender(r) == bound[r]

Post(r) ==
    /\ at[r] = "claimed"
    /\ wire' = wire \cup {[account |-> Sender(r), intent |-> intent[r]]}
    /\ posts' = [posts EXCEPT ![intent[r]] = IF @ = 2 THEN 2 ELSE @ + 1]
    /\ Go(r, "posted")
    /\ UNCHANGED <<database, order, intent, bound, saw, enabling>>

(* The acknowledged order is read back. *)
PostAnswered(r) ==
    /\ at[r] = "posted"
    /\ order[intent[r]].account = bound[r]
    /\ saw' = [saw EXCEPT ![r] = order[intent[r]].status]
    /\ Go(r, "answered")
    /\ UNCHANGED <<database, venue, intent, bound, enabling, posts>>

(* Slip: an intent without an answer can be confirmed again. *)
FailedThawed == "PREVIEW"

(* What an intent without an answer becomes. *)
Failed == "UNKNOWN"

PostFails(r) ==
    /\ at[r] = "posted"
    /\ state' = [state EXCEPT ![intent[r]] = Failed]
    /\ Reply(r)
    /\ UNCHANGED <<reviewed, expired, credential, live, venue, enabling, posts>>

(* A definite HTTP refusal: the venue has taken nothing. *)
PostRefused(r) ==
    /\ at[r] = "posted"
    /\ [account |-> bound[r], intent |-> intent[r]] \in wire
    /\ wire' = wire \ {[account |-> bound[r], intent |-> intent[r]]}
    /\ state' = [state EXCEPT ![intent[r]] = "REJECTED"]
    /\ Reply(r)
    /\ UNCHANGED <<reviewed, expired, credential, live, order, enabling, posts>>

(* The outcome is written over whatever the row says by now. *)
RecordOutcome(r) ==
    /\ at[r] \in {"answered", "found"}
    /\ state' = [state EXCEPT ![intent[r]] = saw[r]]
    /\ Reply(r)
    /\ UNCHANGED <<reviewed, expired, credential, live, venue, enabling, posts>>

-----------------------------------------------------------------------------
(* reconcileOrder()                                                        *)

Identity(r, i) ==
    /\ at[r] = "idle"
    /\ state[i] \notin {"none", "PREVIEW"}
    /\ credential # None /\ credential = reviewed[i]
    /\ Go(r, "asking")
    /\ intent' = [intent EXCEPT ![r] = i]
    /\ bound' = [bound EXCEPT ![r] = credential]
    /\ UNCHANGED <<database, venue, saw, enabling, posts>>

Lookup(r) ==
    IF order[intent[r]].account = bound[r] THEN order[intent[r]].status ELSE "none"

(* An order that is not found changes nothing. *)
Find(r) ==
    /\ at[r] = "asking"
    /\ IF Lookup(r) = "none" THEN Reply(r)
       ELSE /\ saw' = [saw EXCEPT ![r] = Lookup(r)]
            /\ Go(r, "found")
            /\ UNCHANGED <<intent, bound>>
    /\ UNCHANGED <<database, venue, enabling, posts>>

-----------------------------------------------------------------------------
(* Settings                                                                *)

(* connectRevolut(): one transaction under the account's lock. *)
Connect(c) ==
    /\ \A i \in Intents : ~Unresolved(i)
    /\ credential' = c
    /\ live' = FALSE
    /\ UNCHANGED <<state, reviewed, expired, venue, requests, enabling, posts>>

(* toggleLive(): the connection is read, then the switch is written. *)
EnableRead ==
    /\ credential # None /\ ~enabling
    /\ enabling' = TRUE
    /\ UNCHANGED <<database, venue, requests, posts>>

EnableWrite ==
    /\ enabling
    /\ enabling' = FALSE
    /\ live' = TRUE
    /\ UNCHANGED <<state, reviewed, expired, credential, venue, requests, posts>>

Disable ==
    /\ live
    /\ live' = FALSE
    /\ UNCHANGED <<state, reviewed, expired, credential, venue, requests, enabling, posts>>

-----------------------------------------------------------------------------
(* The venue                                                               *)

(* An order identity is taken once. *)
Accept(m) ==
    /\ m \in wire
    /\ wire' = wire \ {m}
    /\ order' = IF order[m.intent] = NoOrder
                THEN [order EXCEPT ![m.intent] = [account |-> m.account, status |-> "OPEN"]]
                ELSE order
    /\ UNCHANGED <<database, requests, enabling, posts>>

Lose(m) ==
    /\ m \in wire
    /\ wire' = wire \ {m}
    /\ UNCHANGED <<database, order, requests, enabling, posts>>

Fill(i) ==
    /\ order[i].status = "OPEN"
    /\ order' = [order EXCEPT ![i].status = "FILLED"]
    /\ UNCHANGED <<database, wire, requests, enabling, posts>>

-----------------------------------------------------------------------------
Request(r) ==
    \/ \E i \in Intents : PreviewContext(r, i) \/ ConfirmContext(r, i) \/ Identity(r, i)
    \/ PreviewInsert(r) \/ ClaimSend(r) \/ ClaimRefused(r)
    \/ Post(r) \/ PostAnswered(r) \/ PostFails(r) \/ PostRefused(r)
    \/ Find(r) \/ RecordOutcome(r) \/ Stop(r)

Settings == (\E c \in Credentials : Connect(c)) \/ EnableRead \/ EnableWrite \/ Disable

Venue == (\E m \in wire : Accept(m) \/ Lose(m)) \/ \E i \in Intents : Fill(i)

Next ==
    \/ \E r \in Requests : Request(r)
    \/ Settings \/ Venue
    \/ \E i \in Intents : PreviewExpires(i)

Spec == Init /\ [][Next]_vars

-----------------------------------------------------------------------------
(* Correctness.                                                            *)

Outcome == {"OPEN", "FILLED"}

(* The type invariant. *)
TypeOK ==
    /\ state \in [Intents -> {"none", "PREVIEW", "SUBMITTING", "UNKNOWN", "REJECTED"} \cup Outcome]
    /\ reviewed \in [Intents -> Credentials \cup {None}]
    /\ expired \subseteq Intents
    /\ credential \in Credentials \cup {None}
    /\ live \in BOOLEAN /\ enabling \in BOOLEAN
    /\ wire \subseteq [account : Credentials, intent : Intents]
    /\ order \in [Intents -> [account : Credentials \cup {None}, status : {"none"} \cup Outcome]]
    /\ at \in [Requests -> {"idle", "reviewing", "confirming", "claimed", "posted", "answered",
                            "asking", "found"}]
    /\ intent \in [Requests -> Intents \cup {None}]
    /\ bound \in [Requests -> Credentials \cup {None}]
    /\ saw \in [Requests -> {"none"} \cup Outcome]
    /\ posts \in [Intents -> 0..2]

(* Concurrent confirmations, replays and retries POST a reviewed order once
   (confirmOrder). *)
SentOnce == \A i \in Intents : posts[i] <= 1

(* An order that may still reach the venue: claimed by a request that has not
   sent it yet, or on its way. *)
Outstanding(i) ==
    \/ \E m \in wire : m.intent = i
    \/ \E r \in Requests : at[r] = "claimed" /\ intent[r] = i

(* The account never has two orders of unproven outcome under way, whichever
   reviews the owner confirms meanwhile (the account lock of confirmOrder). *)
OneOutstanding == \A i, j \in Intents : Outstanding(i) /\ Outstanding(j) => i = j

(* A reviewed order is sent once, and beside no other one. *)
SentAlone == SentOnce /\ OneOutstanding

(* What a row says of the venue is true: an order that it shows exists, and an
   order that it calls refused, or has not sent, never will. *)
OutcomeIsTrue ==
    \A i \in Intents :
        /\ state[i] \in Outcome => order[i].status \in Outcome
        /\ state[i] \in {"none", "PREVIEW", "REJECTED"} => order[i] = NoOrder /\ ~Outstanding(i)

(* An order goes to the account it was reviewed for, even if the connection
   changes between the review, the confirmation and the POST. *)
ReviewedAccount == \A i \in Intents : order[i] # NoOrder => order[i].account = reviewed[i]

(* A confirmation under way does not outrun the owner's switch: the order is
   claimed only while live orders are on (confirmOrder's gate). *)
SwitchHolds ==
    [][\A i \in Intents : state'[i] = "SUBMITTING" /\ state[i] # "SUBMITTING" => live]_state

(* Seen from the venue.                                                      *)
PhaseOf(i) ==
    CASE order[i] # NoOrder -> IF order[i].status = "OPEN" THEN "live" ELSE "final"
      [] order[i] = NoOrder /\ state[i] = "REJECTED" -> "refused"
      [] order[i] = NoOrder /\ state[i] # "REJECTED" /\ posts[i] # 0 -> "sent"
      [] OTHER -> IF state[i] = "SUBMITTING" THEN "authorised" ELSE "new"

Once == INSTANCE OrderOnce
    WITH Key <- Intents, Symbol <- {"account"}, SymbolOf <- [i \in Intents |-> "account"],
         phase <- [i \in Intents |-> PhaseOf(i)]

(* A reviewed order becomes at most one request, and none is authorised while
   another one of the account is in doubt, however long that lasts.          *)
ImplementsOrderOnce == Once!Spec

(* The same, and the owner's switch holds whenever an order is authorised.   *)
AuthorisedOnce == ImplementsOrderOnce /\ SwitchHolds

(* An unresolved order belongs to the connected account, where it can be looked
   up: the connection does not change under it, and a review made for another
   connection is not sent. *)
UnresolvedIsReachable ==
    \A i \in Intents : Unresolved(i) => credential = reviewed[i]

-----------------------------------------------------------------------------
(* The inductive invariant.                                                *)

(* Rows, POSTs and orders agree. *)
Rows ==
    \A i \in Intents :
        /\ state[i] \in {"none", "PREVIEW"} => posts[i] = 0
        /\ state[i] # "none" => reviewed[i] \in Credentials
        /\ posts[i] = 0 => order[i] = NoOrder
        /\ order[i] # NoOrder => order[i].status \in Outcome
        /\ state[i] \in Outcome => order[i].status \in Outcome
        /\ state[i] = "REJECTED" => order[i] = NoOrder

(* A POST on its way is the only one of its intent, which nothing has resolved. *)
Wire ==
    \A m \in wire :
        /\ posts[m.intent] = 1
        /\ order[m.intent] = NoOrder
        /\ Unresolved(m.intent)
        /\ m.account = reviewed[m.intent]

(* What a request knows at each of its steps. *)
Knowledge ==
    \A r \in Requests :
        /\ at[r] # "idle" => intent[r] \in Intents /\ bound[r] \in Credentials
        /\ at[r] \in {"confirming", "claimed", "posted", "answered", "asking", "found"} =>
               bound[r] = reviewed[intent[r]] /\ state[intent[r]] # "none"
        /\ at[r] = "claimed" => state[intent[r]] = "SUBMITTING" /\ posts[intent[r]] = 0
        /\ at[r] = "posted" =>
               posts[intent[r]] = 1 /\ state[intent[r]] \in {"SUBMITTING"} \cup Outcome
        /\ at[r] = "asking" => state[intent[r]] # "PREVIEW"
        /\ at[r] \in {"answered", "found"} =>
               saw[r] \in Outcome /\ order[intent[r]].status \in Outcome

(* One request sends an intent. *)
Alone ==
    \A q, r \in Requests :
        at[q] \in {"claimed", "posted"} /\ at[r] \in {"claimed", "posted"}
          /\ intent[q] = intent[r] => q = r

IInv ==
    /\ TypeOK
    /\ SentOnce
    /\ ReviewedAccount
    /\ Rows
    /\ Wire
    /\ Knowledge
    /\ Alone
    /\ OneOutstanding
=============================================================================
