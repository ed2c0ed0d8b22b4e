--------------------------- MODULE OwnerSessions ---------------------------
(* Sessions of the one owner (src/src/lib/auth.ts): login, renewal, logout,
   change of the password and its confirmation, as concurrent requests over
   three tables.  A step of a request ends at an await of a statement or a
   transaction; what a request has read may be stale when it goes on.

   password_hash and auth_version change together, each to a value never used
   before (the salt is random), so one number, the password, stands for both;
   0 is the owner's row before the first read inserts it.  Checks that look at
   the request alone (origin, CSRF pair, shape of a token, scrypt itself) have
   no state: a request that fails them is one that never arrives.            *)
EXTENDS Integers, FiniteSetsExt

CONSTANTS Request,      \* invocations that may be under way together
          Token,        \* random session tokens
          Address,      \* client addresses the counters tell apart
          Window,       \* RATE_WINDOW_SECONDS, in clock ticks
          Lifetime,     \* SESSION_TTL_SECONDS
          RenewAfter,   \* SESSION_RENEW_AFTER_SECONDS
          PerAddress,   \* attempts of one address in a window (8)
          Overall,      \* attempts of all addresses in a window (100)
          MaxPassword,  \* bound: passwords of the instance
          MaxTime       \* bound: ticks of the instance

ASSUME NumbersAssumption ==
    /\ {Window, PerAddress, Overall, MaxPassword} \subseteq Nat \ {0}
    /\ {Lifetime, RenewAfter, MaxTime} \subseteq Nat
    /\ RenewAfter < Lifetime

VARIABLES now,       \* the clock of database and host
          password,  \* app_owner
          session,   \* app_sessions, by token
          bucket,    \* auth_rate_limits
          request,   \* what each invocation has read and where it stands
          passed     \* history: attempts let through in the last Window ticks

vars == <<now, password, session, bucket, request, passed>>
-----------------------------------------------------------------------------
Password == 1..MaxPassword
Time     == 0..MaxTime
(* The counter of an address is named with the hash: a new password, a new one. *)
Own      == Address \X Password
Global   == <<"global", 0>>
Key      == Own \cup {Global}
Limit(k) == IF k = Global THEN Overall ELSE PerAddress

Unissued == [st |-> "unissued", password |-> 0, expires |-> 0]
Revoked  == [st |-> "revoked",  password |-> 0, expires |-> 0]
Row(p, e) == [st |-> "row", password |-> p, expires |-> e]

Idle == [op |-> "none", at |-> "idle", token |-> "none", session |-> 0, until |-> 0, hash |-> 0]

Op == {"login", "renew", "logout", "change", "confirm"}

TypeOK ==
    /\ now \in Time
    /\ password \in 0..MaxPassword
    /\ session \in [Token -> [st: {"unissued", "row", "revoked"}, password: 0..MaxPassword,
                              expires: 0..(MaxTime + Lifetime)]]
    /\ bucket \in [Key -> [attempts: Nat, resetAt: 0..(MaxTime + Window)]]
    /\ request \in [Request ->
          [op: Op \cup {"none"}, token: Token \cup {"none"}, session: 0..MaxPassword,
           at: {"idle", "owner", "again", "attempt", "insert", "update", "delete", "replace"},
           until: 0..(MaxTime + Lifetime), hash: 0..MaxPassword]]
    /\ passed \in [Key -> [Time -> Nat]]

Init ==
    /\ now = 0
    /\ password \in {0, 1}
    /\ session = [t \in Token |-> Unissued]
    /\ bucket = [k \in Key |-> [attempts |-> 0, resetAt |-> 0]]
    /\ request = [r \in Request |-> Idle]
    /\ passed = [k \in Key |-> [i \in Time |-> 0]]
-----------------------------------------------------------------------------
Goto(r, at) == request' = [request EXCEPT ![r].at = at]
Answer(r)   == request' = [request EXCEPT ![r] = Idle]

(* getSession: the row joined with the owner's present auth_version. *)
Valid(t) ==
    /\ session[t].st = "row"
    /\ session[t].password = password
    /\ session[t].expires > now

(* The row is read by renewal (which updates it only if it is a day old), by
   logout, and before a password is changed or confirmed. *)
Authenticate(r, t, op) ==
    /\ request[r].at = "idle" /\ Valid(t)
    /\ op = "renew" => session[t].expires <= now + Lifetime - RenewAfter
    /\ request' = [request EXCEPT ![r] =
          [op |-> op, token |-> t, session |-> session[t].password, hash |-> 0,
           until |-> IF op = "renew" THEN now + Lifetime ELSE 0,
           at |-> CASE op = "renew" -> "update" [] op = "logout" -> "delete" [] OTHER -> "owner"]]
    /\ UNCHANGED <<now, password, session, bucket, passed>>

Arrive(r) ==
    /\ request[r].at = "idle"
    /\ request' = [request EXCEPT ![r] = [Idle EXCEPT !.op = "login", !.at = "owner"]]
    /\ UNCHANGED <<now, password, session, bucket, passed>>

(* owner(): the deployed hash is inserted when there is no row, ON CONFLICT DO
   NOTHING. *)
Seeded == IF password = 0 THEN 1 ELSE password

ReadOwner(r) ==
    /\ request[r].at = "owner"
    /\ password' = Seeded
    /\ request' = [request EXCEPT ![r] =
          [op |-> request[r].op, token |-> request[r].token, session |-> request[r].session,
           until |-> 0, hash |-> Seeded,
           at |-> IF request[r].op = "confirm" THEN "again" ELSE "attempt"]]
    /\ UNCHANGED <<now, session, bucket, passed>>

(* verifyCurrentPassword authenticates the request again, after owner(). *)
Reauthenticate(r) ==
    /\ request[r].at = "again"
    /\ IF Valid(request[r].token) THEN Goto(r, "attempt") ELSE Answer(r)
    /\ UNCHANGED <<now, password, session, bucket, passed>>
-----------------------------------------------------------------------------
(* Slip: the counter is incremented after it was compared. *)
HitLate(k) ==
    IF bucket[k].resetAt <= now
    THEN [attempts |-> 0, resetAt |-> now + Window]
    ELSE [attempts |-> Min({bucket[k].attempts + 1, Limit(k) + 1}), resetAt |-> bucket[k].resetAt]

(* The upsert of one counter; above its limit its exact value is never used. *)
Hit(k) ==
    IF bucket[k].resetAt <= now
    THEN [attempts |-> 1, resetAt |-> now + Window]
    ELSE [attempts |-> Min({bucket[k].attempts + 1, Limit(k) + 1}), resetAt |-> bucket[k].resetAt]

(* consumeLoginAttempts: both counters in one transaction, before the password
   is looked at; then the password typed is right or wrong. *)
Attempt(r, a) ==
    LET keys == {<<a, request[r].hash>>, Global}
        open == \A k \in keys : Hit(k).attempts <= Limit(k)
    IN  /\ request[r].at = "attempt"
        /\ bucket' = [k \in Key |-> IF k \in keys THEN Hit(k) ELSE bucket[k]]
        /\ passed' = [k \in Key |-> IF open /\ k \in keys
                                    THEN [passed[k] EXCEPT ![now] = @ + 1] ELSE passed[k]]
        /\ \/ Answer(r)
           \/ /\ open /\ request[r].op = "login"
              /\ request' = [request EXCEPT ![r] =
                    [op |-> "login", token |-> "none", session |-> 0, hash |-> request[r].hash,
                     until |-> now + Lifetime, at |-> "insert"]]
           \/ open /\ request[r].op = "change" /\ Goto(r, "replace")
        /\ UNCHANGED <<now, password, session>>
-----------------------------------------------------------------------------
(* The rows that are over leave the table with the next login. *)
Kept(t) ==
    IF session[t].st = "row" /\ session[t].expires <= now THEN Revoked ELSE session[t]

(* Slip: login inserts without reading the owner's row again. *)
MayInsertBlind(r) == TRUE

(* SELECT ... FOR UPDATE: serialized with a change of the password. *)
MayInsert(r) == request[r].hash = password

InsertSession(r, t) ==
    /\ request[r].at = "insert" /\ MayInsert(r)
    /\ session[t].st = "unissued"
    /\ session' = [u \in Token |-> IF u = t THEN Row(request[r].hash, request[r].until) ELSE Kept(u)]
    /\ Answer(r)
    /\ UNCHANGED <<now, password, bucket, passed>>

InsertRefused(r) ==
    /\ request[r].at = "insert" /\ ~MayInsert(r)
    /\ Answer(r)
    /\ UNCHANGED <<now, password, session, bucket, passed>>

(* Slip: the renewal restores a row that is gone. *)
RenewedUpsert(r) ==
    LET t == request[r].token
    IN  [session EXCEPT ![t] = Row(request[r].session, Max({session[t].expires, request[r].until}))]

(* The UPDATE of refreshSessionCookie: only a row that is there, of the owner's
   present password, not over; GREATEST of both expiries. *)
Renewed(r) ==
    LET t == request[r].token
    IN  IF Valid(t) /\ session[t].password = request[r].session
        THEN [session EXCEPT ![t] = Row(session[t].password,
                                        Max({session[t].expires, request[r].until}))]
        ELSE session

Renew(r) ==
    /\ request[r].at = "update"
    /\ session' = Renewed(r)
    /\ Answer(r)
    /\ UNCHANGED <<now, password, bucket, passed>>

Logout(r) ==
    /\ request[r].at = "delete"
    /\ session' = [session EXCEPT ![request[r].token] = Revoked]
    /\ Answer(r)
    /\ UNCHANGED <<now, password, bucket, passed>>

(* Under the owner's lock: the session's version and the verified hash are the
   present ones, then the new hash, and every session goes. *)
MayReplace(r) == request[r].session = password /\ request[r].hash = password

ChangePassword(r) ==
    /\ request[r].at = "replace" /\ MayReplace(r)
    /\ password < MaxPassword
    /\ password' = password + 1
    /\ session' = [t \in Token |-> IF session[t].st = "row" THEN Revoked ELSE session[t]]
    /\ Answer(r)
    /\ UNCHANGED <<now, bucket, passed>>

ChangeRefused(r) ==
    /\ request[r].at = "replace" /\ ~MayReplace(r)
    /\ Answer(r)
    /\ UNCHANGED <<now, password, session, bucket, passed>>

(* An invocation may end between any two awaits. *)
Abandon(r) ==
    /\ request[r].at # "idle"
    /\ Answer(r)
    /\ UNCHANGED <<now, password, session, bucket, passed>>

Tick ==
    /\ now < MaxTime
    /\ now' = now + 1
    /\ passed' = [k \in Key |-> [i \in Time |-> IF i + Window <= now' THEN 0 ELSE passed[k][i]]]
    /\ UNCHANGED <<password, session, bucket, request>>

Next ==
    \/ Tick
    \/ \E r \in Request :
          \/ Arrive(r) \/ ReadOwner(r) \/ Reauthenticate(r)
          \/ \E t \in Token, op \in Op \ {"login"} : Authenticate(r, t, op)
          \/ \E a \in Address : Attempt(r, a)
          \/ \E t \in Token : InsertSession(r, t)
          \/ InsertRefused(r) \/ Renew(r) \/ Logout(r)
          \/ ChangePassword(r) \/ ChangeRefused(r) \/ Abandon(r)

Spec == Init /\ [][Next]_vars
-----------------------------------------------------------------------------
(* Every session in the table is one of the present password, although logins
   verify an old hash, and renewals write, while the password is changed. *)
SessionsOfPassword ==
    \A t \in Token : session[t].st = "row" => session[t].password = password

EndsOnce ==
    /\ password' >= password
    /\ \A t \in Token :
          /\ session[t].st = "revoked" => session'[t] = session[t]
          /\ session[t].st = "row" /\ session'[t].st = "row" =>
                session'[t].expires >= session[t].expires

(* What was replaced never comes back: a session that was logged out, revoked
   or over (refreshSessionCookie), or a password behind the deployed hash
   (owner()); and no late renewal shortens a session that is alive. *)
NeverRevived == [][EndsOnce]_vars

InWindow(k) == {i \in Time : bucket[k].resetAt - Window <= i /\ i < bucket[k].resetAt}

(* Within one window of a counter no more attempts reach the password than its
   limit, however many requests consume it at once (consumeLoginAttempts). *)
AttemptsBounded ==
    \A k \in Key : SumFunctionOnSet(passed[k], InWindow(k)) <= Limit(k)
=============================================================================
