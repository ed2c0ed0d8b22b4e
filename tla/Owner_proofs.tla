---------------------------- MODULE Owner_proofs ----------------------------
(* Theorems about what the owner reads and configures, for every value of the
   constants: OwnerSessions (sessions and login attempts), PublicFeed,
   SimulatedAccount, SourceArchive and SourceLedger, in that order.  Each
   section states the strengthening its invariants need, that the initial
   states satisfy it and that every step keeps it.  The sessions' invariant adds
   to SessionsOfPassword what the requests carry: a hash that was read is one
   of the owner's, never the missing row's. *)
EXTENDS MCOwner, SumTheorems

SessionType ==
    session \in [Token -> [st: {"unissued", "row", "revoked"}, password: Nat, expires: Nat]]

RequestType ==
    request \in [Request -> [op: Op \cup {"none"}, token: Token \cup {"none"}, session: Nat,
                             at: {"idle", "owner", "again", "attempt", "insert", "update",
                                  "delete", "replace"},
                             until: Nat, hash: Nat]]

Typed == now \in Nat /\ password \in Nat /\ SessionType /\ RequestType

HashRead ==
    \A r \in Request :
        request[r].at \in {"again", "attempt", "insert", "replace"} => request[r].hash # 0

TokenNamed ==
    \A r \in Request :
        request[r].at \in {"update", "delete"} => request[r].token \in Token

RowsSound ==
    \A t \in Token :
        /\ session[t].st = "row" => session[t].password # 0
        /\ session[t].st = "revoked" => session[t] = Revoked

IInv == Typed /\ HashRead /\ TokenNamed /\ RowsSound /\ SessionsOfPassword

(* Max of FiniteSetsExt, for the two values GREATEST is given. *)
LEMMA MaxOfTwo ==
    ASSUME NEW a \in Nat, NEW b \in Nat
    PROVE  Max({a, b}) \in Nat /\ Max({a, b}) >= a /\ Max({a, b}) >= b
<1>1. \E x \in {a, b} : \A y \in {a, b} : x >= y
  OBVIOUS
<1>2. Max({a, b}) \in {a, b} /\ \A y \in {a, b} : Max({a, b}) >= y
  BY <1>1 DEF Max
<1> QED
  BY <1>2

LEMMA InitInvariant == Init => IInv
<1> SUFFICES ASSUME Init PROVE IInv
  OBVIOUS
<1>1. Typed
  BY DEF Init, Typed, SessionType, RequestType, Idle, Unissued, Op
<1>2. HashRead /\ TokenNamed
  BY DEF Init, HashRead, TokenNamed, Idle
<1>3. RowsSound /\ SessionsOfPassword
  BY DEF Init, RowsSound, SessionsOfPassword, Unissued
<1> QED
  BY <1>1, <1>2, <1>3 DEF IInv

(* A request that is answered, or goes on with what it has, keeps the requests'
   part of the invariant. *)
LEMMA AnswerKeeps ==
    ASSUME IInv, NEW r \in Request, Answer(r)
    PROVE  RequestType' /\ HashRead' /\ TokenNamed'
<1>1. RequestType'
  BY DEF IInv, Typed, RequestType, Answer, Idle, Op
<1>2. \A q \in Request : request'[q] = IF q = r THEN Idle ELSE request[q]
  BY DEF IInv, Typed, RequestType, Answer
<1> QED
  BY <1>1, <1>2 DEF IInv, HashRead, TokenNamed, Idle

LEMMA GotoKeeps ==
    ASSUME IInv, NEW r \in Request, NEW at \in {"attempt", "replace"}, Goto(r, at),
           request[r].hash # 0
    PROVE  RequestType' /\ HashRead' /\ TokenNamed'
<1>1. RequestType'
  BY DEF IInv, Typed, RequestType, Goto
<1>2. \A q \in Request : request'[q] = IF q = r THEN [request[r] EXCEPT !.at = at] ELSE request[q]
  BY DEF IInv, Typed, RequestType, Goto
<1>3. request'[r].hash = request[r].hash /\ request'[r].at = at
  BY <1>2 DEF IInv, Typed, RequestType
<1> QED
  BY <1>1, <1>2, <1>3 DEF IInv, HashRead, TokenNamed

(* The sessions' part, when neither table nor password moves. *)
LEMMA SessionsUntouched ==
    ASSUME IInv, UNCHANGED <<password, session>>
    PROVE  RowsSound' /\ SessionsOfPassword' /\ SessionType' /\ password' \in Nat
BY DEF IInv, Typed, RowsSound, SessionsOfPassword, SessionType

LEMMA StepInvariant == ASSUME IInv, [Next]_vars PROVE IInv' /\ (EndsOnce \/ UNCHANGED vars)
<1> DEFINE Req == RequestType' /\ HashRead' /\ TokenNamed'
           Ses == RowsSound' /\ SessionsOfPassword' /\ SessionType' /\ password' \in Nat
<1> SUFFICES now' \in Nat /\ Req /\ Ses /\ (EndsOnce \/ UNCHANGED vars)
  BY DEF IInv, Typed
<1>0. /\ now \in Nat /\ password \in Nat /\ SessionType /\ RequestType
      /\ RowsSound /\ SessionsOfPassword
  BY DEF IInv, Typed
<1>s. UNCHANGED <<password, session>> => EndsOnce
  BY <1>0 DEF EndsOnce, SessionType
<1>1. CASE Tick
  <2>1. now' \in Nat /\ UNCHANGED <<password, session, request>>
    BY <1>1, <1>0 DEF Tick
  <2>2. Req
    BY <2>1 DEF IInv, Typed, RequestType, HashRead, TokenNamed
  <2> QED
    BY <2>1, <2>2, <1>s, SessionsUntouched
<1>2. ASSUME NEW r \in Request, Arrive(r) PROVE now' \in Nat /\ Req /\ Ses /\ EndsOnce
  <2>1. now' \in Nat /\ UNCHANGED <<password, session>>
    BY <1>2, <1>0 DEF Arrive
  <2>2. \A q \in Request : request'[q] = IF q = r THEN [Idle EXCEPT !.op = "login", !.at = "owner"]
                                                  ELSE request[q]
    BY <1>2, <1>0 DEF Arrive, RequestType
  <2>3. RequestType'
    BY <1>2, <1>0 DEF Arrive, RequestType, Idle, Op
  <2>4. HashRead' /\ TokenNamed'
    BY <2>2 DEF IInv, HashRead, TokenNamed, Idle
  <2> QED
    BY <2>1, <2>3, <2>4, <1>s, SessionsUntouched
<1>3. ASSUME NEW r \in Request, ReadOwner(r) PROVE now' \in Nat /\ Req /\ Ses /\ EndsOnce
  <2>1. now' \in Nat /\ session' = session /\ password' = Seeded
    BY <1>3, <1>0 DEF ReadOwner
  <2>2. Seeded \in Nat /\ Seeded # 0 /\ Seeded >= password
    BY <1>0 DEF Seeded
  <2>3. \A q \in Request : request'[q] = IF q = r
            THEN [op |-> request[r].op, token |-> request[r].token, session |-> request[r].session,
                  until |-> 0, hash |-> Seeded,
                  at |-> IF request[r].op = "confirm" THEN "again" ELSE "attempt"]
            ELSE request[q]
    BY <1>3, <1>0 DEF ReadOwner, RequestType
  <2>4. RequestType'
    BY <1>3, <1>0, <2>2 DEF ReadOwner, RequestType
  <2>5. HashRead' /\ TokenNamed'
    BY <2>2, <2>3 DEF IInv, HashRead, TokenNamed
  <2>6. Ses
    <3>1. CASE password = 0
      BY <2>1, <2>2, <1>0, <3>1 DEF RowsSound, SessionsOfPassword, SessionType
    <3>2. CASE password # 0
      BY <2>1, <1>0, <3>2 DEF Seeded, RowsSound, SessionsOfPassword, SessionType
    <3> QED
      BY <3>1, <3>2
  <2>7. EndsOnce
    BY <2>1, <2>2, <1>0 DEF EndsOnce, SessionType
  <2> QED
    BY <2>1, <2>4, <2>5, <2>6, <2>7
<1>4. ASSUME NEW r \in Request, Reauthenticate(r) PROVE now' \in Nat /\ Req /\ Ses /\ EndsOnce
  <2>1. now' \in Nat /\ UNCHANGED <<password, session>>
    BY <1>4, <1>0 DEF Reauthenticate
  <2>2. request[r].hash # 0
    BY <1>4 DEF Reauthenticate, IInv, HashRead
  <2>3. Goto(r, "attempt") \/ Answer(r)
    BY <1>4 DEF Reauthenticate
  <2>4. Req
    BY <2>2, <2>3, AnswerKeeps, GotoKeeps
  <2> QED
    BY <2>1, <2>4, <1>s, SessionsUntouched
<1>5. ASSUME NEW r \in Request, NEW t \in Token, NEW op \in Op \ {"login"}, Authenticate(r, t, op)
      PROVE  now' \in Nat /\ Req /\ Ses /\ EndsOnce
  <2>1. now' \in Nat /\ UNCHANGED <<password, session>>
    BY <1>5, <1>0 DEF Authenticate
  <2>2. session[t].password \in Nat /\ session[t].password # 0 /\ session[t].st = "row"
    BY <1>5, <1>0 DEF Authenticate, Valid, SessionType, RowsSound
  <2>3. now + Lifetime \in Nat
    BY <1>0, NumbersAssumption
  <2> DEFINE at == CASE op = "renew" -> "update" [] op = "logout" -> "delete" [] OTHER -> "owner"
             rec == [op |-> op, token |-> t, session |-> session[t].password, hash |-> 0,
                     until |-> IF op = "renew" THEN now + Lifetime ELSE 0, at |-> at]
  <2>4. at \in {"update", "delete", "owner"}
    OBVIOUS
  <2>5. request' = [request EXCEPT ![r] = rec]
    BY <1>5 DEF Authenticate
  <2>6. rec \in [op: Op \cup {"none"}, token: Token \cup {"none"}, session: Nat,
                 at: {"idle", "owner", "again", "attempt", "insert", "update", "delete", "replace"},
                 until: Nat, hash: Nat]
    BY <2>2, <2>3, <2>4 DEF Op
  <2>7. rec.at \in {"update", "delete", "owner"} /\ rec.token = t
    BY <2>4
  <2> HIDE DEF rec
  <2>8. RequestType' /\ \A q \in Request : request'[q] = IF q = r THEN rec ELSE request[q]
    BY <2>5, <2>6, <1>0 DEF RequestType
  <2>9. HashRead' /\ TokenNamed'
    BY <2>7, <2>8 DEF IInv, HashRead, TokenNamed
  <2> QED
    BY <2>1, <2>8, <2>9, <1>s, SessionsUntouched
<1>6. ASSUME NEW r \in Request, NEW a \in Address, Attempt(r, a)
      PROVE  now' \in Nat /\ Req /\ Ses /\ EndsOnce
  <2>1. now' \in Nat /\ UNCHANGED <<password, session>>
    BY <1>6, <1>0 DEF Attempt
  <2>2. request[r].hash # 0
    BY <1>6 DEF Attempt, IInv, HashRead
  <2>3. CASE Answer(r) \/ Goto(r, "replace")
    <3>1. Req
      BY <2>2, <2>3, AnswerKeeps, GotoKeeps
    <3> QED
      BY <2>1, <3>1, <1>s, SessionsUntouched
  <2> DEFINE rec == [op |-> "login", token |-> "none", session |-> 0, hash |-> request[r].hash,
                     until |-> now + Lifetime, at |-> "insert"]
  <2>4. CASE request' = [request EXCEPT ![r] = rec]
    <3>1. now + Lifetime \in Nat
      BY <1>0, NumbersAssumption
    <3>2. rec \in [op: Op \cup {"none"}, token: Token \cup {"none"}, session: Nat,
                   at: {"idle", "owner", "again", "attempt", "insert", "update", "delete", "replace"},
                   until: Nat, hash: Nat]
      BY <1>0, <3>1 DEF RequestType, Op
    <3>4. rec.at = "insert" /\ rec.hash = request[r].hash
      OBVIOUS
    <3> HIDE DEF rec
    <3>5. RequestType' /\ \A q \in Request : request'[q] = IF q = r THEN rec ELSE request[q]
      BY <3>2, <2>4, <1>0 DEF RequestType
    <3>6. HashRead' /\ TokenNamed'
      BY <2>2, <3>4, <3>5 DEF IInv, HashRead, TokenNamed
    <3> QED
      BY <2>1, <3>5, <3>6, <1>s, SessionsUntouched
  <2> QED
    BY <1>6, <2>3, <2>4 DEF Attempt
<1>7. ASSUME NEW r \in Request, NEW t \in Token, InsertSession(r, t)
      PROVE  now' \in Nat /\ Req /\ Ses /\ EndsOnce
  <2>1. now' \in Nat /\ password' = password /\ Answer(r)
    BY <1>7, <1>0 DEF InsertSession
  <2>2. request[r].hash # 0 /\ request[r].hash = password /\ request[r].hash \in Nat /\ request[r].until \in Nat
    BY <1>7, <1>0 DEF InsertSession, MayInsert, IInv, HashRead, RequestType
  <2>3. \A u \in Token : session'[u] = IF u = t THEN Row(request[r].hash, request[r].until) ELSE Kept(u)
    BY <1>7 DEF InsertSession
  <2>4. \A u \in Token : Kept(u) = session[u] \/ (session[u].st = "row" /\ Kept(u) = Revoked)
    BY DEF Kept
  <2>5. SessionType'
    BY <1>7, <2>2, <2>4, <1>0 DEF InsertSession, SessionType, Row, Revoked
  <2>6. RowsSound' /\ SessionsOfPassword'
    BY <2>1, <2>2, <2>3, <2>4, <1>0 DEF RowsSound, SessionsOfPassword, Row, Revoked
  <2>7. EndsOnce
    BY <1>7, <2>1, <2>3, <2>4, <1>0 DEF InsertSession, EndsOnce, SessionType, Row, Revoked
  <2> QED
    BY <2>1, <2>5, <2>6, <2>7, <1>0, AnswerKeeps
<1>8. ASSUME NEW r \in Request, InsertRefused(r) \/ ChangeRefused(r) \/ Abandon(r)
      PROVE  now' \in Nat /\ Req /\ Ses /\ EndsOnce
  <2>1. now' \in Nat /\ UNCHANGED <<password, session>> /\ Answer(r)
    BY <1>8, <1>0 DEF InsertRefused, ChangeRefused, Abandon
  <2> QED
    BY <2>1, <1>s, AnswerKeeps, SessionsUntouched
<1>9. ASSUME NEW r \in Request, Renew(r) PROVE now' \in Nat /\ Req /\ Ses /\ EndsOnce
  <2>1. now' \in Nat /\ password' = password /\ Answer(r) /\ session' = Renewed(r)
    BY <1>9, <1>0 DEF Renew
  <2> DEFINE t == request[r].token
             e == Max({session[t].expires, request[r].until})
  <2>2. t \in Token /\ session[t].expires \in Nat /\ request[r].until \in Nat
    BY <1>9, <1>0 DEF Renew, IInv, TokenNamed, RequestType, SessionType
  <2>3. e \in Nat /\ e >= session[t].expires
    BY <2>2, MaxOfTwo
  <2>4. \/ session' = session
        \/ session[t].st = "row" /\ session' = [session EXCEPT ![t] = Row(session[t].password, e)]
    BY <2>1 DEF Renewed, Valid
  <2> HIDE DEF e
  <2>5. CASE session' = session
    BY <2>1, <2>5, <1>0, <1>s, SessionsUntouched, AnswerKeeps
  <2>6. CASE session[t].st = "row" /\ session' = [session EXCEPT ![t] = Row(session[t].password, e)]
    <3> DEFINE new == Row(session[t].password, e)
    <3>1. session[t].password \in Nat /\ session[t].password # 0 /\ session[t].password = password
      BY <2>2, <2>6, <1>0 DEF SessionType, RowsSound, SessionsOfPassword
    <3>2. /\ new \in [st: {"unissued", "row", "revoked"}, password: Nat, expires: Nat]
          /\ new.st = "row" /\ new.password = password /\ new.password # 0
          /\ new.expires >= session[t].expires
      BY <2>3, <3>1 DEF Row
    <3>3. session' = [session EXCEPT ![t] = new]
      BY <2>6
    <3> HIDE DEF new, t
    <3>4. SessionType' /\ \A u \in Token : session'[u] = IF u = t THEN new ELSE session[u]
      BY <3>2, <3>3, <1>0 DEF SessionType
    <3>5. RowsSound' /\ SessionsOfPassword'
      BY <2>1, <3>2, <3>4, <1>0 DEF RowsSound, SessionsOfPassword, Revoked
    <3>6. EndsOnce
      BY <2>1, <2>6, <3>2, <3>4, <1>0 DEF EndsOnce, SessionType
    <3> QED
      BY <2>1, <3>4, <3>5, <3>6, <1>0, AnswerKeeps
  <2> QED
    BY <2>4, <2>5, <2>6
<1>10. ASSUME NEW r \in Request, Logout(r) PROVE now' \in Nat /\ Req /\ Ses /\ EndsOnce
  <2>1. now' \in Nat /\ password' = password /\ Answer(r) /\ request[r].token \in Token
        /\ session' = [session EXCEPT ![request[r].token] = Revoked]
    BY <1>10, <1>0 DEF Logout, IInv, TokenNamed
  <2>2. /\ SessionType'
        /\ \A u \in Token : session'[u] = IF u = request[r].token THEN Revoked ELSE session[u]
    BY <2>1, <1>0 DEF SessionType, Revoked
  <2>3. RowsSound' /\ SessionsOfPassword'
    BY <2>1, <2>2, <1>0 DEF RowsSound, SessionsOfPassword, Revoked
  <2>4. EndsOnce
    BY <2>1, <2>2, <1>0 DEF EndsOnce, SessionType, RowsSound, Revoked
  <2> QED
    BY <2>1, <2>2, <2>3, <2>4, <1>0, AnswerKeeps
<1>11. ASSUME NEW r \in Request, ChangePassword(r) PROVE now' \in Nat /\ Req /\ Ses /\ EndsOnce
  <2>1. now' \in Nat /\ password' = password + 1 /\ Answer(r)
        /\ session' = [t \in Token |-> IF session[t].st = "row" THEN Revoked ELSE session[t]]
    BY <1>11, <1>0 DEF ChangePassword
  <2>2. SessionType' /\ password' \in Nat
    BY <2>1, <1>0 DEF SessionType, Revoked
  <2>3. \A t \in Token : session'[t].st # "row" /\ (session[t].st # "row" => session'[t] = session[t])
    BY <2>1 DEF Revoked
  <2>4. RowsSound' /\ SessionsOfPassword'
    BY <2>1, <2>3, <1>0 DEF RowsSound, SessionsOfPassword, Revoked
  <2>5. EndsOnce
    BY <2>1, <2>3, <1>0 DEF EndsOnce, Revoked
  <2> QED
    BY <2>1, <2>2, <2>4, <2>5, <1>0, AnswerKeeps
<1>12. CASE UNCHANGED vars
  BY <1>12 DEF vars, IInv, Typed, SessionType, RequestType, HashRead, TokenNamed, RowsSound,
               SessionsOfPassword
<1> QED
  BY <1>1, <1>2, <1>3, <1>4, <1>5, <1>6, <1>7, <1>8, <1>9, <1>10, <1>11, <1>12 DEF Next
-----------------------------------------------------------------------------
(* The invariant of sessions and requests holds always. *)
THEOREM SessionInvariance == Spec => []IInv
<1>1. IInv /\ [Next]_vars => IInv'
  BY StepInvariant
<1> QED
  BY InitInvariant, <1>1, PTL DEF Spec

(* No session outlives the password it was opened with. *)
THEOREM SessionsFollowPassword == Spec => []SessionsOfPassword
<1>1. IInv => SessionsOfPassword
  BY DEF IInv
<1> QED
  BY SessionInvariance, <1>1, PTL

(* A revoked session and a replaced password never return, and a renewal never
   shortens a session. *)
THEOREM ReplacedForGood == Spec => NeverRevived
<1>1. IInv /\ [Next]_vars => [EndsOnce]_vars
  BY StepInvariant
<1> QED
  BY SessionInvariance, <1>1, PTL DEF Spec, NeverRevived
-----------------------------------------------------------------------------
(* The counters of attempts.  What a window has let through is never more than
   its counter says, and nothing was let through for a window that is to come. *)

Recent(k) == SumFunctionOnSet(passed[k], InWindow(k))

Counted(k) ==
    /\ bucket[k].resetAt <= now + Window
    /\ \A i \in Time : passed[k][i] # 0 => i < bucket[k].resetAt
    /\ Recent(k) <= bucket[k].attempts
    /\ Recent(k) <= Limit(k)

CInv ==
    /\ now \in Time
    /\ bucket \in [Key -> [attempts : Nat, resetAt : Nat]]
    /\ passed \in [Key -> [Time -> Nat]]
    /\ \A k \in Key : Counted(k)

LEMMA MinOfTwo ==
    ASSUME NEW a \in Nat, NEW b \in Nat
    PROVE  Min({a, b}) = IF a <= b THEN a ELSE b
<1>1. \E x \in {a, b} : \A y \in {a, b} : x =< y
  OBVIOUS
<1>2. Min({a, b}) \in {a, b} /\ \A y \in {a, b} : Min({a, b}) =< y
  BY <1>1 DEF Min
<1> QED
  BY <1>2

LEMMA WindowsAreFinite == \A k : InWindow(k) \subseteq Time /\ IsFiniteSet(InWindow(k))
<1>1. IsFiniteSet(Time)
  BY FS_Interval, NumbersAssumption DEF Time
<1> QED
  BY <1>1, FS_Subset DEF InWindow

LEMMA LimitsArePositive == \A k \in Key : Limit(k) \in Nat /\ Limit(k) >= 1
BY NumbersAssumption DEF Limit

LEMMA CountersStart == Init => CInv
<1> SUFFICES ASSUME Init PROVE CInv
  OBVIOUS
<1>1. /\ now \in Time
      /\ bucket \in [Key -> [attempts : Nat, resetAt : Nat]]
      /\ passed \in [Key -> [Time -> Nat]]
  BY NumbersAssumption DEF Init, Time
<1>2. ASSUME NEW k \in Key PROVE Counted(k)
  <2>1. \A i \in InWindow(k) : passed[k][i] \in Nat /\ passed[k][i] = 0
    BY WindowsAreFinite DEF Init
  <2>2. Recent(k) = 0
    BY <2>1, WindowsAreFinite, SumNat DEF Recent
  <2> QED
    BY <2>2, LimitsArePositive, NumbersAssumption DEF Counted, Init
<1> QED
  BY <1>1, <1>2 DEF CInv

LEMMA TickCounts == CInv /\ Tick => CInv'
<1> SUFFICES ASSUME CInv, Tick PROVE CInv'
  OBVIOUS
<1>1. /\ now' = now + 1 /\ now' \in Time /\ UNCHANGED bucket
      /\ passed' = [k \in Key |-> [i \in Time |-> IF i + Window <= now' THEN 0 ELSE passed[k][i]]]
  BY NumbersAssumption DEF Tick, CInv, Time
<1>2. passed' \in [Key -> [Time -> Nat]]
  BY <1>1 DEF CInv
<1>3. ASSUME NEW k \in Key PROVE Counted(k)'
  <2>1. InWindow(k)' = InWindow(k)
    BY <1>1 DEF InWindow
  <2>2. \A i \in Time : passed'[k][i] \in Nat /\ passed[k][i] \in Nat /\ passed'[k][i] \in {0, passed[k][i]}
    BY <1>1 DEF CInv
  <2>3. \A i \in InWindow(k) : passed'[k][i] \in Int /\ passed[k][i] \in Int /\ passed'[k][i] <= passed[k][i]
    BY <2>2, WindowsAreFinite
  <2> DEFINE W == InWindow(k)
  <2>4. Recent(k)' = SumFunctionOnSet(passed'[k], W)
    BY <2>1 DEF Recent
  <2>5. IsFiniteSet(W)
    BY WindowsAreFinite
  <2>6. /\ SumFunctionOnSet(passed'[k], W) <= SumFunctionOnSet(passed[k], W)
        /\ SumFunctionOnSet(passed'[k], W) \in Int /\ SumFunctionOnSet(passed[k], W) \in Int
    <3> HIDE DEF W
    <3>1. \A i \in W : passed'[k][i] \in Int /\ passed[k][i] \in Int /\ passed'[k][i] <= passed[k][i]
      BY <2>3 DEF W
    <3> QED
      BY <2>5, <3>1, SumMonotone, SumInt
  <2>7. Recent(k)' \in Int /\ Recent(k) \in Int /\ Recent(k)' <= Recent(k)
    BY <2>4, <2>6 DEF Recent
  <2>8. Counted(k) /\ bucket[k].attempts \in Nat /\ bucket[k].resetAt \in Nat /\ now \in Nat
    BY NumbersAssumption DEF CInv, Time
  <2> QED
    BY <1>1, <2>2, <2>7, <2>8, LimitsArePositive, NumbersAssumption DEF Counted
<1> QED
  BY <1>1, <1>2, <1>3 DEF CInv

WindowOf(reset) == {i \in Time : reset - Window <= i /\ i < reset}

LEMMA HitLeavesRoom ==
    ASSUME CInv, NEW k \in Key
    PROVE  LET sum == SumFunctionOnSet(passed[k], WindowOf(Hit(k).resetAt))
           IN  /\ Hit(k) \in [attempts : Nat, resetAt : Nat]
               /\ now \in WindowOf(Hit(k).resetAt) /\ Hit(k).resetAt <= now + Window
               /\ bucket[k].resetAt <= Hit(k).resetAt
               /\ sum \in Nat /\ sum <= Hit(k).attempts /\ sum <= Limit(k)
               /\ Hit(k).attempts <= Limit(k) => sum + 1 <= Hit(k).attempts
<1> DEFINE sum == SumFunctionOnSet(passed[k], WindowOf(Hit(k).resetAt))
<1>1. /\ now \in Time /\ now \in Nat /\ Window \in Nat \ {0} /\ Limit(k) \in Nat /\ Limit(k) >= 1
      /\ bucket[k].attempts \in Nat /\ bucket[k].resetAt \in Nat
      /\ \A i \in Time : passed[k][i] \in Nat /\ i \in Nat
      /\ Counted(k)
  BY NumbersAssumption, LimitsArePositive DEF CInv, Time
<1>2. \A reset : WindowOf(reset) \subseteq Time /\ IsFiniteSet(WindowOf(reset))
  <2>1. IsFiniteSet(Time)
    BY FS_Interval, NumbersAssumption DEF Time
  <2> QED
    BY <2>1, FS_Subset DEF WindowOf
<1>3. sum \in Nat
  BY <1>1, <1>2, SumNat
<1>4. CASE bucket[k].resetAt <= now
  <2>1. Hit(k) = [attempts |-> 1, resetAt |-> now + Window]
    BY <1>4 DEF Hit
  <2>2. now \in WindowOf(Hit(k).resetAt)
    BY <1>1, <2>1 DEF WindowOf
  <2>3. \A i \in WindowOf(Hit(k).resetAt) : passed[k][i] \in Nat /\ passed[k][i] = 0
    BY <1>1, <1>4, <2>1 DEF WindowOf, Counted
  <2>4. sum = 0
    BY <2>3, <1>2, SumNat
  <2> QED
    BY <1>1, <1>4, <2>1, <2>2, <2>4
<1>5. CASE ~(bucket[k].resetAt <= now)
  <2>1. Hit(k) = [attempts |-> Min({bucket[k].attempts + 1, Limit(k) + 1}), resetAt |-> bucket[k].resetAt]
    BY <1>5 DEF Hit
  <2>2. Min({bucket[k].attempts + 1, Limit(k) + 1}) =
          IF bucket[k].attempts + 1 <= Limit(k) + 1 THEN bucket[k].attempts + 1 ELSE Limit(k) + 1
    BY <1>1, MinOfTwo
  <2>3. now \in WindowOf(Hit(k).resetAt)
    BY <1>1, <1>5, <2>1 DEF WindowOf, Counted
  <2>4. sum = Recent(k)
    BY <2>1 DEF Recent, InWindow, WindowOf
  <2>5. sum <= bucket[k].attempts /\ sum <= Limit(k)
    BY <1>1, <2>4 DEF Counted
  <2> HIDE DEF sum
  <2>6. /\ Hit(k).attempts = IF bucket[k].attempts <= Limit(k) THEN bucket[k].attempts + 1 ELSE Limit(k) + 1
        /\ Hit(k).resetAt = bucket[k].resetAt /\ Hit(k) \in [attempts : Nat, resetAt : Nat]
    BY <1>1, <2>1, <2>2
  <2>7. /\ sum <= Hit(k).attempts
        /\ Hit(k).attempts <= Limit(k) => sum + 1 <= Hit(k).attempts
    BY <1>1, <1>3, <2>5, <2>6
  <2>8. Hit(k).resetAt <= now + Window
    BY <1>1, <2>6 DEF Counted
  <2>9. bucket[k].resetAt <= Hit(k).resetAt
    BY <1>1, <2>6
  <2> QED
    BY <1>3, <2>3, <2>5, <2>6, <2>7, <2>8, <2>9 DEF sum
<1> QED
  BY <1>4, <1>5

LEMMA AttemptCounts == CInv /\ (\E r \in Request, a \in Address : Attempt(r, a)) => CInv'
<1> SUFFICES ASSUME CInv, NEW r \in Request, NEW a \in Address, Attempt(r, a) PROVE CInv'
  OBVIOUS
<1> DEFINE keys == {<<a, request[r].hash>>, Global}
           open == \A k \in keys : Hit(k).attempts <= Limit(k)
<1>1. /\ bucket' = [k \in Key |-> IF k \in keys THEN Hit(k) ELSE bucket[k]]
      /\ passed' = [k \in Key |-> IF open /\ k \in keys THEN [passed[k] EXCEPT ![now] = @ + 1] ELSE passed[k]]
      /\ UNCHANGED now
  BY DEF Attempt
<1>2. /\ now \in Time /\ passed \in [Key -> [Time -> Nat]] /\ now \in Nat
      /\ bucket \in [Key -> [attempts : Nat, resetAt : Nat]]
  BY DEF CInv, Time
<1>3. bucket' \in [Key -> [attempts : Nat, resetAt : Nat]] /\ passed' \in [Key -> [Time -> Nat]]
  BY <1>1, <1>2, HitLeavesRoom
<1>4. ASSUME NEW k \in Key PROVE Counted(k)'
  <2>1. CASE k \notin keys
    <3>1. bucket'[k] = bucket[k] /\ passed'[k] = passed[k] /\ now' = now
      BY <1>1, <2>1
    <3> QED
      BY <3>1 DEF CInv, Counted, Recent, InWindow, Limit
  <2>2. CASE k \in keys
    <3> DEFINE W == WindowOf(Hit(k).resetAt)
    <3>1. /\ bucket'[k] = Hit(k) /\ now' = now
          /\ passed'[k] = IF open THEN [passed[k] EXCEPT ![now] = @ + 1] ELSE passed[k]
          /\ open => Hit(k).attempts <= Limit(k)
      BY <1>1, <2>2
    <3> HIDE DEF open
    <3>2. Recent(k)' = SumFunctionOnSet(passed'[k], W)
      BY <3>1 DEF Recent, InWindow, WindowOf
    <3>3. W \subseteq Time /\ IsFiniteSet(W)
      <4>1. IsFiniteSet(Time)
        BY FS_Interval, NumbersAssumption DEF Time
      <4> QED
        BY <4>1, FS_Subset DEF WindowOf
    <3>4. /\ \A i \in Time : passed[k][i] \in Nat /\ passed'[k][i] \in Nat
          /\ \A i \in Time : passed'[k][i] = IF open /\ i = now THEN passed[k][i] + 1 ELSE passed[k][i]
      BY <1>2, <1>3, <3>1
    <3>5. now \in W
      BY HitLeavesRoom
    <3>6. SumFunctionOnSet(passed'[k], W) = SumFunctionOnSet(passed[k], W) + (passed'[k][now] - passed[k][now])
      <4>1. \A i \in W : passed[k][i] \in Int /\ passed'[k][i] \in Int
        BY <3>3, <3>4
      <4>2. \A i \in W \ {now} : passed'[k][i] = passed[k][i]
        BY <3>3, <3>4
      <4> HIDE DEF W
      <4> QED
        BY <3>3, <3>5, <4>1, <4>2, SumChange
    <3> DEFINE sum == SumFunctionOnSet(passed[k], W)
    <3>7. Recent(k)' = IF open THEN sum + 1 ELSE sum
      BY <1>2, <3>2, <3>4, <3>6, HitLeavesRoom
    <3>8. /\ Hit(k).attempts \in Nat /\ Hit(k).resetAt <= now + Window
          /\ sum \in Nat /\ sum <= Hit(k).attempts /\ sum <= Limit(k)
          /\ Hit(k).attempts <= Limit(k) => sum + 1 <= Hit(k).attempts
          /\ bucket[k].resetAt <= Hit(k).resetAt /\ now < Hit(k).resetAt /\ Hit(k).resetAt \in Nat
          /\ Limit(k) \in Nat /\ bucket[k].resetAt \in Nat
      BY <1>2, HitLeavesRoom, LimitsArePositive DEF WindowOf
    <3> HIDE DEF sum, W
    <3>9. Recent(k)' <= bucket'[k].attempts /\ Recent(k)' <= Limit(k)
      BY <3>1, <3>7, <3>8
    <3>10. \A i \in Time : passed'[k][i] # 0 => i < bucket'[k].resetAt
      <4>1. \A i \in Time : passed[k][i] # 0 => i < bucket[k].resetAt
        BY DEF CInv, Counted
      <4>2. \A i \in Time : i \in Nat
        BY DEF Time
      <4> QED
        BY <3>1, <3>4, <3>8, <4>1, <4>2
    <3> QED
      BY <3>1, <3>8, <3>9, <3>10 DEF Counted, Limit
  <2> QED
    BY <2>1, <2>2
<1> QED
  BY <1>1, <1>2, <1>3, <1>4 DEF CInv

LEMMA CountersStep == CInv /\ [Next]_vars => CInv'
<1> SUFFICES ASSUME CInv, [Next]_vars PROVE CInv'
  OBVIOUS
<1>1. CASE Tick
  BY <1>1, TickCounts
<1>2. CASE \E r \in Request, a \in Address : Attempt(r, a)
  BY <1>2, AttemptCounts
<1>3. CASE UNCHANGED <<now, bucket, passed>>
  BY <1>3 DEF CInv, Counted, Recent, InWindow
<1>4. \/ Tick \/ (\E r \in Request, a \in Address : Attempt(r, a)) \/ UNCHANGED <<now, bucket, passed>>
  BY DEF Next, vars, Arrive, ReadOwner, Reauthenticate, Authenticate, InsertSession, InsertRefused, Renew, Logout,
         ChangePassword, ChangeRefused, Abandon
<1> QED
  BY <1>1, <1>2, <1>3, <1>4

(* However many requests consume a counter at once, no more attempts of one
   window reach the password than its limit. *)
THEOREM AttemptsAreBounded == Spec => []AttemptsBounded
<1>1. CInv => AttemptsBounded
  BY DEF CInv, Counted, Recent, AttemptsBounded
<1>2. CInv /\ [Next]_vars => CInv'
  BY CountersStep
<1> QED
  BY CountersStart, <1>1, <1>2, PTL DEF Spec
-----------------------------------------------------------------------------
(* The public feed.  What a caller read under the lock still holds when its
   pause is over, for nobody else may commit an entry meanwhile, and time makes
   no entry fresh again. *)

FeedShape ==
    /\ clock \in Nat
    /\ lock \in [at: Nat, by: Caller \cup {"free"}]
    /\ cache \in [Feed -> [at: Nat, held: {FALSE, TRUE}]]
    /\ caller \in [Caller -> [pc: {"idle", "miss", "pause", "load"}, feed: Feed \cup {"none"}, wake: Nat]]

(* A caller that pauses holds the lock, for a key that is still missed.      *)
Pausing ==
    \A c \in Caller : caller[c].pc = "pause" =>
        /\ lock.by = c
        /\ ~Public!Fresh(caller[c].feed)
        /\ caller[c].wake >= lock.at + Gap

(* A caller that has read a key goes on with it.                             *)
FeedNamed == \A c \in Caller : caller[c].pc # "idle" => caller[c].feed \in Feed

(* The value of the lock is the time of the last load that was kept.         *)
LastKept == loaded.held => loaded.at = lock.at

FeedInv == FeedShape /\ Pausing /\ FeedNamed /\ LastKept

LEMMA FeedStarts == ASSUME Public!Init PROVE FeedInv
<1>1. FeedShape
  BY FeedAssumption DEF Public!Init, FeedShape, Public!Never, Public!Away
<1>2. Pausing /\ FeedNamed /\ LastKept
  BY DEF Public!Init, Pausing, FeedNamed, LastKept, Public!Never, Public!Away
<1> QED
  BY <1>1, <1>2 DEF FeedInv

LEMMA MissKeeps ==
    ASSUME FeedInv, NEW c \in Caller, NEW f \in Feed, Public!Miss(c, f)
    PROVE  FeedInv'
<1>1. /\ UNCHANGED <<clock, lock, cache, loaded>>
      /\ caller' = [caller EXCEPT ![c] = [pc |-> "miss", feed |-> f, wake |-> 0]]
  BY DEF Public!Miss
<1>2. FeedShape' /\ FeedNamed' /\ LastKept'
  BY <1>1 DEF FeedInv, FeedShape, FeedNamed, LastKept
<1>3. \A d \in Caller : caller'[d].pc = "pause" => caller'[d] = caller[d]
  BY <1>1 DEF FeedInv, FeedShape
<1>4. Pausing'
  BY <1>1, <1>3 DEF FeedInv, Pausing, Public!Fresh
<1> QED
  BY <1>2, <1>4 DEF FeedInv

LEMMA LockKeeps ==
    ASSUME FeedInv, NEW c \in Caller, Public!Lock(c)
    PROVE  FeedInv'
<1>1. /\ UNCHANGED <<clock, cache, loaded>>
      /\ caller[c].pc = "miss" /\ lock.by = "free"
  BY DEF Public!Lock
<1>2. CASE Public!StillMissed(c)
  <2>1. /\ lock' = [lock EXCEPT !.by = c]
        /\ caller' = [caller EXCEPT ![c] = [pc |-> "pause", feed |-> @.feed, wake |-> Public!Pause]]
    BY <1>2 DEF Public!Lock
  <2>2. Public!Pause \in Nat /\ Public!Pause >= lock.at + Gap
    BY FeedAssumption DEF Public!Pause, FeedInv, FeedShape
  <2>3. /\ lock' \in [at: Nat, by: Caller \cup {"free"}] /\ lock'.at = lock.at /\ lock'.by = c
        /\ caller' \in [Caller -> [pc: {"idle", "miss", "pause", "load"}, feed: Feed \cup {"none"}, wake: Nat]]
    BY <2>1, <2>2 DEF FeedInv, FeedShape
  <2>4. \A d \in Caller : caller[d].pc # "pause"
    BY <1>1, FeedAssumption DEF FeedInv, Pausing
  <2>5. /\ caller'[c].feed = caller[c].feed /\ caller'[c].wake = Public!Pause
        /\ \A d \in Caller : caller'[d].pc = "pause" => d = c
        /\ \A d \in Caller \ {c} : caller'[d] = caller[d]
    BY <2>1, <2>4 DEF FeedInv, FeedShape
  <2>6. FeedShape' /\ LastKept'
    BY <1>1, <2>3 DEF FeedInv, FeedShape, LastKept
  <2>7. Pausing'
    BY <1>1, <1>2, <2>2, <2>3, <2>5 DEF Pausing, Public!StillMissed, Public!Fresh
  <2>8. FeedNamed'
    BY <1>1, <2>5 DEF FeedInv, FeedNamed
  <2> QED
    BY <2>6, <2>7, <2>8 DEF FeedInv
<1>3. CASE ~Public!StillMissed(c)
  <2>1. UNCHANGED lock /\ caller' = [caller EXCEPT ![c] = Public!Away]
    BY <1>3 DEF Public!Lock, Public!Leave
  <2>2. FeedShape' /\ FeedNamed' /\ LastKept'
    BY <1>1, <2>1 DEF FeedInv, FeedShape, FeedNamed, LastKept, Public!Away
  <2>3. \A d \in Caller : caller'[d].pc = "pause" => caller'[d] = caller[d]
    BY <2>1 DEF FeedInv, FeedShape, Public!Away
  <2>4. Pausing'
    BY <1>1, <2>1, <2>3 DEF FeedInv, Pausing, Public!Fresh
  <2> QED
    BY <2>2, <2>4 DEF FeedInv
<1> QED
  BY <1>2, <1>3

LEMMA LoadKeeps ==
    ASSUME FeedInv, NEW c \in Caller, Public!Load(c)
    PROVE  FeedInv'
<1>1. /\ UNCHANGED <<clock, lock, cache, loaded>> /\ caller[c].pc = "pause"
      /\ caller' = [caller EXCEPT ![c].pc = "load"]
  BY DEF Public!Load
<1>2. FeedShape' /\ FeedNamed' /\ LastKept'
  BY <1>1 DEF FeedInv, FeedShape, FeedNamed, LastKept
<1>3. \A d \in Caller : caller'[d].pc = "pause" => caller'[d] = caller[d]
  BY <1>1 DEF FeedInv, FeedShape
<1>4. Pausing'
  BY <1>1, <1>3 DEF FeedInv, Pausing, Public!Fresh
<1> QED
  BY <1>2, <1>4 DEF FeedInv

(* The caller that gives the lock back is the only one that may have paused. *)
LEMMA NobodyPauses ==
    ASSUME FeedInv, NEW c \in Caller, lock.by = c
    PROVE  \A d \in Caller : caller[d].pc = "pause" => d = c
BY DEF FeedInv, Pausing

LEMMA KeepKeeps ==
    ASSUME FeedInv, NEW c \in Caller, Public!Keep(c)
    PROVE  FeedInv'
<1>1. /\ caller[c].pc = "load" /\ lock.by = c /\ UNCHANGED clock
      /\ cache' = [cache EXCEPT ![caller[c].feed] = [at |-> clock, held |-> TRUE]]
      /\ loaded' = [at |-> clock, held |-> TRUE] /\ lock' = [at |-> clock, by |-> "free"]
      /\ caller' = [caller EXCEPT ![c] = Public!Away]
  BY DEF Public!Keep, Public!Unlock, Public!Leave
<1>2. FeedShape' /\ FeedNamed' /\ LastKept'
  BY <1>1 DEF FeedInv, FeedShape, FeedNamed, LastKept, Public!Away
<1>3. \A d \in Caller : caller'[d].pc # "pause"
  BY <1>1, NobodyPauses DEF FeedInv, FeedShape, Public!Away
<1>4. Pausing'
  BY <1>3 DEF Pausing
<1> QED
  BY <1>2, <1>4 DEF FeedInv

LEMMA RollBackKeeps ==
    ASSUME FeedInv, NEW c \in Caller, Public!RollBack(c)
    PROVE  FeedInv'
<1>1. /\ UNCHANGED <<clock, cache, loaded>>
      /\ lock' = IF lock.by = c THEN [at |-> lock.at, by |-> "free"] ELSE lock
      /\ caller' = [caller EXCEPT ![c] = Public!Away]
  BY DEF Public!RollBack, Public!Unlock, Public!Leave
<1>2. FeedShape' /\ FeedNamed' /\ LastKept'
  BY <1>1 DEF FeedInv, FeedShape, FeedNamed, LastKept, Public!Away
<1>3. \A d \in Caller : caller'[d].pc = "pause" => d # c /\ caller'[d] = caller[d]
  BY <1>1 DEF FeedInv, FeedShape, Public!Away
<1>4. \A d \in Caller \ {c} : lock.by = d => lock' = lock
  BY <1>1
<1>5. Pausing'
  BY <1>1, <1>3, <1>4 DEF FeedInv, Pausing, Public!Fresh
<1> QED
  BY <1>2, <1>5 DEF FeedInv

LEMMA SessionTimeoutKeeps ==
    ASSUME FeedInv, NEW c \in Caller, Public!SessionTimeout(c)
    PROVE  FeedInv'
<1>1. /\ UNCHANGED <<clock, cache, caller, loaded>> /\ caller[c].pc = "load" /\ lock.by = c
      /\ lock' = [at |-> lock.at, by |-> "free"]
  BY DEF Public!SessionTimeout, Public!Unlock
<1>2. FeedShape' /\ FeedNamed' /\ LastKept'
  BY <1>1 DEF FeedInv, FeedShape, FeedNamed, LastKept
<1>3. \A d \in Caller : caller[d].pc # "pause"
  BY <1>1, NobodyPauses
<1>4. Pausing'
  BY <1>1, <1>3 DEF Pausing
<1> QED
  BY <1>2, <1>4 DEF FeedInv

LEMMA TickKeeps == ASSUME FeedInv, Public!Tick PROVE FeedInv'
<1>1. clock' = clock + 1 /\ UNCHANGED <<lock, cache, caller, loaded>>
  BY DEF Public!Tick
<1>2. clock \in Nat /\ clock' \in Nat
  BY <1>1 DEF FeedInv, FeedShape
<1>3. FeedShape'
  BY <1>1, <1>2 DEF FeedInv, FeedShape
<1>4. FeedNamed' /\ LastKept'
  BY <1>1 DEF FeedInv, FeedNamed, LastKept
<1>5. ASSUME NEW f \in Feed, ~Public!Fresh(f) PROVE ~Public!Fresh(f)'
  <2>1. cache[f].at \in Nat /\ cache' = cache
    BY <1>1 DEF FeedInv, FeedShape
  <2>2. Ttl[f] = Gap + 1
    BY DEF Ttl
  <2>3. clock - cache[f].at < Gap + 1 \/ ~(clock' - cache[f].at < Gap + 1)
    BY <1>1, <1>2, <2>1, FeedAssumption
  <2> QED
    BY <1>5, <2>1, <2>2, <2>3 DEF Public!Fresh
<1>6. Pausing'
  BY <1>1, <1>5 DEF FeedInv, Pausing, FeedNamed
<1> QED
  BY <1>3, <1>4, <1>6 DEF FeedInv

LEMMA FeedStep == ASSUME FeedInv, [Public!Next]_(Public!vars) PROVE FeedInv'
<1>1. CASE Public!Tick
  BY <1>1, TickKeeps
<1>2. ASSUME NEW c \in Caller, NEW f \in Feed, Public!Miss(c, f) PROVE FeedInv'
  BY <1>2, MissKeeps
<1>3. ASSUME NEW c \in Caller, Public!Lock(c) \/ Public!Load(c) \/ Public!Keep(c) \/ Public!RollBack(c) \/ Public!SessionTimeout(c) PROVE FeedInv'
  BY <1>3, LockKeeps, LoadKeeps, KeepKeeps, RollBackKeeps, SessionTimeoutKeeps
<1>4. CASE UNCHANGED Public!vars
  BY <1>4 DEF Public!vars, FeedInv, FeedShape, Pausing, FeedNamed, LastKept, Public!Fresh
<1> QED
  BY <1>1, <1>2, <1>3, <1>4 DEF Public!Next

(* The inductive invariant of the callers, the lock and the cache.           *)
THEOREM FeedInvariance == Public!Spec => []FeedInv
<1>1. Public!Init => FeedInv
  BY FeedStarts
<1>2. FeedInv /\ [Public!Next]_(Public!vars) => FeedInv'
  BY FeedStep
<1> QED
  BY <1>1, <1>2, PTL DEF Public!Spec

-----------------------------------------------------------------------------
(* A load begins where a pause ends, and nowhere else.                       *)
LEMMA OnlyLoadLoads ==
    ASSUME FeedInv, [Public!Next]_(Public!vars), NEW c \in Caller, caller[c].pc = "pause", caller'[c].pc = "load"
    PROVE  Public!Load(c)
<1>1. \A d \in Caller : Public!RollBack(d) \/ Public!Keep(d) => caller' = [caller EXCEPT ![d] = Public!Away]
  BY DEF Public!RollBack, Public!Keep, Public!Leave
<1>2. \A d \in Caller : ~(Public!RollBack(d) \/ Public!Keep(d))
  BY <1>1 DEF Public!Away, FeedInv, FeedShape
<1>3. \A d \in Caller, f \in Feed : ~Public!Miss(d, f)
  BY DEF Public!Miss, FeedInv, FeedShape
<1>4. \A d \in Caller : ~Public!Lock(d)
  <2> SUFFICES ASSUME NEW d \in Caller, Public!Lock(d) PROVE FALSE
    OBVIOUS
  <2>1. d # c
    BY DEF Public!Lock
  <2>2. caller'[c] = caller[c]
    BY <2>1 DEF Public!Lock, Public!Leave, FeedInv, FeedShape
  <2> QED
    BY <2>2
<1>5. \A d \in Caller : Public!Load(d) => d = c
  BY DEF Public!Load, FeedInv, FeedShape
<1>6. ~Public!Tick /\ ~UNCHANGED Public!vars /\ \A d \in Caller : ~Public!SessionTimeout(d)
  BY DEF Public!Tick, Public!vars, Public!SessionTimeout
<1> QED
  BY <1>2, <1>3, <1>4, <1>5, <1>6 DEF Public!Next

(* Whoever asks, the venue is asked one load at a time, Gap after the last one
   that was kept, and never for a key whose entry is fresh.                  *)
THEOREM FeedCoalesced == Public!Spec => Coalesced
<1>1. FeedInv /\ [Public!Next]_(Public!vars) => Public!LoadsApart
  <2> SUFFICES ASSUME FeedInv, [Public!Next]_(Public!vars), NEW c \in Caller,
                      caller[c].pc = "pause", caller'[c].pc = "load"
               PROVE  /\ loaded.held => clock >= loaded.at + Gap
                      /\ ~Public!Fresh(caller[c].feed)
                      /\ \A d \in Caller : caller[d].pc = "load" => lock.by # d
    BY DEF Public!LoadsApart
  <2>1. clock >= caller[c].wake
    BY OnlyLoadLoads DEF Public!Load
  <2>2. lock.by = c /\ ~Public!Fresh(caller[c].feed) /\ caller[c].wake >= lock.at + Gap
    BY DEF FeedInv, Pausing
  <2>3. loaded.held => clock >= loaded.at + Gap
    BY <2>1, <2>2, FeedAssumption DEF FeedInv, FeedShape, LastKept
  <2> QED
    BY <2>2, <2>3
<1>2. FeedInv /\ [Public!Next]_(Public!vars) => [Public!LoadsApart]_(Public!vars)
  BY <1>1
<1> QED
  BY <1>2, FeedInvariance, PTL DEF Public!Spec, Coalesced, Public!Coalesced

-----------------------------------------------------------------------------
(* The simulated account, for any orders, prices and quantities.  An instance's
   copy of the sum of a function is the sum.                                 *)
LEMMA SumOfInstance ==
    ASSUME NEW f
    PROVE  Simulated!SumFunction(f) = SumFunction(f)
BY DEF Simulated!SumFunction, SumFunction, Simulated!SumFunctionOnSet, SumFunctionOnSet,
       Simulated!FoldFunctionOnSet, FoldFunctionOnSet, Simulated!MapThenFoldSet, MapThenFoldSet

Booked ==
    [coin: Coin, side: {"buy", "sell"}, quantity: Nat, price: Nat, filled: Nat,
     status: {"FILLED", "PARTIALLY_FILLED"}]

SimulatedShape ==
    /\ total \in [Simulated!Currency -> Int]
    /\ filed \in [Id -> Booked \cup {Simulated!None}]

(* What an order holds and what it has moved are whole amounts, and nothing of
   a currency that is neither EUR nor the order's own.                       *)
LEMMA WholeAmounts ==
    ASSUME NEW o \in Booked, NEW c \in Simulated!Currency
    PROVE  /\ Simulated!Held(o, c) \in Int /\ Simulated!Moved(o, c) \in Int
           /\ c \notin {"EUR", o.coin} => Simulated!Held(o, c) = 0 /\ Simulated!Moved(o, c) = 0
<1>1. Unit \in Int /\ Fee \in Int
  BY SimulationAssumption
<1>2. \A q \in Int, p \in Int : Simulated!Cost(q, p) \in Int /\ Simulated!Proceeds(q, p) \in Int
  BY <1>1 DEF Simulated!Cost, Simulated!Proceeds
<1>3. o.quantity - o.filled \in Int /\ o.price \in Int /\ o.filled \in Int /\ -o.filled \in Int
  BY DEF Booked
<1>4. /\ Simulated!Cost(o.quantity - o.filled, o.price) \in Int
      /\ Simulated!Cost(o.filled, o.price) \in Int /\ Simulated!Proceeds(o.filled, o.price) \in Int
  BY <1>2, <1>3
<1>5. Simulated!Held(o, c) \in Int /\ (c \notin {"EUR", o.coin} => Simulated!Held(o, c) = 0)
  BY <1>3, <1>4 DEF Simulated!Held
<1>6. Simulated!Moved(o, c) \in Int /\ (c \notin {"EUR", o.coin} => Simulated!Moved(o, c) = 0)
  BY <1>3, <1>4 DEF Simulated!Moved
<1> QED
  BY <1>5, <1>6

LEMMA OrderIsBooked ==
    ASSUME NEW d \in Simulated!Draft, NEW p \in Price, NEW status \in {"FILLED", "PARTIALLY_FILLED"}
    PROVE  Simulated!Order(d, p, status) \in Booked /\ Simulated!Order(d, p, status) # Simulated!None
<1>1. d.quantity \in Nat /\ d.quantity \div 2 \in Nat /\ p \in Nat
  BY SimulationAssumption DEF Simulated!Draft
<1>2. Simulated!Order(d, p, status) \in Booked
  BY <1>1 DEF Simulated!Order, Simulated!Draft, Booked
<1>3. Simulated!Order(d, p, status).status = status /\ Simulated!None.status = "none"
  BY DEF Simulated!Order, Simulated!None
<1> QED
  BY <1>2, <1>3

AccountInv == SimulatedShape /\ Simulated!Solvent

LEMMA AccountStarts == Simulated!Init => AccountInv
<1> SUFFICES ASSUME Simulated!Init PROVE AccountInv
  OBVIOUS
<1>1. Unit * Opening \in Nat
  <2>1. Unit \in Nat /\ Opening \in Nat
    BY SimulationAssumption
  <2> QED
    BY <2>1
<1>2. SimulatedShape
  BY <1>1 DEF Simulated!Init, SimulatedShape
<1>3. Simulated!OnFile = {}
  BY DEF Simulated!Init, Simulated!OnFile
<1>4. \A f : DOMAIN f = {} => Simulated!SumFunction(f) = 0
  BY SumOfInstance, SumOfNothing DEF SumFunction
<1>5. \A c \in Simulated!Currency :
          /\ Simulated!Reserved(c) = 0
          /\ Simulated!SumFunction([i \in Simulated!OnFile |-> Simulated!Moved(filed[i], c)]) = 0
  BY <1>3, <1>4 DEF Simulated!Reserved
<1>6. Simulated!Solvent
  BY <1>1, <1>5 DEF Simulated!Solvent, Simulated!Init
<1> QED
  BY <1>2, <1>6 DEF AccountInv

(* An order that is settled adds what it holds to the reservations and what it
   moved to the filled amounts; those of the other orders stay.              *)
LEMMA SettleAdds ==
    ASSUME SimulatedShape, NEW i \in Id, filed[i] = Simulated!None, NEW o \in Booked, o # Simulated!None,
           filed' = [filed EXCEPT ![i] = o], NEW c \in Simulated!Currency
    PROVE  /\ Simulated!Reserved(c) \in Int
           /\ Simulated!Reserved(c)' = Simulated!Reserved(c) + Simulated!Held(o, c)
           /\ Simulated!SumFunction([j \in Simulated!OnFile |-> Simulated!Moved(filed[j], c)]) \in Int
           /\ Simulated!SumFunction([j \in Simulated!OnFile |-> Simulated!Moved(filed[j], c)])'
                = Simulated!SumFunction([j \in Simulated!OnFile |-> Simulated!Moved(filed[j], c)])
                      + Simulated!Moved(o, c)
<1> DEFINE S  == Simulated!OnFile
           h  == [j \in S |-> Simulated!Held(filed[j], c)]
           hh == [j \in S' |-> Simulated!Held(filed'[j], c)]
           m  == [j \in S |-> Simulated!Moved(filed[j], c)]
           mm == [j \in S' |-> Simulated!Moved(filed'[j], c)]
<1>1. /\ i \notin S /\ S' = S \cup {i} /\ filed'[i] = o
      /\ \A j \in S : filed[j] \in Booked /\ filed'[j] = filed[j]
  BY DEF Simulated!OnFile, SimulatedShape
<1>2. IsFiniteSet(S)
  BY FS_Subset, SimulationAssumption DEF Simulated!OnFile
<1>3. /\ \A j \in S : h[j] \in Int /\ hh[j] = h[j] /\ m[j] \in Int /\ mm[j] = m[j]
      /\ hh[i] = Simulated!Held(o, c) /\ hh[i] \in Int
      /\ mm[i] = Simulated!Moved(o, c) /\ mm[i] \in Int
  BY <1>1, WholeAmounts
<1>4. DOMAIN h = S /\ DOMAIN hh = S \cup {i} /\ DOMAIN m = S /\ DOMAIN mm = S \cup {i}
  BY <1>1
<1> HIDE DEF S, h, hh, m, mm
<1>5. SumFunction(h) \in Int /\ SumFunction(hh) = SumFunction(h) + hh[i]
  BY <1>1, <1>2, <1>3, <1>4, SumGrows
<1>6. SumFunction(m) \in Int /\ SumFunction(mm) = SumFunction(m) + mm[i]
  BY <1>1, <1>2, <1>3, <1>4, SumGrows
<1>7. Simulated!Reserved(c) = SumFunction(h) /\ Simulated!Reserved(c)' = SumFunction(hh)
  BY SumOfInstance DEF Simulated!Reserved, h, hh, S
<1>8. /\ Simulated!SumFunction([j \in Simulated!OnFile |-> Simulated!Moved(filed[j], c)]) = SumFunction(m)
      /\ Simulated!SumFunction([j \in Simulated!OnFile |-> Simulated!Moved(filed[j], c)])' = SumFunction(mm)
  BY SumOfInstance DEF m, mm, S
<1> QED
  BY <1>3, <1>5, <1>6, <1>7, <1>8

LEMMA SettleKeeps ==
    ASSUME AccountInv, NEW i \in Id, NEW d \in Simulated!Draft, NEW p \in Price,
           NEW status \in {"FILLED", "PARTIALLY_FILLED"}, Simulated!Settle(i, d, p, status)
    PROVE  AccountInv'
<1> DEFINE o == Simulated!Order(d, p, status)
<1>1. o \in Booked /\ o # Simulated!None
  BY OrderIsBooked
<1>2. /\ filed[i] = Simulated!None /\ Simulated!Affordable(o)
      /\ filed' = [filed EXCEPT ![i] = o]
      /\ total' = [c \in Simulated!Currency |-> total[c] + Simulated!Moved(o, c)]
  BY DEF Simulated!Settle
<1> HIDE DEF o
<1>3. SimulatedShape'
  <2>1. total' \in [Simulated!Currency -> Int]
    BY <1>1, <1>2, WholeAmounts DEF AccountInv, SimulatedShape
  <2>2. filed' \in [Id -> Booked \cup {Simulated!None}]
    BY <1>1, <1>2 DEF AccountInv, SimulatedShape
  <2> QED
    BY <2>1, <2>2 DEF SimulatedShape
<1>4. ASSUME NEW c \in Simulated!Currency
      PROVE  /\ total'[c] >= Simulated!Reserved(c)'
             /\ total'[c] = (IF c = "EUR" THEN Unit * Opening ELSE 0)
                    + Simulated!SumFunction([j \in Simulated!OnFile |-> Simulated!Moved(filed[j], c)])'
  <2> DEFINE R  == Simulated!Reserved(c)
             M  == Simulated!SumFunction([j \in Simulated!OnFile |-> Simulated!Moved(filed[j], c)])
             H  == Simulated!Held(o, c)
             V  == Simulated!Moved(o, c)
             op == IF c = "EUR" THEN Unit * Opening ELSE 0
  <2>1. R \in Int /\ R' = R + H /\ M \in Int /\ M' = M + V
    BY <1>1, <1>2, SettleAdds DEF AccountInv
  <2>2. H \in Int /\ V \in Int /\ (c \notin {"EUR", o.coin} => H = 0 /\ V = 0)
    BY <1>1, WholeAmounts
  <2>3. total[c] \in Int /\ total'[c] = total[c] + V
    BY <1>2 DEF AccountInv, SimulatedShape
  <2>4. total[c] >= R /\ total[c] = op + M
    BY DEF AccountInv, Simulated!Solvent
  <2>5. c \in {"EUR", o.coin} => total[c] + V - R - H >= 0
    BY <1>2 DEF Simulated!Affordable
  <2>6. op \in Int
    BY SimulationAssumption
  <2> HIDE DEF R, M, H, V, op
  <2>7. total'[c] >= R' /\ total'[c] = op + M'
    BY <2>1, <2>2, <2>3, <2>4, <2>5, <2>6
  <2> QED
    BY <2>7 DEF R, M, op
<1>5. Simulated!Solvent'
  BY <1>4 DEF Simulated!Solvent
<1> QED
  BY <1>3, <1>5 DEF AccountInv

(* No simulated order spends what another one holds, and the totals are what
   the orders on file have made of the opening balance.                      *)
THEOREM SimulationIsSolvent == Simulated!Spec => []Solvent
<1>1. Simulated!Init => AccountInv
  BY AccountStarts
<1>2. AccountInv /\ [Simulated!Next]_(Simulated!vars) => AccountInv'
  <2> SUFFICES ASSUME AccountInv, [Simulated!Next]_(Simulated!vars) PROVE AccountInv'
    OBVIOUS
  <2>1. CASE Simulated!Next
    BY <2>1, SettleKeeps DEF Simulated!Next
  <2>2. CASE UNCHANGED Simulated!vars
    BY <2>2 DEF Simulated!vars, AccountInv, SimulatedShape, Simulated!Solvent, Simulated!Reserved,
                Simulated!OnFile
  <2> QED
    BY <2>1, <2>2
<1>3. AccountInv => Solvent
  BY DEF AccountInv, Solvent
<1> QED
  BY <1>1, <1>2, <1>3, PTL DEF Simulated!Spec

-----------------------------------------------------------------------------
(* SourceArchive: windows and pages over a list that moves.                  *)

Listing == 1..Transactions
Made    == {i \in Listing : listing[i] # Archive!NotMade}

ListingType ==
    /\ tick \in Nat /\ tick >= 1
    /\ listing \in [Listing -> [at: Nat, shown: Nat]]
    /\ \A i \in Made : listing[i].at \in 1..tick /\ listing[i].shown <= listing[i].at + Lag

State == [from: Nat, start: Nat, end: Nat, cursor: Nat, cursors: SUBSET Nat,
          scanned: Int, read: Int, error: BOOLEAN]

(* What was made in a span of time, up to an overlap before its end, is filed. *)
FiledUpTo(from, end) == \A i \in Made : listing[i].at \in from..(end - Overlap) => i \in stored

(* A window begins where nothing was skipped before it, and what it has not
   filed is behind its cursor. *)
Sure(s) ==
    /\ s \in State /\ s.from <= s.start /\ s.end <= tick
    /\ s.cursor # 0 => s.cursor \in Made
    /\ s.scanned >= -1 /\ s.scanned <= tick
    /\ s.scanned >= 0 => FiledUpTo(s.from, s.scanned)
    /\ \A i \in Made : listing[i].at \in s.start..(s.end - Overlap) =>
          i \in stored \/ s.cursor = 0 \/ Archive!Before(s.cursor, i)
    /\ s.scanned < 0 \/ s.cursor # 0 =>
          s.start = s.from \/ (s.scanned >= 0 /\ s.start <= s.scanned - Overlap)

(* ... as it is when a page of it is read. *)
UnderWay(s) ==
    Sure(s) /\ (s.start = s.from \/ (s.scanned >= 0 /\ s.start <= s.scanned - Overlap))

ArchiveInv == ListingType /\ (archive # <<>> => archive = <<archive[1]>> /\ Sure(archive[1]))

-----------------------------------------------------------------------------
(* Pages of transactions in the order of the list.                           *)

LEMMA BeforeOrders ==
    ASSUME ListingType
    PROVE  /\ \A i \in Made : ~ Archive!Before(i, i)
           /\ \A i, j \in Made : i = j \/ Archive!Before(i, j) \/ Archive!Before(j, i)
           /\ \A i, j, k \in Made : Archive!Before(i, j) /\ Archive!Before(j, k) => Archive!Before(i, k)
<1>1. \A i \in Made : i \in Int /\ listing[i].at \in Int
  BY ArchiveAssumption DEF ListingType, Made, Listing
<1> QED
  BY <1>1 DEF Archive!Before

LEMMA AheadIsSmaller ==
    ASSUME ListingType, NEW rest \in SUBSET Made, NEW i \in rest, NEW j \in rest, Archive!Before(i, j)
    PROVE  /\ Archive!Ahead(rest, i) \subseteq Archive!Ahead(rest, j)
           /\ i \in Archive!Ahead(rest, j) /\ i \notin Archive!Ahead(rest, i)
BY BeforeOrders DEF Archive!Ahead

LEMMA RestIsFinite ==
    ASSUME NEW rest \in SUBSET Made
    PROVE  /\ IsFiniteSet(rest) /\ Cardinality(rest) \in Nat
           /\ \A s \in SUBSET rest : IsFiniteSet(s) /\ Cardinality(s) \in Nat /\ Cardinality(s) <= Cardinality(rest)
<1>1. IsFiniteSet(Listing)
  BY FS_Interval, ArchiveAssumption DEF Listing
<1>2. IsFiniteSet(rest)
  BY <1>1, FS_Subset DEF Made
<1>3. ASSUME NEW s \in SUBSET rest
      PROVE  IsFiniteSet(s) /\ Cardinality(s) \in Nat /\ Cardinality(s) <= Cardinality(rest)
  BY <1>2, FS_Subset, FS_CardinalityType
<1> QED
  BY <1>2, <1>3, FS_CardinalityType

LEMMA SizeOfInstance == ASSUME NEW S PROVE Archive!Cardinality(S) = Cardinality(S)
BY DEF Archive!Cardinality, Cardinality

(* What a page leaves out is behind all that it has.                         *)
LEMMA PageComesFirst ==
    ASSUME ListingType, NEW rest \in SUBSET Made, NEW i \in Archive!Page(rest), NEW j \in rest \ Archive!Page(rest)
    PROVE  Archive!Before(i, j)
<1>1. i \in rest /\ i # j /\ i \in Made /\ j \in Made
  BY DEF Archive!Page
<1>2. ASSUME Archive!Before(j, i) PROVE FALSE
  <2>1. Archive!Ahead(rest, j) \subseteq Archive!Ahead(rest, i)
    BY <1>1, <1>2, AheadIsSmaller
  <2> DEFINE mine == Archive!Ahead(rest, i)
             its  == Archive!Ahead(rest, j)
  <2>2. mine \in SUBSET rest
    BY DEF Archive!Ahead
  <2>3. Cardinality(mine) < PageSize /\ ~ (Cardinality(its) < PageSize)
    BY SizeOfInstance DEF Archive!Page
  <2> HIDE DEF mine, its
  <2>4. IsFiniteSet(mine) /\ Cardinality(mine) \in Nat
    BY <2>2, RestIsFinite
  <2>5. its \subseteq mine
    BY <2>1 DEF mine, its
  <2>6. Cardinality(its) \in Nat /\ Cardinality(its) <= Cardinality(mine)
    BY <2>4, <2>5, FS_Subset, FS_CardinalityType
  <2> QED
    BY <2>3, <2>4, <2>6, ArchiveAssumption
<1> QED
  BY <1>1, <1>2, BeforeOrders

(* A page is the rest when that is no longer, and ends with one of its own
   when it is. *)
LEMMA PageEnds ==
    ASSUME ListingType, NEW rest \in SUBSET Made
    PROVE  /\ Archive!Following(rest) = 0 => Archive!Page(rest) = rest
           /\ Archive!Following(rest) # 0 => Archive!Following(rest) \in Archive!Page(rest)
<1> DEFINE page == Archive!Page(rest)
           ahead(i) == Archive!Ahead(rest, i)
<1>0. IsFiniteSet(rest)
  BY RestIsFinite
<1>1. \A i \in rest : ahead(i) \in SUBSET rest
  BY DEF Archive!Ahead
<1>2. page \subseteq rest /\ \A i \in rest : i \in page <=> Cardinality(ahead(i)) < PageSize
  BY SizeOfInstance DEF Archive!Page
<1>3. CASE Cardinality(rest) > PageSize
  <2>1. rest # {}
    BY <1>3, FS_EmptySet, ArchiveAssumption
  <2>2. page # {}
    <3> DEFINE F == {ahead(i) : i \in rest}
    <3>1. F \subseteq SUBSET rest /\ F # {}
      BY <1>1, <2>1
    <3>2. PICK s \in F : \A t \in F : t \subseteq s => t = s
      <4> HIDE DEF F
      <4> QED
        BY <3>1, <1>0, SmallestSet
    <3>3. PICK i \in rest : s = ahead(i)
      BY <3>2
    <3>4. ASSUME NEW j \in ahead(i) PROVE FALSE
      <4>1. j \in rest /\ Archive!Before(j, i)
        BY <3>4 DEF Archive!Ahead
      <4>2. ahead(j) \subseteq ahead(i) /\ j \notin ahead(j)
        BY <3>3, <4>1, AheadIsSmaller
      <4>3. ahead(j) \in F
        BY <4>1
      <4>4. ahead(j) = ahead(i)
        BY <3>2, <3>3, <4>2, <4>3
      <4> QED
        BY <3>4, <4>2, <4>4
    <3>5. ahead(i) = {}
      BY <3>4
    <3>6. Cardinality(ahead(i)) = 0
      BY <3>5, FS_EmptySet
    <3> QED
      BY <1>2, <3>3, <3>6, ArchiveAssumption
  <2>3. \E i \in page : page \ {i} \subseteq ahead(i)
    <3> DEFINE F == {rest \ ahead(i) : i \in page}
    <3>1. F \subseteq SUBSET rest /\ F # {}
      BY <2>2
    <3>2. PICK s \in F : \A t \in F : t \subseteq s => t = s
      <4> HIDE DEF F
      <4> QED
        BY <3>1, <1>0, SmallestSet
    <3>3. PICK i \in page : s = rest \ ahead(i)
      BY <3>2
    <3>4. ASSUME NEW j \in page \ {i}, j \notin ahead(i) PROVE FALSE
      <4>1. i \in rest /\ j \in rest /\ i \in Made /\ j \in Made
        BY <1>2, <3>3, <3>4
      <4>2. Archive!Before(i, j)
        BY <3>4, <4>1, BeforeOrders DEF Archive!Ahead
      <4>3. ahead(i) \subseteq ahead(j) /\ i \in ahead(j) /\ i \notin ahead(i)
        BY <4>1, <4>2, AheadIsSmaller
      <4>4. rest \ ahead(j) \in F /\ rest \ ahead(j) \subseteq rest \ ahead(i)
        BY <3>4, <4>3
      <4>5. rest \ ahead(j) = rest \ ahead(i)
        BY <3>2, <3>3, <4>4
      <4> QED
        BY <4>1, <4>3, <4>5
    <3> QED
      BY <3>3, <3>4
  <2>4. Archive!Following(rest) = CHOOSE i \in page : page \ {i} \subseteq ahead(i)
    BY <1>3, SizeOfInstance DEF Archive!Following
  <2>5. Archive!Following(rest) \in page
    <3> HIDE DEF page, ahead
    <3> QED
      BY <2>3, <2>4
  <2>6. 0 \notin page
    BY <1>2 DEF Made, Listing
  <2> QED
    BY <2>5, <2>6
<1>4. CASE ~ (Cardinality(rest) > PageSize)
  <2>1. Archive!Following(rest) = 0
    BY <1>4, SizeOfInstance DEF Archive!Following
  <2>2. ASSUME NEW i \in rest PROVE Cardinality(ahead(i)) < PageSize
    <3>1. ahead(i) \subseteq rest \ {i}
      BY BeforeOrders DEF Archive!Ahead
    <3>2. IsFiniteSet(rest) /\ Cardinality(rest) \in Nat
      BY RestIsFinite
    <3>3. IsFiniteSet(rest \ {i}) /\ Cardinality(rest \ {i}) = Cardinality(rest) - 1
      BY <3>2, FS_RemoveElement
    <3> DEFINE its  == ahead(i)
               most == rest \ {i}
    <3> HIDE DEF its, most
    <3>4. Cardinality(its) <= Cardinality(most) /\ Cardinality(its) \in Nat /\ Cardinality(most) \in Nat
      BY <3>1, <3>3, FS_Subset, FS_CardinalityType DEF its, most
    <3> QED
      BY <1>4, <3>2, <3>3, <3>4, ArchiveAssumption DEF its, most
  <2> QED
    BY <1>2, <2>1, <2>2
<1> QED
  BY <1>3, <1>4, RestIsFinite, ArchiveAssumption

-----------------------------------------------------------------------------
LEMMA ArchiveStarts == ASSUME Archive!Init PROVE ArchiveInv
<1>1. listing = [i \in Listing |-> Archive!NotMade] /\ tick = 1 /\ archive = <<>>
  BY DEF Archive!Init, Listing
<1>2. Made = {}
  BY <1>1 DEF Made
<1>3. ListingType
  BY <1>1, <1>2 DEF ListingType, Archive!NotMade
<1> QED
  BY <1>1, <1>3 DEF ArchiveInv

(* The list grows, and time passes: what is new is later than every window.  *)
LEMMA ListGrows ==
    ASSUME ArchiveInv, UNCHANGED <<archive, stored, order>>, ListingType',
           tick' \in Nat, tick <= tick', Made \subseteq Made',
           \A i \in Made : listing'[i] = listing[i],
           \A i \in Made' \ Made : listing'[i].at \in Nat /\ listing'[i].at >= tick
    PROVE  ArchiveInv'
<1> SUFFICES ASSUME archive # <<>> PROVE Sure(archive[1])'
  BY DEF ArchiveInv
<1>0. PICK s : s = archive[1]
  OBVIOUS
<1>1. Sure(s) /\ s = archive'[1] /\ tick \in Nat /\ Overlap \in Nat /\ Overlap > 0
  BY <1>0, ArchiveAssumption DEF ArchiveInv, ListingType
<1>2. s \in State /\ s.end <= tick /\ s.scanned <= tick
  BY <1>1 DEF Sure
<1>3. s.end \in Int /\ s.scanned \in Int /\ s.start \in Int /\ s.from \in Int
  BY <1>2 DEF State
<1>4. ASSUME NEW i \in Made', NEW first \in Int, NEW end \in Int, end <= tick,
             listing'[i].at \in first..(end - Overlap)
      PROVE  i \in Made /\ listing'[i] = listing[i]
  BY <1>1, <1>4
<1>5. s.scanned >= 0 => FiledUpTo(s.from, s.scanned)'
  BY <1>1, <1>2, <1>3, <1>4 DEF Sure, FiledUpTo
<1>6. \A i, j \in Made : Archive!Before(i, j)' <=> Archive!Before(i, j)
  BY DEF Archive!Before
<1>7. \A i \in Made' : listing'[i].at \in s.start..(s.end - Overlap) =>
          i \in stored \/ s.cursor = 0 \/ Archive!Before(s.cursor, i)'
  <2> SUFFICES ASSUME NEW i \in Made', listing'[i].at \in s.start..(s.end - Overlap), s.cursor # 0, i \notin stored
               PROVE  Archive!Before(s.cursor, i)'
    OBVIOUS
  <2>1. i \in Made /\ listing'[i] = listing[i]
    BY <1>2, <1>3, <1>4
  <2>2. s.cursor \in Made /\ Archive!Before(s.cursor, i)
    BY <1>1, <2>1 DEF Sure
  <2> QED
    BY <1>6, <2>1, <2>2
<1>8. s.cursor # 0 => s.cursor \in Made'
  BY <1>1 DEF Sure
<1>9. s.end <= tick' /\ s.scanned <= tick'
  BY <1>1, <1>2, <1>3
<1> QED
  BY <1>1, <1>5, <1>7, <1>8, <1>9 DEF Sure

(* The saved state is the first one, or the one that was saved.              *)
LEMMA SavedIsSure == ASSUME ArchiveInv PROVE Sure(Archive!Saved)
<1>1. CASE archive # <<>>
  BY <1>1 DEF ArchiveInv, Archive!Saved
<1>2. CASE archive = <<>>
  <2> DEFINE first == IF tick > Span THEN tick - Span ELSE 0
             s     == [from |-> first, start |-> first, end |-> tick, cursor |-> 0, cursors |-> {},
                       scanned |-> -1, read |-> -1, error |-> FALSE]
  <2>1. Archive!Saved = s
    BY <1>2 DEF Archive!Saved
  <2>2. first \in Nat /\ tick \in Nat
    BY ArchiveAssumption DEF ArchiveInv, ListingType
  <2> HIDE DEF first
  <2>3. s \in State /\ s.start = s.from /\ s.end = tick /\ s.cursor = 0 /\ s.scanned = -1 /\ s.from = first
    BY <2>2 DEF State
  <2> HIDE DEF s
  <2> QED
    BY <2>1, <2>2, <2>3 DEF Sure
<1> QED
  BY <1>1, <1>2

LEMMA FailureIsSure == ASSUME NEW s, Sure(s) PROVE Sure(Archive!Failed(s))
<1> DEFINE t == Archive!Failed(s)
<1>1. s \in State
  BY DEF Sure
<1>2. /\ t \in State /\ t.from = s.from /\ t.start = s.start /\ t.end = s.end /\ t.cursor = s.cursor
      /\ t.scanned = s.scanned
  BY <1>1 DEF State, Archive!Failed
<1> HIDE DEF t
<1>3. Sure(t)
  BY <1>2 DEF Sure
<1> QED
  BY <1>3 DEF t

(* A window that is opened begins within what the last one has filed.        *)
LEMMA OpenedIsUnderWay == ASSUME ArchiveInv, NEW s, Sure(s) PROVE UnderWay(Archive!Opened(s))
<1>1. s \in State
  BY DEF Sure
<1>2. CASE ~ Archive!WindowDone(s)
  <2>1. Archive!Opened(s) = s
    BY <1>2 DEF Archive!Opened
  <2>2. s.scanned < 0 \/ s.cursor # 0
    BY <1>1, <1>2 DEF Archive!WindowDone, State
  <2> QED
    BY <2>1, <2>2 DEF UnderWay, Sure
<1>3. CASE Archive!WindowDone(s)
  <2>1. s.scanned >= 0 /\ s.cursor = 0
    BY <1>3 DEF Archive!WindowDone
  <2> DEFINE start == Archive!NextStart(s)
             end   == IF start + Span < tick THEN start + Span ELSE tick
             t     == [s EXCEPT !.start = start, !.cursors = {}, !.end = end]
  <2>2. Archive!Opened(s) = t
    BY <1>3 DEF Archive!Opened
  <2>3. /\ s.scanned \in Int /\ s.from \in Nat /\ Overlap \in Nat /\ Span \in Nat /\ tick \in Nat
    BY <1>1, ArchiveAssumption DEF State, ArchiveInv, ListingType
  <2>4. start \in Nat /\ s.from <= start /\ (start = s.from \/ start <= s.scanned - Overlap)
    BY <2>3 DEF Archive!NextStart
  <2> HIDE DEF start
  <2>5. end \in Nat /\ end <= tick
    BY <2>3, <2>4
  <2> HIDE DEF end
  <2>6. /\ t \in State /\ t.from = s.from /\ t.start = start /\ t.end = end /\ t.cursor = s.cursor
        /\ t.scanned = s.scanned
    <3> DEFINE none == {}
               u    == [s EXCEPT !.start = start, !.cursors = none]
    <3>1. none \in SUBSET Nat /\ t = [u EXCEPT !.end = end]
      BY <1>1 DEF State
    <3> HIDE DEF none, t
    <3>2. /\ u \in State /\ u.from = s.from /\ u.start = start /\ u.cursor = s.cursor /\ u.scanned = s.scanned
      BY <1>1, <2>4, <3>1 DEF State
    <3> HIDE DEF u
    <3> QED
      BY <2>5, <3>1, <3>2 DEF State
  <2> HIDE DEF t
  <2>7. UnderWay(t)
    BY <2>1, <2>4, <2>5, <2>6 DEF UnderWay, Sure
  <2> QED
    BY <2>2, <2>7
<1> QED
  BY <1>2, <1>3

(* A page is filed, of a reading that is not behind the window.              *)
LEMMA PageIsFiled ==
    ASSUME ArchiveInv, NEW s, UnderWay(s), NEW read \in Nat, Archive!Trusted(s, read),
           NEW rest, rest = Archive!Rest(s.start, s.end, s.cursor, read),
           NEW next, next = Archive!Following(rest),
           stored' = stored \cup Archive!Page(rest), UNCHANGED <<tick, listing, order>>
    PROVE  Sure(Archive!Advanced(s, next, read))'
<1> DEFINE t == Archive!Advanced(s, next, read)
<1>1. /\ s \in State /\ s.from <= s.start /\ s.end <= tick
      /\ ListingType /\ Lag \in Nat /\ Overlap \in Nat /\ Lag <= Overlap
  BY ArchiveAssumption DEF UnderWay, Sure, ArchiveInv
<1>2. rest \in SUBSET Made
  BY DEF Archive!Rest, Made, Listing
<1>3. /\ Archive!Page(rest) \subseteq rest
      /\ next = 0 => Archive!Page(rest) = rest
      /\ next # 0 => next \in Archive!Page(rest)
  BY <1>1, <1>2, PageEnds DEF Archive!Page
<1>4. \A i \in rest : i \in stored' \/ (next # 0 /\ Archive!Before(next, i))
  <2> SUFFICES ASSUME NEW i \in rest, i \notin Archive!Page(rest)
               PROVE  next # 0 /\ Archive!Before(next, i)
    OBVIOUS
  <2>1. next # 0
    BY <1>3
  <2> QED
    BY <1>1, <1>2, <1>3, <2>1, PageComesFirst
<1>5. next \in Nat /\ (next # 0 => next \in Made)
  BY <1>2, <1>3 DEF Made, Listing
<1>6. ASSUME NEW i \in Made, listing[i].at \in s.start..(s.end - Overlap)
      PROVE  i \in stored' \/ (next # 0 /\ Archive!Before(next, i))
  <2>1. i \in stored \/ s.cursor = 0 \/ Archive!Before(s.cursor, i)
    BY <1>6 DEF UnderWay, Sure
  <2>2. i \in stored \/ i \in rest
    <3>1. read >= s.end
      BY DEF Archive!Trusted
    <3>2. /\ listing[i].at \in Nat /\ listing[i].shown \in Nat /\ listing[i].shown <= listing[i].at + Lag
          /\ s.end \in Nat /\ s.start \in Nat
      BY <1>1 DEF ListingType, Made, State
    <3>3. listing[i].shown <= read /\ listing[i].at \in s.start..s.end
      BY <1>1, <1>6, <3>1, <3>2
    <3>4. i \in Listing /\ listing[i] # Archive!NotMade
      BY DEF Made
    <3> QED
      BY <2>1, <3>3, <3>4 DEF Archive!Rest, Listing
  <2> QED
    BY <1>4, <2>2
<1> DEFINE cursors == IF next = 0 THEN {} ELSE IF s.cursor = 0 THEN s.cursors ELSE s.cursors \cup {s.cursor}
           scanned == IF next = 0 THEN s.end ELSE s.scanned
<1>7. cursors \in SUBSET Nat /\ scanned \in Int
  BY <1>1 DEF State
<1>8. t = [s EXCEPT !.cursors = cursors, !.cursor = next, !.scanned = scanned, !.read = read, !.error = FALSE]
  BY <1>1 DEF Archive!Advanced, State
<1> HIDE DEF cursors, scanned, t
<1>9. /\ t \in State /\ t.from = s.from /\ t.start = s.start /\ t.end = s.end /\ t.cursor = next
      /\ t.scanned = scanned
  <2> DEFINE no == FALSE
             u  == [s EXCEPT !.cursors = cursors, !.cursor = next, !.scanned = scanned]
  <2>1. no \in BOOLEAN /\ t = [u EXCEPT !.read = read, !.error = no]
    BY <1>1, <1>8 DEF State
  <2> HIDE DEF no
  <2>2. /\ u \in State /\ u.from = s.from /\ u.start = s.start /\ u.end = s.end /\ u.cursor = next
        /\ u.scanned = scanned
    BY <1>1, <1>5, <1>7 DEF State
  <2> HIDE DEF u
  <2>3. t \in State
    <3> DEFINE w == [u EXCEPT !.read = read]
    <3>1. w \in State /\ t = [w EXCEPT !.error = no]
      BY <2>1, <2>2 DEF State
    <3> HIDE DEF w, t
    <3>2. t \in State
      BY <2>1, <3>1 DEF State
    <3> QED
      BY <3>2
  <2>4. /\ t.from = u.from /\ t.start = u.start /\ t.end = u.end /\ t.cursor = u.cursor
        /\ t.scanned = u.scanned
    BY <2>1, <2>2 DEF State
  <2> QED
    BY <2>2, <2>3, <2>4
<1>10. /\ s.scanned >= -1 /\ s.scanned <= tick
       /\ s.scanned >= 0 => FiledUpTo(s.from, s.scanned)
       /\ s.start = s.from \/ (s.scanned >= 0 /\ s.start <= s.scanned - Overlap)
  BY DEF UnderWay, Sure
<1>11. scanned >= -1 /\ scanned <= tick
  BY <1>1, <1>10 DEF scanned, State
<1>15. Made' = Made /\ \A i, j \in Made : Archive!Before(i, j)' <=> Archive!Before(i, j)
  BY DEF Made, Archive!NotMade, Archive!Before
<1>12. scanned >= 0 => FiledUpTo(s.from, scanned)'
  <2> SUFFICES ASSUME scanned >= 0, NEW i \in Made, listing[i].at \in s.from..(scanned - Overlap)
               PROVE  i \in stored'
    BY <1>15 DEF FiledUpTo
  <2>1. CASE next # 0
    BY <1>10, <2>1 DEF scanned, FiledUpTo
  <2>2. CASE next = 0
    <3>1. listing[i].at \in Nat /\ s.start \in Nat /\ s.from \in Nat /\ s.scanned \in Int /\ s.end \in Nat
      BY <1>1 DEF ListingType, Made, State
    <3>2. CASE listing[i].at >= s.start
      <4>1. listing[i].at \in s.start..(s.end - Overlap)
        BY <2>2, <3>1, <3>2 DEF scanned
      <4> QED
        BY <1>6, <2>2, <4>1
    <3>3. CASE ~ (listing[i].at >= s.start)
      <4>1. s.scanned >= 0 /\ listing[i].at \in s.from..(s.scanned - Overlap)
        BY <1>1, <1>10, <3>1, <3>3
      <4> QED
        BY <1>10, <4>1 DEF FiledUpTo
    <3> QED
      BY <3>2, <3>3
  <2> QED
    BY <2>1, <2>2
<1>13. next # 0 => s.start = s.from \/ (scanned >= 0 /\ s.start <= scanned - Overlap)
  BY <1>10 DEF scanned
<1>14. scanned < 0 => next # 0
  BY <1>1 DEF scanned, State
<1>16. \A i \in Made : listing[i].at \in s.start..(s.end - Overlap) =>
          i \in stored' \/ next = 0 \/ Archive!Before(next, i)'
  BY <1>5, <1>6, <1>15
<1> QED
  BY <1>1, <1>5, <1>9, <1>11, <1>12, <1>13, <1>14, <1>15, <1>16 DEF Sure, t

LEMMA SyncKeeps == ASSUME ArchiveInv, Archive!Sync PROVE ArchiveInv'
<1>1. Sure(Archive!Saved) /\ UnderWay(Archive!Opened(Archive!Saved))
  BY SavedIsSure, OpenedIsUnderWay
<1>2. PICK s, saved : s = Archive!Opened(saved) /\ saved = Archive!Saved
  OBVIOUS
<1>3. UNCHANGED <<tick, listing, order>>
  BY DEF Archive!Sync
<1>4. PICK read, rest :
        /\ read \in {tick - 1, tick}
        /\ rest = Archive!Rest(s.start, s.end, s.cursor, read)
        /\ \E next \in {Archive!Following(rest)} \cup ((s.cursors \cup {s.cursor}) \ {0}) :
             IF Archive!Trusted(s, read) /\ ~ Archive!Repeated(s, next)
             THEN /\ archive' = <<Archive!Advanced(s, next, read)>>
                  /\ stored' = stored \cup Archive!Page(rest)
             ELSE /\ archive' = <<Archive!Failed(saved)>>
                  /\ UNCHANGED stored
  BY <1>2 DEF Archive!Sync
<1>5. PICK next \in {Archive!Following(rest)} \cup ((s.cursors \cup {s.cursor}) \ {0}) :
             IF Archive!Trusted(s, read) /\ ~ Archive!Repeated(s, next)
             THEN /\ archive' = <<Archive!Advanced(s, next, read)>>
                  /\ stored' = stored \cup Archive!Page(rest)
             ELSE /\ archive' = <<Archive!Failed(saved)>>
                  /\ UNCHANGED stored
  BY <1>4
<1>6. ListingType'
  BY <1>3 DEF ArchiveInv, ListingType, Made, Archive!NotMade
<1>7. CASE Archive!Trusted(s, read) /\ ~ Archive!Repeated(s, next)
  <2>1. next = Archive!Following(rest)
    BY <1>5, <1>7 DEF Archive!Repeated
  <2>2. read \in Nat
    BY <1>4 DEF ArchiveInv, ListingType
  <2>3. UnderWay(s) /\ stored' = stored \cup Archive!Page(rest)
    BY <1>1, <1>2, <1>5, <1>7
  <2>4. Sure(Archive!Advanced(s, next, read))'
    BY <1>3, <1>4, <1>7, <2>1, <2>2, <2>3, PageIsFiled
  <2>5. archive' = <<Archive!Advanced(s, next, read)>>
    BY <1>5, <1>7
  <2>6. PICK t : t = Archive!Advanced(s, next, read)
    OBVIOUS
  <2>7. Sure(t)' /\ archive' = <<t>> /\ archive'[1] = t
    BY <2>4, <2>5, <2>6
  <2> QED
    BY <1>6, <2>7 DEF ArchiveInv
<1>8. CASE ~ (Archive!Trusted(s, read) /\ ~ Archive!Repeated(s, next))
  <2>1. PICK t : t = Archive!Failed(saved)
    OBVIOUS
  <2>2. archive' = <<t>> /\ archive'[1] = t /\ UNCHANGED stored
    BY <1>5, <1>8, <2>1
  <2>3. Sure(t)
    BY <1>1, <1>2, <2>1, FailureIsSure
  <2>4. Sure(t)'
    BY <1>3, <2>2, <2>3 DEF Sure, FiledUpTo, Made, Archive!NotMade, Archive!Before
  <2> QED
    BY <1>6, <2>2, <2>4 DEF ArchiveInv
<1> QED
  BY <1>7, <1>8

LEMMA ReadFailsKeeps == ASSUME ArchiveInv, Archive!ReadFails PROVE ArchiveInv'
<1>1. UNCHANGED <<tick, listing, order, stored>>
  BY DEF Archive!ReadFails
<1>2. PICK t : t = Archive!Failed(Archive!Saved)
  OBVIOUS
<1>3. Sure(t)
  BY <1>2, SavedIsSure, FailureIsSure
<1>4. archive' = <<t>> /\ archive'[1] = t
  BY <1>2 DEF Archive!ReadFails
<1>5. Sure(t)'
  BY <1>1, <1>3 DEF Sure, FiledUpTo, Made, Archive!NotMade, Archive!Before
<1>6. ListingType'
  BY <1>1 DEF ArchiveInv, ListingType, Made, Archive!NotMade
<1> QED
  BY <1>4, <1>5, <1>6 DEF ArchiveInv

LEMMA MakeKeeps == ASSUME ArchiveInv, NEW i \in Listing, Archive!Make(i) PROVE ArchiveInv'
<1>1. PICK late \in 0..Lag : listing' = [listing EXCEPT ![i] = [at |-> tick, shown |-> tick + late]]
  BY DEF Archive!Make
<1>2. /\ listing[i] = Archive!NotMade /\ UNCHANGED <<tick, order, archive, stored>>
      /\ tick \in Nat /\ tick >= 1 /\ Lag \in Nat /\ late \in Nat /\ late <= Lag
      /\ listing \in [Listing -> [at: Nat, shown: Nat]]
  BY ArchiveAssumption DEF Archive!Make, ArchiveInv, ListingType
<1> DEFINE new == [at |-> tick, shown |-> tick + late]
<1>3. new \in [at: Nat, shown: Nat] /\ new.at = tick /\ new.shown = tick + late /\ new # Archive!NotMade
  BY <1>2 DEF Archive!NotMade
<1> HIDE DEF new
<1>4. /\ listing' \in [Listing -> [at: Nat, shown: Nat]] /\ listing'[i] = new
      /\ \A j \in Listing \ {i} : listing'[j] = listing[j]
  BY <1>1, <1>2, <1>3 DEF new
<1>5. Made' = Made \cup {i} /\ i \notin Made
  BY <1>2, <1>3, <1>4 DEF Made, Archive!NotMade
<1>6. \A j \in Made : listing'[j] = listing[j]
  BY <1>4, <1>5 DEF Made
<1>7. ListingType'
  BY <1>2, <1>3, <1>4, <1>5, <1>6 DEF ArchiveInv, ListingType
<1>8. \A j \in Made' \ Made : listing'[j].at \in Nat /\ listing'[j].at >= tick
  BY <1>2, <1>3, <1>4, <1>5
<1> QED
  BY <1>2, <1>5, <1>6, <1>7, <1>8, ListGrows

LEMMA ClockKeeps ==
    ASSUME ArchiveInv, UNCHANGED <<listing, order, archive, stored>>, tick' \in Nat, tick <= tick'
    PROVE  ArchiveInv'
<1>1. Made' = Made
  BY DEF Made, Archive!NotMade
<1>2. ListingType'
  <2>1. \A i \in Made : listing[i].at \in 1..tick' /\ tick \in Nat
    BY DEF ArchiveInv, ListingType
  <2> QED
    BY <1>1, <2>1 DEF ArchiveInv, ListingType
<1> QED
  BY <1>1, <1>2, ListGrows

LEMMA ArchiveStep == ASSUME ArchiveInv, [Archive!Next]_(Archive!vars) PROVE ArchiveInv'
<1>1. tick \in Nat
  BY DEF ArchiveInv, ListingType
<1>2. CASE UNCHANGED Archive!vars
  BY <1>1, <1>2, ClockKeeps DEF Archive!vars
<1>3. CASE Archive!Tick
  <2>1. tick' = tick + 1 /\ UNCHANGED <<listing, order, archive, stored>>
    BY <1>3 DEF Archive!Tick
  <2> QED
    BY <1>1, <2>1, ClockKeeps
<1>4. CASE \E i \in Listing : Archive!Make(i)
  BY <1>4, MakeKeeps
<1>5. CASE Archive!Sync
  BY <1>5, SyncKeeps
<1>6. CASE Archive!ReadFails
  BY <1>6, ReadFailsKeeps
<1> QED
  BY <1>2, <1>3, <1>4, <1>5, <1>6 DEF Archive!Next, Listing

(* However late the list shows transactions within the overlap, however long
   the pages and windows, and whatever pages fail, lie behind or repeat: what
   was made an overlap before the point scanned to is filed.                 *)
THEOREM ArchiveSkipsNothing == Archive!Spec => []NothingSkipped
<1>1. ArchiveInv => NothingSkipped
  <2> SUFFICES ASSUME ArchiveInv, archive # <<>>, archive[1].scanned >= 0,
                      NEW i \in Listing, listing[i] # Archive!NotMade,
                      listing[i].at \in archive[1].from..(archive[1].scanned - Overlap)
               PROVE  i \in stored
    BY DEF NothingSkipped, Archive!NothingSkipped, Listing
  <2> QED
    BY DEF ArchiveInv, Sure, FiledUpTo, Made
<1> QED
  BY <1>1, ArchiveStarts, ArchiveStep, PTL DEF Archive!Spec

-----------------------------------------------------------------------------
(* SourceLedger: refreshes do not unwrite history.                           *)

RowShape(w) == DOMAIN w = {"checkedAt", "error", "anchor", "observations", "known"}

RefreshShape(s) ==
    /\ DOMAIN s = {"stage", "base", "at", "held", "records", "next"}
    /\ RowShape(s.base) /\ RowShape(s.next)
    /\ s.stage = "commit" => Ledger!Kept(s.base, s.next)

LedgerInv ==
    /\ RowShape(row) /\ DOMAIN refresh = Refreshing
    /\ \A r \in Refreshing : RefreshShape(refresh[r])

LEMMA NoRowIsShaped == RowShape(Ledger!NoRow) /\ RefreshShape(Ledger!Idle)
BY DEF RowShape, RefreshShape, Ledger!NoRow, Ledger!Idle

(* One invocation moves.                                                     *)
LEMMA OneRefreshes ==
    ASSUME LedgerInv, RowShape(row'), NEW r \in Refreshing, NEW s, RefreshShape(s), refresh' = [refresh EXCEPT ![r] = s]
    PROVE  LedgerInv'
BY DEF LedgerInv

LEMMA FailedKeeps ==
    ASSUME NEW base, RowShape(base), NEW records
    PROVE  RowShape(Ledger!Failed(base, records)) /\ Ledger!Kept(base, Ledger!Failed(base, records))
<1> DEFINE known == [i \in Moving |-> IF base.known[i].status = "none" /\ records[i].status = "pending"
                                         THEN records[i] ELSE base.known[i]]
           clock_ == Ledger!Clock
<1>1. Ledger!Failed(base, records) = [base EXCEPT !.error = TRUE, !.checkedAt = clock_, !.known = known]
  BY DEF Ledger!Failed
<1> HIDE DEF known, clock_
<1> QED
  BY <1>1 DEF RowShape, Ledger!Kept

LEMMA ExtendedKeeps ==
    ASSUME NEW base, NEW records, NEW at, NEW held_
    PROVE  /\ RowShape(Ledger!Extended(base, records, at, held_))
           /\ Ledger!Kept(base, Ledger!Extended(base, records, at, held_))
<1>1. base.observations \subseteq Ledger!Observations(base, records, Ledger!StartOf(base, at), at, held_)
  BY DEF Ledger!Observations
<1> QED
  BY <1>1 DEF Ledger!Extended, RowShape, Ledger!Kept

LEMMA LedgerStep == ASSUME LedgerInv, [Ledger!Next]_(Ledger!vars) PROVE LedgerInv'
<1>1. CASE row' = row /\ refresh' = refresh
  BY <1>1 DEF LedgerInv
<1>2. ASSUME NEW r \in Refreshing, Ledger!Begin(r) PROVE LedgerInv'
  <2> DEFINE at_ == instant
             held_ == Ledger!Held(instant)
             s == [Ledger!Idle EXCEPT !.stage = "list", !.base = row, !.at = at_, !.held = held_]
  <2>1. refresh' = [refresh EXCEPT ![r] = s] /\ row' = row
    BY <1>2 DEF Ledger!Begin
  <2>2. RefreshShape(s)
    <3> HIDE DEF at_, held_
    <3>1. DOMAIN s = DOMAIN Ledger!Idle /\ s.stage = "list" /\ s.base = row /\ s.next = Ledger!Idle.next
      BY NoRowIsShaped DEF RefreshShape
    <3> QED
      BY <3>1, NoRowIsShaped DEF RefreshShape, LedgerInv
  <2> HIDE DEF s
  <2> QED
    BY <2>1, <2>2, OneRefreshes DEF LedgerInv
<1>3. ASSUME NEW r \in Refreshing, Ledger!ReadList(r) PROVE LedgerInv'
  <2>1. PICK records : /\ refresh' = [refresh EXCEPT ![r].stage = "details", ![r].records = records]
                       /\ row' = row
    BY <1>3 DEF Ledger!ReadList
  <2> DEFINE s == [refresh[r] EXCEPT !.stage = "details", !.records = records]
  <2>2. refresh' = [refresh EXCEPT ![r] = s]
    BY <2>1 DEF LedgerInv, RefreshShape
  <2>3. RefreshShape(s)
    <3>1. RefreshShape(refresh[r])
      BY DEF LedgerInv
    <3>2. DOMAIN s = DOMAIN refresh[r] /\ s.stage = "details" /\ s.base = refresh[r].base /\ s.next = refresh[r].next
      BY <3>1 DEF RefreshShape
    <3> QED
      BY <3>1, <3>2 DEF RefreshShape
  <2> HIDE DEF s
  <2> QED
    BY <2>1, <2>2, <2>3, OneRefreshes DEF LedgerInv
<1>4. ASSUME NEW r \in Refreshing, NEW next, RowShape(next), Ledger!Kept(refresh[r].base, next),
             refresh' = [refresh EXCEPT ![r] = [Ledger!Idle EXCEPT !.stage = "commit", !.base = refresh[r].base, !.next = next]],
             row' = row
      PROVE  LedgerInv'
  <2> DEFINE base == refresh[r].base
             s == [Ledger!Idle EXCEPT !.stage = "commit", !.base = base, !.next = next]
  <2>1. RowShape(base)
    BY DEF LedgerInv, RefreshShape
  <2>2. RefreshShape(s)
    <3> HIDE DEF base
    <3>1. DOMAIN s = DOMAIN Ledger!Idle /\ s.stage = "commit" /\ s.base = base /\ s.next = next
      BY NoRowIsShaped DEF RefreshShape
    <3> QED
      BY <1>4, <2>1, <3>1, NoRowIsShaped DEF RefreshShape, base
  <2>3. refresh' = [refresh EXCEPT ![r] = s]
    BY <1>4
  <2> HIDE DEF s
  <2> QED
    BY <1>4, <2>2, <2>3, OneRefreshes DEF LedgerInv
<1>5. ASSUME NEW r \in Refreshing, Ledger!Finish(r) PROVE LedgerInv'
  <2> DEFINE base    == refresh[r].base
             at_      == refresh[r].at
             held_    == refresh[r].held
             records == Ledger!Detailed(base, refresh[r].records)
             agreed  == Ledger!Held(instant) = held_ /\ Ledger!Acceptable(base, records, Ledger!StartOf(base, at_), at_, held_)
             next    == IF agreed THEN Ledger!Extended(base, records, at_, held_) ELSE Ledger!Failed(base, records)
  <2>1. /\ refresh' = [refresh EXCEPT ![r] = [Ledger!Idle EXCEPT !.stage = "commit", !.base = base, !.next = next]]
        /\ row' = row
    BY <1>5 DEF Ledger!Finish
  <2>2. RowShape(base)
    BY DEF LedgerInv, RefreshShape
  <2> HIDE DEF agreed, records, at_, held_
  <2>3. RowShape(next) /\ Ledger!Kept(base, next)
    <3> HIDE DEF base
    <3>1. RowShape(Ledger!Failed(base, records)) /\ Ledger!Kept(base, Ledger!Failed(base, records))
      BY <2>2, FailedKeeps
    <3>2. RowShape(Ledger!Extended(base, records, at_, held_)) /\ Ledger!Kept(base, Ledger!Extended(base, records, at_, held_))
      BY ExtendedKeeps
    <3> QED
      BY <3>1, <3>2
  <2> HIDE DEF next
  <2> QED
    BY <1>4, <2>1, <2>3
<1>6. ASSUME NEW r \in Refreshing, Ledger!GiveUp(r) PROVE LedgerInv'
  <2> DEFINE base == refresh[r].base
             next == Ledger!Failed(base, [i \in Moving |-> Ledger!Unknown])
  <2>1. /\ refresh' = [refresh EXCEPT ![r] = [Ledger!Idle EXCEPT !.stage = "commit", !.base = base, !.next = next]]
        /\ row' = row
    BY <1>6 DEF Ledger!GiveUp
  <2>2. RowShape(base)
    BY DEF LedgerInv, RefreshShape
  <2>3. RowShape(next) /\ Ledger!Kept(base, next)
    BY <2>2, FailedKeeps
  <2> HIDE DEF next
  <2> QED
    BY <1>4, <2>1, <2>3
<1>7. ASSUME NEW r \in Refreshing, Ledger!Commit(r) \/ Ledger!Drop(r) PROVE LedgerInv'
  <2>1. refresh' = [refresh EXCEPT ![r] = Ledger!Idle] /\ (row' = row \/ row' = refresh[r].next)
    BY <1>7 DEF Ledger!Commit, Ledger!Drop
  <2>2. RowShape(row')
    BY <2>1 DEF LedgerInv, RefreshShape
  <2> QED
    BY <2>1, <2>2, NoRowIsShaped, OneRefreshes
<1> QED
  BY <1>1, <1>2, <1>3, <1>5, <1>6, <1>7
  DEF Ledger!Next, Ledger!vars, Ledger!Tick, Ledger!Announce, Ledger!TakeEffect, Ledger!Publish, Ledger!Cancel, Ledger!Revert

(* However many refreshes overlap, whatever they read and wherever they fail,
   a commit takes no observation out of the history, unless it extends a row
   that was replaced within the second it was written in.                    *)
THEOREM HistoryIsKept == Ledger!Spec => HistoryKept
<1>1. Ledger!Init => LedgerInv
  <2> SUFFICES ASSUME Ledger!Init PROVE LedgerInv
    OBVIOUS
  <2>1. row = Ledger!NoRow /\ refresh = [r \in Refreshing |-> Ledger!Idle]
    BY DEF Ledger!Init
  <2> QED
    BY <2>1, NoRowIsShaped DEF LedgerInv
<1>2. LedgerInv /\ [Ledger!Next]_(Ledger!vars) => [Ledger!HistoryKept]_ledgerVars
  <2> SUFFICES ASSUME LedgerInv, [Ledger!Next]_(Ledger!vars) PROVE Ledger!HistoryKept
    OBVIOUS
  <2>1. CASE row' = row
    BY <2>1 DEF Ledger!HistoryKept, Ledger!Kept
  <2>2. ASSUME NEW r \in Refreshing, Ledger!Commit(r), row' # row PROVE Ledger!HistoryKept
    <3>1. /\ refresh[r].stage = "commit" /\ row.checkedAt = refresh[r].base.checkedAt /\ row' = refresh[r].next
      BY <2>2 DEF Ledger!Commit, Ledger!Unchanged
    <3>2. Ledger!Kept(refresh[r].base, refresh[r].next)
      BY <3>1 DEF LedgerInv, RefreshShape
    <3>3. refresh[r].base # row => Ledger!SameSecond
      BY <3>1 DEF Ledger!SameSecond
    <3> QED
      BY <3>1, <3>2, <3>3 DEF Ledger!HistoryKept
  <2>3. row' = row \/ \E r \in Refreshing : Ledger!Commit(r)
    BY DEF Ledger!Next, Ledger!vars, Ledger!Tick, Ledger!Announce, Ledger!TakeEffect, Ledger!Publish, Ledger!Cancel, Ledger!Revert,
           Ledger!Begin, Ledger!ReadList, Ledger!Finish, Ledger!GiveUp, Ledger!Drop
  <2> QED
    BY <2>1, <2>2, <2>3
<1> QED
  BY <1>1, <1>2, LedgerStep, PTL DEF Ledger!Spec, HistoryKept

-----------------------------------------------------------------------------
(* SourceLedger: the filed history is the account's own.                     *)

Balances == [Currencies -> Int]

(* What the instance sums is the sum of SumTheorems.                         *)
LEMMA SumOfLedger == ASSUME NEW f PROVE Ledger!SumFunction(f) = SumFunctionOnSet(f, DOMAIN f)
<1>1. Ledger!SumFunction(f) = SumFunction(f)
  BY DEF SumFunction, SumFunctionOnSet, FoldFunctionOnSet, MapThenFoldSet,
         Ledger!SumFunction, Ledger!SumFunctionOnSet, Ledger!FoldFunctionOnSet, Ledger!MapThenFoldSet
<1> QED
  BY <1>1 DEF SumFunction

Part(m, S, c) == [i \in S |-> m[i][c]]

LEMMA TotalIsSum ==
    ASSUME NEW m, NEW S, IsFiniteSet(S), \A i \in S : m[i] \in Balances, NEW c \in Currencies, NEW T \in SUBSET S
    PROVE  /\ Ledger!Total(m, T)[c] = SumFunctionOnSet(Part(m, S, c), T)
           /\ \A i \in S : Part(m, S, c)[i] \in Int
<1>1. \A i \in S : Part(m, S, c)[i] \in Int /\ Part(m, S, c)[i] = m[i][c]
  BY DEF Part, Balances
<1>2. Ledger!Total(m, T)[c] = SumFunctionOnSet(Part(m, T, c), T)
  <2>1. Ledger!Total(m, T)[c] = Ledger!SumFunction(Part(m, T, c))
    BY DEF Ledger!Total, Part
  <2>2. DOMAIN Part(m, T, c) = T
    BY DEF Part
  <2> QED
    BY <2>1, <2>2, SumOfLedger
<1>3. IsFiniteSet(T) /\ \A i \in T : Part(m, T, c)[i] \in Int /\ Part(m, S, c)[i] = Part(m, T, c)[i]
  BY <1>1, FS_Subset DEF Part
<1>4. SumFunctionOnSet(Part(m, T, c), T) = SumFunctionOnSet(Part(m, S, c), T)
  BY <1>3, SumSame
<1> QED
  BY <1>1, <1>2, <1>4

LEMMA TotalType ==
    ASSUME NEW m, NEW S, IsFiniteSet(S), \A i \in S : m[i] \in Balances
    PROVE  Ledger!Total(m, S) \in Balances
<1>1. ASSUME NEW c \in Currencies PROVE Ledger!Total(m, S)[c] \in Int
  BY TotalIsSum, SumInt
<1>2. Ledger!Total(m, S) = [c \in Currencies |-> Ledger!Total(m, S)[c]]
  BY DEF Ledger!Total
<1> DEFINE total_ == Ledger!Total(m, S)
<1> HIDE DEF total_
<1>3. total_ = [c \in Currencies |-> total_[c]] /\ \A c \in Currencies : total_[c] \in Int
  BY <1>1, <1>2 DEF total_
<1>4. total_ \in Balances
  BY <1>3 DEF Balances
<1> QED
  BY <1>4 DEF total_

LEMMA TotalUnion ==
    ASSUME NEW m, NEW S, NEW T, IsFiniteSet(S), IsFiniteSet(T), S \cap T = {},
           \A i \in S \cup T : m[i] \in Balances, NEW c \in Currencies
    PROVE  Ledger!Total(m, S \cup T)[c] = Ledger!Total(m, S)[c] + Ledger!Total(m, T)[c]
<1> DEFINE U == S \cup T
           f == Part(m, U, c)
<1>1. IsFiniteSet(U) /\ S \in SUBSET U /\ T \in SUBSET U /\ U \in SUBSET U
  BY FS_Union
<1>2. \A i \in U : m[i] \in Balances
  OBVIOUS
<1> HIDE DEF U
<1>3. /\ Ledger!Total(m, U)[c] = SumFunctionOnSet(f, U) /\ Ledger!Total(m, S)[c] = SumFunctionOnSet(f, S)
      /\ Ledger!Total(m, T)[c] = SumFunctionOnSet(f, T) /\ \A i \in U : f[i] \in Int
  BY <1>1, <1>2, TotalIsSum
<1> HIDE DEF f
<1>4. SumFunctionOnSet(f, U) = SumFunctionOnSet(f, S) + SumFunctionOnSet(f, T)
  BY <1>3, SumDisjoint DEF U
<1> QED
  BY <1>3, <1>4 DEF U

LEMMA TotalSame ==
    ASSUME NEW m, NEW n, NEW S, \A i \in S : m[i] = n[i]
    PROVE  Ledger!Total(m, S) = Ledger!Total(n, S)
<1>1. \A c : Part(m, S, c) = Part(n, S, c)
  BY DEF Part
<1>2. \A c : Ledger!SumFunction(Part(m, S, c)) = Ledger!SumFunction(Part(n, S, c))
  BY <1>1
<1> DEFINE f == [c \in Currencies |-> Ledger!SumFunction(Part(m, S, c))]
           g == [c \in Currencies |-> Ledger!SumFunction(Part(n, S, c))]
<1>3. f = g
  BY <1>2
<1>4. Ledger!Total(m, S) = f /\ Ledger!Total(n, S) = g
  BY DEF Ledger!Total, Part
<1> QED
  BY <1>3, <1>4

LEMMA TotalZero ==
    ASSUME NEW m, NEW S, IsFiniteSet(S), \A i \in S : m[i] = Ledger!Zero
    PROVE  Ledger!Total(m, S) = Ledger!Zero
<1>1. Ledger!Zero \in Balances /\ \A c \in Currencies : Ledger!Zero[c] = 0
  BY DEF Ledger!Zero, Balances
<1>2. \A i \in S : m[i] \in Balances
  BY <1>1
<1>3. ASSUME NEW c \in Currencies PROVE Ledger!Total(m, S)[c] = 0
  <2>1. Ledger!Total(m, S)[c] = SumFunctionOnSet(Part(m, S, c), S)
    BY <1>2, TotalIsSum
  <2>2. \A i \in S : Part(m, S, c)[i] = 0
    BY <1>1 DEF Part
  <2>3. SumFunctionOnSet(Part(m, S, c), S) = 0
    <3> DEFINE f == Part(m, S, c)
    <3>1. \A i \in S : f[i] \in Nat /\ f[i] = 0
      BY <2>2
    <3> HIDE DEF f
    <3>2. SumFunctionOnSet(f, S) = 0
      BY <3>1, SumNat
    <3> QED
      BY <3>2 DEF f
  <2> QED
    BY <2>1, <2>3
<1>4. Ledger!Total(m, S) = [c \in Currencies |-> Ledger!Total(m, S)[c]]
  BY DEF Ledger!Total
<1> QED
  BY <1>3, <1>4 DEF Ledger!Zero

LEMMA BalancesEqual ==
    ASSUME NEW a \in Balances, NEW b \in Balances, \A c \in Currencies : a[c] = b[c]
    PROVE  a = b
BY DEF Balances

LEMMA BalancesAdd ==
    ASSUME NEW a \in Balances, NEW b \in Balances
    PROVE  /\ Ledger!Plus(a, b) \in Balances /\ Ledger!Minus(a, b) \in Balances
           /\ \A c \in Currencies : Ledger!Plus(a, b)[c] = a[c] + b[c] /\ Ledger!Minus(a, b)[c] = a[c] - b[c]
BY DEF Balances, Ledger!Plus, Ledger!Minus

-----------------------------------------------------------------------------
(* The venue's past is settled: what took effect or was reversed before this
   instant stays what it was.                                                *)

VenueType ==
    /\ instant \in Nat \ {0}
    /\ DOMAIN venue = Moving
    /\ \A i \in Moving :
          /\ DOMAIN venue[i] = {"item", "status", "born", "at", "undone"}
          /\ venue[i].item \in Items[i]
          /\ venue[i].status \in {"none", "pending", "completed", "reverted", "cancelled"}
          /\ venue[i].at \in 0..instant /\ venue[i].undone \in 0..instant
          /\ venue[i].status \in {"none", "cancelled"} => venue[i].at = 0
          /\ venue[i].status \in {"completed", "reverted"} => venue[i].at # 0
          /\ venue[i].undone # 0 <=> venue[i].status = "reverted"
          /\ venue[i].undone # 0 => venue[i].at < venue[i].undone

(* What one step may do to one transaction.                                  *)
Unborn(i) ==
    /\ venue[i].at = 0 /\ venue'[i].at = 0
    /\ venue[i].undone = 0 /\ venue'[i].undone = 0
    /\ venue[i].status # "reverted" /\ venue'[i].status # "reverted"

GoesOn(i) ==
    /\ venue'[i].item = venue[i].item
    /\ venue'[i].at = venue[i].at \/ (venue[i].at = 0 /\ venue'[i].at = instant)
    /\ \/ venue'[i].undone = venue[i].undone /\ (venue'[i].status = "reverted" <=> venue[i].status = "reverted")
       \/ venue[i].undone = 0 /\ venue'[i].undone = instant /\ venue[i].status # "reverted"

VenueMoves ==
    /\ instant' \in {instant, instant + 1}
    /\ \A i \in Moving : Unborn(i) \/ GoesOn(i)

LEMMA VenueStarts == ASSUME Ledger!Init PROVE VenueType
<1>1. \A i \in Moving : (CHOOSE item \in Items[i] : TRUE) \in Items[i]
  BY LedgerAssumption
<1> QED
  BY <1>1 DEF Ledger!Init, VenueType

LEMMA OneTransaction ==
    ASSUME VenueType, NEW i \in Moving, NEW v, venue' = [venue EXCEPT ![i] = v], instant' = instant,
           DOMAIN v = {"item", "status", "born", "at", "undone"},
           v.item \in Items[i],
           v.status \in {"none", "pending", "completed", "reverted", "cancelled"},
           v.at \in 0..instant, v.undone \in 0..instant,
           v.status \in {"none", "cancelled"} => v.at = 0,
           v.status \in {"completed", "reverted"} => v.at # 0,
           v.undone # 0 <=> v.status = "reverted",
           v.undone # 0 => v.at < v.undone,
           \/ /\ venue[i].at = 0 /\ v.at = 0
              /\ venue[i].undone = 0 /\ v.undone = 0
              /\ venue[i].status # "reverted" /\ v.status # "reverted"
           \/ /\ v.item = venue[i].item
              /\ v.at = venue[i].at \/ (venue[i].at = 0 /\ v.at = instant)
              /\ \/ v.undone = venue[i].undone /\ (v.status = "reverted" <=> venue[i].status = "reverted")
                 \/ venue[i].undone = 0 /\ v.undone = instant /\ venue[i].status # "reverted"
    PROVE  VenueType' /\ VenueMoves
<1>1. venue'[i] = v /\ \A j \in Moving \ {i} : venue'[j] = venue[j]
  BY DEF VenueType
<1>2. VenueType'
  <2>1. instant' \in Nat \ {0} /\ DOMAIN venue' = Moving
    BY DEF VenueType
  <2>2. ASSUME NEW j \in Moving
        PROVE  /\ DOMAIN venue'[j] = {"item", "status", "born", "at", "undone"}
               /\ venue'[j].item \in Items[j]
               /\ venue'[j].status \in {"none", "pending", "completed", "reverted", "cancelled"}
               /\ venue'[j].at \in 0..instant' /\ venue'[j].undone \in 0..instant'
               /\ venue'[j].status \in {"none", "cancelled"} => venue'[j].at = 0
               /\ venue'[j].status \in {"completed", "reverted"} => venue'[j].at # 0
               /\ venue'[j].undone # 0 <=> venue'[j].status = "reverted"
               /\ venue'[j].undone # 0 => venue'[j].at < venue'[j].undone
    <3>1. CASE j = i
      BY <1>1, <3>1
    <3>2. CASE j # i
      BY <1>1, <3>2 DEF VenueType
    <3> QED
      BY <3>1, <3>2
  <2> QED
    BY <2>1, <2>2 DEF VenueType
<1>3. VenueMoves
  <2>1. ASSUME NEW j \in Moving PROVE Unborn(j) \/ GoesOn(j)
    <3>1. CASE j = i
      BY <1>1, <3>1 DEF Unborn, GoesOn
    <3>2. CASE j # i
      BY <1>1, <3>2 DEF GoesOn
    <3> QED
      BY <3>1, <3>2
  <2> QED
    BY <2>1 DEF VenueMoves
<1> QED
  BY <1>2, <1>3

LEMMA VenueStands ==
    ASSUME VenueType, venue' = venue, instant' \in {instant, instant + 1}
    PROVE  VenueType' /\ VenueMoves
<1>1. instant \in Nat \ {0} /\ instant' \in Nat \ {0} /\ instant <= instant'
  BY DEF VenueType
<1>2. VenueType'
  BY <1>1 DEF VenueType
<1>3. VenueMoves
  BY DEF VenueMoves, GoesOn
<1> QED
  BY <1>2, <1>3

LEMMA VenueStep == ASSUME VenueType, [Ledger!Next]_(Ledger!vars) PROVE VenueType' /\ VenueMoves
<1> USE DEF VenueType
<1>1. CASE venue' = venue /\ instant' \in {instant, instant + 1}
  BY <1>1, VenueStands
<1>2. ASSUME NEW i \in Moving, Ledger!Announce(i) PROVE VenueType' /\ VenueMoves
  <2>1. PICK item \in Items[i] :
            venue' = [venue EXCEPT ![i] = [item |-> item, status |-> "pending", born |-> instant, at |-> 0, undone |-> 0]]
    BY <1>2 DEF Ledger!Announce
  <2> DEFINE v == [item |-> item, status |-> "pending", born |-> instant, at |-> 0, undone |-> 0]
  <2>2. venue[i].status = "none" /\ venue[i].at = 0 /\ venue[i].undone = 0 /\ instant' = instant
    BY <1>2 DEF Ledger!Announce
  <2>3. /\ DOMAIN v = {"item", "status", "born", "at", "undone"} /\ v.item = item
        /\ v.status = "pending" /\ v.at = 0 /\ v.undone = 0 /\ venue' = [venue EXCEPT ![i] = v]
    BY <2>1
  <2> HIDE DEF v
  <2>4. v.item \in Items[i] /\ 0 \in 0..instant /\ venue[i].status # "reverted" /\ v.status # "reverted"
    BY <2>2, <2>3
  <2> QED
    BY <2>2, <2>3, <2>4, OneTransaction
<1>3. ASSUME NEW i \in Moving, Ledger!TakeEffect(i) PROVE VenueType' /\ VenueMoves
  <2>1. PICK status \in {"pending", "completed"} : venue' = [venue EXCEPT ![i].at = instant, ![i].status = status]
    BY <1>3 DEF Ledger!TakeEffect
  <2> DEFINE v == [venue[i] EXCEPT !.at = instant, !.status = status]
  <2>2. venue[i].status = "pending" /\ venue[i].at = 0 /\ venue[i].undone = 0 /\ instant' = instant
    BY <1>3 DEF Ledger!TakeEffect
  <2>3. /\ DOMAIN v = {"item", "status", "born", "at", "undone"} /\ v.item = venue[i].item
        /\ v.status = status /\ v.at = instant /\ v.undone = 0 /\ venue' = [venue EXCEPT ![i] = v]
    BY <2>1, <2>2
  <2> HIDE DEF v
  <2>4. /\ v.item \in Items[i] /\ v.at \in 0..instant /\ v.at # 0 /\ 0 \in 0..instant
        /\ venue[i].status # "reverted" /\ v.status \in {"pending", "completed"}
    BY <2>2, <2>3
  <2> QED
    BY <2>2, <2>3, <2>4, OneTransaction
<1>4. ASSUME NEW i \in Moving, Ledger!Publish(i) PROVE VenueType' /\ VenueMoves
  <2> DEFINE v == [venue[i] EXCEPT !.status = "completed"]
  <2>2. venue[i].status = "pending" /\ venue[i].at # 0 /\ venue[i].undone = 0 /\ instant' = instant
    BY <1>4 DEF Ledger!Publish
  <2>3. /\ DOMAIN v = {"item", "status", "born", "at", "undone"} /\ v.item = venue[i].item
        /\ v.status = "completed" /\ v.at = venue[i].at /\ v.undone = 0 /\ venue' = [venue EXCEPT ![i] = v]
    BY <1>4, <2>2 DEF Ledger!Publish
  <2> HIDE DEF v
  <2> QED
    BY <2>2, <2>3, OneTransaction
<1>5. ASSUME NEW i \in Moving, Ledger!Cancel(i) PROVE VenueType' /\ VenueMoves
  <2> DEFINE v == [venue[i] EXCEPT !.status = "cancelled"]
  <2>2. venue[i].status = "pending" /\ venue[i].at = 0 /\ venue[i].undone = 0 /\ instant' = instant
    BY <1>5 DEF Ledger!Cancel
  <2>3. /\ DOMAIN v = {"item", "status", "born", "at", "undone"} /\ v.item = venue[i].item
        /\ v.status = "cancelled" /\ v.at = 0 /\ v.undone = 0 /\ venue' = [venue EXCEPT ![i] = v]
    BY <1>5, <2>2 DEF Ledger!Cancel
  <2> HIDE DEF v
  <2> QED
    BY <2>2, <2>3, OneTransaction
<1>6. ASSUME NEW i \in Moving, Ledger!Revert(i) PROVE VenueType' /\ VenueMoves
  <2> DEFINE v == [venue[i] EXCEPT !.status = "reverted", !.undone = instant]
  <2>2. venue[i].status = "completed" /\ venue[i].at < instant /\ venue[i].at # 0 /\ venue[i].undone = 0 /\ instant' = instant
    BY <1>6 DEF Ledger!Revert
  <2>3. /\ DOMAIN v = {"item", "status", "born", "at", "undone"} /\ v.item = venue[i].item
        /\ v.status = "reverted" /\ v.at = venue[i].at /\ v.undone = instant /\ venue' = [venue EXCEPT ![i] = v]
    BY <1>6 DEF Ledger!Revert
  <2> HIDE DEF v
  <2>4. /\ v.item \in Items[i] /\ v.at \in 0..instant /\ v.undone \in 0..instant /\ v.undone # 0 /\ v.at < v.undone
        /\ venue[i].status # "reverted"
    BY <2>2, <2>3
  <2> QED
    BY <2>2, <2>3, <2>4, OneTransaction
<1>7. \/ venue' = venue /\ instant' \in {instant, instant + 1}
      \/ \E i \in Moving : Ledger!Announce(i) \/ Ledger!TakeEffect(i) \/ Ledger!Publish(i) \/ Ledger!Cancel(i) \/ Ledger!Revert(i)
  BY DEF Ledger!Next, Ledger!vars, Ledger!Tick, Ledger!Begin, Ledger!ReadList, Ledger!Finish, Ledger!GiveUp, Ledger!Commit, Ledger!Drop
<1> QED
  BY <1>1, <1>2, <1>3, <1>4, <1>5, <1>6, <1>7

(* What the account held at t, and what crossed its boundary then, when the
   transactions of X count as never made.                                    *)
InForce(X, t) == {i \in Moving \ X : venue[i].at \in 1..t /\ ~ (venue[i].undone \in 1..t)}

Holding(X, t) == Ledger!Plus(Funds, Ledger!Total(Ledger!Moved, InForce(X, t)))

Crossings == [i \in Moving |-> venue[i].item.crossed]

Done(X, t)   == {i \in Moving \ X : venue[i].at = t}
Undone(X, t) == {i \in Moving \ X : venue[i].undone = t}

Passing(X, t) == Ledger!Minus(Ledger!Total(Crossings, Done(X, t)), Ledger!Total(Crossings, Undone(X, t)))

LEMMA HeldIsHolding ==
    /\ \A t : Ledger!Held(t) = Holding({}, t)
    /\ \A w, t : Ledger!HeldThen(w, t) = Holding(Ledger!Void(w), t)
    /\ \A w, t : Ledger!Crossed(w, t) = Passing(Ledger!Void(w), t)
<1>1. ASSUME NEW t PROVE Ledger!Held(t) = Holding({}, t)
  <2>1. {i \in Moving : Ledger!Effective(i, t)} = InForce({}, t)
    BY DEF InForce, Ledger!Effective
  <2> QED
    BY <2>1 DEF Ledger!Held, Holding
<1>2. ASSUME NEW w, NEW t PROVE Ledger!HeldThen(w, t) = Holding(Ledger!Void(w), t)
  <2> DEFINE X == Ledger!Void(w)
  <2>1. {i \in Moving \ X : Ledger!Effective(i, t)} = InForce(X, t)
    BY DEF InForce, Ledger!Effective
  <2> QED
    BY <2>1 DEF Ledger!HeldThen, Holding
<1>3. ASSUME NEW w, NEW t PROVE Ledger!Crossed(w, t) = Passing(Ledger!Void(w), t)
  BY DEF Ledger!Crossed, Passing, Crossings, Done, Undone
<1> QED
  BY <1>1, <1>2, <1>3

LEMMA PastSets ==
    ASSUME VenueType, VenueMoves, NEW t \in Nat, t < instant, NEW X
    PROVE  /\ InForce(X, t)' = InForce(X, t)
           /\ t # 0 => Done(X, t)' = Done(X, t) /\ Undone(X, t)' = Undone(X, t)
           /\ \A i \in InForce(X, t) \cup (IF t # 0 THEN Done(X, t) \cup Undone(X, t) ELSE {}) :
                 venue'[i].item = venue[i].item
<1>1. ASSUME NEW i \in Moving
      PROVE  /\ (venue'[i].at \in 1..t /\ ~ (venue'[i].undone \in 1..t)) <=> (venue[i].at \in 1..t /\ ~ (venue[i].undone \in 1..t))
             /\ t # 0 => (venue'[i].at = t <=> venue[i].at = t) /\ (venue'[i].undone = t <=> venue[i].undone = t)
             /\ venue[i].at # 0 \/ venue[i].undone # 0 => venue'[i].item = venue[i].item
  <2>1. Unborn(i) \/ GoesOn(i)
    BY DEF VenueMoves
  <2>2. venue[i].at \in 0..instant /\ venue[i].undone \in 0..instant /\ instant \in Nat
    BY DEF VenueType
  <2> QED
    BY <2>1, <2>2 DEF Unborn, GoesOn
<1>2. InForce(X, t)' = InForce(X, t)
  BY <1>1 DEF InForce
<1>3. t # 0 => Done(X, t)' = Done(X, t) /\ Undone(X, t)' = Undone(X, t)
  BY <1>1 DEF Done, Undone
<1>4. \A i \in InForce(X, t) : venue[i].at # 0 /\ i \in Moving
  BY DEF InForce
<1>5. t # 0 => \A i \in Done(X, t) \cup Undone(X, t) : i \in Moving /\ (venue[i].at # 0 \/ venue[i].undone # 0)
  BY DEF Done, Undone
<1> QED
  BY <1>1, <1>2, <1>3, <1>4, <1>5

LEMMA PastIsFixed ==
    ASSUME VenueType, VenueMoves, NEW t \in Nat, t < instant, NEW X
    PROVE  Holding(X, t)' = Holding(X, t) /\ (t # 0 => Passing(X, t)' = Passing(X, t))
<1>1. ASSUME NEW i \in Moving, venue'[i].item = venue[i].item
      PROVE  Ledger!Moved'[i] = Ledger!Moved[i] /\ Crossings'[i] = Crossings[i]
  BY <1>1 DEF Ledger!Moved, Crossings, Ledger!Delta, Ledger!Minus, Ledger!Credit, Ledger!Ours, Ledger!Only, Ledger!Zero
<1> PICK moved : moved = Ledger!Moved' /\ TRUE
  OBVIOUS
<1> PICK crossings_ : crossings_ = Crossings'
  OBVIOUS
<1>2. Holding(X, t)' = Holding(X, t)
  <2> DEFINE S == InForce(X, t)
  <2>1. S' = S
    BY PastSets
  <2>2. \A i \in S : Ledger!Moved[i] = moved[i]
    <3>1. \A i \in S : i \in Moving /\ venue'[i].item = venue[i].item
      BY PastSets DEF InForce
    <3> QED
      BY <1>1, <3>1
  <2>3. Holding(X, t)' = Ledger!Plus(Funds, Ledger!Total(moved, S'))
    BY DEF Holding, Ledger!Plus, Ledger!Total
  <2> HIDE DEF S
  <2>4. Ledger!Total(Ledger!Moved, S) = Ledger!Total(moved, S)
    BY <2>2, TotalSame
  <2> QED
    BY <2>1, <2>3, <2>4 DEF Holding, S
<1>3. ASSUME t # 0 PROVE Passing(X, t)' = Passing(X, t)
  <2> DEFINE S == Done(X, t)
             T == Undone(X, t)
  <2>1. S' = S /\ T' = T
    BY <1>3, PastSets
  <2>2. \A i \in S \cup T : Crossings[i] = crossings_[i]
    BY <1>1, <1>3, PastSets DEF Done, Undone
  <2>3. Passing(X, t)' = Ledger!Minus(Ledger!Total(crossings_, S'), Ledger!Total(crossings_, T'))
    BY DEF Passing, Ledger!Minus, Ledger!Total
  <2> HIDE DEF S, T
  <2>4. Ledger!Total(Crossings, S) = Ledger!Total(crossings_, S) /\ Ledger!Total(Crossings, T) = Ledger!Total(crossings_, T)
    BY <2>2, TotalSame
  <2> QED
    BY <2>1, <2>3, <2>4 DEF Passing, S, T
<1> QED
  BY <1>2, <1>3

-----------------------------------------------------------------------------
(* A row is true of every later state of the venue: its times are past.      *)

Dated(w) ==
    /\ RowShape(w)
    /\ w.anchor = <<>> => w.observations = {}
    /\ w.anchor # <<>> =>
          /\ w.anchor[1].at \in Nat /\ w.anchor[1].at < instant
          /\ Ledger!BaselineOf(w) \in Nat /\ Ledger!BaselineOf(w) < w.anchor[1].at
          /\ \E o \in w.observations : o.kind = "baseline"
          /\ \A o \in w.observations :
                /\ o.at \in Nat /\ o.at <= w.anchor[1].at
                /\ IF o.kind = "baseline" THEN o.at = Ledger!BaselineOf(w) ELSE Ledger!BaselineOf(w) < o.at
          /\ w.anchor[1].at \in Ledger!Snapshots(w)

RowTrue(w) ==
    /\ Dated(w)
    /\ w.anchor # <<>> =>
          /\ w.anchor[1].held = Holding({}, w.anchor[1].at)
          /\ Ledger!Truthful(w) \/ Ledger!Offset(w)

(* What was read of a transaction has its time.                              *)
KnownTrue(known) == \A i \in Moving : known[i].at # 0 => known[i].at = venue[i].at

LEMMA FirstSnapshot ==
    ASSUME NEW w, Dated(w), w.anchor # <<>>
    PROVE  /\ Ledger!Min(Ledger!Snapshots(w)) \in Ledger!Snapshots(w)
           /\ \A s \in Ledger!Snapshots(w) :
                 /\ s \in Nat /\ Ledger!BaselineOf(w) < s /\ s <= w.anchor[1].at
                 /\ Ledger!Min(Ledger!Snapshots(w)) <= s
<1> DEFINE S == Ledger!Snapshots(w)
           a == w.anchor[1].at
           b == Ledger!BaselineOf(w)
<1>1. a \in Nat /\ b \in Nat /\ b < a /\ a \in S
  BY DEF Dated
<1>2. \A s \in S : s \in Nat /\ b < s /\ s <= a
  BY DEF Dated, Ledger!Snapshots
<1> HIDE DEF S, a, b
<1>3. S \in SUBSET (1..a) /\ S # {}
  BY <1>1, <1>2
<1>4. \E least \in S : \A i \in S : least <= i
  BY <1>1, <1>3, LeastNumber
<1>5. Ledger!Min(S) \in S /\ \A s \in S : Ledger!Min(S) <= s
  BY <1>4 DEF Ledger!Min
<1> QED
  BY <1>2, <1>5 DEF S, a, b

LEMMA VoidIsPast ==
    ASSUME VenueType, VenueMoves, NEW w, Dated(w), w.anchor # <<>>
    PROVE  Ledger!Void(w)' = Ledger!Void(w)
<1> DEFINE first == Ledger!Min(Ledger!Snapshots(w))
           b == Ledger!BaselineOf(w)
<1>1. first \in Nat /\ first < instant /\ b \in Nat /\ b < instant /\ instant \in Nat
  BY FirstSnapshot DEF Dated, VenueType
<1>2. Ledger!Void(w) = {i \in Moving : venue[i].status = "reverted" /\ venue[i].at <= b /\ venue[i].undone <= first}
  BY DEF Ledger!Void
<1>3. Ledger!Void(w)' = {i \in Moving : venue'[i].status = "reverted" /\ venue'[i].at <= b /\ venue'[i].undone <= first}
  BY DEF Ledger!Void, Ledger!BaselineOf, Ledger!Snapshots, Ledger!Min
<1> HIDE DEF first, b
<1>4. ASSUME NEW i \in Moving
      PROVE  (venue'[i].status = "reverted" /\ venue'[i].at <= b /\ venue'[i].undone <= first)
                 <=> (venue[i].status = "reverted" /\ venue[i].at <= b /\ venue[i].undone <= first)
  <2>1. Unborn(i) \/ GoesOn(i)
    BY DEF VenueMoves
  <2>2. /\ venue[i].at \in 0..instant /\ venue[i].undone \in 0..instant
        /\ venue[i].status = "reverted" => venue[i].at # 0
    BY DEF VenueType
  <2> QED
    BY <1>1, <2>1, <2>2 DEF Unborn, GoesOn
<1> QED
  BY <1>2, <1>3, <1>4

Reversed(s, t) == {i \in Moving : venue[i].undone \in s + 1..t}

LEMMA OffsetStays ==
    ASSUME VenueType, VenueMoves, NEW w, Dated(w), w.anchor # <<>>, Ledger!Offset(w)
    PROVE  Ledger!Offset(w)'
<1>1. PICK s \in Ledger!Snapshots(w), t \in Ledger!Snapshots(w) :
            Ledger!Total(Ledger!Moved, Reversed(s, t)) = Ledger!Zero /\ \E i \in Reversed(s, t) : Ledger!Moved[i] # Ledger!Zero
  BY DEF Ledger!Offset, Reversed
<1>2. s \in Nat /\ t \in Nat /\ t < instant /\ instant \in Nat
  BY FirstSnapshot DEF Dated, VenueType
<1>3. ASSUME NEW i \in Moving
      PROVE  /\ venue'[i].undone \in s + 1..t <=> venue[i].undone \in s + 1..t
             /\ venue[i].undone # 0 => venue'[i].item = venue[i].item
  <2>1. Unborn(i) \/ GoesOn(i)
    BY DEF VenueMoves
  <2> QED
    BY <1>2, <2>1 DEF Unborn, GoesOn
<1>4. Reversed(s, t)' = Reversed(s, t)
  BY <1>3 DEF Reversed
<1>5. ASSUME NEW i \in Reversed(s, t) PROVE Ledger!Moved'[i] = Ledger!Moved[i]
  <2>1. i \in Moving /\ venue'[i].item = venue[i].item
    BY <1>2, <1>3 DEF Reversed
  <2> QED
    BY <2>1 DEF Ledger!Moved, Ledger!Delta, Ledger!Minus, Ledger!Credit, Ledger!Ours, Ledger!Only, Ledger!Zero
<1> PICK moved : moved = Ledger!Moved' /\ TRUE
  OBVIOUS
<1>6. Ledger!Total(moved, Reversed(s, t)) = Ledger!Zero /\ \E i \in Reversed(s, t) : moved[i] # Ledger!Zero
  <2>1. Ledger!Total(Ledger!Moved, Reversed(s, t)) = Ledger!Total(moved, Reversed(s, t))
    BY <1>5, TotalSame
  <2> QED
    BY <1>1, <1>5, <2>1
<1>7. /\ (Ledger!Total(Ledger!Moved, Reversed(s, t)) = Ledger!Zero)'
      /\ (\E i \in Reversed(s, t) : Ledger!Moved[i] # Ledger!Zero)'
  BY <1>4, <1>6 DEF Ledger!Zero, Ledger!Total
<1> QED
  BY <1>7 DEF Ledger!Offset, Ledger!Snapshots, Reversed

LEMMA TruthStays ==
    ASSUME VenueType, VenueMoves, NEW w, Dated(w), w.anchor # <<>>, Ledger!Truthful(w)
    PROVE  Ledger!Truthful(w)'
<1> DEFINE a == w.anchor[1].at
           b == Ledger!BaselineOf(w)
<1> PICK X : X = Ledger!Void(w)
  OBVIOUS
<1>1. X = Ledger!Void(w)'
  BY VoidIsPast
<1>2. ASSUME NEW t \in Nat, t < instant
      PROVE  /\ Ledger!HeldThen(w, t)' = Ledger!HeldThen(w, t)
             /\ t # 0 => Ledger!Crossed(w, t)' = Ledger!Crossed(w, t)
  <2>1. Ledger!HeldThen(w, t) = Holding(X, t) /\ Ledger!Crossed(w, t) = Passing(X, t)
    BY HeldIsHolding
  <2>2. Ledger!HeldThen(w, t)' = Holding(X, t)' /\ Ledger!Crossed(w, t)' = Passing(X, t)'
    BY <1>1 DEF Ledger!HeldThen, Holding, InForce, Ledger!Effective, Ledger!Crossed, Passing, Crossings, Done, Undone
  <2>3. Holding(X, t)' = Holding(X, t) /\ (t # 0 => Passing(X, t)' = Passing(X, t))
    BY <1>2, PastIsFixed
  <2> QED
    BY <2>1, <2>2, <2>3
<1>3. a \in Nat /\ a < instant /\ b \in Nat /\ b < a /\ instant \in Nat
  BY DEF Dated, VenueType
<1>4. ASSUME NEW o \in w.observations
      PROVE  /\ o.held = Ledger!HeldThen(w, IF o.kind = "day" THEN o.at - 1 ELSE o.at)'
             /\ o.kind = "flow" => o.flow = Ledger!Crossed(w, o.at)'
  <2>1. o.at \in Nat /\ o.at <= a /\ (IF o.kind = "baseline" THEN o.at = b ELSE b < o.at)
    BY DEF Dated
  <2> DEFINE t == IF o.kind = "day" THEN o.at - 1 ELSE o.at
  <2>2. t \in Nat /\ t < instant /\ (o.kind = "flow" => o.at # 0 /\ o.at < instant)
    BY <1>3, <2>1
  <2>3. o.held = Ledger!HeldThen(w, t) /\ (o.kind = "flow" => o.flow = Ledger!Crossed(w, o.at))
    BY DEF Ledger!Truthful
  <2> HIDE DEF t
  <2>4. o.held = Ledger!HeldThen(w, t)' /\ (o.kind = "flow" => o.flow = Ledger!Crossed(w, o.at)')
    BY <1>2, <2>1, <2>2, <2>3
  <2> QED
    BY <2>4 DEF t
<1>5. ASSUME NEW t \in b + 1..a, Ledger!Crossed(w, t)' # Ledger!Zero
      PROVE  \E o \in w.observations : o.kind = "flow" /\ o.at = t
  <2>1. t \in Nat /\ t < instant /\ t # 0
    BY <1>3
  <2>2. Ledger!Crossed(w, t) # Ledger!Zero
    BY <1>2, <1>5, <2>1
  <2> QED
    BY <2>2 DEF Ledger!Truthful
<1> QED
  BY <1>4, <1>5 DEF Ledger!Truthful, Ledger!BaselineOf, Ledger!Zero

LEMMA RowStays ==
    ASSUME VenueType, VenueType', VenueMoves, NEW w, RowTrue(w)
    PROVE  RowTrue(w)'
<1>1. instant \in Nat /\ instant' \in Nat /\ instant <= instant'
  BY DEF VenueType, VenueMoves
<1>2. Dated(w)'
  BY <1>1 DEF RowTrue, Dated, Ledger!BaselineOf, Ledger!Snapshots
<1>3. ASSUME w.anchor # <<>>
      PROVE  (w.anchor[1].held = Holding({}, w.anchor[1].at) /\ (Ledger!Truthful(w) \/ Ledger!Offset(w)))'
  <2>1. Dated(w) /\ w.anchor[1].at \in Nat /\ w.anchor[1].at < instant
    BY <1>3 DEF RowTrue, Dated
  <2>2. Holding({}, w.anchor[1].at)' = Holding({}, w.anchor[1].at)
    <3> DEFINE a == w.anchor[1].at
    <3>1. a \in Nat /\ a < instant
      BY <2>1
    <3> HIDE DEF a
    <3>2. Holding({}, a)' = Holding({}, a)
      BY <3>1, PastIsFixed
    <3> QED
      BY <3>2 DEF a
  <2>3. (Ledger!Truthful(w) \/ Ledger!Offset(w))'
    BY <1>3, <2>1, TruthStays, OffsetStays DEF RowTrue
  <2> QED
    BY <1>3, <2>2, <2>3 DEF RowTrue
<1> QED
  BY <1>2, <1>3 DEF RowTrue

LEMMA KnownStays ==
    ASSUME VenueType, VenueMoves, NEW known, KnownTrue(known)
    PROVE  KnownTrue(known)'
<1> SUFFICES ASSUME NEW i \in Moving, known[i].at # 0 PROVE known[i].at = venue'[i].at
  BY DEF KnownTrue
<1> QED
  BY DEF KnownTrue, VenueMoves, Unborn, GoesOn

-----------------------------------------------------------------------------
(* From one balance response to a later one.                                 *)

Arrived(s, t) == {i \in Moving : venue[i].at \in s + 1..t}

LEMMA EachMoves ==
    ASSUME VenueType
    PROVE  \A i \in Moving : Ledger!Moved[i] \in Balances /\ Crossings[i] \in Balances
<1> SUFFICES ASSUME NEW i \in Moving PROVE Ledger!Moved[i] \in Balances /\ Crossings[i] \in Balances
  OBVIOUS
<1>1. {Ledger!Delta(venue[i].item), venue[i].item.crossed} \subseteq [Currencies -> Int]
  BY LedgerAssumption DEF VenueType
<1> QED
  BY <1>1 DEF Balances, Ledger!Moved, Crossings

LEMMA HoldingType ==
    ASSUME VenueType, NEW X, NEW t
    PROVE  Holding(X, t) \in Balances /\ IsFiniteSet(InForce(X, t)) /\ InForce(X, t) \subseteq Moving
<1> DEFINE S == InForce(X, t)
<1>1. S \subseteq Moving /\ IsFiniteSet(S)
  BY LedgerAssumption, FS_Subset DEF InForce
<1>2. \A i \in S : Ledger!Moved[i] \in Balances
  BY <1>1, EachMoves
<1> HIDE DEF S
<1>3. Ledger!Total(Ledger!Moved, S) \in Balances /\ Funds \in Balances
  BY <1>1, <1>2, TotalType, LedgerAssumption DEF Balances
<1>4. Ledger!Plus(Funds, Ledger!Total(Ledger!Moved, S)) \in Balances
  BY <1>3, BalancesAdd
<1> QED
  BY <1>1, <1>4 DEF S, Holding

LEMMA TotalOfMoved ==
    ASSUME VenueType, NEW S, S \subseteq Moving
    PROVE  Ledger!Total(Ledger!Moved, S) \in Balances
<1>1. IsFiniteSet(S)
  BY LedgerAssumption, FS_Subset
<1>2. \A i \in S : Ledger!Moved[i] \in Balances
  BY EachMoves
<1> QED
  BY <1>1, <1>2, TotalType

(* Two sets of movements that make up for each other, and what is held.      *)
LEMMA TwoWays ==
    ASSUME VenueType, NEW A, NEW B, NEW C_, NEW D, A \cup D = B \cup C_, A \cap D = {}, B \cap C_ = {}, A \cup D \subseteq Moving,
           NEW c \in Currencies
    PROVE  Ledger!Total(Ledger!Moved, A)[c] + Ledger!Total(Ledger!Moved, D)[c]
                  = Ledger!Total(Ledger!Moved, B)[c] + Ledger!Total(Ledger!Moved, C_)[c]
<1>1. \A S \in {A, B, C_, D} : S \subseteq Moving /\ IsFiniteSet(S)
  BY LedgerAssumption, FS_Subset
<1>2. \A i \in Moving : Ledger!Moved[i] \in Balances
  BY EachMoves
<1> DEFINE moved == Ledger!Moved
<1> HIDE DEF moved
<1>3. \A i \in Moving : moved[i] \in Balances
  BY <1>2 DEF moved
<1>4. /\ Ledger!Total(moved, A \cup D)[c] = Ledger!Total(moved, A)[c] + Ledger!Total(moved, D)[c]
      /\ Ledger!Total(moved, B \cup C_)[c] = Ledger!Total(moved, B)[c] + Ledger!Total(moved, C_)[c]
  <2>1. \A i \in A \cup D : moved[i] \in Balances
    BY <1>1, <1>3
  <2>2. \A i \in B \cup C_ : moved[i] \in Balances
    BY <1>1, <1>3
  <2> QED
    BY <1>1, <2>1, <2>2, TotalUnion
<1>5. Ledger!Total(moved, A \cup D) = Ledger!Total(moved, B \cup C_)
  OBVIOUS
<1> QED
  BY <1>4, <1>5 DEF moved

(* What two snapshots that agree with the movements between them tell of what
   was reversed in between.                                                  *)
LEMMA ReversalsCancel ==
    ASSUME VenueType, NEW s \in Nat, NEW at_ \in Nat, s <= at_,
           \A i \in Arrived(s, at_) : ~ (venue[i].undone \in 1..at_),
           Holding({}, s) = Ledger!Minus(Holding({}, at_), Ledger!Total(Ledger!Moved, Arrived(s, at_)))
    PROVE  Ledger!Total(Ledger!Moved, Reversed(s, at_)) = Ledger!Zero
<1> DEFINE A == InForce({}, at_)
           D == Reversed(s, at_)
           B == InForce({}, s)
           C_ == Arrived(s, at_)
           total_(S) == Ledger!Total(Ledger!Moved, S)
<1>1. ASSUME NEW i \in Moving
      PROVE  /\ (i \in A \/ i \in D) <=> (i \in B \/ i \in C_)
             /\ ~ (i \in A /\ i \in D) /\ ~ (i \in B /\ i \in C_)
  <2>1. /\ instant \in Nat
        /\ venue[i].at \in 0..instant /\ venue[i].undone \in 0..instant
        /\ venue[i].undone # 0 => venue[i].at # 0 /\ venue[i].at < venue[i].undone
    BY DEF VenueType
  <2>2. venue[i].at \in s + 1..at_ => ~ (venue[i].undone \in 1..at_)
    BY DEF Arrived
  <2> QED
    BY <2>1, <2>2 DEF InForce, Reversed, Arrived
<1>2. A \cup D \subseteq Moving /\ B \cup C_ \subseteq Moving
  BY DEF InForce, Reversed, Arrived
<1>3. A \cup D = B \cup C_ /\ A \cap D = {} /\ B \cap C_ = {}
  BY <1>1, <1>2
<1>4. Holding({}, s) = Ledger!Plus(Funds, total_(B)) /\ Holding({}, at_) = Ledger!Plus(Funds, total_(A))
  BY DEF Holding
<1> HIDE DEF A, B, C_, D
<1>5. ASSUME NEW c \in Currencies PROVE total_(D)[c] = 0
  <2>1. total_(A)[c] + total_(D)[c] = total_(B)[c] + total_(C_)[c]
    BY <1>2, <1>3, TwoWays
  <2>2. \A S \in {A, B, C_, D} : total_(S) \in Balances /\ total_(S)[c] \in Int
    <3>1. \A S \in {A, B, C_, D} : S \subseteq Moving
      BY <1>2
    <3>2. \A S \in {A, B, C_, D} : total_(S) \in Balances
      BY <3>1, TotalOfMoved
    <3> HIDE DEF total_
    <3> QED
      BY <3>2 DEF Balances
  <2> HIDE DEF total_
  <2>3. Funds \in Balances /\ Funds[c] \in Int
    BY LedgerAssumption DEF Balances
  <2>4. Holding({}, s)[c] = Funds[c] + total_(B)[c] /\ Holding({}, at_)[c] = Funds[c] + total_(A)[c]
    BY <1>4, <2>2, <2>3, BalancesAdd
  <2>5. Holding({}, s)[c] = Holding({}, at_)[c] - total_(C_)[c]
    <3>1. Holding({}, at_) \in Balances
      BY HoldingType
    <3> QED
      BY <2>2, <3>1, BalancesAdd DEF total_, C_
  <2> DEFINE a == total_(A)[c]
             b == total_(B)[c]
             d == total_(D)[c]
             e == total_(C_)[c]
             f == Funds[c]
  <2>6. a \in Int /\ b \in Int /\ d \in Int /\ e \in Int /\ f \in Int
    BY <2>2, <2>3
  <2>7. a + d = b + e /\ f + b = (f + a) - e
    BY <2>1, <2>4, <2>5
  <2> HIDE DEF a, b, d, e, f
  <2>8. d = 0
    BY <2>6, <2>7
  <2> QED
    BY <2>8 DEF d
<1>6. total_(D) = [c \in Currencies |-> total_(D)[c]]
  BY DEF Ledger!Total
<1>7. total_(D) = Ledger!Zero
  <2> HIDE DEF total_
  <2> QED
    BY <1>5, <1>6 DEF Ledger!Zero
<1> QED
  BY <1>7 DEF D

(* Nothing of what stays undone up to the later response is looked at again:
   X has come and gone, and the other reversals moved nothing.               *)
Steady(X, s, at_) ==
    /\ \A i \in Arrived(s, at_) : ~ (venue[i].undone \in 1..at_)
    /\ \A i \in Moving \ X : venue[i].undone \in s + 1..at_ => Ledger!Moved[i] = Ledger!Zero
    /\ \A i \in Moving \cap X : venue[i].at <= s /\ venue[i].undone \in 1..at_

LEMMA WalkBack ==
    ASSUME VenueType, NEW s \in Nat, NEW at_ \in Nat, NEW t \in s..at_, NEW X, Steady(X, s, at_)
    PROVE  Ledger!Minus(Holding({}, at_), Ledger!Total(Ledger!Moved, Arrived(t, at_))) = Holding(X, t)
<1> DEFINE A == InForce(X, at_)
           D == {i \in Moving \ X : venue[i].at \in 1..t /\ venue[i].undone \in t + 1..at_}
           B == InForce(X, t)
           C_ == Arrived(t, at_)
           total_(S) == Ledger!Total(Ledger!Moved, S)
<1>1. ASSUME NEW i \in Moving
      PROVE  /\ (i \in A \/ i \in D) <=> (i \in B \/ i \in C_)
             /\ ~ (i \in A /\ i \in D) /\ ~ (i \in B /\ i \in C_)
             /\ i \in A <=> i \in InForce({}, at_)
             /\ i \in D => Ledger!Moved[i] = Ledger!Zero
  <2>1. /\ instant \in Nat
        /\ venue[i].at \in 0..instant /\ venue[i].undone \in 0..instant
        /\ venue[i].undone # 0 => venue[i].at # 0 /\ venue[i].at < venue[i].undone
    BY DEF VenueType
  <2>2. /\ venue[i].at \in s + 1..at_ => ~ (venue[i].undone \in 1..at_)
        /\ i \notin X => (venue[i].undone \in s + 1..at_ => Ledger!Moved[i] = Ledger!Zero)
        /\ i \in X => venue[i].at <= s /\ venue[i].undone \in 1..at_
    BY DEF Arrived, Steady
  <2>3. (i \in A <=> i \in InForce({}, at_)) /\ (i \in D => Ledger!Moved[i] = Ledger!Zero)
    BY <2>1, <2>2 DEF InForce
  <2>4. CASE i \in X
    BY <2>1, <2>2, <2>4 DEF InForce, Arrived
  <2>5. CASE i \notin X
    BY <2>1, <2>2, <2>5 DEF InForce, Arrived
  <2> QED
    BY <2>3, <2>4, <2>5
<1>2. A \cup D \subseteq Moving /\ B \cup C_ \subseteq Moving /\ InForce({}, at_) \subseteq Moving
  BY DEF InForce, Arrived
<1>3. A \cup D = B \cup C_ /\ A \cap D = {} /\ B \cap C_ = {} /\ A = InForce({}, at_)
  <2> HIDE DEF A, B, C_, D
  <2> QED
    BY <1>1, <1>2
<1>4. Holding(X, t) = Ledger!Plus(Funds, total_(B)) /\ Holding({}, at_) = Ledger!Plus(Funds, total_(A))
  BY <1>3 DEF Holding
<1>5. total_(D) = Ledger!Zero
  <2>1. IsFiniteSet(D) /\ \A i \in D : Ledger!Moved[i] = Ledger!Zero
    BY <1>1, <1>2, LedgerAssumption, FS_Subset
  <2> HIDE DEF D
  <2> QED
    BY <2>1, TotalZero
<1> HIDE DEF A, B, C_, D
<1>6. ASSUME NEW c \in Currencies
      PROVE  Ledger!Minus(Holding({}, at_), total_(C_))[c] = Holding(X, t)[c]
  <2>1. total_(A)[c] + total_(D)[c] = total_(B)[c] + total_(C_)[c]
    BY <1>2, <1>3, TwoWays
  <2>2. \A S \in {A, B, C_, D} : total_(S) \in Balances /\ total_(S)[c] \in Int
    <3>1. \A S \in {A, B, C_, D} : S \subseteq Moving
      BY <1>2
    <3>2. \A S \in {A, B, C_, D} : total_(S) \in Balances
      BY <3>1, TotalOfMoved
    <3> HIDE DEF total_
    <3> QED
      BY <3>2 DEF Balances
  <2> HIDE DEF total_
  <2>3. total_(D)[c] = 0
    BY <1>5 DEF Ledger!Zero
  <2>4. Funds \in Balances /\ Funds[c] \in Int
    BY LedgerAssumption DEF Balances
  <2>5. Holding(X, t)[c] = Funds[c] + total_(B)[c] /\ Holding({}, at_)[c] = Funds[c] + total_(A)[c]
    BY <1>4, <2>2, <2>4, BalancesAdd
  <2>6. Ledger!Minus(Holding({}, at_), total_(C_))[c] = Holding({}, at_)[c] - total_(C_)[c]
    <3>1. Holding({}, at_) \in Balances
      BY HoldingType
    <3> QED
      BY <2>2, <3>1, BalancesAdd
  <2> QED
    BY <2>1, <2>2, <2>3, <2>4, <2>5, <2>6
<1>7. Ledger!Minus(Holding({}, at_), total_(C_)) \in Balances /\ Holding(X, t) \in Balances
  <2>1. total_(C_) \in Balances
    <3>1. C_ \subseteq Moving /\ IsFiniteSet(C_)
      BY <1>2, LedgerAssumption, FS_Subset
    <3>2. \A i \in C_ : Ledger!Moved[i] \in Balances
      BY <3>1, EachMoves
    <3> QED
      BY <3>1, <3>2, TotalType
  <2>2. Holding({}, at_) \in Balances /\ Holding(X, t) \in Balances
    BY HoldingType
  <2> HIDE DEF total_
  <2> QED
    BY <2>1, <2>2, BalancesAdd
<1> HIDE DEF total_
<1>8. Ledger!Minus(Holding({}, at_), total_(C_)) = Holding(X, t)
  BY <1>6, <1>7, BalancesEqual
<1> QED
  BY <1>8 DEF total_, C_

LEMMA CrossedThen ==
    ASSUME VenueType, NEW s \in Nat, NEW at_ \in Nat, NEW u \in s + 1..at_, NEW X, Steady(X, s, at_)
    PROVE  Passing(X, u) = Ledger!Total(Crossings, Done({}, u))
<1>1. Done(X, u) = Done({}, u)
  <2>1. ASSUME NEW i \in Moving, venue[i].at = u PROVE i \notin X
    BY <2>1 DEF Steady
  <2> QED
    BY <2>1 DEF Done
<1> DEFINE S == Undone(X, u)
           T == Done({}, u)
<1>2. IsFiniteSet(S) /\ \A i \in S : Crossings[i] = Ledger!Zero
  <2>1. S \subseteq Moving /\ IsFiniteSet(S)
    BY LedgerAssumption, FS_Subset DEF Undone
  <2>2. ASSUME NEW i \in S PROVE Crossings[i] = Ledger!Zero
    <3>1. i \in Moving /\ i \notin X /\ venue[i].undone \in s + 1..at_
      BY DEF Undone
    <3>2. Ledger!Delta(venue[i].item) = Ledger!Zero
      BY <3>1 DEF Steady, Ledger!Moved
    <3>3. venue[i].item.crossed = Ledger!Zero
      BY <3>1, <3>2, LedgerAssumption DEF VenueType
    <3> QED
      BY <3>1, <3>3 DEF Crossings
  <2> QED
    BY <2>1, <2>2
<1>3. IsFiniteSet(T) /\ \A i \in T : Crossings[i] \in Balances
  <2>1. T \subseteq Moving /\ IsFiniteSet(T)
    BY LedgerAssumption, FS_Subset DEF Done
  <2> QED
    BY <2>1, EachMoves
<1>4. Passing(X, u) = Ledger!Minus(Ledger!Total(Crossings, T), Ledger!Total(Crossings, S))
  BY <1>1 DEF Passing
<1> HIDE DEF S, T
<1>5. Ledger!Total(Crossings, S) = Ledger!Zero /\ Ledger!Total(Crossings, T) \in Balances
  BY <1>2, <1>3, TotalZero, TotalType
<1> DEFINE a == Ledger!Total(Crossings, T)
<1> HIDE DEF a
<1>6. Ledger!Minus(a, Ledger!Zero) = a
  <2>1. a \in Balances
    BY <1>5 DEF a
  <2>2. \A c \in Currencies : a[c] - 0 = a[c]
    BY <2>1 DEF Balances
  <2> QED
    BY <2>1, <2>2 DEF Balances, Ledger!Minus, Ledger!Zero
<1> QED
  BY <1>4, <1>5, <1>6 DEF a, T

-----------------------------------------------------------------------------
(* A refresh that is accepted.                                               *)

(* What the pages showed of the transactions between two balance responses.  *)
ListTrue(records, s, at_) ==
    /\ KnownTrue(records)
    /\ \A i \in Arrived(s, at_) :
          /\ records[i].status \in {"pending", "completed", "reverted"}
          /\ records[i].status # "pending" => records[i].at = venue[i].at
          /\ records[i].status = "completed" => ~ (venue[i].undone \in 1..at_)

LEMMA DetailsAreTrue ==
    ASSUME VenueType, NEW base, KnownTrue(base.known), NEW listed, KnownTrue(listed)
    PROVE  KnownTrue(Ledger!Detailed(base, listed))
<1> SUFFICES ASSUME NEW i \in Moving, Ledger!Detailed(base, listed)[i].at # 0
             PROVE  Ledger!Detailed(base, listed)[i].at = venue[i].at
  BY DEF KnownTrue
<1>1. Ledger!Detailed(base, listed)[i] \in {base.known[i], listed[i], Ledger!View(i)}
  BY DEF Ledger!Detailed
<1> QED
  BY <1>1 DEF KnownTrue, Ledger!View

LEMMA Settled ==
    ASSUME VenueType, NEW base, KnownTrue(base.known), NEW s \in Nat, NEW at_ \in Nat, at_ < instant, NEW held_,
           NEW listed, ListTrue(listed, s, at_),
           NEW records, records = Ledger!Detailed(base, listed),
           Ledger!Acceptable(base, records, s, at_, held_)
    PROVE  /\ Ledger!Moves(records, s, at_) = Arrived(s, at_)
           /\ \A i \in Arrived(s, at_) : /\ records[i].at = venue[i].at /\ ~ (venue[i].undone \in 1..at_)
                                         /\ Ledger!Measurable(venue[i].item)
<1>1. KnownTrue(records)
  BY DetailsAreTrue DEF ListTrue
<1>2. ASSUME NEW i \in Arrived(s, at_)
      PROVE  /\ records[i].status = "completed" /\ records[i].at = venue[i].at
             /\ ~ (venue[i].undone \in 1..at_) /\ Ledger!Measurable(venue[i].item)
  <2>1. /\ i \in Moving /\ venue[i].at \in s + 1..at_ /\ venue[i].at # 0
        /\ venue[i].status \in {"pending", "completed", "reverted"}
        /\ venue[i].undone # 0 <=> venue[i].status = "reverted"
    BY DEF Arrived, VenueType
  <2>2. /\ listed[i].status \in {"pending", "completed", "reverted"}
        /\ listed[i].status # "pending" => listed[i].at = venue[i].at
        /\ listed[i].status = "completed" => ~ (venue[i].undone \in 1..at_)
    BY DEF ListTrue
  <2>3. records[i] = Ledger!View(i) \/ (records[i] = listed[i] /\ listed[i].status # "pending")
    BY <2>1, <2>2 DEF Ledger!Detailed
  <2>4. /\ records[i].status \in {"pending", "completed", "reverted"}
        /\ records[i].status # "pending" => records[i].at = venue[i].at
        /\ records[i].status = "pending" => records[i].at = 0
        /\ records[i].status = "completed" => ~ (venue[i].undone \in 1..at_)
    BY <2>1, <2>2, <2>3 DEF Ledger!View
  <2>5. i \in Ledger!Examined(records, s)
    BY <2>1, <2>4 DEF Ledger!Examined
  <2>6. ~ Ledger!Unsettled(records[i]) /\ (records[i].status = "completed" => Ledger!Measurable(venue[i].item))
    BY <2>5 DEF Ledger!Acceptable
  <2> QED
    BY <2>4, <2>6 DEF Ledger!Unsettled
<1>3. Ledger!Moves(records, s, at_) \subseteq Arrived(s, at_)
  BY <1>1 DEF Ledger!Moves, Arrived, KnownTrue
<1>4. Arrived(s, at_) \subseteq Ledger!Moves(records, s, at_)
  BY <1>2 DEF Ledger!Moves, Arrived
<1> QED
  BY <1>2, <1>3, <1>4

(* The points of the new history, and what they state.                       *)
Walked(records, moves, held_, t, at_) == Ledger!Minus(held_, Ledger!Between(moves, records, t + 1, at_))

LEMMA ObservationIs ==
    ASSUME NEW base, NEW records, NEW s \in Nat, NEW at_ \in Nat, NEW held_, NEW moves, moves = Ledger!Moves(records, s, at_),
           NEW made, made = Ledger!Observations(base, records, s, at_, held_), NEW o \in made
    PROVE  \/ o \in base.observations
           \/ base.anchor = <<>> /\ o.kind = "baseline" /\ o.at = s /\ o.held = Walked(records, moves, held_, s, at_)
           \/ o.kind = "day" /\ o.at \in s + 1..at_ /\ o.held = Walked(records, moves, held_, o.at - 1, at_)
           \/ /\ o.kind = "flow" /\ o.at \in s + 1..at_ /\ o.held = Walked(records, moves, held_, o.at, at_)
              /\ o.flow = Ledger!FlowAt(moves, records, o.at)
           \/ o.kind = "snapshot" /\ o.at = at_ /\ o.held = held_
BY DEF Ledger!Observations, Walked

LEMMA ObservationsMade ==
    ASSUME NEW base, NEW records, NEW s, NEW at_, NEW held_, NEW moves, moves = Ledger!Moves(records, s, at_),
           NEW made, made = Ledger!Observations(base, records, s, at_, held_)
    PROVE  /\ base.observations \subseteq made
           /\ base.anchor = <<>> => \E o \in made : o.kind = "baseline" /\ o.at = s
           /\ \E o \in made : o.kind = "snapshot" /\ o.at = at_
           /\ \A t \in s + 1..at_ : Ledger!FlowAt(moves, records, t) # Ledger!Zero =>
                 \E o \in made : o.kind = "flow" /\ o.at = t
<1>1. base.observations \subseteq made
  BY DEF Ledger!Observations
<1>2. base.anchor = <<>> => \E o \in made : o.kind = "baseline" /\ o.at = s
  <2> DEFINE o_ == [kind |-> "baseline", at |-> s, held |-> Walked(records, moves, held_, s, at_), flow |-> Ledger!Zero]
  <2>1. base.anchor = <<>> => o_ \in made
    BY DEF Ledger!Observations, Walked
  <2>2. o_.kind = "baseline" /\ o_.at = s
    OBVIOUS
  <2> QED
    BY <2>1, <2>2
<1>3. \E o \in made : o.kind = "snapshot" /\ o.at = at_
  <2> DEFINE o_ == [kind |-> "snapshot", at |-> at_, held |-> held_, flow |-> Ledger!Zero]
  <2>1. o_ \in made
    BY DEF Ledger!Observations
  <2>2. o_.kind = "snapshot" /\ o_.at = at_
    OBVIOUS
  <2> QED
    BY <2>1, <2>2
<1>4. ASSUME NEW t \in s + 1..at_, Ledger!FlowAt(moves, records, t) # Ledger!Zero
      PROVE  \E o \in made : o.kind = "flow" /\ o.at = t
  <2> DEFINE flow_ == Ledger!FlowAt(moves, records, t)
             o_ == [kind |-> "flow", at |-> t, held |-> Walked(records, moves, held_, t, at_), flow |-> flow_]
  <2>1. o_ \in made
    BY <1>4 DEF Ledger!Observations, Walked
  <2>2. o_.kind = "flow" /\ o_.at = t
    OBVIOUS
  <2> QED
    BY <2>1, <2>2
<1> QED
  BY <1>1, <1>2, <1>3, <1>4

LEMMA BaselineIs ==
    ASSUME NEW w, NEW b, \E o \in w.observations : o.kind = "baseline",
           \A o \in w.observations : o.kind = "baseline" => o.at = b
    PROVE  Ledger!BaselineOf(w) = b
BY DEF Ledger!BaselineOf

LEMMA LeastOf ==
    ASSUME NEW S, S \subseteq Nat, NEW least \in S, \A x \in S : least <= x
    PROVE  Ledger!Min(S) = least
<1>1. Ledger!Min(S) \in S /\ \A x \in S : Ledger!Min(S) <= x
  BY DEF Ledger!Min
<1>2. Ledger!Min(S) \in Nat /\ least \in Nat /\ Ledger!Min(S) <= least /\ least <= Ledger!Min(S)
  BY <1>1
<1> QED
  BY <1>2

(* What was read is what arrived, with its time.                             *)
Read(records, s, at_) ==
    \A i \in Arrived(s, at_) : /\ records[i].at = venue[i].at /\ ~ (venue[i].undone \in 1..at_)
                               /\ Ledger!Measurable(venue[i].item)

LEMMA WalkIsRead ==
    ASSUME VenueType, NEW s \in Nat, NEW at_ \in Nat, NEW records, Read(records, s, at_), NEW held_
    PROVE  /\ \A t \in s..at_ : Walked(records, Arrived(s, at_), held_, t, at_)
                                    = Ledger!Minus(held_, Ledger!Total(Ledger!Moved, Arrived(t, at_)))
           /\ \A u \in s + 1..at_ : Ledger!FlowAt(Arrived(s, at_), records, u) = Ledger!Total(Crossings, Done({}, u))
<1>1. ASSUME NEW t \in s..at_
      PROVE  Walked(records, Arrived(s, at_), held_, t, at_)
                 = Ledger!Minus(held_, Ledger!Total(Ledger!Moved, Arrived(t, at_)))
  <2>1. {i \in Arrived(s, at_) : records[i].at \in t + 1..at_} = Arrived(t, at_)
    <3>1. \A i \in Moving : venue[i].at \in t + 1..at_ => venue[i].at \in s + 1..at_
      BY DEF VenueType
    <3> QED
      BY <3>1 DEF Read, Arrived
  <2>2. Ledger!Between(Arrived(s, at_), records, t + 1, at_) = Ledger!Total(Ledger!Moved, Arrived(t, at_))
    BY <2>1 DEF Ledger!Between
  <2> QED
    BY <2>2 DEF Walked
<1>2. ASSUME NEW u \in s + 1..at_
      PROVE  Ledger!FlowAt(Arrived(s, at_), records, u) = Ledger!Total(Crossings, Done({}, u))
  <2> DEFINE S == {i \in Arrived(s, at_) : records[i].at = u}
             flows == [i \in Moving |-> Ledger!Flow(venue[i].item)]
  <2>1. S = Done({}, u)
    BY DEF Read, Arrived, Done
  <2>2. ASSUME NEW i \in S PROVE Crossings[i] = flows[i]
    <3>1. i \in Moving /\ Ledger!Measurable(venue[i].item) /\ venue[i].item \in Items[i]
      BY DEF Read, Arrived, VenueType
    <3>2. Ledger!Flow(venue[i].item) = venue[i].item.crossed
      BY <3>1, LedgerAssumption
    <3> QED
      BY <3>1, <3>2 DEF Crossings
  <2>3. Ledger!FlowAt(Arrived(s, at_), records, u) = Ledger!Total(flows, S)
    BY DEF Ledger!FlowAt
  <2> HIDE DEF flows, S
  <2>4. Ledger!Total(Crossings, S) = Ledger!Total(flows, S)
    BY <2>2, TotalSame
  <2> QED
    BY <2>1, <2>3, <2>4
<1> QED
  BY <1>1, <1>2

(* The new row: its last snapshot, its baseline and its first snapshot.      *)
LEMMA ExtendedIsDated ==
    ASSUME VenueType, NEW base, Dated(base), NEW records, NEW at_ \in Nat, at_ < instant, NEW held_,
           NEW s \in Nat, s = Ledger!StartOf(base, at_), s < at_,
           NEW w, w = Ledger!Extended(base, records, at_, held_)
    PROVE  /\ Dated(w) /\ w.anchor # <<>> /\ w.anchor[1].at = at_ /\ w.anchor[1].held = held_
           /\ w.observations = Ledger!Observations(base, records, s, at_, held_)
           /\ Ledger!BaselineOf(w) = (IF base.anchor = <<>> THEN s ELSE Ledger!BaselineOf(base))
           /\ Ledger!Min(Ledger!Snapshots(w)) = (IF base.anchor = <<>> THEN at_ ELSE Ledger!Min(Ledger!Snapshots(base)))
           /\ at_ \in Ledger!Snapshots(w) /\ Ledger!Snapshots(base) \subseteq Ledger!Snapshots(w)
<1> DEFINE b == IF base.anchor = <<>> THEN s ELSE Ledger!BaselineOf(base)
<1> PICK moves, made : moves = Ledger!Moves(records, s, at_) /\ made = Ledger!Observations(base, records, s, at_, held_)
  OBVIOUS
<1>1. /\ DOMAIN w = {"checkedAt", "error", "anchor", "observations", "known"}
      /\ w.anchor = <<[at |-> at_, held |-> held_]>> /\ w.observations = made
  <2>1. w = [checkedAt |-> Ledger!Clock, error |-> FALSE, anchor |-> <<[at |-> at_, held |-> held_]>>, known |-> records,
             observations |-> made]
    BY DEF Ledger!Extended
  <2> QED
    BY <2>1
<1>2. w.anchor # <<>> /\ w.anchor[1].at = at_ /\ w.anchor[1].held = held_
  BY <1>1
<1>3. /\ b \in Nat /\ b <= s
      /\ \A o \in base.observations :
            o.at \in Nat /\ o.at <= s /\ (IF o.kind = "baseline" THEN o.at = b ELSE b < o.at)
      /\ base.anchor # <<>> => \E o \in base.observations : o.kind = "baseline"
  BY DEF Dated, Ledger!StartOf
<1>4. \A o \in made : o.at \in Nat /\ o.at <= at_ /\ (IF o.kind = "baseline" THEN o.at = b ELSE b < o.at)
  <2> SUFFICES ASSUME NEW o \in made
               PROVE  o.at \in Nat /\ o.at <= at_ /\ (IF o.kind = "baseline" THEN o.at = b ELSE b < o.at)
    OBVIOUS
  <2>1. \/ o \in base.observations
        \/ base.anchor = <<>> /\ o.kind = "baseline" /\ o.at = s
        \/ o.kind \in {"day", "flow"} /\ o.at \in s + 1..at_
        \/ o.kind = "snapshot" /\ o.at = at_
    BY ObservationIs
  <2>2. CASE o \in base.observations
    BY <1>3, <2>2
  <2>3. CASE base.anchor = <<>> /\ o.kind = "baseline" /\ o.at = s
    BY <2>3
  <2>4. CASE o.kind \in {"day", "flow"} /\ o.at \in s + 1..at_
    <3> HIDE DEF b
    <3> QED
      BY <1>3, <2>4
  <2>5. CASE o.kind = "snapshot" /\ o.at = at_
    <3> HIDE DEF b
    <3> QED
      BY <1>3, <2>5
  <2> QED
    BY <2>1, <2>2, <2>3, <2>4, <2>5
<1>5. /\ base.observations \subseteq made /\ (\E o \in made : o.kind = "snapshot" /\ o.at = at_)
      /\ \E o \in made : o.kind = "baseline"
  <2>1. base.observations \subseteq made
    BY ObservationsMade
  <2>2. \E o \in made : o.kind = "snapshot" /\ o.at = at_
    BY ObservationsMade
  <2>3. base.anchor = <<>> => \E o \in made : o.kind = "baseline" /\ o.at = s
    BY ObservationsMade
  <2> QED
    BY <1>3, <2>1, <2>2, <2>3
<1> HIDE DEF b
<1>6. Ledger!BaselineOf(w) = b
  BY <1>1, <1>4, <1>5, BaselineIs
<1>7. at_ \in Ledger!Snapshots(w) /\ Ledger!Snapshots(base) \subseteq Ledger!Snapshots(w)
  BY <1>1, <1>5 DEF Ledger!Snapshots
<1>8. Dated(w)
  <2>1. b < at_
    BY <1>3
  <2> QED
    BY <1>1, <1>2, <1>4, <1>5, <1>6, <1>7, <2>1 DEF Dated, RowShape
<1>9. Ledger!Min(Ledger!Snapshots(w)) = (IF base.anchor = <<>> THEN at_ ELSE Ledger!Min(Ledger!Snapshots(base)))
  <2>1. Ledger!Snapshots(w) \subseteq Ledger!Snapshots(base) \cup {at_}
    <3>1. ASSUME NEW o \in made, o.kind = "snapshot" PROVE o \in base.observations \/ o.at = at_
      BY <3>1, ObservationIs
    <3> QED
      BY <1>1, <3>1 DEF Ledger!Snapshots
  <2>2. Ledger!Snapshots(w) \subseteq Nat
    BY <1>8, <1>2, FirstSnapshot
  <2>3. CASE base.anchor = <<>>
    <3>1. Ledger!Snapshots(base) = {}
      BY <2>3 DEF Dated, Ledger!Snapshots
    <3>2. \A x \in Ledger!Snapshots(w) : at_ <= x
      BY <2>1, <3>1
    <3> QED
      BY <1>7, <2>2, <2>3, <3>2, LeastOf
  <2>4. CASE base.anchor # <<>>
    <3> DEFINE least == Ledger!Min(Ledger!Snapshots(base))
    <3>1. /\ least \in Ledger!Snapshots(base)
          /\ \A x \in Ledger!Snapshots(base) : least <= x /\ x <= s
      BY <2>4, FirstSnapshot DEF Ledger!StartOf
    <3> HIDE DEF least
    <3>2. least \in Ledger!Snapshots(w) /\ least \in Nat /\ least <= at_
      BY <1>7, <2>2, <3>1
    <3>3. \A x \in Ledger!Snapshots(w) : least <= x
      BY <2>1, <3>1, <3>2
    <3>4. Ledger!Min(Ledger!Snapshots(w)) = least
      BY <2>2, <3>2, <3>3, LeastOf
    <3> QED
      BY <2>4, <3>4 DEF least
  <2> QED
    BY <2>3, <2>4
<1> QED
  BY <1>1, <1>2, <1>6, <1>7, <1>8, <1>9 DEF b

(* A history that was true up to the last snapshot is true up to the new one. *)
LEMMA TruthGrows ==
    ASSUME VenueType, NEW base, RowTrue(base), NEW records, NEW at_ \in Nat, at_ < instant,
           NEW s \in Nat, s = Ledger!StartOf(base, at_), s < at_,
           Ledger!Moves(records, s, at_) = Arrived(s, at_), Read(records, s, at_),
           NEW w, w = Ledger!Extended(base, records, at_, Holding({}, at_)),
           Steady(Ledger!Void(w), s, at_),
           base.anchor # <<>> => Ledger!Truthful(base) /\ Ledger!Void(w) = Ledger!Void(base)
    PROVE  Ledger!Truthful(w)
<1> PICK held_, made, moves : /\ held_ = Holding({}, at_) /\ moves = Arrived(s, at_)
                              /\ made = Ledger!Observations(base, records, s, at_, held_)
  OBVIOUS
<1> DEFINE X == Ledger!Void(w)
           b == Ledger!BaselineOf(w)
<1>1. /\ Dated(base) /\ w.anchor # <<>> /\ w.anchor[1].at = at_ /\ w.observations = made
      /\ b = (IF base.anchor = <<>> THEN s ELSE Ledger!BaselineOf(base))
  <2>1. Dated(base) /\ w = Ledger!Extended(base, records, at_, held_)
    BY DEF RowTrue
  <2> HIDE DEF b
  <2> DEFINE v == Ledger!Extended(base, records, at_, held_)
             made_ == Ledger!Observations(base, records, s, at_, held_)
  <2>2. /\ v.anchor # <<>> /\ v.anchor[1].at = at_
        /\ Ledger!BaselineOf(v) = (IF base.anchor = <<>> THEN s ELSE Ledger!BaselineOf(base))
    BY <2>1, ExtendedIsDated
  <2>4. v.observations = made_
    BY DEF Ledger!Extended
  <2>3. v = w /\ made_ = made
    BY <2>1
  <2> HIDE DEF v, made_
  <2> QED
    BY <2>1, <2>2, <2>3, <2>4 DEF b
<1>2. \A t \in s..at_ : Walked(records, moves, held_, t, at_) = Ledger!HeldThen(w, t)
  <2> SUFFICES ASSUME NEW t \in s..at_ PROVE Walked(records, moves, held_, t, at_) = Ledger!HeldThen(w, t)
    OBVIOUS
  <2>1. Walked(records, moves, held_, t, at_) = Ledger!Minus(held_, Ledger!Total(Ledger!Moved, Arrived(t, at_)))
    BY WalkIsRead
  <2>2. Ledger!Minus(held_, Ledger!Total(Ledger!Moved, Arrived(t, at_))) = Holding(X, t)
    BY WalkBack
  <2> QED
    BY <2>1, <2>2, HeldIsHolding
<1>3. held_ = Ledger!HeldThen(w, at_)
  <2>1. InForce({}, at_) = InForce(X, at_)
    BY DEF InForce, Steady
  <2>2. held_ = Holding(X, at_)
    BY <2>1 DEF Holding
  <2> QED
    BY <2>2, HeldIsHolding
<1>4. \A u \in s + 1..at_ : Ledger!FlowAt(moves, records, u) = Ledger!Crossed(w, u)
  <2> SUFFICES ASSUME NEW u \in s + 1..at_ PROVE Ledger!FlowAt(moves, records, u) = Ledger!Crossed(w, u)
    OBVIOUS
  <2>1. Ledger!FlowAt(moves, records, u) = Ledger!Total(Crossings, Done({}, u))
    BY WalkIsRead
  <2>2. Passing(X, u) = Ledger!Total(Crossings, Done({}, u))
    BY CrossedThen
  <2> QED
    BY <2>1, <2>2, HeldIsHolding
<1>5. base.anchor # <<>> =>
        /\ \A t : Ledger!HeldThen(w, t) = Ledger!HeldThen(base, t)
        /\ \A t : Ledger!Crossed(w, t) = Ledger!Crossed(base, t)
  BY HeldIsHolding
<1>6. /\ base.anchor = <<>> => base.observations = {}
      /\ base.anchor # <<>> => base.anchor[1].at = s
  BY <1>1 DEF Dated, Ledger!StartOf
<1>7. ASSUME NEW o \in made
      PROVE  /\ o.held = Ledger!HeldThen(w, IF o.kind = "day" THEN o.at - 1 ELSE o.at)
             /\ o.kind = "flow" => o.flow = Ledger!Crossed(w, o.at)
  <2>1. \/ o \in base.observations
        \/ base.anchor = <<>> /\ o.kind = "baseline" /\ o.at = s /\ o.held = Walked(records, moves, held_, s, at_)
        \/ o.kind = "day" /\ o.at \in s + 1..at_ /\ o.held = Walked(records, moves, held_, o.at - 1, at_)
        \/ /\ o.kind = "flow" /\ o.at \in s + 1..at_ /\ o.held = Walked(records, moves, held_, o.at, at_)
           /\ o.flow = Ledger!FlowAt(moves, records, o.at)
        \/ o.kind = "snapshot" /\ o.at = at_ /\ o.held = held_
    BY ObservationIs
  <2> HIDE DEF X, b
  <2>2. CASE o \in base.observations
    <3>1. base.anchor # <<>> /\ Ledger!Truthful(base)
      BY <1>6, <2>2
    <3> QED
      BY <1>5, <2>2, <3>1 DEF Ledger!Truthful
  <2>3. CASE o.kind = "baseline" /\ o.at = s /\ o.held = Walked(records, moves, held_, s, at_)
    BY <1>2, <2>3
  <2>4. CASE o.kind = "day" /\ o.at \in s + 1..at_ /\ o.held = Walked(records, moves, held_, o.at - 1, at_)
    BY <1>2, <2>4
  <2>5. CASE /\ o.kind = "flow" /\ o.at \in s + 1..at_ /\ o.held = Walked(records, moves, held_, o.at, at_)
             /\ o.flow = Ledger!FlowAt(moves, records, o.at)
    BY <1>2, <1>4, <2>5
  <2>6. CASE o.kind = "snapshot" /\ o.at = at_ /\ o.held = held_
    BY <1>3, <2>6
  <2> QED
    BY <2>1, <2>2, <2>3, <2>4, <2>5, <2>6
<1>8. ASSUME NEW t \in b + 1..at_, Ledger!Crossed(w, t) # Ledger!Zero
      PROVE  \E o \in made : o.kind = "flow" /\ o.at = t
  <2>1. CASE t \in s + 1..at_
    <3>1. \A u \in s + 1..at_ : Ledger!FlowAt(moves, records, u) # Ledger!Zero => \E o \in made : o.kind = "flow" /\ o.at = u
      BY ObservationsMade
    <3> HIDE DEF X, b
    <3> QED
      BY <1>4, <1>8, <2>1, <3>1
  <2>2. CASE ~ (t \in s + 1..at_)
    <3>1. base.observations \subseteq made
      BY ObservationsMade
    <3> HIDE DEF X
    <3>2. base.anchor # <<>> /\ b = Ledger!BaselineOf(base) /\ b \in Nat
      <4>1. b \in Nat
        BY <1>1 DEF Dated
      <4> HIDE DEF b
      <4>2. t \in b + 1..s
        BY <2>2, <4>1
      <4> QED
        BY <1>1, <4>1, <4>2
    <3> HIDE DEF b
    <3>3. t \in Ledger!BaselineOf(base) + 1..base.anchor[1].at
      BY <1>6, <2>2, <3>2
    <3>4. Ledger!Crossed(base, t) # Ledger!Zero
      BY <1>5, <1>8, <3>2
    <3>5. \E o \in base.observations : o.kind = "flow" /\ o.at = t
      BY <3>2, <3>3, <3>4 DEF Ledger!Truthful
    <3> QED
      BY <3>1, <3>5
  <2> QED
    BY <2>1, <2>2
<1> QED
  BY <1>1, <1>7, <1>8 DEF Ledger!Truthful

LEMMA OffsetGrows ==
    ASSUME NEW base, NEW w, Ledger!Snapshots(base) \subseteq Ledger!Snapshots(w), Ledger!Offset(base)
    PROVE  Ledger!Offset(w)
BY DEF Ledger!Offset

LEMMA StartIsTime ==
    ASSUME NEW base, Dated(base), NEW at_ \in Nat
    PROVE  Ledger!StartOf(base, at_) \in Nat
<1>1. CASE base.anchor # <<>>
  BY <1>1 DEF Ledger!StartOf, Dated
<1>2. CASE base.anchor = <<>>
  <2>1. Day \in Nat \ {0}
    BY LedgerAssumption
  <2> DEFINE days == at_ \div Day
  <2>2. days \in Nat
    BY <2>1
  <2> HIDE DEF days
  <2>3. days * Day \in Nat
    BY <2>1, <2>2
  <2> QED
    BY <1>2, <2>3 DEF Ledger!StartOf, days
<1> QED
  BY <1>1, <1>2

LEMMA ExtendedIsTrue ==
    ASSUME VenueType, NEW base, RowTrue(base), KnownTrue(base.known), NEW at_ \in Nat, at_ < instant,
           NEW listed, ListTrue(listed, Ledger!StartOf(base, at_), at_),
           NEW records, records = Ledger!Detailed(base, listed),
           NEW held_, held_ = Holding({}, at_),
           Ledger!Acceptable(base, records, Ledger!StartOf(base, at_), at_, held_)
    PROVE  RowTrue(Ledger!Extended(base, records, at_, held_))
<1> DEFINE s == Ledger!StartOf(base, at_)
           w == Ledger!Extended(base, records, at_, held_)
<1>1. s \in Nat /\ s < at_
  BY StartIsTime DEF RowTrue, Ledger!Acceptable
<1> HIDE DEF s
<1> SUFFICES RowTrue(w)
  OBVIOUS
<1>2. Ledger!Moves(records, s, at_) = Arrived(s, at_) /\ Read(records, s, at_)
  BY <1>1, Settled DEF s, Read
<1>3. /\ Dated(w) /\ w.anchor # <<>> /\ w.anchor[1].at = at_ /\ w.anchor[1].held = held_
      /\ Ledger!BaselineOf(w) = (IF base.anchor = <<>> THEN s ELSE Ledger!BaselineOf(base))
      /\ Ledger!Min(Ledger!Snapshots(w)) = (IF base.anchor = <<>> THEN at_ ELSE Ledger!Min(Ledger!Snapshots(base)))
      /\ at_ \in Ledger!Snapshots(w) /\ Ledger!Snapshots(base) \subseteq Ledger!Snapshots(w)
  BY <1>1, ExtendedIsDated DEF RowTrue, s
<1> HIDE DEF w
<1>4. \A i \in Arrived(s, at_) : ~ (venue[i].undone \in 1..at_)
  BY <1>2 DEF Read
<1>5. CASE base.anchor = <<>>
  <2>1. Ledger!Void(w) = {i \in Moving : venue[i].status = "reverted" /\ venue[i].at <= s /\ venue[i].undone <= at_}
    BY <1>3, <1>5 DEF Ledger!Void
  <2>2. Steady(Ledger!Void(w), s, at_)
    <3>1. ASSUME NEW i \in Moving
          PROVE  /\ i \notin Ledger!Void(w) => ~ (venue[i].undone \in s + 1..at_)
                 /\ i \in Ledger!Void(w) => venue[i].at <= s /\ venue[i].undone \in 1..at_
      <4>1. /\ instant \in Nat /\ venue[i].at \in 0..instant /\ venue[i].undone \in 0..instant
            /\ venue[i].undone # 0 <=> venue[i].status = "reverted"
            /\ venue[i].undone # 0 => venue[i].at < venue[i].undone
        BY DEF VenueType
      <4>2. venue[i].at \in s + 1..at_ => ~ (venue[i].undone \in 1..at_)
        BY <1>4 DEF Arrived
      <4> QED
        BY <1>1, <2>1, <4>1, <4>2
    <3> QED
      BY <1>4, <3>1 DEF Steady
  <2>3. Ledger!Truthful(w)
    BY <1>1, <1>2, <1>5, <2>2, TruthGrows DEF s, w
  <2> QED
    BY <1>3, <2>3 DEF RowTrue
<1>6. CASE base.anchor # <<>>
  <2>1. Ledger!Void(w) = Ledger!Void(base)
    BY <1>3, <1>6 DEF Ledger!Void
  <2>2. /\ base.anchor[1].at = s /\ base.anchor[1].held = Holding({}, s) /\ s \in Ledger!Snapshots(w)
        /\ Ledger!Min(Ledger!Snapshots(base)) \in Nat /\ Ledger!Min(Ledger!Snapshots(base)) <= s
        /\ Ledger!BaselineOf(base) \in Nat /\ Ledger!BaselineOf(base) < s
    BY <1>3, <1>6, FirstSnapshot DEF RowTrue, Dated, Ledger!StartOf, s
  <2>3. Ledger!Total(Ledger!Moved, Reversed(s, at_)) = Ledger!Zero
    <3>1. base.anchor[1].held = Walked(records, Arrived(s, at_), held_, s, at_)
      BY <1>2, <1>6 DEF Ledger!Acceptable, Ledger!Reconciled, Walked, s
    <3>2. Walked(records, Arrived(s, at_), held_, s, at_) = Ledger!Minus(held_, Ledger!Total(Ledger!Moved, Arrived(s, at_)))
      BY <1>1, <1>2, WalkIsRead
    <3> QED
      BY <1>1, <1>4, <2>2, <3>1, <3>2, ReversalsCancel
  <2>4. CASE \E i \in Reversed(s, at_) : Ledger!Moved[i] # Ledger!Zero
    <3>1. Ledger!Offset(w)
      BY <1>3, <2>2, <2>3, <2>4 DEF Ledger!Offset, Reversed
    <3> QED
      BY <1>3, <3>1 DEF RowTrue
  <2>5. CASE Ledger!Offset(base)
    <3>1. Ledger!Offset(w)
      BY <1>3, <2>5, OffsetGrows
    <3> QED
      BY <1>3, <3>1 DEF RowTrue
  <2>6. CASE Ledger!Truthful(base) /\ \A i \in Reversed(s, at_) : Ledger!Moved[i] = Ledger!Zero
    <3>1. Steady(Ledger!Void(w), s, at_)
      <4>1. ASSUME NEW i \in Moving, i \in Ledger!Void(w) PROVE venue[i].at <= s /\ venue[i].undone \in 1..at_
        <5>1. /\ venue[i].status = "reverted" /\ venue[i].at <= Ledger!BaselineOf(base)
              /\ venue[i].undone <= Ledger!Min(Ledger!Snapshots(base))
          BY <2>1, <4>1 DEF Ledger!Void
        <5>2. venue[i].at \in Nat /\ venue[i].undone \in Nat /\ venue[i].undone # 0
          BY <5>1 DEF VenueType
        <5> QED
          BY <1>1, <2>2, <5>1, <5>2
      <4> QED
        BY <1>4, <2>6, <4>1 DEF Steady, Reversed
    <3>2. Ledger!Truthful(w)
      BY <1>1, <1>2, <2>1, <2>6, <3>1, TruthGrows DEF s, w
    <3> QED
      BY <1>3, <3>2 DEF RowTrue
  <2> QED
    BY <1>6, <2>4, <2>5, <2>6 DEF RowTrue
<1> QED
  BY <1>5, <1>6

-----------------------------------------------------------------------------
(* The invariant: the row is true, and so is what each refresh carries.      *)

RefreshTrue(s) ==
    /\ s.stage \in {"list", "details"} =>
          /\ RowTrue(s.base) /\ KnownTrue(s.base.known)
          /\ s.at \in Nat /\ s.at < instant /\ s.held = Holding({}, s.at)
    /\ s.stage = "details" => ListTrue(s.records, Ledger!StartOf(s.base, s.at), s.at)
    /\ s.stage = "commit" => RowTrue(s.next) /\ KnownTrue(s.next.known)

HistoryInv ==
    /\ LedgerInv /\ VenueType
    /\ RowTrue(row) /\ KnownTrue(row.known)
    /\ \A r \in Refreshing : RefreshTrue(refresh[r])

LEMMA RefreshStays ==
    ASSUME VenueType, VenueType', VenueMoves, NEW s, RefreshTrue(s)
    PROVE  RefreshTrue(s)'
<1>1. ASSUME s.stage \in {"list", "details"}
      PROVE  (RowTrue(s.base) /\ KnownTrue(s.base.known) /\ s.at \in Nat /\ s.at < instant /\ s.held = Holding({}, s.at))'
  <2>1. RowTrue(s.base) /\ KnownTrue(s.base.known) /\ s.at \in Nat /\ s.at < instant /\ s.held = Holding({}, s.at)
    BY <1>1 DEF RefreshTrue
  <2> PICK t, w, known : t = s.at /\ w = s.base /\ known = s.base.known
    OBVIOUS
  <2>2. RowTrue(w)' /\ KnownTrue(known)'
    BY <2>1, RowStays, KnownStays
  <2>3. Holding({}, t)' = Holding({}, t)
    BY <2>1, PastIsFixed
  <2>4. t < instant'
    BY <2>1 DEF VenueType, VenueMoves
  <2> QED
    BY <2>1, <2>2, <2>3, <2>4
<1>2. ASSUME s.stage = "details" PROVE ListTrue(s.records, Ledger!StartOf(s.base, s.at), s.at)'
  <2> PICK records, start, t : records = s.records /\ start = Ledger!StartOf(s.base, s.at) /\ t = s.at
    OBVIOUS
  <2>1. ListTrue(records, start, t) /\ RowTrue(s.base) /\ t \in Nat /\ t < instant
    BY <1>2 DEF RefreshTrue
  <2>2. start \in Nat
    BY <2>1, StartIsTime DEF RowTrue
  <2>3. KnownTrue(records)'
    BY <2>1, KnownStays DEF ListTrue
  <2>4. ASSUME NEW i \in Moving, venue'[i].at \in start + 1..t
        PROVE  i \in Arrived(start, t) /\ venue'[i].at = venue[i].at /\ (venue'[i].undone \in 1..t => venue[i].undone \in 1..t)
    <3>1. Unborn(i) \/ GoesOn(i)
      BY DEF VenueMoves
    <3>2. instant \in Nat
      BY DEF VenueType
    <3> QED
      BY <2>1, <2>2, <2>4, <3>1, <3>2 DEF Unborn, GoesOn, Arrived
  <2>5. ListTrue(records, start, t)'
    BY <2>1, <2>3, <2>4 DEF ListTrue, Arrived
  <2>6. Ledger!StartOf(s.base, s.at)' = start
    BY DEF Ledger!StartOf
  <2> QED
    BY <2>5, <2>6 DEF Ledger!StartOf
<1>3. ASSUME s.stage = "commit" PROVE (RowTrue(s.next) /\ KnownTrue(s.next.known))'
  <2> PICK w, known : w = s.next /\ known = s.next.known
    OBVIOUS
  <2>1. RowTrue(w) /\ KnownTrue(known)
    BY <1>3 DEF RefreshTrue
  <2>2. RowTrue(w)' /\ KnownTrue(known)'
    BY <2>1, RowStays, KnownStays
  <2> QED
    BY <2>2
<1> QED
  BY <1>1, <1>2, <1>3 DEF RefreshTrue

LEMMA IdleIsTrue == RefreshTrue(Ledger!Idle) /\ Ledger!Idle.stage = "idle"
BY DEF RefreshTrue, Ledger!Idle

(* One invocation moves, and the row stays or becomes a true one.            *)
LEMMA OneKeepsTruth ==
    ASSUME HistoryInv, LedgerInv', VenueType', VenueMoves, NEW r \in Refreshing, NEW s, refresh' = [refresh EXCEPT ![r] = s],
           RefreshTrue(s)', NEW w, row' = w, RowTrue(w), KnownTrue(w.known)
    PROVE  HistoryInv'
<1>1. ASSUME NEW q \in Refreshing PROVE RefreshTrue(refresh[q])'
  <2>1. DOMAIN refresh = Refreshing
    BY DEF HistoryInv, LedgerInv
  <2>2. CASE q = r
    BY <2>1, <2>2
  <2>3. CASE q # r
    <3> PICK t : t = refresh[q]
      OBVIOUS
    <3>1. RefreshTrue(t)'
      BY RefreshStays DEF HistoryInv
    <3>2. refresh'[q] = t
      BY <2>1, <2>3
    <3> QED
      BY <3>1, <3>2
  <2> QED
    BY <2>2, <2>3
<1>2. RowTrue(w)'
  BY RowStays DEF HistoryInv
<1>3. KnownTrue(w.known)'
  <2> PICK known : known = w.known
    OBVIOUS
  <2>1. KnownTrue(known)'
    BY KnownStays DEF HistoryInv
  <2> QED
    BY <2>1
<1>4. RowTrue(row)' /\ KnownTrue(row.known)'
  BY <1>2, <1>3
<1> QED
  BY <1>1, <1>4 DEF HistoryInv

(* A failed reading leaves the history alone.                                *)
LEMMA FailedIsTrue ==
    ASSUME NEW base, RowTrue(base), KnownTrue(base.known), NEW records, KnownTrue(records)
    PROVE  RowTrue(Ledger!Failed(base, records)) /\ KnownTrue(Ledger!Failed(base, records).known)
<1> DEFINE known == [i \in Moving |-> IF base.known[i].status = "none" /\ records[i].status = "pending"
                                         THEN records[i] ELSE base.known[i]]
           clock_ == Ledger!Clock
<1> PICK w : w = Ledger!Failed(base, records)
  OBVIOUS
<1>1. w = [base EXCEPT !.error = TRUE, !.checkedAt = clock_, !.known = known]
  BY DEF Ledger!Failed
<1>2. KnownTrue(known)
  BY DEF KnownTrue
<1> HIDE DEF known, clock_
<1>3. /\ RowShape(w) /\ w.anchor = base.anchor /\ w.observations = base.observations /\ w.known = known
  BY <1>1 DEF RowTrue, Dated, RowShape
<1>4. /\ Ledger!BaselineOf(w) = Ledger!BaselineOf(base) /\ Ledger!Snapshots(w) = Ledger!Snapshots(base)
  BY <1>3 DEF Ledger!BaselineOf, Ledger!Snapshots
<1>5. Ledger!Void(w) = Ledger!Void(base)
  BY <1>4 DEF Ledger!Void
<1>6. \A t : Ledger!HeldThen(w, t) = Ledger!HeldThen(base, t) /\ Ledger!Crossed(w, t) = Ledger!Crossed(base, t)
  BY <1>5, HeldIsHolding
<1>7. Dated(w)
  BY <1>3, <1>4 DEF RowTrue, Dated
<1>8. Ledger!Offset(base) => Ledger!Offset(w)
  BY <1>4 DEF Ledger!Offset
<1>9. Ledger!Truthful(base) => Ledger!Truthful(w)
  BY <1>3, <1>4, <1>6 DEF Ledger!Truthful
<1>10. RowTrue(w)
  BY <1>3, <1>7, <1>8, <1>9 DEF RowTrue
<1> QED
  BY <1>2, <1>3, <1>10

(* The pages reach back to the last snapshot: what has taken effect since is
   among what they list.                                                     *)
LEMMA ListIsTrue ==
    ASSUME VenueType, NEW base, RowTrue(base), KnownTrue(base.known), NEW at_ \in Nat, NEW from,
           from = Ledger!Min({Ledger!StartOf(base, at_) - Reach, at_ - LookBack}),
           NEW records,
           records = [i \in Moving |-> IF Ledger!Listed(i, from, at_) THEN Ledger!View(i)
                                       ELSE IF base.known[i].status = "pending" THEN base.known[i]
                                       ELSE Ledger!Unknown]
    PROVE  ListTrue(records, Ledger!StartOf(base, at_), at_)
<1> PICK start : start = Ledger!StartOf(base, at_)
  OBVIOUS
<1>1. start \in Nat
  BY StartIsTime DEF RowTrue
<1>2. from \in Int /\ from <= start
  <2> PICK a, b : a = start - Reach /\ b = at_ - LookBack
    OBVIOUS
  <2>1. a \in Int /\ b \in Int /\ a <= start
    BY <1>1, LedgerAssumption
  <2>2. \E x \in {a, b} : \A y \in {a, b} : x <= y
    BY <2>1
  <2>3. Ledger!Min({a, b}) \in {a, b} /\ \A y \in {a, b} : Ledger!Min({a, b}) <= y
    BY <2>2 DEF Ledger!Min
  <2>4. from = Ledger!Min({a, b})
    OBVIOUS
  <2> QED
    BY <1>1, <2>1, <2>3, <2>4
<1>3. KnownTrue(records)
  BY DEF KnownTrue, Ledger!View, Ledger!Unknown
<1>4. ASSUME NEW i \in Arrived(start, at_)
      PROVE  /\ records[i].status \in {"pending", "completed", "reverted"}
             /\ records[i].status # "pending" => records[i].at = venue[i].at
             /\ records[i].status = "completed" => ~ (venue[i].undone \in 1..at_)
  <2>1. /\ i \in Moving /\ venue[i].at \in start + 1..at_ /\ venue[i].at # 0
        /\ venue[i].status \in {"pending", "completed", "reverted"}
        /\ venue[i].undone # 0 <=> venue[i].status = "reverted"
    BY <1>1 DEF Arrived, VenueType
  <2>2. Ledger!Listed(i, from, at_)
    BY <1>1, <1>2, <2>1 DEF Ledger!Listed
  <2> QED
    BY <2>1, <2>2 DEF Ledger!View
<1> QED
  BY <1>3, <1>4 DEF ListTrue

LEMMA HistoryStarts == ASSUME Ledger!Init PROVE HistoryInv
<1>1. row = Ledger!NoRow /\ refresh = [r \in Refreshing |-> Ledger!Idle]
  BY DEF Ledger!Init
<1>2. LedgerInv
  BY <1>1, NoRowIsShaped DEF LedgerInv
<1>3. RowTrue(row) /\ KnownTrue(row.known)
  BY <1>1, NoRowIsShaped DEF RowTrue, Dated, KnownTrue, Ledger!NoRow, Ledger!Unknown
<1> QED
  BY <1>1, <1>2, <1>3, VenueStarts, IdleIsTrue DEF HistoryInv

LEMMA HistoryStep == ASSUME HistoryInv, [Ledger!Next]_(Ledger!vars) PROVE HistoryInv'
<1>0. /\ LedgerInv /\ VenueType /\ RowTrue(row) /\ KnownTrue(row.known)
      /\ LedgerInv' /\ VenueType' /\ VenueMoves
  BY LedgerStep, VenueStep DEF HistoryInv
<1>1. CASE row' = row /\ refresh' = refresh
  <2>1. ASSUME NEW r \in Refreshing PROVE RefreshTrue(refresh[r])'
    <3> PICK s : s = refresh[r]
      OBVIOUS
    <3>1. RefreshTrue(s)'
      BY <1>0, RefreshStays DEF HistoryInv
    <3> QED
      BY <1>1, <3>1
  <2> PICK w, known : w = row /\ known = row.known
    OBVIOUS
  <2>2. RowTrue(w)' /\ KnownTrue(known)'
    BY <1>0, RowStays, KnownStays
  <2>3. RowTrue(row)' /\ KnownTrue(row.known)'
    BY <1>1, <2>2
  <2> QED
    BY <1>0, <2>1, <2>3 DEF HistoryInv
<1>2. ASSUME NEW r \in Refreshing, Ledger!Begin(r) PROVE HistoryInv'
  <2> PICK w, t, held_ : w = row /\ t = instant /\ held_ = Ledger!Held(instant)
    OBVIOUS
  <2> DEFINE s == [Ledger!Idle EXCEPT !.stage = "list", !.base = w, !.at = t, !.held = held_]
  <2>1. refresh' = [refresh EXCEPT ![r] = s] /\ row' = w /\ instant' = t + 1 /\ venue' = venue
    BY <1>2 DEF Ledger!Begin
  <2>2. s.stage = "list" /\ s.base = w /\ s.at = t /\ s.held = held_
    BY DEF Ledger!Idle
  <2> HIDE DEF s
  <2>3. RowTrue(w)' /\ KnownTrue(w.known)'
    <3> PICK known : known = w.known
      OBVIOUS
    <3>1. RowTrue(w)' /\ KnownTrue(known)'
      BY <1>0, RowStays, KnownStays
    <3> QED
      BY <3>1
  <2>4. t \in Nat /\ t < instant'
    BY <1>0, <2>1 DEF VenueType
  <2>5. held_ = Holding({}, t)'
    <3>1. held_ = Holding({}, t)
      BY HeldIsHolding
    <3>2. Holding({}, t)' = Holding({}, t)
      BY <2>1 DEF Holding, InForce, Ledger!Moved
    <3> QED
      BY <3>1, <3>2
  <2>6. RefreshTrue(s)'
    BY <2>2, <2>3, <2>4, <2>5 DEF RefreshTrue
  <2> QED
    BY <1>0, <2>1, <2>6, OneKeepsTruth
<1>3. ASSUME NEW r \in Refreshing, NEW s, refresh' = [refresh EXCEPT ![r] = s], RefreshTrue(s),
             NEW w, row' = w, RowTrue(w), KnownTrue(w.known)
      PROVE  HistoryInv'
  <2>1. RefreshTrue(s)'
    BY <1>0, <1>3, RefreshStays
  <2> QED
    BY <1>0, <1>3, <2>1, OneKeepsTruth
<1>4. ASSUME NEW r \in Refreshing, Ledger!ReadList(r) PROVE HistoryInv'
  <2> DEFINE base == refresh[r].base
             at_  == refresh[r].at
             from == Ledger!Min({Ledger!StartOf(base, at_) - Reach, at_ - LookBack})
             records == [i \in Moving |-> IF Ledger!Listed(i, from, at_) THEN Ledger!View(i)
                                          ELSE IF base.known[i].status = "pending" THEN base.known[i]
                                          ELSE Ledger!Unknown]
             s == [refresh[r] EXCEPT !.stage = "details", !.records = records]
  <2>1. /\ refresh[r].stage = "list" /\ row' = row
        /\ refresh' = [refresh EXCEPT ![r].stage = "details", ![r].records = records]
    BY <1>4 DEF Ledger!ReadList
  <2>2. RefreshTrue(refresh[r]) /\ RefreshShape(refresh[r]) /\ DOMAIN refresh = Refreshing
    BY DEF HistoryInv, LedgerInv
  <2>3. RowTrue(base) /\ KnownTrue(base.known) /\ at_ \in Nat
    BY <2>1, <2>2 DEF RefreshTrue
  <2>4. ListTrue(records, Ledger!StartOf(base, at_), at_)
    <3> HIDE DEF base, at_
    <3> QED
      BY <1>0, <2>3, ListIsTrue
  <2> HIDE DEF records
  <2>5. refresh' = [refresh EXCEPT ![r] = s]
    BY <2>1, <2>2
  <2>6. /\ s.stage = "details" /\ s.records = records /\ s.base = base /\ s.at = at_ /\ s.held = refresh[r].held
    BY <2>2 DEF RefreshShape
  <2> HIDE DEF s
  <2>7. RefreshTrue(s)
    BY <2>1, <2>2, <2>4, <2>6 DEF RefreshTrue
  <2> QED
    BY <1>0, <1>3, <2>1, <2>5, <2>7
<1>5. ASSUME NEW r \in Refreshing, NEW base, NEW next, RowTrue(next), KnownTrue(next.known), row' = row,
             refresh' = [refresh EXCEPT ![r] = [Ledger!Idle EXCEPT !.stage = "commit", !.base = base, !.next = next]]
      PROVE  HistoryInv'
  <2> DEFINE s == [Ledger!Idle EXCEPT !.stage = "commit", !.base = base, !.next = next]
  <2>1. s.stage = "commit" /\ s.next = next
    BY DEF Ledger!Idle
  <2>2. refresh' = [refresh EXCEPT ![r] = s]
    BY <1>5
  <2> HIDE DEF s
  <2>3. RefreshTrue(s)
    BY <1>5, <2>1 DEF RefreshTrue
  <2> QED
    BY <1>0, <1>3, <1>5, <2>2, <2>3
<1>6. ASSUME NEW r \in Refreshing, Ledger!Finish(r) PROVE HistoryInv'
  <2> PICK base, at_, held_, listed : base = refresh[r].base /\ at_ = refresh[r].at /\ held_ = refresh[r].held
                                      /\ listed = refresh[r].records
    OBVIOUS
  <2> PICK records : records = Ledger!Detailed(base, listed)
    OBVIOUS
  <2> DEFINE agreed  == Ledger!Held(instant) = held_ /\ Ledger!Acceptable(base, records, Ledger!StartOf(base, at_), at_, held_)
             next    == IF agreed THEN Ledger!Extended(base, records, at_, held_) ELSE Ledger!Failed(base, records)
  <2>1. /\ refresh[r].stage = "details" /\ row' = row
        /\ refresh' = [refresh EXCEPT ![r] = [Ledger!Idle EXCEPT !.stage = "commit", !.base = base, !.next = next]]
    BY <1>6 DEF Ledger!Finish
  <2>2. /\ RowTrue(base) /\ KnownTrue(base.known) /\ at_ \in Nat /\ at_ < instant /\ held_ = Holding({}, at_)
        /\ ListTrue(listed, Ledger!StartOf(base, at_), at_)
    BY <2>1 DEF HistoryInv, RefreshTrue
  <2>3. KnownTrue(records)
    BY <1>0, <2>2, DetailsAreTrue DEF ListTrue
  <2>4. CASE agreed
    <3>1. RowTrue(Ledger!Extended(base, records, at_, held_))
      BY <1>0, <2>2, <2>4, ExtendedIsTrue
    <3>2. Ledger!Extended(base, records, at_, held_).known = records
      <4> DEFINE made == Ledger!Observations(base, records, Ledger!StartOf(base, at_), at_, held_)
                 clock_ == Ledger!Clock
      <4>1. Ledger!Extended(base, records, at_, held_)
                = [checkedAt |-> clock_, error |-> FALSE, anchor |-> <<[at |-> at_, held |-> held_]>>, known |-> records,
                   observations |-> made]
        BY DEF Ledger!Extended
      <4> HIDE DEF made, clock_
      <4> QED
        BY <4>1
    <3>3. next = Ledger!Extended(base, records, at_, held_)
      BY <2>4
    <3> HIDE DEF next, agreed
    <3> QED
      BY <1>5, <2>1, <2>3, <3>1, <3>2, <3>3
  <2>5. CASE ~ agreed
    <3>1. next = Ledger!Failed(base, records)
      BY <2>5
    <3>2. RowTrue(Ledger!Failed(base, records)) /\ KnownTrue(Ledger!Failed(base, records).known)
      BY <2>2, <2>3, FailedIsTrue
    <3> HIDE DEF next, agreed
    <3> QED
      BY <1>5, <2>1, <3>1, <3>2
  <2> QED
    BY <2>4, <2>5
<1>7. ASSUME NEW r \in Refreshing, Ledger!GiveUp(r) PROVE HistoryInv'
  <2> PICK base, records : base = refresh[r].base /\ records = [i \in Moving |-> Ledger!Unknown]
    OBVIOUS
  <2> DEFINE next == Ledger!Failed(base, records)
  <2>1. /\ refresh[r].stage = "list" /\ row' = row
        /\ refresh' = [refresh EXCEPT ![r] = [Ledger!Idle EXCEPT !.stage = "commit", !.base = base, !.next = next]]
    BY <1>7 DEF Ledger!GiveUp
  <2>2. RowTrue(base) /\ KnownTrue(base.known)
    BY <2>1 DEF HistoryInv, RefreshTrue
  <2>3. KnownTrue(records)
    BY DEF KnownTrue, Ledger!Unknown
  <2>4. RowTrue(next) /\ KnownTrue(next.known)
    BY <2>2, <2>3, FailedIsTrue
  <2> HIDE DEF next
  <2> QED
    BY <1>5, <2>1, <2>4
<1>8. ASSUME NEW r \in Refreshing, Ledger!Commit(r) \/ Ledger!Drop(r) PROVE HistoryInv'
  <2>1. /\ refresh' = [refresh EXCEPT ![r] = Ledger!Idle] /\ refresh[r].stage = "commit"
        /\ row' = row \/ row' = refresh[r].next
    BY <1>8 DEF Ledger!Commit, Ledger!Drop
  <2>2. RowTrue(refresh[r].next) /\ KnownTrue(refresh[r].next.known)
    BY <2>1 DEF HistoryInv, RefreshTrue
  <2> QED
    BY <1>0, <1>3, <2>1, <2>2, IdleIsTrue
<1> QED
  BY <1>1, <1>2, <1>4, <1>6, <1>7, <1>8
  DEF Ledger!Next, Ledger!vars, Ledger!Tick, Ledger!Announce, Ledger!TakeEffect, Ledger!Publish, Ledger!Cancel, Ledger!Revert

(* Whatever was announced late, cancelled or reversed, however many refreshes
   overlap and wherever they fail, the filed history is the account's own: each
   observation holds what the account held, and no transfer is missing, unless
   reversals between two snapshots made up for each other in every balance.  *)
THEOREM HistoryIsTrue == Ledger!Spec => []TrueHistory
<1>1. HistoryInv => TrueHistory
  BY DEF HistoryInv, RowTrue, TrueHistory, Ledger!TrueHistory
<1> QED
  BY <1>1, HistoryStarts, HistoryStep, PTL DEF Ledger!Spec
=============================================================================
