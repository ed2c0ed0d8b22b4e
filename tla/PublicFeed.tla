----------------------------- MODULE PublicFeed -----------------------------
(* The shared cache of public market data (cached() in src/src/lib/services.ts):
   invocations that know nothing of one another read a key, and one at a time,
   under the row lock public_feed_lock, goes to the venue for it.  A load may
   fail, or its invocation end, which rolls its transaction back.            *)
EXTENDS Naturals, FiniteSets

CONSTANTS Caller,   \* invocations that may be under way together
          Feed,     \* cache keys
          Ttl,      \* how long an entry of a key is fresh, in ticks
          Gap,      \* 1100 ms between the end of a load and the next one
          LastTick  \* bound: ticks of the instance

VARIABLES clock, lock, cache, caller, loaded

vars == <<clock, lock, cache, caller, loaded>>
-----------------------------------------------------------------------------
Never == [at |-> 0, held |-> FALSE]
Away  == [pc |-> "idle", feed |-> "none", wake |-> 0]

TypeOK ==
    /\ clock \in 0..LastTick
    /\ lock \in [at: 0..LastTick, by: Caller \cup {"free"}]
    /\ cache \in [Feed -> [at: 0..LastTick, held: BOOLEAN]]
    /\ caller \in [Caller -> [pc: {"idle", "miss", "pause", "load"}, feed: Feed \cup {"none"},
                              wake: 0..(LastTick + Gap)]]
    /\ loaded \in [at: 0..LastTick, held: BOOLEAN]

(* lock.at is the value of the row, lock.by the transaction that holds it;
   loaded is the history of the last load that was kept. *)
Init ==
    /\ clock = Gap
    /\ lock = [at |-> 0, by |-> "free"]
    /\ cache = [f \in Feed |-> Never]
    /\ caller = [c \in Caller |-> Away]
    /\ loaded = Never
-----------------------------------------------------------------------------
Fresh(f) == cache[f].held /\ clock - cache[f].at < Ttl[f]

Leave(c) == caller' = [caller EXCEPT ![c] = Away]
Unlock(at) == lock' = [at |-> at, by |-> "free"]

(* The first read is outside the transaction; what is fresh is the answer. *)
Miss(c, f) ==
    /\ caller[c].pc = "idle" /\ ~Fresh(f)
    /\ caller' = [caller EXCEPT ![c] = [pc |-> "miss", feed |-> f, wake |-> 0]]
    /\ UNCHANGED <<clock, lock, cache, loaded>>

(* Slip: the entry is not read again under the lock. *)
StillMissedBlind(c) == TRUE

(* Under the lock the entry is read again: another caller may have filled it. *)
StillMissed(c) == ~Fresh(caller[c].feed)

Pause == IF lock.at + Gap > clock THEN lock.at + Gap ELSE clock

Lock(c) ==
    /\ caller[c].pc = "miss" /\ lock.by = "free"
    /\ IF StillMissed(c)
       THEN /\ lock' = [lock EXCEPT !.by = c]
            /\ caller' = [caller EXCEPT ![c] = [pc |-> "pause", feed |-> @.feed, wake |-> Pause]]
       ELSE UNCHANGED lock /\ Leave(c)
    /\ UNCHANGED <<clock, cache, loaded>>

Load(c) ==
    /\ caller[c].pc = "pause" /\ clock >= caller[c].wake
    /\ caller' = [caller EXCEPT ![c].pc = "load"]
    /\ UNCHANGED <<clock, lock, cache, loaded>>

(* The entry and the lock's value are committed together, at the end. *)
Keep(c) ==
    /\ caller[c].pc = "load" /\ lock.by = c
    /\ cache' = [cache EXCEPT ![caller[c].feed] = [at |-> clock, held |-> TRUE]]
    /\ loaded' = [at |-> clock, held |-> TRUE]
    /\ Unlock(clock) /\ Leave(c)
    /\ UNCHANGED clock

(* load() throws, or the invocation ends: the transaction leaves no trace. *)
RollBack(c) ==
    /\ caller[c].pc # "idle"
    /\ IF lock.by = c THEN Unlock(lock.at) ELSE UNCHANGED lock
    /\ Leave(c)
    /\ UNCHANGED <<clock, cache, loaded>>

(* The database ends a transaction that is idle too long; the load goes on. *)
SessionTimeout(c) ==
    /\ caller[c].pc = "load" /\ lock.by = c
    /\ Unlock(lock.at)
    /\ UNCHANGED <<clock, cache, caller, loaded>>

Tick ==
    /\ clock < LastTick
    /\ clock' = clock + 1
    /\ UNCHANGED <<lock, cache, caller, loaded>>

Next ==
    \/ Tick
    \/ \E c \in Caller :
          \/ \E f \in Feed : Miss(c, f)
          \/ Lock(c) \/ Load(c) \/ Keep(c) \/ RollBack(c) \/ SessionTimeout(c)

Spec == Init /\ [][Next]_vars
-----------------------------------------------------------------------------
LoadsApart ==
    \A c \in Caller :
        caller[c].pc = "pause" /\ caller'[c].pc = "load" =>
            /\ loaded.held => clock >= loaded.at + Gap
            /\ ~Fresh(caller[c].feed)
            /\ \A d \in Caller : caller[d].pc = "load" => lock.by # d

(* Whoever asks, the venue is asked one load at a time, Gap after the last one
   that was kept, and never for a key whose entry is fresh: the callers that
   waited for the lock find what the first of them has loaded. *)
Coalesced == [][LoadsApart]_vars
=============================================================================
