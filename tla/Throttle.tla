-------------------------------- MODULE Throttle --------------------------------
(***************************************************************************)
(* The sliding-window store (app/core/window_store.py) behind the login    *)
(* guard and the rate limiter, and the requests of one client address that *)
(* go through it: POST /auth/login (api/v1/auth.py) or any other path      *)
(* (core/ratelimit.py).                                                    *)
(*                                                                         *)
(* The store is the dictionary of a single worker, or a sorted set in      *)
(* Redis that all workers share.  Hits have the time they were made at; a  *)
(* command to Redis may fail.                                              *)
(***************************************************************************)
EXTENDS Naturals, FiniteSets

CONSTANTS
    Attempts,   \* bound: requests of the address
    Limit,      \* auth_max_failed_logins, rate_limit_requests
    Window,     \* window_seconds, in ticks
    MaxTime     \* bound: ticks

ASSUME ThrottleBounds == Limit \in Nat \ {0} /\ Window \in Nat \ {0} /\ MaxTime \in Nat

VARIABLES
    inRedis,   \* REDIS_URL is set
    guarded,   \* "login" or "rate"
    now,
    hits,      \* the hits the store holds: <<attempt, time>>
    attempt    \* [at, counted, time, cleared] of a request

throttleVars == <<inRedis, guarded, now, hits, attempt>>

ThrottleInit ==
    /\ inRedis \in BOOLEAN /\ guarded \in {"login", "rate"}
    /\ now = Window
    /\ hits = {}
    /\ attempt = [a \in Attempts |-> [at |-> "new", counted |-> FALSE, time |-> 0, cleared |-> FALSE]]

Move(a, stage) == attempt' = [attempt EXCEPT ![a].at = stage]
Admit(a, time) ==
    attempt' = [attempt EXCEPT ![a] = [@ EXCEPT !.at = "checking", !.counted = TRUE, !.time = time]]

\* A hit as old as the window is still in the dictionary, and gone from Redis.
Fresh(time) ==
    {h \in hits : IF inRedis THEN h[2] > time - Window ELSE h[2] >= time - Window}

\* InProcessWindowStore.try_hit: a rejected attempt leaves nothing.
TryHitLocal(a) ==
    /\ attempt[a].at = "new" /\ ~inRedis
    /\ IF Cardinality(Fresh(now)) >= Limit
       THEN hits' = Fresh(now) /\ Move(a, "rejected")
       ELSE hits' = Fresh(now) \cup {<<a, now>>} /\ Admit(a, now)
    /\ UNCHANGED <<inRedis, guarded, now>>

\* RedisWindowStore.try_hit reads the clock and then waits for Redis.
ReadClock(a) ==
    /\ attempt[a].at = "new" /\ inRedis
    /\ attempt' = [attempt EXCEPT ![a] = [@ EXCEPT !.at = "asking", !.time = now]]
    /\ UNCHANGED <<inRedis, guarded, now, hits>>

\* Mutant of TryHit: the hits are counted before the attempt is added.
TryHitLate(a) ==
    /\ attempt[a].at = "asking"
    /\ LET time == attempt[a].time
       IN  /\ hits' = Fresh(time) \cup {<<a, time>>}
           /\ IF Cardinality(Fresh(time)) <= Limit THEN Admit(a, time) ELSE Move(a, "rejecting")
    /\ UNCHANGED <<inRedis, guarded, now>>

\* Prune, add and count in one transaction; the hit of a rejected attempt is
\* removed by a command of its own.
TryHit(a) ==
    /\ attempt[a].at = "asking"
    /\ LET time == attempt[a].time
       IN  /\ hits' = Fresh(time) \cup {<<a, time>>}
           /\ IF Cardinality(hits') <= Limit THEN Admit(a, time) ELSE Move(a, "rejecting")
    /\ UNCHANGED <<inRedis, guarded, now>>

RemoveHit(a) ==
    /\ attempt[a].at = "rejecting"
    /\ hits' = {h \in hits : h[1] # a}
    /\ Move(a, "rejected")
    /\ UNCHANGED <<inRedis, guarded, now>>

\* Redis cannot be reached: the rate limiter admits, the login guard fails.
\* The command may have been executed all the same.
StoreFails(a) ==
    /\ inRedis /\ attempt[a].at \in {"asking", "rejecting", "clearing"}
    /\ \/ UNCHANGED hits
       \/ attempt[a].at = "asking" /\ hits' = Fresh(attempt[a].time) \cup {<<a, attempt[a].time>>}
       \/ attempt[a].at = "rejecting" /\ hits' = {h \in hits : h[1] # a}
    /\ Move(a, IF guarded = "rate" THEN "served" ELSE "failed")
    /\ UNCHANGED <<inRedis, guarded, now>>

\* dispatch: the request goes on.
Serve(a) ==
    /\ guarded = "rate" /\ attempt[a].at = "checking"
    /\ Move(a, "served")
    /\ UNCHANGED <<inRedis, guarded, now, hits>>

\* authenticate_user
CheckPassword(a) ==
    /\ guarded = "login" /\ attempt[a].at = "checking"
    /\ \E right \in BOOLEAN : Move(a, IF right THEN "clearing" ELSE "refused")
    /\ UNCHANGED <<inRedis, guarded, now, hits>>

\* clear_failures: the whole history of the address goes, before the session
\* is committed.
ClearFailures(a) ==
    /\ attempt[a].at = "clearing"
    /\ hits' = {}
    /\ attempt' = [b \in Attempts |->
          [attempt[b] EXCEPT !.cleared = attempt[b].cleared \/ attempt[b].counted,
                             !.at = IF b = a THEN "issuing" ELSE attempt[b].at]]
    /\ UNCHANGED <<inRedis, guarded, now>>

\* create_user_session and the commit
Issue(a) ==
    /\ attempt[a].at = "issuing"
    /\ \E stage \in {"served", "failed"} : Move(a, stage)
    /\ UNCHANGED <<inRedis, guarded, now, hits>>

Pass ==
    /\ now < MaxTime
    /\ now' = now + 1
    /\ UNCHANGED <<inRedis, guarded, hits, attempt>>

ThrottleNext ==
    \/ \E a \in Attempts :
          TryHitLocal(a) \/ ReadClock(a) \/ TryHit(a) \/ RemoveHit(a) \/ StoreFails(a)
              \/ Serve(a) \/ CheckPassword(a) \/ ClearFailures(a) \/ Issue(a)
    \/ Pass

--------------------------------------------------------------------------------
(* Properties                                                                 *)

\* Bursts cannot race the guard (loginguard.py:7): of the attempts the store
\* admitted, never more than Limit were made within one window and since the last
\* successful login, although rejected ones add and remove hits of their own, and
\* workers act at the same time with clocks read earlier.  Requests that the rate
\* limiter lets through because it cannot reach Redis are not counted.
AttemptsBounded ==
    Cardinality({a \in Attempts :
        attempt[a].counted /\ ~attempt[a].cleared /\ attempt[a].time > now - Window}) <= Limit

--------------------------------------------------------------------------------
(* An inductive invariant                                                    *)

\* Every attempt that was let through has its hit in the store until the hit is
\* out of the window or the history is cleared: the removal of a rejected one
\* takes no other away.
HitsKept ==
    /\ hits \subseteq Attempts \X Nat /\ IsFiniteSet(hits)
    /\ \A a \in Attempts :
          /\ attempt[a].time <= now
          /\ attempt[a].at \in {"new", "asking", "rejecting", "rejected"} => ~attempt[a].counted
          /\ attempt[a].counted /\ ~attempt[a].cleared /\ attempt[a].time > now - Window =>
                <<a, attempt[a].time>> \in hits
================================================================================
