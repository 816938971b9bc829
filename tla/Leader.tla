--------------------------------- MODULE Leader ---------------------------------
(***************************************************************************)
(* The leader gate of a background job (app/core/leader.py): a lock in     *)
(* Redis that is taken with SET NX EX and renewed by its holder.  Every    *)
(* command of try_lead is a step; between two of them the lock may expire  *)
(* and be taken by another worker.  A worker that comes back after a crash *)
(* has a new instance id.                                                  *)
(***************************************************************************)
EXTENDS Naturals

CONSTANTS
    Processes,    \* the workers
    NoHolder,     \* the lock is free
    Ttl,          \* ttl_seconds, in ticks
    MaxTroubles   \* bound: crashes and commands that fail

ASSUME LeaderBounds == Ttl \in Nat \ {0} /\ MaxTroubles \in Nat

VARIABLES
    lock,      \* [holder, left]: the instance that holds the lock, time left
    gate,      \* per worker: "idle", "asked", "renewing", "leading", "down"
    lives,     \* instances of a worker so far
    troubles   \* crashes and failures so far

leaderVars == <<lock, gate, lives, troubles>>

Free == [holder |-> NoHolder, left |-> 0]
Id(w) == <<w, lives[w]>>

LeaderInit ==
    /\ lock = Free
    /\ gate = [w \in Processes |-> "idle"]
    /\ lives = [w \in Processes |-> 1]
    /\ troubles = 0

\* No worker runs.
LeaderIdle ==
    /\ lock = Free /\ troubles = 0
    /\ gate = [w \in Processes |-> "down"] /\ lives = [w \in Processes |-> 1]

Enter(w, stage) == gate' = [gate EXCEPT ![w] = stage]

\* Mutant of SetNx: the lock has no expiry.
SetForever(w) ==
    /\ gate[w] = "idle"
    /\ IF lock = Free
       THEN lock' = [holder |-> Id(w), left |-> Ttl + 1] /\ Enter(w, "leading")
       ELSE Enter(w, "asked") /\ UNCHANGED lock
    /\ UNCHANGED <<lives, troubles>>

\* SET key id NX EX ttl
SetNx(w) ==
    /\ gate[w] = "idle"
    /\ IF lock = Free
       THEN lock' = [holder |-> Id(w), left |-> Ttl] /\ Enter(w, "leading")
       ELSE Enter(w, "asked") /\ UNCHANGED lock
    /\ UNCHANGED <<lives, troubles>>

\* GET key
GetHolder(w) ==
    /\ gate[w] = "asked"
    /\ Enter(w, IF lock.holder = Id(w) THEN "renewing" ELSE "idle")
    /\ UNCHANGED <<lock, lives, troubles>>

\* EXPIRE key ttl, whoever holds it by now
Renew(w) ==
    /\ gate[w] = "renewing"
    /\ lock' = IF lock = Free THEN Free ELSE [lock EXCEPT !.left = Ttl]
    /\ Enter(w, "leading")
    /\ UNCHANGED <<lives, troubles>>

\* The job is done, until its next turn.
JobDone(w) ==
    /\ gate[w] = "leading"
    /\ Enter(w, "idle")
    /\ UNCHANGED <<lock, lives, troubles>>

Trouble == troubles < MaxTroubles /\ troubles' = troubles + 1

\* A command raises: the gate stands down, also if Redis has executed it.
CommandFails(w) ==
    /\ gate[w] \in {"idle", "asked", "renewing"} /\ Trouble
    /\ \/ UNCHANGED lock
       \/ gate[w] = "idle" /\ lock = Free /\ lock' = [holder |-> Id(w), left |-> Ttl]
    /\ Enter(w, "idle")
    /\ UNCHANGED lives

Dies(w) ==
    /\ gate[w] # "down" /\ Trouble
    /\ Enter(w, "down")
    /\ UNCHANGED <<lock, lives>>

Respawns(w) ==
    /\ gate[w] = "down"
    /\ Enter(w, "idle")
    /\ lives' = [lives EXCEPT ![w] = @ + 1]
    /\ UNCHANGED <<lock, troubles>>

Expires ==
    /\ lock # Free /\ lock.left <= Ttl
    /\ lock' = IF lock.left = 1 THEN Free ELSE [lock EXCEPT !.left = @ - 1]
    /\ UNCHANGED <<gate, lives, troubles>>

LeaderNext ==
    \/ \E w \in Processes :
          SetNx(w) \/ GetHolder(w) \/ Renew(w) \/ JobDone(w) \/ CommandFails(w)
              \/ Dies(w) \/ Respawns(w)
    \/ Expires

\* Time passes; a worker that is up calls try_lead again and again.
LeaderFairness ==
    /\ WF_leaderVars(Expires)
    /\ \A w \in Processes : WF_leaderVars(SetNx(w) \/ GetHolder(w) \/ Renew(w) \/ JobDone(w))

--------------------------------------------------------------------------------
(* Properties                                                                 *)

\* What the lease loops of the other modules count on: a job is led again and
\* again, also after its leader died with the lock (leader.py:35), as long as
\* some worker is up.
SomebodyLeads ==
    []<>((\E w \in Processes : gate[w] = "leading") \/ (\A w \in Processes : gate[w] = "down"))
================================================================================
