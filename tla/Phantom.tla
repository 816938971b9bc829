-------------------------------- MODULE Phantom --------------------------------
(***************************************************************************)
(* Phantom tasks (app/services/phantom.py, api/v1/phantom.py): one docker  *)
(* container per task, created, run and removed by commands of the docker  *)
(* client.  The task may be cancelled at every await, once when its caller *)
(* disconnects and again when the request itself is cancelled; the removal *)
(* runs in a task of its own, shielded from the first cancellation that    *)
(* meets it.                                                               *)
(*                                                                         *)
(* A client that is killed while it creates a container does not stop the  *)
(* daemon: the container may appear later.                                 *)
(***************************************************************************)
EXTENDS Naturals, FiniteSets

CONSTANTS
    Jobs,        \* bound: phantom tasks
    Capacity,    \* phantom_max_concurrent
    MaxCancels   \* bound: cancellations of a task

ASSUME PhantomBounds == Capacity \in Nat /\ MaxCancels \in Nat

VARIABLES
    active,     \* PhantomExecutor.active
    job,        \* [at, result, attempted, removed, late, cancels, cut]
    container   \* per task: "none", "late", "created", "running"

phantomVars == <<active, job, container>>

PhantomInit ==
    /\ active = 0
    /\ job = [j \in Jobs |-> [at |-> "new", result |-> "none", attempted |-> FALSE,
                              removed |-> FALSE, late |-> FALSE, cancels |-> 0, cut |-> FALSE]]
    /\ container = [j \in Jobs |-> "none"]

Working == {"context", "create", "start"}
Cleaning == {"shielded", "exposed"}

Step(j, stage) == job' = [job EXCEPT ![j].at = stage]
Ends(j, result, stage) == job' = [job EXCEPT ![j].at = stage, ![j].result = result]

\* The session and role of phantom_principal, the configuration, the capacity:
\* refused, or reserved with no await in between.
Reserve(j) ==
    /\ job[j].at = "new"
    /\ \/ Ends(j, "refused", "done") /\ UNCHANGED active
       \/ active < Capacity /\ active' = active + 1 /\ Step(j, "context")
    /\ UNCHANGED container

\* docker context inspect: a local daemon is asked for.
Inspect(j) ==
    /\ job[j].at = "context"
    /\ \/ job' = [job EXCEPT ![j].at = "create", ![j].attempted = TRUE]
       \/ Ends(j, "failed", "shielded")
    /\ UNCHANGED <<active, container>>

Create(j) ==
    /\ job[j].at = "create"
    /\ \/ container' = [container EXCEPT ![j] = "created"] /\ Step(j, "start")
       \/ Ends(j, "failed", "shielded") /\ UNCHANGED container
    /\ UNCHANGED active

\* The deadline of the command, or another error of the client.
CreateBreaks(j) ==
    /\ job[j].at = "create"
    /\ \E left \in {"none", "created", "late"} :
          /\ container' = [container EXCEPT ![j] = left]
          /\ job' = [job EXCEPT ![j] = [@ EXCEPT !.at = "shielded", !.result = "failed",
                                                 !.late = (left = "late")]]
    /\ UNCHANGED active

Start(j) ==
    /\ job[j].at = "start" /\ container[j] = "created"
    /\ container' = [container EXCEPT ![j] = "running"]
    /\ UNCHANGED <<active, job>>

\* The container ends by itself or by its PHANTOM_TTL, and --rm removes it.
Finishes(j) ==
    /\ container[j] = "running"
    /\ container' = [container EXCEPT ![j] = "none"]
    /\ UNCHANGED <<active, job>>

\* The client has read to the end, with or without a valid result.
Output(j) ==
    /\ job[j].at = "start" /\ container[j] \in {"running", "none"}
    /\ \E result \in {"output", "failed"} : Ends(j, result, "shielded")
    /\ UNCHANGED <<active, container>>

StartBreaks(j) ==
    /\ job[j].at = "start"
    /\ Ends(j, "failed", "shielded")
    /\ UNCHANGED <<active, container>>

\* The last finally: the place is free.
Leaves(j, result) ==
    /\ Ends(j, result, "done")
    /\ active' = active - 1

--------------------------------------------------------------------------------
(* Cancellation                                                               *)

Cancels(j) == job[j].cancels < MaxCancels

\* Mutant of CancelCleanup: the removal is awaited as it is.
CancelCleanupAlways(j) ==
    /\ job[j].at \in Cleaning /\ Cancels(j)
    /\ job' = [job EXCEPT ![j] = [@ EXCEPT !.at = "done", !.result = "cancelled"]]
    /\ active' = active - 1
    /\ UNCHANGED container

\* At an await of the work: its command is killed.
CancelWork(j) ==
    /\ job[j].at \in Working /\ Cancels(j)
    /\ \E left \in IF job[j].at = "create" THEN {"none", "created", "late"} ELSE {container[j]} :
          /\ container' = [container EXCEPT ![j] = left]
          /\ job' = [job EXCEPT ![j] = [@ EXCEPT !.at = "shielded", !.result = "cancelled",
                                                 !.late = (left = "late"), !.cancels = job[j].cancels + 1]]
    /\ UNCHANGED active

\* During the removal: the first is absorbed by the shield, the second is not.
CancelCleanup(j) ==
    /\ job[j].at \in Cleaning /\ Cancels(j)
    /\ IF job[j].at = "shielded"
       THEN /\ job' = [job EXCEPT ![j] = [@ EXCEPT !.at = "exposed", !.result = "cancelled",
                                                   !.cancels = job[j].cancels + 1]]
            /\ UNCHANGED active
       ELSE /\ job' = [job EXCEPT ![j] = [@ EXCEPT !.at = "done", !.cancels = job[j].cancels + 1, !.cut = TRUE]]
            /\ active' = active - 1
    /\ UNCHANGED container

--------------------------------------------------------------------------------
(* _remove                                                                    *)

\* docker rm --force, whose exit status is not looked at.
RemoveContainer(j) ==
    /\ job[j].at \in Cleaning /\ job[j].attempted /\ ~job[j].removed
    /\ job' = [job EXCEPT ![j].removed = TRUE]
    /\ container' = [container EXCEPT ![j] = IF @ = "late" THEN "late" ELSE "none"]
       \/ UNCHANGED container
    /\ UNCHANGED active

\* docker ps shows nothing: confirmed.  (_noop when nothing was attempted.)
Confirm(j) ==
    /\ job[j].at \in Cleaning
    /\ job[j].attempted => job[j].removed /\ container[j] \in {"none", "late"}
    /\ Leaves(j, job[j].result)
    /\ UNCHANGED container

\* It shows the container, or a command failed: a 503 instead of any output.
Unconfirmed(j) ==
    /\ job[j].at \in Cleaning /\ job[j].attempted
    /\ Leaves(j, "unconfirmed")
    /\ UNCHANGED container

Appears(j) ==
    /\ container[j] = "late"
    /\ \E then \in {"created", "none"} : container' = [container EXCEPT ![j] = then]
    /\ UNCHANGED <<active, job>>

JobStep(j) ==
    \/ Inspect(j) \/ Create(j) \/ CreateBreaks(j) \/ Start(j) \/ Output(j) \/ StartBreaks(j)
    \/ Confirm(j) \/ Unconfirmed(j)

PhantomNext ==
    \E j \in Jobs :
        \/ Reserve(j) \/ JobStep(j) \/ Finishes(j) \/ RemoveContainer(j) \/ Appears(j)
        \/ CancelWork(j) \/ CancelCleanup(j)

--------------------------------------------------------------------------------
(* Properties                                                                 *)

\* A place that is taken is held by a task that runs or cleans up.  What such a
\* task leaves behind is known: its container is gone, unless the answer says so
\* (503), the removal itself was cancelled by a second cancellation, or the
\* daemon was still creating the container when the client was killed.  Output
\* is given only after the removal (services/phantom.py:150).
ContainersOwned ==
    /\ active = Cardinality({j \in Jobs : job[j].at \notin {"new", "done"}})
    /\ active <= Capacity
    /\ \A j \in Jobs : job[j].at = "done" =>
          /\ job[j].result = "output" => container[j] = "none"
          /\ container[j] # "none" => job[j].result = "unconfirmed" \/ job[j].cut \/ job[j].late

--------------------------------------------------------------------------------
(* An inductive invariant                                                    *)

\* What is known of a container at every stage of its task.
ContainerKnown(j) ==
    /\ ~job[j].attempted => container[j] = "none"
    /\ job[j].at \in {"new", "context"} => ~job[j].attempted
    /\ job[j].at \in {"create", "start"} => job[j].attempted
    /\ job[j].at \in {"new"} \cup Working => ~job[j].late
    /\ job[j].late => job[j].result # "output"
    /\ container[j] = "late" => job[j].late
    /\ job[j].at = "exposed" => job[j].result = "cancelled"
    /\ job[j].at \in {"new"} \cup Working => job[j].result = "none"

Taken == {j \in Jobs : job[j].at \notin {"new", "done"}}

PhantomInv == IsFiniteSet(Taken) /\ ContainersOwned /\ \A j \in Jobs : ContainerKnown(j)
================================================================================
