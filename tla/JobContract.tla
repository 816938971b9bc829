------------------------------ MODULE JobContract ------------------------------
(***************************************************************************)
(* What the controller promises about a unit of work that a process       *)
(* executes on behalf of a request (a task, a document ingestion): whoever *)
(* holds the job decides its outcome, a decided outcome is never revised,  *)
(* and a job nobody holds any more is failed, never left open for good.    *)
(* The lease protocols of ADR-034/035/036 are checked to implement it.     *)
(***************************************************************************)
CONSTANTS
    Jobs,
    Droppable  \* the jobs whose rows may be deleted with what they belong to

VARIABLES
    outcome,  \* outcome[j]: what the job's row says
    held      \* the jobs some live process is executing

contractVars == <<outcome, held>>

Decided == {"succeeded", "failed"}

Init ==
    /\ outcome = [j \in Jobs |-> "absent"]
    /\ held = {}

\* A request creates the job and executes it.
Start(j) ==
    /\ outcome[j] = "absent"
    /\ outcome' = [outcome EXCEPT ![j] = "open"]
    /\ held' = held \cup {j}

\* The holder records the outcome and lets go of the job.
Conclude(j) ==
    /\ j \in held
    /\ outcome[j] = "open"
    /\ \E o \in Decided : outcome' = [outcome EXCEPT ![j] = o]
    /\ held' = held \ {j}

\* A process dies, or a request ends in an unhandled error.
Abandon(J) ==
    /\ J \subseteq held
    /\ held' = held \ J
    /\ UNCHANGED outcome

\* Somebody else notices that nobody holds these jobs.
Reap(J) ==
    /\ J \cap held = {}
    /\ \A j \in J : outcome[j] = "open"
    /\ outcome' = [j \in Jobs |-> IF j \in J THEN "failed" ELSE outcome[j]]
    /\ UNCHANGED held

\* The rows are deleted, decided or not; a holder finds out when it concludes.
Drop(J) ==
    /\ J \subseteq Droppable
    /\ \A j \in J : outcome[j] # "absent"
    /\ outcome' = [j \in Jobs |-> IF j \in J THEN "dropped" ELSE outcome[j]]
    /\ UNCHANGED held

Next ==
    \/ \E j \in Jobs : Start(j) \/ Conclude(j)
    \/ \E J \in SUBSET Jobs : Abandon(J) \/ Reap(J) \/ Drop(J)

Safe == Init /\ [][Next]_contractVars

\* No job stays open for ever.
Settles == \A j \in Jobs : (outcome[j] = "open") ~> (outcome[j] # "open")
================================================================================
