---------------------------- MODULE MCWorkflowRuns ----------------------------
(* Small instances of WorkflowRuns for TLC.                                   *)
EXTENDS WorkflowRuns

Step(kind, retries, when) == [kind |-> kind, retries |-> retries, when |-> when]

\* A gate between two steps: the first may be retried, the last be skipped.
GatedWork == <<Step("work", 1, FALSE), Step("approval", 0, FALSE), Step("work", 0, TRUE)>>

\* The shortest definition in which work follows a decision.
GateThenWork == <<Step("approval", 0, FALSE), Step("work", 0, FALSE)>>
================================================================================
