---------------------------- MODULE AdapterContract ----------------------------
(***************************************************************************)
(* What the gateway and its callers rely on in the stream of an adapter    *)
(* (app/llm/types.py, StreamEventType): content and tool calls in any      *)
(* order, each call once, the usage at most once and after the content,    *)
(* one FINISH after which nothing comes, or an error.                      *)
(***************************************************************************)
EXTENDS FiniteSets

CONSTANT Indexes     \* of the tool calls of a response

VARIABLES
    phase,    \* "content", "counted", "finished" or "failed"
    called    \* the calls that were handed over whole

contractVars == <<phase, called>>

Init == phase = "content" /\ called = {}

\* Calls are handed over; a stream that kept them until its end hands over
\* several at once.
Call(C) ==
    /\ phase = "content" /\ C # {} /\ C \cap called = {}
    /\ called' = called \cup C
    /\ UNCHANGED phase

Count ==
    /\ phase = "content"
    /\ phase' = "counted"
    /\ UNCHANGED called

Finish ==
    /\ phase \in {"content", "counted"}
    /\ phase' = "finished"
    /\ UNCHANGED called

\* A connection may still break after the FINISH that was passed on.
Fail ==
    /\ phase # "failed"
    /\ phase' = "failed"
    /\ UNCHANGED called

Next == (\E C \in SUBSET Indexes : Call(C)) \/ Count \/ Finish \/ Fail

Spec == Init /\ [][Next]_contractVars
================================================================================
