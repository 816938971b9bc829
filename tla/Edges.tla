---------------------------------- MODULE Edges ----------------------------------
(***************************************************************************)
(* The components around the core that keep state of their own: the        *)
(* throttle of requests, the sessions and the live feed, the leader gate,  *)
(* phantom tasks and the server of a node's agent.  They share no state,   *)
(* so a behaviour is one of one of them, the others being idle.            *)
(***************************************************************************)
EXTENDS Throttle, Feed, Leader, Phantom, AgentServer

VARIABLE part    \* the component a behaviour is about

vars == <<part, throttleVars, feedVars, leaderVars, phantomVars, agentVars>>

Parts == {"throttle", "feed", "leader", "phantom", "agent"}

Init ==
    /\ part \in Parts
    /\ ThrottleInit /\ (part # "throttle" => ~inRedis /\ guarded = "rate")
    /\ FeedInit /\ (part # "feed" => ~relayed)
    /\ IF part = "leader" THEN LeaderInit ELSE LeaderIdle
    /\ PhantomInit /\ AgentInit

Next ==
    \/ /\ part = "throttle" /\ ThrottleNext
       /\ UNCHANGED <<part, feedVars, leaderVars, phantomVars, agentVars>>
    \/ /\ part = "feed" /\ FeedNext
       /\ UNCHANGED <<part, throttleVars, leaderVars, phantomVars, agentVars>>
    \/ /\ part = "leader" /\ LeaderNext
       /\ UNCHANGED <<part, throttleVars, feedVars, phantomVars, agentVars>>
    \/ /\ part = "phantom" /\ PhantomNext
       /\ UNCHANGED <<part, throttleVars, feedVars, leaderVars, agentVars>>
    \/ /\ part = "agent" /\ AgentNext
       /\ UNCHANGED <<part, throttleVars, feedVars, leaderVars, phantomVars>>

\* Nothing of an idle component is ever enabled without `part`.
FairSpec == Init /\ [][Next]_vars /\ LeaderFairness /\ AgentFairness
================================================================================
