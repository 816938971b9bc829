---------------------------- MODULE MCOrchestrator ----------------------------
(* The instance of Orchestrator that TLC checks: one task that fails over      *)
(* between nodes, and two workers, one of which reaps what the other lost.     *)
EXTENDS Orchestrator
================================================================================
