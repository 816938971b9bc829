----------------------------- MODULE MCSupervisor -----------------------------
(* The instance of Supervisor that TLC checks: one app on its data folder.     *)
EXTENDS Supervisor
================================================================================
