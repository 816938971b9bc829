-------------------------------- MODULE Services --------------------------------
(***************************************************************************)
(* The parts of the controller that a request passes through beside the     *)
(* core and that share no state with each other: the accounts and routes of *)
(* the LLM layer (LLMAccounts); the adapters of its providers, that is, the *)
(* requests they make of a conversation (LLMRequests), the events they make *)
(* of a streamed answer (LLMStreams) and the line reader under them         *)
(* (LLMReader); the ranking of nodes (Scheduler); and the loaders of the    *)
(* ingestion (Loader).  A behaviour is one of one of them.                  *)
(***************************************************************************)
EXTENDS LLMAccounts, LLMStreams, LLMRequests, LLMReader, Scheduler, Loader

VARIABLE service    \* the part a behaviour is about

vars == <<service, accountsVars, streamVars, requestVars, readerVars, schedulerVars, loaderVars>>

Begins(name, begin, idle) == IF service = name THEN begin ELSE idle

Init ==
    /\ service \in {"accounts", "stream", "request", "reader", "scheduler", "loader"}
    /\ AccountsInit
    /\ Begins("stream", StreamInit, StreamIdle)
    /\ Begins("request", RequestInit, RequestIdle)
    /\ Begins("reader", ReaderInit, ReaderIdle)
    /\ Begins("scheduler", SchedulerInit, SchedulerIdle)
    /\ Begins("loader", LoaderInit, LoaderIdle)

Next ==
    \/ /\ service = "accounts" /\ AccountsNext
       /\ UNCHANGED <<service, streamVars, requestVars, readerVars, schedulerVars, loaderVars>>
    \/ /\ service = "stream" /\ StreamNext
       /\ UNCHANGED <<service, accountsVars, requestVars, readerVars, schedulerVars, loaderVars>>
    \/ /\ service = "request" /\ RequestNext
       /\ UNCHANGED <<service, accountsVars, streamVars, readerVars, schedulerVars, loaderVars>>
    \/ /\ service = "reader" /\ ReaderNext
       /\ UNCHANGED <<service, accountsVars, streamVars, requestVars, schedulerVars, loaderVars>>
    \/ /\ service = "scheduler" /\ SchedulerNext
       /\ UNCHANGED <<service, accountsVars, streamVars, requestVars, readerVars, loaderVars>>
    \/ /\ service = "loader" /\ LoaderNext
       /\ UNCHANGED <<service, accountsVars, streamVars, requestVars, readerVars, schedulerVars>>

Spec == Init /\ [][Next]_vars
================================================================================
