------------------------------ MODULE Orchestrator ------------------------------
(***************************************************************************)
(* Task lifecycle of the controller: services/orchestrator.py with the     *)
(* lease loop of main.py (ADR-012, ADR-035).  A task lives inside the      *)
(* request that submits it; the worker process executing it renews a lease *)
(* on its row, and a reaper fails unfinished tasks whose lease lapsed.     *)
(*                                                                         *)
(* One committed transaction is one action.  Time is discrete: Tick ages   *)
(* every open lease, and heartbeat_at is represented by its age.           *)
(***************************************************************************)
EXTENDS Naturals, FiniteSets

CONSTANTS
    Tasks, Nodes, Workers,
    NoWorker, NoNode,
    MaxAttempts,   \* settings.task_max_attempts
    StaleAfter,    \* settings.workflow_stale_after_seconds, in ticks
    MaxGap,        \* longest time between two landed heartbeats of a live worker
    MaxFaults      \* bound: crashes, unhandled errors, failed ticks, node deletions

ASSUME NoneAssumption == NoWorker \notin Workers /\ NoNode \notin Nodes
ASSUME AttemptsAssumption == MaxAttempts \in Nat \ {0}
ASSUME FaultsAssumption == MaxFaults \in Nat
\* Settings refuses a stale_after below three intervals: missed ticks fit in it.
ASSUME LeaseAssumption ==
    StaleAfter \in Nat /\ MaxGap \in Nat \ {0} /\ MaxGap <= StaleAfter

VARIABLES
    status,      \* Task.status
    exe,         \* TaskExecution.status of the task's attempt on each node
    age,         \* ticks since Task.heartbeat_at, 0 once the task is finished
    registered,  \* the nodes table
    up,          \* controller worker processes that are running
    live,        \* _live_tasks of each worker
    owner,       \* the worker whose request executes the task
    at,          \* where in _execute that request is
    node,        \* the node being dispatched to
    cand,        \* candidates not tried yet
    tries,       \* attempts made
    loop,        \* where in _lease_tick the worker is
    sinceBeat,   \* ticks since the worker's last landed heartbeat was stamped
    beatSet,     \* the ids a heartbeat UPDATE in flight names
    beatAge,     \* ticks since that UPDATE's timestamp was taken
    todo,        \* stale tasks selected by the reaper and not visited yet
    scanAge,     \* ticks since the reaper computed its cutoff
    seen,        \* the RUNNING executions loaded with the selected tasks
    faults       \* faults so far

rowVars  == <<status, exe, age, registered>>
reqVars  == <<owner, at, node, cand, tries>>
beatVars == <<sinceBeat, beatSet, beatAge>>
scanVars == <<todo, scanAge, seen>>
loopVars == <<loop, beatVars, scanVars>>
vars == <<rowVars, up, live, reqVars, loopVars, faults>>

Unfinished == {"queued", "running"}
Finished   == {"succeeded", "failed"}
ExeStatus  == {"none", "running", "succeeded", "failed"}

\* Ages saturate where no comparison can tell them apart any more.
Oldest == StaleAfter + MaxGap + 1
Older(a) == IF a < Oldest THEN a + 1 ELSE a

RowTypes ==
    /\ status \in [Tasks -> {"absent"} \cup Unfinished \cup Finished]
    /\ exe \in [Tasks -> [Nodes -> ExeStatus]]
    /\ age \in [Tasks -> 0..Oldest]
    /\ registered \in SUBSET Nodes

RequestTypes ==
    /\ up \in SUBSET Workers
    /\ live \in [Workers -> SUBSET Tasks]
    /\ owner \in [Tasks -> Workers \cup {NoWorker}]
    /\ at \in [Tasks -> {"none", "start", "external", "next", "dispatch", "won"}]
    /\ node \in [Tasks -> Nodes \cup {NoNode}]
    /\ cand \in [Tasks -> SUBSET Nodes]
    /\ tries \in [Tasks -> 0..MaxAttempts]

LoopTypes ==
    /\ loop \in [Workers -> {"sleep", "beating", "beaten", "reaping"}]
    /\ sinceBeat \in [Workers -> 0..MaxGap]
    /\ beatSet \in [Workers -> SUBSET Tasks]
    /\ beatAge \in [Workers -> 0..MaxGap]
    /\ todo \in [Workers -> SUBSET Tasks]
    /\ scanAge \in [Workers -> 0..MaxGap]
    /\ seen \in [Workers -> [Tasks -> SUBSET Nodes]]
    \* nothing has been in flight for longer than since the last heartbeat
    /\ \A w \in Workers :
          /\ beatAge[w] <= sinceBeat[w] /\ scanAge[w] <= sinceBeat[w]
          /\ loop[w] # "sleep" => w \in up
          /\ loop[w] # "reaping" => scanAge[w] = 0

TypeOK == RowTypes /\ RequestTypes /\ LoopTypes /\ faults \in 0..MaxFaults

Init ==
    /\ status = [t \in Tasks |-> "absent"]
    /\ exe = [t \in Tasks |-> [n \in Nodes |-> "none"]]
    /\ age = [t \in Tasks |-> 0]
    /\ registered = Nodes
    /\ up = Workers
    /\ live = [w \in Workers |-> {}]
    /\ owner = [t \in Tasks |-> NoWorker]
    /\ at = [t \in Tasks |-> "none"]
    /\ node = [t \in Tasks |-> NoNode]
    /\ cand = [t \in Tasks |-> {}]
    /\ tries = [t \in Tasks |-> 0]
    /\ loop = [w \in Workers |-> "sleep"]
    /\ sinceBeat = [w \in Workers |-> 0]
    /\ beatSet = [w \in Workers |-> {}]
    /\ beatAge = [w \in Workers |-> 0]
    /\ todo = [w \in Workers |-> {}]
    /\ scanAge = [w \in Workers |-> 0]
    /\ seen = [w \in Workers |-> [t \in Tasks |-> {}]]
    /\ faults = 0

Fault == faults < MaxFaults /\ faults' = faults + 1

--------------------------------------------------------------------------------
(* The request: submit_task and _execute                                      *)

\* The row is committed with a fresh heartbeat_at, then the lease is held.
Submit(w, t) ==
    /\ w \in up /\ status[t] = "absent"
    /\ status' = [status EXCEPT ![t] = "queued"]
    /\ age' = [age EXCEPT ![t] = 0]
    /\ live' = [live EXCEPT ![w] = @ \cup {t}]
    /\ owner' = [owner EXCEPT ![t] = w]
    /\ at' = [at EXCEPT ![t] = "start"]
    /\ UNCHANGED <<exe, registered, up, node, cand, tries, loopVars, faults>>

\* The request is over, whichever way: _executing gives the lease up.
EndRequest(t) ==
    /\ live' = [live EXCEPT ![owner[t]] = @ \ {t}]
    /\ owner' = [owner EXCEPT ![t] = NoWorker]
    /\ at' = [at EXCEPT ![t] = "none"]
    /\ node' = [node EXCEPT ![t] = NoNode]
    /\ cand' = [cand EXCEPT ![t] = {}]
    /\ tries' = [tries EXCEPT ![t] = 0]

\* _finish writes the outcome by primary key, whatever the row says now.
Finish(t, outcome) ==
    /\ status' = [status EXCEPT ![t] = outcome]
    /\ age' = [age EXCEPT ![t] = 0]
    /\ EndRequest(t)
    /\ UNCHANGED <<exe, registered, up, loopVars, faults>>

\* Answered without dispatch: privacy denial, retrieval failure (failed) or the
\* grounded refusal (succeeded); an external provider's outcome likewise.
Answer(t) ==
    /\ at[t] \in {"start", "external"}
    /\ \E outcome \in Finished : Finish(t, outcome)

\* The LLM layer or an external provider takes the task.
CallExternal(t) ==
    /\ at[t] = "start"
    /\ status' = [status EXCEPT ![t] = "running"]
    /\ at' = [at EXCEPT ![t] = "external"]
    /\ UNCHANGED <<exe, age, registered, up, live, owner, node, cand, tries, loopVars, faults>>

\* route_candidates ranks any subset of the registered nodes.
Route(t) ==
    /\ at[t] = "start"
    /\ \E C \in SUBSET registered : C # {} /\ cand' = [cand EXCEPT ![t] = C]
    /\ at' = [at EXCEPT ![t] = "next"]
    /\ UNCHANGED <<rowVars, up, live, owner, node, tries, loopVars, faults>>

\* No compatible node, or candidates[:max_attempts] used up.
GiveUp(t) ==
    /\ at[t] \in {"start", "next"}
    /\ at[t] = "next" => cand[t] = {} \/ tries[t] = MaxAttempts
    /\ Finish(t, "failed")

\* The attempt is persisted before the network call.  Task.status only becomes
\* part of the UPDATE on the first attempt: later the session already holds
\* RUNNING.  A node deleted meanwhile fails the INSERT and ends the request.
Attempt(t) ==
    /\ at[t] = "next" /\ tries[t] < MaxAttempts
    /\ \E n \in cand[t] \cap registered :
        /\ exe' = [exe EXCEPT ![t][n] = "running"]
        /\ node' = [node EXCEPT ![t] = n]
        /\ cand' = [cand EXCEPT ![t] = @ \ {n}]
    /\ status' = [status EXCEPT ![t] = IF tries[t] = 0 THEN "running" ELSE @]
    /\ tries' = [tries EXCEPT ![t] = @ + 1]
    /\ at' = [at EXCEPT ![t] = "dispatch"]
    /\ UNCHANGED <<age, registered, up, live, owner, loopVars, faults>>

\* _finish_execution; the row is there unless delete_node removed it.
CloseAttempt(t, result, then) ==
    /\ at[t] = "dispatch" /\ exe[t][node[t]] # "none"
    /\ exe' = [exe EXCEPT ![t][node[t]] = result]
    /\ at' = [at EXCEPT ![t] = then]
    /\ UNCHANGED <<status, age, registered, up, live, owner, node, cand, tries, loopVars, faults>>

\* Mutant of AttemptFails: the loop continues without _finish_execution.
AttemptLeftOpen(t) == CloseAttempt(t, "running", "next")

\* No model, a transport error or a failure reported by the agent.
AttemptFails(t) == CloseAttempt(t, "failed", "next")

AttemptSucceeds(t) == CloseAttempt(t, "succeeded", "won")

FinishWon(t) == at[t] = "won" /\ Finish(t, "succeeded")

\* The write behind the request's next commit names a row that is gone: an
\* execution deleted with its node, or a node that was a candidate.
RowGone(t) ==
    \/ at[t] = "dispatch" /\ exe[t][node[t]] = "none"
    \/ at[t] = "next" /\ tries[t] < MaxAttempts /\ cand[t] \ registered # {}

Abort(t) ==
    /\ EndRequest(t)
    /\ UNCHANGED <<rowVars, up, loopVars>>

\* StaleDataError or IntegrityError: the task is left as it was.
RequestBreaks(t) == RowGone(t) /\ Abort(t) /\ UNCHANGED faults

\* Any other unhandled error.
RequestError(t) == at[t] # "none" /\ Fault /\ Abort(t)

--------------------------------------------------------------------------------
(* The lease loop: _lease_tick, heartbeat_live_tasks, reap_stale_tasks        *)

\* The UPDATE is built: ids and timestamp are fixed here.
BeatStart(w) ==
    /\ w \in up /\ loop[w] = "sleep"
    /\ loop' = [loop EXCEPT ![w] = "beating"]
    /\ beatSet' = [beatSet EXCEPT ![w] = live[w]]
    /\ beatAge' = [beatAge EXCEPT ![w] = 0]
    /\ UNCHANGED <<rowVars, up, live, reqVars, sinceBeat, scanVars, faults>>

\* Mutant of BeatLands: only RUNNING rows are renewed.
BeatSkipsQueued(w) ==
    /\ loop[w] = "beating"
    /\ age' = [t \in Tasks |->
                  IF t \in beatSet[w] /\ status[t] = "running" THEN beatAge[w] ELSE age[t]]
    /\ sinceBeat' = [sinceBeat EXCEPT ![w] = beatAge[w]]
    /\ loop' = [loop EXCEPT ![w] = "beaten"]
    /\ beatSet' = [beatSet EXCEPT ![w] = {}]
    /\ beatAge' = [beatAge EXCEPT ![w] = 0]
    /\ UNCHANGED <<status, exe, registered, up, live, reqVars, scanVars, faults>>

\* It commits, on the rows that are still unfinished.
BeatLands(w) ==
    /\ loop[w] = "beating"
    /\ age' = [t \in Tasks |->
                  IF t \in beatSet[w] /\ status[t] \in Unfinished THEN beatAge[w] ELSE age[t]]
    /\ sinceBeat' = [sinceBeat EXCEPT ![w] = beatAge[w]]
    /\ loop' = [loop EXCEPT ![w] = "beaten"]
    /\ beatSet' = [beatSet EXCEPT ![w] = {}]
    /\ beatAge' = [beatAge EXCEPT ![w] = 0]
    /\ UNCHANGED <<status, exe, registered, up, live, reqVars, scanVars, faults>>

\* try_lead says no: back to sleep.
StandDown(w) ==
    /\ loop[w] = "beaten"
    /\ loop' = [loop EXCEPT ![w] = "sleep"]
    /\ UNCHANGED <<rowVars, up, live, reqVars, beatVars, scanVars, faults>>

\* Mutants of Stale: a lease exactly at the bound counts as lapsed; a QUEUED
\* task is never orphaned.
StaleAtBound(t, since) == status[t] \in Unfinished /\ age[t] >= StaleAfter + since
StaleOnlyRunning(t, since) == status[t] = "running" /\ age[t] > StaleAfter + since

\* The row's heartbeat is older than the cutoff fixed `since` ticks ago.
Stale(t, since) == status[t] \in Unfinished /\ age[t] > StaleAfter + since

\* Leading, the reaper fixes its cutoff and loads the stale tasks.
Select(w) ==
    /\ loop[w] = "beaten"
    /\ loop' = [loop EXCEPT ![w] = "reaping"]
    /\ todo' = [todo EXCEPT ![w] = {t \in Tasks : Stale(t, 0)}]
    /\ seen' = [seen EXCEPT ![w] = [t \in Tasks |->
                   {n \in Nodes : Stale(t, 0) /\ exe[t][n] = "running"}]]
    /\ scanAge' = [scanAge EXCEPT ![w] = 0]
    /\ UNCHANGED <<rowVars, up, live, reqVars, beatVars, faults>>

ForgetScan(w) ==
    /\ loop' = [loop EXCEPT ![w] = "sleep"]
    /\ todo' = [todo EXCEPT ![w] = {}]
    /\ seen' = [seen EXCEPT ![w] = [t \in Tasks |-> {}]]
    /\ scanAge' = [scanAge EXCEPT ![w] = 0]

\* Mutant of Reap: the loaded executions are not closed.
ReapLeavesTrace(w, t) ==
    /\ loop[w] = "reaping" /\ t \in todo[w]
    /\ Stale(t, scanAge[w])
    /\ status' = [status EXCEPT ![t] = "failed"]
    /\ age' = [age EXCEPT ![t] = 0]
    /\ todo' = [todo EXCEPT ![w] = @ \ {t}]
    /\ UNCHANGED <<exe, registered, up, live, reqVars, loop, beatVars, scanAge, seen, faults>>

\* One claimed task: compare-and-set, close the loaded executions, _finish.
Reap(w, t) ==
    /\ loop[w] = "reaping" /\ t \in todo[w]
    /\ Stale(t, scanAge[w])
    /\ \A n \in seen[w][t] : exe[t][n] # "none"
    /\ status' = [status EXCEPT ![t] = "failed"]
    /\ age' = [age EXCEPT ![t] = 0]
    /\ exe' = [exe EXCEPT ![t] = [n \in Nodes |-> IF n \in seen[w][t] THEN "failed" ELSE @[n]]]
    /\ todo' = [todo EXCEPT ![w] = @ \ {t}]
    /\ UNCHANGED <<registered, up, live, reqVars, loop, beatVars, scanAge, seen, faults>>

\* Renewed or finished since the select: rowcount is not 1.
ReapMisses(w, t) ==
    /\ loop[w] = "reaping" /\ t \in todo[w]
    /\ ~Stale(t, scanAge[w])
    /\ todo' = [todo EXCEPT ![w] = @ \ {t}]
    /\ UNCHANGED <<rowVars, up, live, reqVars, loop, beatVars, scanAge, seen, faults>>

\* A loaded execution was deleted with its node: the transaction fails and
\* takes the rest of the tick with it.
ReapBreaks(w, t) ==
    /\ loop[w] = "reaping" /\ t \in todo[w]
    /\ Stale(t, scanAge[w])
    /\ \E n \in seen[w][t] : exe[t][n] = "none"
    /\ ForgetScan(w)
    /\ UNCHANGED <<rowVars, up, live, reqVars, beatVars, faults>>

ReapEnds(w) ==
    /\ loop[w] = "reaping" /\ todo[w] = {}
    /\ ForgetScan(w)
    /\ UNCHANGED <<rowVars, up, live, reqVars, beatVars, faults>>

\* A tick that raises is logged and retried at the next interval.
TickFails(w) ==
    /\ loop[w] # "sleep" /\ Fault
    /\ ForgetScan(w)
    /\ beatSet' = [beatSet EXCEPT ![w] = {}]
    /\ beatAge' = [beatAge EXCEPT ![w] = 0]
    /\ UNCHANGED <<rowVars, up, live, reqVars, sinceBeat>>

--------------------------------------------------------------------------------
(* The environment: processes, administrators, time                           *)

\* A worker dies with its requests and its open transactions.
Crash(w) ==
    /\ w \in up /\ Fault
    /\ up' = up \ {w}
    /\ live' = [live EXCEPT ![w] = {}]
    /\ LET lost == {t \in Tasks : owner[t] = w} IN
        /\ owner' = [t \in Tasks |-> IF t \in lost THEN NoWorker ELSE owner[t]]
        /\ at' = [t \in Tasks |-> IF t \in lost THEN "none" ELSE at[t]]
        /\ node' = [t \in Tasks |-> IF t \in lost THEN NoNode ELSE node[t]]
        /\ cand' = [t \in Tasks |-> IF t \in lost THEN {} ELSE cand[t]]
        /\ tries' = [t \in Tasks |-> IF t \in lost THEN 0 ELSE tries[t]]
    /\ ForgetScan(w)
    /\ sinceBeat' = [sinceBeat EXCEPT ![w] = 0]
    /\ beatSet' = [beatSet EXCEPT ![w] = {}]
    /\ beatAge' = [beatAge EXCEPT ![w] = 0]
    /\ UNCHANGED rowVars

\* The server respawns the worker, with an empty _live_tasks.
Restart(w) ==
    /\ w \notin up
    /\ up' = up \cup {w}
    /\ UNCHANGED <<rowVars, live, reqVars, loopVars, faults>>

\* delete_node removes the node's executions along with the node.
DeleteNode(n) ==
    /\ n \in registered /\ Fault
    /\ registered' = registered \ {n}
    /\ exe' = [t \in Tasks |-> [exe[t] EXCEPT ![n] = "none"]]
    /\ UNCHANGED <<status, age, up, live, reqVars, loopVars>>

\* Time passes, while no live worker is overdue with its heartbeat.
Tick ==
    /\ \A w \in up : sinceBeat[w] < MaxGap
    /\ age' = [t \in Tasks |-> IF status[t] \in Unfinished THEN Older(age[t]) ELSE age[t]]
    /\ sinceBeat' = [w \in Workers |-> IF w \in up THEN sinceBeat[w] + 1 ELSE sinceBeat[w]]
    /\ beatAge' = [w \in Workers |->
                      IF loop[w] = "beating" THEN beatAge[w] + 1 ELSE beatAge[w]]
    /\ scanAge' = [w \in Workers |->
                      IF loop[w] = "reaping" THEN scanAge[w] + 1 ELSE scanAge[w]]
    /\ UNCHANGED <<status, exe, registered, up, live, reqVars, loop, beatSet, todo, seen, faults>>

--------------------------------------------------------------------------------

RequestStep(t) ==
    \/ Answer(t) \/ CallExternal(t) \/ Route(t) \/ GiveUp(t) \/ Attempt(t)
    \/ AttemptFails(t) \/ AttemptSucceeds(t) \/ FinishWon(t) \/ RequestBreaks(t)

ReapStep(w) ==
    \/ ReapEnds(w)
    \/ \E t \in Tasks : Reap(w, t) \/ ReapMisses(w, t) \/ ReapBreaks(w, t)

LoopStep(w) ==
    BeatStart(w) \/ BeatLands(w) \/ StandDown(w) \/ Select(w) \/ ReapStep(w)

Next ==
    \/ \E t \in Tasks : RequestStep(t) \/ RequestError(t) \/ \E w \in Workers : Submit(w, t)
    \/ \E w \in Workers : LoopStep(w) \/ TickFails(w) \/ Crash(w) \/ Restart(w)
    \/ \E n \in Nodes : DeleteNode(n)
    \/ Tick

\* Calls have timeouts, loops run, workers are respawned; some worker whose tick
\* gets that far obtains the leader lock.
Fairness ==
    /\ WF_vars(Tick)
    /\ \A t \in Tasks : WF_vars(RequestStep(t))
    /\ \A w \in Workers : WF_vars(LoopStep(w)) /\ WF_vars(Restart(w))
    /\ SF_vars(\E w \in Workers : Select(w))

Spec == Init /\ [][Next]_vars

FairSpec == Spec /\ Fairness

--------------------------------------------------------------------------------
(* Properties                                                                 *)

\* heartbeat_live_tasks keeps every task a worker executes away from the reaper:
\* it is unfinished and younger than the staleness bound, whatever the request,
\* the heartbeats in flight and the reapers' snapshots are doing.
LeaseHeld ==
    \A t \in Tasks : owner[t] # NoWorker =>
        /\ status[t] \in Unfinished
        /\ age[t] <= StaleAfter
        /\ \A w \in Workers : t \notin todo[w]

\* Failover is sequential: of a task's attempts at most one is running or has
\* succeeded, so no two nodes are recorded as executing it.
AttemptsSerial ==
    \A t \in Tasks : \A m, n \in Nodes :
        {exe[t][m], exe[t][n]} \subseteq {"running", "succeeded"} => m = n

\* The trace is closed with the task: a finished task has no running execution,
\* even when the executor died and the reaper worked from an old snapshot.
TraceClosed ==
    \A t \in Tasks : status[t] \in Finished => \A n \in Nodes : exe[t][n] # "running"

--------------------------------------------------------------------------------
(* Inductive invariants                                                       *)

\* Who executes what, and why every held lease is younger than its holder's
\* last heartbeat, also while a heartbeat UPDATE or a reaper's scan is pending.
Holding ==
    \A t \in Tasks :
        /\ owner[t] = NoWorker <=> at[t] = "none"
        /\ \A w \in Workers : t \in live[w] <=> owner[t] = w
        /\ owner[t] # NoWorker =>
              /\ owner[t] \in up
              /\ status[t] \in Unfinished
              /\ age[t] <= sinceBeat[owner[t]]

Beating ==
    \A w \in Workers :
        /\ loop[w] = "beating" => \A t \in live[w] \ beatSet[w] : age[t] <= beatAge[w]
        /\ \A t \in beatSet[w] : status[t] # "absent" /\ owner[t] \in {w, NoWorker}
        /\ \A t \in todo[w] : status[t] # "absent" /\ owner[t] = NoWorker

LeaseInv == Holding /\ Beating

\* Which attempts may be open or won, by where the request is.
Attempted ==
    \A t \in Tasks :
        /\ at[t] = "dispatch" => node[t] \in Nodes
        /\ \A n \in Nodes :
              /\ exe[t][n] = "running" => status[t] \in Unfinished
              /\ status[t] = "absent" => exe[t][n] = "none"
              /\ exe[t][n] \in {"running", "succeeded"} /\ owner[t] # NoWorker =>
                    at[t] \in {"dispatch", "won"} /\ node[t] = n
              /\ exe[t][n] = "running" /\ owner[t] # NoWorker => at[t] = "dispatch"

\* A reaper's snapshot of an orphaned task holds every attempt still open.
Snapshots ==
    \A w \in Workers : \A t \in todo[w] : \A n \in Nodes :
        exe[t][n] = "running" => n \in seen[w][t]

TraceInv == Attempted /\ Snapshots /\ AttemptsSerial

--------------------------------------------------------------------------------
(* The job contract                                                           *)

\* The refinement mapping: an unfinished row is an open job, held by the request
\* that executes it.
JobOutcome == [t \in Tasks |-> IF status[t] \in Unfinished THEN "open" ELSE status[t]]
JobHeld == {t \in Tasks : owner[t] # NoWorker}

Contract == INSTANCE JobContract
                WITH Jobs <- Tasks, Droppable <- {}, outcome <- JobOutcome, held <- JobHeld

\* Only the request that holds a task decides it, a decided task is never
\* revised, and the reaper only ever fails tasks nobody holds.
ImplementsContract == Contract!Safe

\* Every submitted task ends, also when its worker crashes at any point.
EveryTaskEnds == Contract!Settles
================================================================================
