------------------------------ MODULE WorkflowRuns ------------------------------
(***************************************************************************)
(* Runs of one workflow: services/workflow.py, api/v1/workflows.py and the *)
(* run half of the lease loop of main.py (ADR-012, ADR-014, ADR-033,       *)
(* ADR-034).  A run executes inside the request that started it; an        *)
(* approval step pauses it, and the request of the operator who decides    *)
(* resumes or fails it, from what that request read.                       *)
(*                                                                         *)
(* One committed transaction is one action.  A work step stands for task,  *)
(* retrieve and parallel steps: only task steps have retries.  A request   *)
(* is named after the run it starts or the operator who sends it.          *)
(***************************************************************************)
EXTENDS Naturals, FiniteSets, Sequences

CONSTANTS
    Runs, Operators, Workers,
    NoRun, NoWorker,
    definition,  \* WorkflowDefinition.steps
    StaleAfter,  \* settings.workflow_stale_after_seconds, in ticks
    MaxGap,      \* longest time between two landed heartbeats of a live worker
    MaxServing,  \* bound: requests that serve one run at the same time
    MaxFaults    \* bound: crashes, unhandled errors, failed ticks and deletes

Steps == 1..Len(definition)
Requests == Runs \cup Operators

ASSUME RunNames == Runs \cap Operators = {} /\ NoRun \notin Runs /\ NoWorker \notin Workers
\* WorkflowDefinition: 1 to 50 steps, at most 5 retries, `when` names an earlier step.
ASSUME DefinitionAssumption ==
    /\ Len(definition) \in 1..50
    /\ \A i \in Steps :
          /\ definition[i].kind \in {"work", "approval"}
          /\ definition[i].retries \in 0..5
          /\ definition[i].kind = "approval" => definition[i].retries = 0
          /\ definition[i].when => i > 1
ASSUME RunBounds == MaxFaults \in Nat /\ MaxServing \in Nat \ {0}
\* Settings refuses a stale_after below three heartbeat intervals.  Two gaps must
\* fit in it: a heartbeat still in flight on the worker that paused a run may
\* land on the resumed run and set it back by one.
ASSUME RunLease ==
    StaleAfter \in Nat /\ MaxGap \in Nat \ {0} /\ 2 * MaxGap <= StaleAfter

\* A WorkflowStepRun: its step, its attempt, and the request that inserted it.
Keys == {k \in Steps \X (1..6) \X Requests : k[2] <= definition[k[1]].retries + 1}
StepStatus == {"none", "running", "pending_approval", "succeeded", "failed", "skipped"}

VARIABLES
    workflow,   \* the row and the delete under way: present, counted, gone
    status,     \* WorkflowRun.status; "deleted" with its workflow
    current,    \* WorkflowRun.current_step, 0 before the first
    age,        \* ticks since WorkflowRun.heartbeat_at, 0 once the run is over
    context,    \* steps whose output WorkflowRun.context holds
    trace,      \* status of the run's WorkflowStepRun rows
    at,         \* where in its handler each request is
    run,        \* the run the request serves
    host,       \* the worker the request runs on
    idx,        \* the step the request is at
    attempt,    \* attempts at that step
    mem,        \* run.context of the request's session
    pending,    \* the step run the operator's request is about to resolve
    up,         \* worker processes that are running
    live,       \* _live_runs of each worker
    loop,       \* where in _lease_tick the worker is
    sinceBeat,  \* ticks since the worker's last landed heartbeat was stamped
    beatSet,    \* the ids a heartbeat UPDATE in flight names
    beatAge,    \* ticks since that UPDATE's timestamp was taken
    todo,       \* stale runs selected by the reaper and not visited yet
    scanAge,    \* ticks since the reaper computed its cutoff
    seen,       \* the RUNNING step runs loaded with the selected runs
    faults      \* faults so far

rowVars  == <<workflow, status, current, age, context, trace>>
reqVars  == <<at, run, host, idx, attempt, mem, pending>>
beatVars == <<sinceBeat, beatSet, beatAge>>
scanVars == <<todo, scanAge, seen>>
loopVars == <<loop, beatVars, scanVars>>
vars == <<rowVars, reqVars, up, live, loopVars, faults>>

Open  == {"running", "paused"}
Final == {"succeeded", "failed"}

\* Places inside `with _executing(run.id)` where the run is still to be executed.
Executing == {"step", "entered", "trying", "retry", "record"}

Oldest == StaleAfter + MaxGap + 1
Older(a) == IF a < Oldest THEN a + 1 ELSE a

RowTypes ==
    /\ workflow \in {"present", "counted", "gone"}
    /\ status \in [Runs -> {"absent", "deleted"} \cup Open \cup Final]
    /\ current \in [Runs -> Steps \cup {0}]
    /\ age \in [Runs -> 0..Oldest]
    /\ \A r \in Runs : status[r] \notin Open => age[r] = 0
    /\ context \in [Runs -> SUBSET Steps]
    /\ trace \in [Runs -> [Keys -> StepStatus]]

RequestTypes ==
    /\ up \in SUBSET Workers
    /\ live \in [Workers -> SUBSET Runs]
    /\ at \in [Requests -> {"idle", "leaving", "deciding"} \cup Executing]
    /\ run \in [Requests -> Runs \cup {NoRun}]
    /\ host \in [Requests -> Workers \cup {NoWorker}]
    /\ idx \in [Requests -> 0..Len(definition) + 1]
    /\ attempt \in [Requests -> 0..6]
    /\ mem \in [Requests -> SUBSET Steps]
    /\ pending \in [Requests -> SUBSET Keys]
    /\ \A q \in Requests :
          /\ at[q] = "idle" <=> run[q] = NoRun
          /\ at[q] = "step" => idx[q] # 0
          /\ at[q] \in {"entered", "trying", "retry", "record", "deciding"} => idx[q] \in Steps
          /\ at[q] = "trying" => <<idx[q], attempt[q], q>> \in Keys

LoopTypes ==
    /\ loop \in [Workers -> {"sleep", "beating", "beaten", "reaping"}]
    /\ sinceBeat \in [Workers -> 0..MaxGap]
    /\ beatSet \in [Workers -> SUBSET Runs]
    /\ beatAge \in [Workers -> 0..MaxGap]
    /\ todo \in [Workers -> SUBSET Runs]
    /\ scanAge \in [Workers -> 0..MaxGap]
    /\ seen \in [Workers -> [Runs -> SUBSET Keys]]
    \* a tick is of a live worker and began after its last landed heartbeat
    /\ \A w \in Workers :
          /\ beatAge[w] <= sinceBeat[w] /\ scanAge[w] <= sinceBeat[w]
          /\ loop[w] # "sleep" => w \in up
          /\ loop[w] # "reaping" => scanAge[w] = 0

TypeOK == RowTypes /\ RequestTypes /\ LoopTypes /\ faults \in 0..MaxFaults

Init ==
    /\ workflow = "present"
    /\ status = [r \in Runs |-> "absent"]
    /\ current = [r \in Runs |-> 0]
    /\ age = [r \in Runs |-> 0]
    /\ context = [r \in Runs |-> {}]
    /\ trace = [r \in Runs |-> [k \in Keys |-> "none"]]
    /\ at = [q \in Requests |-> "idle"]
    /\ run = [q \in Requests |-> NoRun]
    /\ host = [q \in Requests |-> NoWorker]
    /\ idx = [q \in Requests |-> 0]
    /\ attempt = [q \in Requests |-> 0]
    /\ mem = [q \in Requests |-> {}]
    /\ pending = [q \in Requests |-> {}]
    /\ up = Workers
    /\ live = [w \in Workers |-> {}]
    /\ loop = [w \in Workers |-> "sleep"]
    /\ sinceBeat = [w \in Workers |-> 0]
    /\ beatSet = [w \in Workers |-> {}]
    /\ beatAge = [w \in Workers |-> 0]
    /\ todo = [w \in Workers |-> {}]
    /\ scanAge = [w \in Workers |-> 0]
    /\ seen = [w \in Workers |-> [r \in Runs |-> {}]]
    /\ faults = 0

Fault == faults < MaxFaults /\ faults' = faults + 1

Serving(r) == {q \in Requests : run[q] = r}

--------------------------------------------------------------------------------
(* Requests                                                                   *)

\* POST /run: the RUNNING row is committed with a fresh heartbeat_at; the
\* workflow is still there, whether or not a delete has counted already.
Start(r, w) ==
    /\ w \in up /\ workflow # "gone" /\ status[r] = "absent"
    /\ status' = [status EXCEPT ![r] = "running"]
    /\ age' = [age EXCEPT ![r] = 0]
    /\ live' = [live EXCEPT ![w] = @ \cup {r}]
    /\ at' = [at EXCEPT ![r] = "step"]
    /\ run' = [run EXCEPT ![r] = r]
    /\ host' = [host EXCEPT ![r] = w]
    /\ idx' = [idx EXCEPT ![r] = 1]
    /\ UNCHANGED <<workflow, current, context, trace, attempt, mem, pending, up, loopVars, faults>>

\* A write on behalf of q finds the run's row, or it would raise StaleDataError.
Writes(q) == status[run[q]] # "deleted"

EnterStep(q) ==
    /\ at[q] = "step" /\ idx[q] \in Steps /\ Writes(q)
    /\ current' = [current EXCEPT ![run[q]] = idx[q]]
    /\ at' = [at EXCEPT ![q] = "entered"]
    /\ UNCHANGED <<workflow, status, age, context, trace, run, host, idx, attempt, mem, pending,
                   up, live, loopVars, faults>>

NextStep(q) ==
    /\ at' = [at EXCEPT ![q] = "step"]
    /\ idx' = [idx EXCEPT ![q] = @ + 1]
    /\ attempt' = [attempt EXCEPT ![q] = 0]

\* The step's `when` does not hold.
Skip(q) ==
    /\ at[q] = "entered" /\ definition[idx[q]].when /\ Writes(q)
    /\ trace' = [trace EXCEPT ![run[q]][<<idx[q], 1, q>>] = "skipped"]
    /\ NextStep(q)
    /\ UNCHANGED <<workflow, status, current, age, context, run, host, mem, pending,
                   up, live, loopVars, faults>>

Pause(q) ==
    /\ at[q] = "entered" /\ definition[idx[q]].kind = "approval" /\ Writes(q)
    /\ trace' = [trace EXCEPT ![run[q]][<<idx[q], 1, q>>] = "pending_approval"]
    /\ status' = [status EXCEPT ![run[q]] = "paused"]
    /\ at' = [at EXCEPT ![q] = "leaving"]
    /\ UNCHANGED <<workflow, current, age, context, run, host, idx, attempt, mem, pending,
                   up, live, loopVars, faults>>

\* for attempt in range(1, retries + 2): the attempt's row is committed first.
Try(q) ==
    /\ at[q] \in {"entered", "retry"} /\ definition[idx[q]].kind = "work" /\ Writes(q)
    /\ attempt[q] < definition[idx[q]].retries + 1
    /\ trace' = [trace EXCEPT ![run[q]][<<idx[q], attempt[q] + 1, q>>] = "running"]
    /\ attempt' = [attempt EXCEPT ![q] = @ + 1]
    /\ at' = [at EXCEPT ![q] = "trying"]
    /\ UNCHANGED <<workflow, status, current, age, context, run, host, idx, mem, pending,
                   up, live, loopVars, faults>>

\* The row of the attempt q is at.
Row(q) == <<idx[q], attempt[q], q>>

CloseTry(q, result, then) ==
    /\ at[q] = "trying" /\ Writes(q)
    /\ trace' = [trace EXCEPT ![run[q]][Row(q)] = result]
    /\ at' = [at EXCEPT ![q] = then]
    /\ UNCHANGED <<workflow, status, current, age, context, run, host, idx, attempt, mem, pending,
                   up, live, loopVars, faults>>

TryFails(q) == CloseTry(q, "failed", "retry")

TrySucceeds(q) == CloseTry(q, "succeeded", "record")

\* Mutant of Record: the context is changed in place, so no UPDATE carries it.
RecordInPlace(q) ==
    /\ at[q] = "record" /\ Writes(q)
    /\ mem' = [mem EXCEPT ![q] = @ \cup {idx[q]}]
    /\ NextStep(q)
    /\ UNCHANGED <<rowVars, run, host, pending, up, live, loopVars, faults>>

\* _record_output reassigns the whole context from the session's own copy.
Record(q) ==
    /\ at[q] = "record" /\ Writes(q)
    /\ mem' = [mem EXCEPT ![q] = @ \cup {idx[q]}]
    /\ context' = [context EXCEPT ![run[q]] = mem[q] \cup {idx[q]}]
    /\ NextStep(q)
    /\ UNCHANGED <<workflow, status, current, age, trace, run, host, pending,
                   up, live, loopVars, faults>>

\* _finish writes the status by primary key, whatever the row says now.
Finish(q, outcome) ==
    /\ Writes(q)
    /\ status' = [status EXCEPT ![run[q]] = outcome]
    /\ age' = [age EXCEPT ![run[q]] = 0]

FinishRun(q) ==
    /\ \/ at[q] = "step" /\ idx[q] = Len(definition) + 1 /\ Finish(q, "succeeded")
       \/ at[q] = "retry" /\ attempt[q] = definition[idx[q]].retries + 1 /\ Finish(q, "failed")
    /\ at' = [at EXCEPT ![q] = "leaving"]
    /\ UNCHANGED <<workflow, current, context, trace, run, host, idx, attempt, mem, pending,
                   up, live, loopVars, faults>>

ForgetRequests(Q) ==
    /\ at' = [q \in Requests |-> IF q \in Q THEN "idle" ELSE at[q]]
    /\ run' = [q \in Requests |-> IF q \in Q THEN NoRun ELSE run[q]]
    /\ host' = [q \in Requests |-> IF q \in Q THEN NoWorker ELSE host[q]]
    /\ idx' = [q \in Requests |-> IF q \in Q THEN 0 ELSE idx[q]]
    /\ attempt' = [q \in Requests |-> IF q \in Q THEN 0 ELSE attempt[q]]
    /\ mem' = [q \in Requests |-> IF q \in Q THEN {} ELSE mem[q]]
    /\ pending' = [q \in Requests |-> IF q \in Q THEN {} ELSE pending[q]]

\* Mutant of EndRequest: an exception skips the discard.
KeepsLease(q) ==
    /\ ForgetRequests({q})
    /\ live' = IF at[q] = "leaving" THEN [live EXCEPT ![host[q]] = @ \ {run[q]}] ELSE live

\* _executing discards the id on every way out; a request that was only
\* deciding never entered it.
EndRequest(q) ==
    /\ ForgetRequests({q})
    /\ live' = IF at[q] = "deciding" THEN live ELSE [live EXCEPT ![host[q]] = @ \ {run[q]}]

\* The refresh after the last commit, then the response.
Leave(q) ==
    /\ at[q] = "leaving"
    /\ EndRequest(q)
    /\ UNCHANGED <<rowVars, up, loopVars, faults>>

\* The run was deleted under the request: StaleDataError or IntegrityError.
RequestBreaks(q) ==
    /\ at[q] \in Executing \cup {"deciding"} /\ ~Writes(q)
    /\ EndRequest(q)
    /\ UNCHANGED <<rowVars, up, loopVars, faults>>

\* Any other unhandled error, submit_task's included.
RequestError(q) ==
    /\ at[q] # "idle" /\ Fault
    /\ EndRequest(q)
    /\ UNCHANGED <<rowVars, up, loopVars>>

--------------------------------------------------------------------------------
(* Decisions                                                                  *)

\* POST /approve loads the run, its context and its pending step run, and only
\* goes on with a paused one.
OpenDecision(o, r, w) ==
    /\ w \in up /\ at[o] = "idle" /\ workflow # "gone" /\ status[r] = "paused"
    /\ Cardinality(Serving(r)) < MaxServing
    /\ \E k \in Keys :
          /\ k[1] = current[r] /\ trace[r][k] = "pending_approval"
          /\ pending' = [pending EXCEPT ![o] = {k}]
    /\ at' = [at EXCEPT ![o] = "deciding"]
    /\ run' = [run EXCEPT ![o] = r]
    /\ host' = [host EXCEPT ![o] = w]
    /\ idx' = [idx EXCEPT ![o] = current[r]]
    /\ mem' = [mem EXCEPT ![o] = context[r]]
    /\ UNCHANGED <<rowVars, attempt, up, live, loopVars, faults>>

Resolve(o, result) ==
    /\ at[o] = "deciding" /\ Writes(o)
    /\ trace' = [trace EXCEPT ![run[o]] =
                    [k \in Keys |-> IF k \in pending[o] THEN result ELSE @[k]]]

\* Approval: the row, the context and the status in one commit, then the lease.
Resume(o, stepAfter, newAge) ==
    /\ Resolve(o, "succeeded")
    /\ mem' = [mem EXCEPT ![o] = @ \cup {idx[o]}]
    /\ context' = [context EXCEPT ![run[o]] = mem[o] \cup {idx[o]}]
    /\ status' = [status EXCEPT ![run[o]] = "running"]
    /\ age' = [age EXCEPT ![run[o]] = newAge]
    /\ live' = [live EXCEPT ![host[o]] = @ \cup {run[o]}]
    /\ at' = [at EXCEPT ![o] = "step"]
    /\ idx' = [idx EXCEPT ![o] = stepAfter]
    /\ pending' = [pending EXCEPT ![o] = {}]
    /\ UNCHANGED <<workflow, current, run, host, attempt, up, loopVars, faults>>

\* Mutants of Approve: the paused run's old lease is kept; the run resumes at
\* the approval step itself.
ApproveOldLease(o) == Resume(o, idx[o] + 1, age[run[o]])
ApproveSameStep(o) == Resume(o, idx[o], 0)

Approve(o) == Resume(o, idx[o] + 1, 0)

Reject(o) ==
    /\ Resolve(o, "failed")
    /\ Finish(o, "failed")
    /\ EndRequest(o)
    /\ UNCHANGED <<workflow, current, context, up, loopVars, faults>>

--------------------------------------------------------------------------------
(* DELETE /workflows/{id}: count, then delete what is there                    *)

DeleteCounts ==
    /\ workflow = "present" /\ \A r \in Runs : status[r] \notin Open
    /\ workflow' = "counted"
    /\ UNCHANGED <<status, current, age, context, trace, reqVars, up, live, loopVars, faults>>

DeleteCommits ==
    /\ workflow = "counted"
    /\ workflow' = "gone"
    /\ status' = [r \in Runs |-> IF status[r] = "absent" THEN "absent" ELSE "deleted"]
    /\ age' = [r \in Runs |-> 0]
    /\ current' = [r \in Runs |-> 0]
    /\ context' = [r \in Runs |-> {}]
    /\ trace' = [r \in Runs |-> [k \in Keys |-> "none"]]
    /\ UNCHANGED <<reqVars, up, live, loopVars, faults>>

\* A row inserted between two of its statements breaks a foreign key.
DeleteFails ==
    /\ workflow = "counted" /\ Fault
    /\ workflow' = "present"
    /\ UNCHANGED <<status, current, age, context, trace, reqVars, up, live, loopVars>>

--------------------------------------------------------------------------------
(* The lease loop: _lease_tick, heartbeat_live_runs, reap_stale_runs          *)

\* The UPDATE is built: ids and timestamp are fixed here.
BeatStart(w) ==
    /\ w \in up /\ loop[w] = "sleep"
    /\ loop' = [loop EXCEPT ![w] = "beating"]
    /\ beatSet' = [beatSet EXCEPT ![w] = live[w]]
    /\ beatAge' = [beatAge EXCEPT ![w] = 0]
    /\ UNCHANGED <<rowVars, reqVars, up, live, sinceBeat, scanVars, faults>>

ForgetBeat(w) ==
    /\ beatSet' = [beatSet EXCEPT ![w] = {}]
    /\ beatAge' = [beatAge EXCEPT ![w] = 0]

\* It commits, on the rows that are RUNNING.
BeatLands(w) ==
    /\ loop[w] = "beating"
    /\ age' = [r \in Runs |->
                  IF r \in beatSet[w] /\ status[r] = "running" THEN beatAge[w] ELSE age[r]]
    /\ sinceBeat' = [sinceBeat EXCEPT ![w] = beatAge[w]]
    /\ loop' = [loop EXCEPT ![w] = "beaten"]
    /\ ForgetBeat(w)
    /\ UNCHANGED <<workflow, status, current, context, trace, reqVars, up, live, scanVars, faults>>

\* try_lead says no: back to sleep.
StandDown(w) ==
    /\ loop[w] = "beaten"
    /\ loop' = [loop EXCEPT ![w] = "sleep"]
    /\ UNCHANGED <<rowVars, reqVars, up, live, beatVars, scanVars, faults>>

\* Mutant of Stale: <= for <.
StaleAtBound(r, since) == status[r] = "running" /\ age[r] >= StaleAfter + since

\* The row's heartbeat is older than the cutoff fixed `since` ticks ago.
Stale(r, since) == status[r] = "running" /\ age[r] > StaleAfter + since

\* Leading, the reaper fixes its cutoff and loads the stale runs.
Select(w) ==
    /\ loop[w] = "beaten"
    /\ loop' = [loop EXCEPT ![w] = "reaping"]
    /\ todo' = [todo EXCEPT ![w] = {r \in Runs : Stale(r, 0)}]
    /\ seen' = [seen EXCEPT ![w] = [r \in Runs |->
                   {k \in Keys : Stale(r, 0) /\ trace[r][k] = "running"}]]
    /\ scanAge' = [scanAge EXCEPT ![w] = 0]
    /\ UNCHANGED <<rowVars, reqVars, up, live, beatVars, faults>>

ForgetScan(w) ==
    /\ loop' = [loop EXCEPT ![w] = "sleep"]
    /\ todo' = [todo EXCEPT ![w] = {}]
    /\ seen' = [seen EXCEPT ![w] = [r \in Runs |-> {}]]
    /\ scanAge' = [scanAge EXCEPT ![w] = 0]

Claim(w, r) ==
    /\ loop[w] = "reaping" /\ r \in todo[w]
    /\ Stale(r, scanAge[w])
    /\ status' = [status EXCEPT ![r] = "failed"]
    /\ age' = [age EXCEPT ![r] = 0]
    /\ todo' = [todo EXCEPT ![w] = @ \ {r}]
    /\ UNCHANGED <<workflow, current, context, reqVars, up, live, loop, beatVars,
                   scanAge, seen, faults>>

\* One claimed run: compare-and-set, close the loaded step runs, _finish.
Reap(w, r) ==
    /\ Claim(w, r)
    /\ trace' = [trace EXCEPT ![r] = [k \in Keys |-> IF k \in seen[w][r] THEN "failed" ELSE @[k]]]

\* Renewed, finished, paused or deleted since the select: rowcount is not 1.
ReapMisses(w, r) ==
    /\ loop[w] = "reaping" /\ r \in todo[w]
    /\ ~Stale(r, scanAge[w])
    /\ todo' = [todo EXCEPT ![w] = @ \ {r}]
    /\ UNCHANGED <<rowVars, reqVars, up, live, loop, beatVars, scanAge, seen, faults>>

ReapEnds(w) ==
    /\ loop[w] = "reaping" /\ todo[w] = {}
    /\ ForgetScan(w)
    /\ UNCHANGED <<rowVars, reqVars, up, live, beatVars, faults>>

\* A tick that raises is logged and retried at the next interval.
TickFails(w) ==
    /\ loop[w] # "sleep" /\ Fault
    /\ ForgetScan(w) /\ ForgetBeat(w)
    /\ UNCHANGED <<rowVars, reqVars, up, live, sinceBeat>>

--------------------------------------------------------------------------------
(* The environment: processes and time                                        *)

\* A worker dies with its requests and its open transactions.
Crash(w) ==
    /\ w \in up /\ Fault
    /\ up' = up \ {w}
    /\ live' = [live EXCEPT ![w] = {}]
    /\ ForgetRequests({q \in Requests : host[q] = w})
    /\ ForgetScan(w) /\ ForgetBeat(w)
    /\ sinceBeat' = [sinceBeat EXCEPT ![w] = 0]
    /\ UNCHANGED rowVars

\* The server respawns the worker, with an empty _live_runs.
Restart(w) ==
    /\ w \notin up
    /\ up' = up \cup {w}
    /\ UNCHANGED <<rowVars, reqVars, live, loopVars, faults>>

\* Time passes, while no live worker is overdue with its heartbeat.  A paused
\* run's heartbeat_at grows old as well.
Tick ==
    /\ \A w \in up : sinceBeat[w] < MaxGap
    /\ age' = [r \in Runs |-> IF status[r] \in Open THEN Older(age[r]) ELSE age[r]]
    /\ sinceBeat' = [w \in Workers |-> IF w \in up THEN sinceBeat[w] + 1 ELSE sinceBeat[w]]
    /\ beatAge' = [w \in Workers |->
                      IF loop[w] = "beating" THEN beatAge[w] + 1 ELSE beatAge[w]]
    /\ scanAge' = [w \in Workers |->
                      IF loop[w] = "reaping" THEN scanAge[w] + 1 ELSE scanAge[w]]
    /\ UNCHANGED <<workflow, status, current, context, trace, reqVars, up, live, loop,
                   beatSet, todo, seen, faults>>

--------------------------------------------------------------------------------

RequestStep(q) ==
    \/ EnterStep(q) \/ Skip(q) \/ Pause(q)
    \/ Try(q) \/ TryFails(q) \/ TrySucceeds(q) \/ Record(q)
    \/ FinishRun(q) \/ Leave(q) \/ RequestBreaks(q)

Decide(o) == Approve(o) \/ Reject(o)

LoopStep(w) ==
    \/ BeatStart(w) \/ BeatLands(w) \/ StandDown(w) \/ Select(w) \/ ReapEnds(w)
    \/ \E r \in Runs : Reap(w, r) \/ ReapMisses(w, r)

Next ==
    \/ \E r \in Runs, w \in Workers : Start(r, w) \/ \E o \in Operators : OpenDecision(o, r, w)
    \/ \E q \in Requests : RequestStep(q) \/ RequestError(q)
    \/ \E o \in Operators : Decide(o)
    \/ DeleteCounts \/ DeleteCommits \/ DeleteFails
    \/ \E w \in Workers : LoopStep(w) \/ TickFails(w) \/ Crash(w) \/ Restart(w)
    \/ Tick

\* Calls have timeouts, loops run, workers are respawned; some worker whose tick
\* gets that far obtains the leader lock.  Nobody has to decide a paused run.
Fairness ==
    /\ WF_vars(Tick)
    /\ \A q \in Requests : WF_vars(RequestStep(q))
    /\ \A o \in Operators : WF_vars(Decide(o))
    /\ \A w \in Workers : WF_vars(LoopStep(w)) /\ WF_vars(Restart(w))
    /\ SF_vars(\E w \in Workers : Select(w))

Spec == Init /\ [][Next]_vars

FairSpec == Spec /\ Fairness

--------------------------------------------------------------------------------
(* Properties                                                                 *)

\* A run that a request executes is out of the reaper's reach: it is RUNNING,
\* its heartbeat is young enough and no scan has picked it (ADR-034), however
\* long it had been paused before.  Only a delete can take it away.
LeaseHeld ==
    \A q \in Requests : at[q] \in Executing /\ Writes(q) =>
        /\ status[run[q]] = "running"
        /\ age[run[q]] <= StaleAfter
        /\ \A w \in Workers : run[q] \notin todo[w]

\* The step of a row is settled: done, approved or skipped.
Settled(r, i) == \E k \in Keys : k[1] = i /\ trace[r][k] \in {"succeeded", "skipped"}

InOrder(r) ==
    /\ \A k \in Keys : trace[r][k] # "none" => \A i \in 1..k[1] - 1 : Settled(r, i)
    /\ status[r] = "succeeded" => \A i \in Steps : Settled(r, i)
    /\ \A k, l \in Keys :
          k[1] = l[1] /\ {trace[r][k], trace[r][l]} \cap {"none", "failed"} = {} => k = l

\* Steps run in order and past their gates, whichever requests execute them: a
\* step has a row, or the run has succeeded, only when every earlier step is
\* settled, approvals by an approval; and no step is settled or open twice.
StepsInOrder == \A r \in Runs : InOrder(r)

Closed(r) ==
    LET rows(s) == {k \in Keys : trace[r][k] = s} IN
    /\ status[r] \in Final \cup {"paused"} => rows("running") = {}
    /\ status[r] \in Final => rows("pending_approval") = {}
    /\ status[r] = "paused" =>
          \E k \in Keys : rows("pending_approval") = {k} /\ k[1] = current[r]

\* The trace of a run that is over is closed, and a paused run waits for exactly
\* one decision, on its current step: approve always finds the row to resolve.
TraceClosed == \A r \in Runs : Closed(r)

\* The steps whose output the run has to hand on.
Outputs(r) == {i \in Steps : \E k \in Keys : k[1] = i /\ trace[r][k] = "succeeded"}

\* No output is lost on the way through sessions, pauses and restarts: the
\* context of a paused or succeeded run holds exactly what its steps produced.
ContextComplete ==
    \A r \in Runs : status[r] \in {"paused", "succeeded"} => context[r] = Outputs(r)

\* The rows of a run can be relied on whenever it is not being executed: no
\* attempt beyond its bound, nothing left open, no output lost or invented.
RecordsSound == TypeOK /\ TraceClosed /\ ContextComplete

\* A run that is over stays as it ended until it is deleted: neither reapers nor
\* executors with old sessions revise the end or bring the run back.
FinalIsFinal ==
    [][\A r \in Runs : status[r] \in Final => status'[r] \in {status[r], "deleted"}]_vars

\* Every run comes to rest, succeeded, failed or waiting for a decision, also
\* when its worker crashes or its request breaks at any point.
RunsComeToRest == \A r \in Runs : status[r] = "running" ~> status[r] # "running"

--------------------------------------------------------------------------------
(* Inductive invariants, of runs served by one request at a time              *)

\* Which request serves a run determines the run's status, and an executor's
\* lease is at most MaxGap older than its worker's last heartbeat: that much a
\* heartbeat still in flight on a worker that had the run before can set it back.
Holding ==
    /\ \A p, q \in Requests : run[p] = run[q] => p = q \/ run[p] = NoRun
    /\ \A q \in Requests :
          /\ q \in Runs => run[q] \in {q, NoRun}
          /\ at[q] # "idle" => host[q] \in up
          /\ at[q] = "deciding" => status[run[q]] \in {"paused", "deleted"}
          /\ at[q] = "leaving" => status[run[q]] \in Final \cup {"paused", "deleted"}
          /\ at[q] \in Executing =>
                /\ status[run[q]] \in {"running", "deleted"}
                /\ run[q] \in live[host[q]]
                /\ age[run[q]] <= sinceBeat[host[q]] + MaxGap

\* The same while a heartbeat is in flight, for what it does not name; and a run
\* that a reaper has selected is served by nobody and waits for nobody.
Beating ==
    \A w \in Workers :
        /\ loop[w] = "beating" => \A r \in live[w] \ beatSet[w] : age[r] <= beatAge[w] + MaxGap
        /\ \A r \in todo[w] :
              /\ status[r] \notin {"absent", "paused"}
              /\ status[r] = "running" => Serving(r) = {}

LeaseInv == Holding /\ Beating

\* A run by its status; of a selected one the reaper has loaded the open attempts.
Resting(r) ==
    /\ status[r] \in {"absent", "deleted"} =>
          context[r] = {} /\ \A k \in Keys : trace[r][k] = "none"
    /\ status[r] = "running" => \A k \in Keys : trace[r][k] # "pending_approval"
    /\ status[r] = "running" => \A w \in Workers :
          r \in todo[w] => \A k \in Keys : trace[r][k] = "running" <=> k \in seen[w][r]
    \* a paused run waits at the first step that is not settled
    /\ status[r] = "paused" =>
          /\ current[r] \in Steps
          /\ \A i \in 1..current[r] - 1 : Settled(r, i)
          /\ \A k \in Keys : trace[r][k] # "none" => k[1] <= current[r]

\* What an operator's request has read of a paused run is still so.
Loaded(q) ==
    /\ idx[q] = current[run[q]] /\ mem[q] = context[run[q]]
    /\ \A k \in Keys : trace[run[q]][k] = "pending_approval" <=> k \in pending[q]

\* How far an executing request has got, in its own session and in the rows.
Progress(q) ==
    /\ mem[q] = context[run[q]]
    /\ at[q] # "record" => context[run[q]] = Outputs(run[q])
    /\ at[q] = "record" => context[run[q]] = Outputs(run[q]) \ {idx[q]}
    /\ at[q] # "step" => current[run[q]] = idx[q]
    /\ at[q] = "record" => idx[q] \in Outputs(run[q])
    /\ at[q] = "trying" => trace[run[q]][Row(q)] = "running"
    /\ \A i \in 1..idx[q] - 1 : Settled(run[q], i)
    /\ \A k \in Keys :
          /\ trace[run[q]][k] # "none" => k[1] <= idx[q]
          /\ trace[run[q]][k] # "none" /\ k[1] = idx[q] => at[q] \notin {"step", "entered"}
          /\ trace[run[q]][k] \notin {"none", "failed"} /\ k[1] = idx[q] => at[q] # "retry"
          /\ trace[run[q]][k] = "running" => at[q] = "trying" /\ k = Row(q)

Sessions(q) ==
    /\ at[q] = "idle" => mem[q] = {}
    /\ at[q] = "deciding" /\ Writes(q) => Loaded(q)
    /\ at[q] \in Executing /\ Writes(q) => Progress(q)

TraceInv ==
    /\ \A r \in Runs : Resting(r)
    /\ \A q \in Requests : Sessions(q)
    /\ StepsInOrder /\ TraceClosed /\ ContextComplete

--------------------------------------------------------------------------------
(* A promise that holds only while one request at a time serves a run         *)

\* "A run that a worker is still executing renews its lease every heartbeat
\* interval and is never picked, however long it has been running."
NeverPicked ==
    \A q \in Requests : at[q] \in Executing => \A w \in Workers : run[q] \notin todo[w]
================================================================================
