# Lycosa in TLA+

Lycosa is a self-hosted AI orchestration platform: a controller (`src/backend`,
FastAPI, PostgreSQL, Qdrant, optionally Redis and several worker processes),
agents that run on worker machines (`src/agent`), and a desktop application
that supervises a local installation (`src/desktop-tauri`). This directory
holds the TLA+ models of its concurrent core, the TLC configurations that check
them on small instances, and the TLAPS proofs of the results that hold for
every size. `PROJECT.json` is the index: which definition models which lines,
which run checks which property, which hazards of the code each property is
for.

## 1. Inventory

| Component | State | Operations | What is hard | What makes it correct |
|---|---|---|---|---|
| **Task orchestrator** `services/orchestrator.py` | `tasks`, `task_executions`, the in-process set `_live_tasks` | `submit_task`, `_execute` (route, persist an attempt, dispatch, fail over), `_finish`, `heartbeat_live_tasks`, `reap_stale_tasks` | every commit is a crash point; heartbeats, reapers of other workers, and node deletion run in between | an executing task is never reaped; one attempt at a time; a finished task has a closed trace; every task ends |
| **Workflow executor** `services/workflow.py`, `api/v1/workflows.py` | `workflows`, `workflow_runs`, `workflow_step_runs`, `_live_runs` | start, steps with `when` and retries, pause, approve, reject, delete, heartbeat, reaper | a run passes from request to request and from worker to worker; decisions act on what they read; `_finish` writes by primary key | gates hold; the trace tells what happened; no output is lost; an executing run is not reaped; a run that is over stays over |
| **Knowledge ingestion** `services/knowledge/ingestion.py`, `store.py`, `api/v1/knowledge.py` | `knowledge_collections`, `documents`, `embedding_jobs`, `_live_jobs`; the Qdrant collection | upload, pipeline with timeout, terminal commit and its cleanup, delete, heartbeat, reaper | two stores without a common transaction; late upserts; create-if-missing | document and job agree; embedded means retrievable; nothing hangs in `uploaded`; no vectors outlive their collection |
| **Lease loops and lifespan** `main.py` | loop tasks | `_lease_tick`, `_ingest_lease_tick`, the offline sweep | a tick that raises; overlapping reapers | see the three above |
| **Leader gate** `core/leader.py` | a Redis key per job | `try_lead` | GET and EXPIRE are two commands; Redis may be down; the leader dies with the lock | somebody leads again and again; two leaders do no harm |
| **Node registry** `services/node.py`, `api/v1/nodes.py` | `nodes`, `api_keys.node_id` | register, heartbeat, offline sweep, delete | the sweep reads and then writes; registrations race | one key, one node; a node that reports is online |
| **Scheduler** `services/scheduler.py`, `classifier.py` | none | `rank_candidates`, `route_candidates` | several cards per node, unknown or stale metrics, the CPU fallback | a model is sent only where it fits, whatever card the runtime picks; a private task stays in the fabric |
| **Rate limits, login guard** `core/window_store.py`, `ratelimit.py`, `loginguard.py` | sliding windows in memory or Redis | `try_hit`, `penalty`, `add`, `clear` | a rejected hit counts until it is removed; Redis fails between two commands | at most `limit` attempts get through per window |
| **Event bus and feed** `core/events.py`, `api/v1/events.py`, sessions | subscriber queues, pending Redis publishes, the listener; refresh sessions | publish, relay, dispatch, subscribe, send; login, logout | queues drop when full, the listener restarts, a session ends while events wait | an ended session sees nothing that happens later; no event twice |
| **LLM gateway** `llm/gateway.py`, `http.py`, `errors.py`, `usage.py`, `task_bridge.py` | usage rows, a budget per request | `generate`, `stream`, `complete_task`: retry, back off, fall back | retries, Retry-After and fallback against the budget; a stream may fall back only before its first output | the budget is kept; rows tell what happened; no answer is spliced of two; every call ends |
| **LLM accounts, routes, vault** `llm/accounts.py`, `routing.py`, `vault.py`, `netpolicy.py`, `node_runtime.py` | accounts, credentials, routing policies | create, edit, share, delete, set a route, resolve, connect | everything read before an await and used after it | nobody's request goes through another's key; a private call reaches private addresses only |
| **LLM adapters** `llm/adapters`, the line reader of `llm/http.py` | what a stream has put together so far | build a request of a conversation, translate a streamed answer | deltas interleave, connections close anywhere, dialects merge turns and lack options | a call never with a part of its arguments, a cut answer never looks complete, events in the promised order; results reach the call they answer |
| **Catalog, discovery, OAuth** `llm/catalog.py`, `discovery.py`, `oauth.py` | a cache of model lists | list, invalidate; start and complete a sign-in | stores after an invalidate | - |
| **Phantom agents** `services/phantom.py` | `active`, Docker containers | `execute` | cancellation during the cleanup | no container and no slot is left behind |
| **Legacy provider calls and secrets** `services/provider_*` | encrypted secrets | single outbound calls | - | - |
| **Authentication, users, keys** `services/auth.py`, `api/deps.py` | users, API keys, refresh sessions | login, refresh, revoke | sessions that end under a connection | see throttle and feed |
| **Loaders and chunking** `services/knowledge/loader.py` | a text budget | `extract_text`, `chunk_text` | window boundaries, limits | nothing of a document is lost, reordered or longer than a chunk |
| **Retrieval, embedders** `services/knowledge/router.py`, ... | none | search, embed | - | - |
| **Agent: registration and heartbeat** `lycosa_agent/main.py`, `client.py` | node id, back-off | register, heartbeat | lost answers; the controller deletes the node while it runs | see node registry |
| **Agent: executor and runtimes** `lycosa_agent/executor.py`, `runtimes/claude_code.py` | running-task gauge, semaphores, CLI processes | `/execute`, `/rag`, Claude streams | the CLI hangs, dies or outlives its caller | every call ends and gives back its slot; at most one outcome per call, and none only where the connection breaks off |
| **Desktop supervisor** `src/desktop-tauri/src-tauri/src/supervisor` | phase, children, pid and lock files, restart history | start, stop, monitor, recover | the monitor races the user's operations and is aborted by them; the app may die anywhere | the stores run under the folder lock, watched and recorded; no operation hangs; a dead service comes back or the controller says so |
| **Capacity recommendations, configuration, migrations, desktop client and UI, deployment** | - | - | - | the bounds configuration enforces are assumptions here |

How they interact: a request reaches a worker process, which calls
`orchestrator.submit_task` directly or through a workflow step (`_run_task`);
the orchestrator calls the scheduler and then an agent over HTTP, or the LLM
layer or an external provider. All workers share the database; Redis carries
the leader lock, the windows and the event channel. Nothing is queued: tasks,
runs and ingestions live inside the request that started them, which is why
each of the three has the same lease protocol. The row is committed with
`heartbeat_at` before execution starts; the worker's loop renews every row it is
executing; the leader's loop fails rows whose heartbeat is older than
`*_stale_after_seconds`, with a compare-and-set that repeats the staleness
condition.

## 2. Modules

### JobContract

What a caller may rely on for a job that lives inside a request: only the
holder decides it, a decision is never revised, a job nobody holds may be
failed by a reaper and by nobody else, and (`Settles`) no job stays open. Tasks
and ingestions are shown to implement it by a refinement mapping. Workflow runs
are not: they change hands while paused, and section 5 shows which parts of the
contract they lose.

### Orchestrator

One action per committed transaction of `services/orchestrator.py`.

| Model | Code |
|---|---|
| `status`, `age` | `Task.status`; `age` is how long ago `heartbeat_at` was stamped |
| `exe[t][n]` | status of the `TaskExecution` of attempt on node `n`, `none` without a row |
| `live`, `owner` | `_live_tasks`; the request inside `_executing` |
| `at`, `node`, `cand`, `tries` | where `_execute` stands and its local variables |
| `loop`, `beatSet`, `beatAge` | `_lease_tick`; a heartbeat UPDATE whose ids and timestamp are already fixed |
| `todo`, `seen`, `scanAge` | what the reaper selected, the executions loaded with it, and the age of its cutoff |
| `Submit` ... `FinishWon` | `submit_task`, `_execute`; `RequestBreaks` is the commit that meets a deleted row |
| `BeatStart`, `BeatLands`, `Select`, `Reap*` | `heartbeat_live_tasks`, `reap_stale_tasks` |
| `DeleteNode` | `services/node.py: delete_node` |

Details that matter and are kept: only the first attempt writes `Task.status`
(the session already holds RUNNING later); `_finish` writes by primary key and
not conditionally; the reaper closes only the executions it loaded with its
select; a node deleted meanwhile breaks the next commit of the request, and of
the reaper, which abandons the tick.

Abstracted: the ranking of candidates is any non-empty set of registered nodes
in any order; a dispatch either succeeds or fails; privacy denial, retrieval
failure, grounded refusal and external providers are `Answer`; prompts, results
and audit rows are left out.

### WorkflowRuns

The runs of one workflow whose definition is the constant `definition`: each
step is `work` or `approval`, with `retries` and with or without a `when`
condition (whose outcome is free). A request is named after the run it starts
or the operator who decides. `trace` is keyed by step, attempt and the request
that inserted the row, so rows written twice by two requests remain visible.
`mem` is the session's own copy of `run.context`; `context` is the column. A
decision is two transactions, `OpenDecision` (what `approve_run` reads) and
`Approve` or `Reject` (what `resume_run` commits). `Leave` is the `db.refresh`
between the last commit and the end of `with _executing(...)`, which is where
one of the findings bites. `DeleteCounts` and `DeleteCommits` are the two halves
of `delete_workflow`.

Abstracted: a work step stands for task, retrieve and parallel steps; the rows
of a parallel step's branches and the contents of outputs and templates are
left out (the context is the set of steps that have an output). The task behind
a task step is the job of `Orchestrator`; its end is fair here because it is
proved to settle there.

### Ingestion

Uploads of documents into one collection, its deletion, and the ingest lease
loop. `exists` and `points` are Qdrant; `call` is an upsert on its way, which
Qdrant may serve after the pipeline timed out or its worker died
(`ServeUpsert`). `FindCollection` and `CreateCollection` are the two calls of
`ensure_collection`. `Record` is the terminal commit of `_run_pipeline`, `RecordStale`
its `StaleDataError` branch and `Cleanup` the drop that follows. `DeleteDrops`,
`DeleteCommits`, `DeleteFails` are the steps of `delete_collection`. The shield
around the ingestion (a client that disconnects) makes disconnecting invisible,
so there is no action for it.

Abstracted: chunks and embeddings are reduced to whether a document's vectors
are stored; creating the collection's row is a single insert and the initial state.

### NodeRegistry

The registry's rows and key bindings, the handlers that change them, the
offline sweeper, and the agents. A *call* is an HTTP request of an agent at the
controller; `at[c]` is where its handler stands, and a call outlives the
agent's interest in it, because the client's 15 seconds end nothing on the
other side.

| Model | Code |
|---|---|
| `row`, `age` | `Node.status`, and how long ago `last_heartbeat_at` was stamped |
| `bound`, `revoked` | `ApiKey.node_id`, `ApiKey.revoked_at` (or past `expires_at`); an agent goes by its key |
| `registrar` | the key named in the node's `node.register` audit row |
| `agent`, `tries`, `waiting`, `setup` | where `run` of `lycosa_agent/main.py` stands |
| `at`, `target`, `saw` | where a handler stands, the node it loaded, the status it read |
| `RegisterReads`, `Create`, `Update` | `register_node`; the key is loaded when the call is authenticated, and the session (`expire_on_commit=False`) does not load it again |
| `BeatReadsKey`, `BeatReadsNode`, `BeatWrites`, `BeatMisses` | `heartbeat` and `record_heartbeat` |
| `Revoke`, `Refuse` | `revoke_api_key`; the 401 of `resolve_api_key`, after which a registering agent ends |
| `SweepReads`, `SweepWrites` | the select and the commit of `sweep_offline_nodes` |
| `SendRegister`, `GiveUp`, `SendBeat`, `AutoSetup`, `TimesOut` | `_register_with_retry`, `_heartbeat_loop`, `_auto_configure_model`, the client's timeout |

Details kept: re-registration does not touch the status, so a node that was
swept stays offline until a heartbeat; SQLAlchemy writes a column only if its
value differs from the loaded one, so a heartbeat that read ONLINE does not undo a sweep that
committed meanwhile; a row deleted under a handler or under the sweep fails its
commit, the sweep's for all nodes at once; the heartbeat loop never registers again.

Abstracted: profiles, metrics, agent tokens, events. `Nodes` bounds the rows
ever inserted; an insert beyond it fails (`CreateBeyondBound`), which the agent
sees as an error. `MaxCalls` bounds the calls of one agent in progress,
`MaxTries` stands for the six attempts of the real back-off list.

### Supervisor

The desktop supervisor of each app, and what all apps on a computer share: the
processes, the pid file, the lock of the data folder, the PostgreSQL server,
the settings.

| Model | Code |
|---|---|
| `running` | processes of services; a pid is never reused while one of them is alive |
| `pids`, `lock`, `postgres`, `node` | `pids.json` (`kill_stale` ignores entries of processes that are gone, so they are left out), `supervisor.lock`, the server on the cluster, `local_node` in the settings file |
| `phase` | `Status.phase`; `closed` when the app does not run |
| `procs`, `started`, `restarts` | `Live.procs`, `Live.postgres_up`, `Live.restarts`; `Exited` is an entry whose process has exited and that nobody has removed |
| `op`, `at`, `svc`, `loaded`, `waiting` | who holds the mutex `ops`, where it stands, and who waits for it; a tokio mutex is handed out in order |
| `monitor`, `lost` | the monitor task; what it found dead and has still to recover |
| `Lock`, `Clean`, `StartPostgres`, `Spawn`, `QdrantReady`, `BackendReady`, `LastReady`, `Up` | `start_all`, step by step |
| `AskStop`, `StopBegins`, `StopsService`, `StopsRest` | `stop`; the abort of the monitor happens before it waits for `ops` |
| `CheckProcesses`, `CheckPostgres`, `RecoverBegins`, `GivesUp`, `Drain`, `RecoverFails` | the monitor, `recover`, `restart_service` |
| `AppEnds` | exit, crash, and an exit whose stop takes longer than its timeout |

Details kept: replacing an entry of `procs` kills the old process (`kill_on_drop`);
`start_agent` leaves an entry alone, even that of a dead agent; `check_processes`
takes dead entries out of `procs` without the mutex; `Postgres::stop` tries twice and says nothing
when the server still runs (`StopPostgres`), and `stop_all` releases the lock all the same; after a failed recovery
the services go on running in phase Error and the lock is kept; `set_local_node`
looks at the phase before it waits; `start_all` saves the settings as it loaded them.

Abstracted: ports, secrets, logs, network mode (it is a restart), the contents of a backup.

### Scheduler, Loader

Two algorithms, run to their end on every small input. `Scheduler` takes a
registry of `Registered` rows, each of a kind the code tells apart (status,
agent URL, role, silence, cards, free memory, models, approval for cloud), and
one task; `Route` is the one call of `route_candidates`. The penalties and bonuses
of the code are kept, in tenths; `GpuScore` counts the memory that is free and
the utilisation. What the schemas let a row and a task be is the assumption
`SchedulerRows`. Sorting and filtering are those of `Ranking`, which says at which position
an entry ends up; `SortSeq` and `SelectSeq` are recursive, and nothing could be proved of them. `Loader` takes a document as pieces and goes through it as
`_TextBudget` (`Take`, `Ocr`) and `chunk_text` (`Paragraph`, `LastFlush`) do,
with the window and overlap arithmetic of the code and characters reduced to their positions. A
record of a JSON file, whose lines are joined by newlines, is one piece (`Documents`), and OCR finds
any text on each of the pages.

### LLMHttp, LLMGateway

`LLMHttp` has no state: what `request_json` makes of a reply, and the rules of
`errors.py` that classify an error. `LLMGateway` is one call over a route of
`Route` entries that were resolved.

| Model | Code |
|---|---|
| `mode` | who calls: a chat or test handler (`generate`), `complete_task` (`task`), `POST /chat` with a stream (`stream`) |
| `at`, `index`, `attempts`, `alarm` | where `generate` or `stream` stands, the entry and the attempt it works on, its timeout or sleep |
| `clock` | time since the call began; it moves only in the modes that have a budget |
| `rows` | the `LLMUsage` rows the request's session holds, flushed and committed with it |
| `frames` | what the client of a stream received |
| `sent`, `refused`, `gone` | what the providers saw; entries whose provider refused for good; entries whose account was deleted meanwhile |

The caller's `asyncio.timeout`, the attempt's own timeout, `MAX_BACKOFF_SECONDS`,
`Retry-After` with its cap, the test "would the sleep exceed the deadline", and
the flush of a usage row that fails because the account is gone are all kept.
Content is left out, prices too.

### LLMAccounts

Rows of accounts, credentials and routes, and requests that read them, await,
and go on with what they read: creating, editing, sharing, moving and deleting accounts,
writing and deleting routes, and a call that resolves its target, reads the
credential and connects through the address policy. `dns` is where the name of
an endpoint points, and changes at any time. `job[r]` is what request `r` read. A PATCH reads
(`UpdateReads`), waits, and writes the columns that differ from what it read (`UpdateCommits`), so
that the endpoint of one may meet the `local` of another. A row that is gone when it is updated
fails the commit (StaleDataError); one that is gone when it is deleted does not.
An account or route that is deleted is `Removed` and stays so: ids are UUIDs and
are not used again, and a request that holds an old id finds nothing. `Resolved`
is the set of chains a call may get, at most one; it is empty where no policy is usable and where
`get_policy` raises because it finds two.

### LLMRequests, LLMStreams, LLMReader

The adapters, for five dialects (OpenAI and compatible, Anthropic, Gemini,
Ollama, the Claude subscription of a node). `LLMRequests` is a client that
keeps a conversation, and what each adapter makes of it: options refused or
carried, turns merged, results attributed to calls. `LLMStreams` is the
provider at one end, stopping, closing or breaking at any point, also within the arguments of a
call, and the adapter at the other; `AdapterContract` is what the rest of the program relies on in its events,
and `LLMStreams` is shown to implement it. `LLMReader` is the reader under them, for every body and
every way of cutting it into chunks. What a loop of the code computes item by item (`Merging`
turn by turn, `SseStates` line by line, `Sums` length by length in `Loader`) is a
recursive function, which the prover, unlike a RECURSIVE operator, can unfold.

### Services

The six of these that share no state, side by side (`Scheduler`, `Loader`,
`LLMAccounts`, `LLMRequests`, `LLMStreams`, `LLMReader`): a behaviour is one of one of them, so
the state spaces add up instead of multiplying.

### Throttle, Feed, Leader, Phantom, AgentServer, and Edges

* `Throttle`: `try_hit` in memory (one step) and in Redis (the clock is read, then `ZADD` with the
  count, then `ZREM` when it was over the limit, each command of which may fail), the login guard and
  the rate limiter, which treat a failing Redis in opposite ways, and the login behind the first.
* `Feed`: events published on one worker or relayed between several, the
  listener that reconnects, bounded queues, the connection's loop that checks the session
  again before it sends, login and logout.
* `Leader`: `try_lead` command by command, with expiry between any two of them,
  commands that fail, workers that die and come back with a new id.
* `Phantom`: the docker commands of a task, its two cancellations, and the
  shielded removal. `cut` and `late` record the two ways a container is left behind that
  the code cannot help: the removal itself cancelled, or the daemon finishing a
  create whose client was killed.
* `AgentServer`: calls at an agent, the gauge its heartbeat reports, both
  semaphores, and the CLI process of a Claude call, which may print, hang or
  exit at any point while its caller stays or leaves. Exceptions that nobody catches
  (`PrepareFails`, `ReadRaises`) end the stream without another line.

`Edges` puts the five side by side in the same way as `Services`.

### The proof modules

`OrchestratorProofs`, `WorkflowRunsProofs`, `IngestionProofs`,
`NodeRegistryProofs`, `SupervisorProofs`, `GatewayProofs`, `ServicesProofs` and
`EdgesProofs` extend the module they are about (section 6). The inductive
invariants stand at the end of the component's module, because they
say something about the code; only `ReaderInv`, `RequestInv` and `LoaderInv`, whose parts
need the vocabulary of their proofs, stand beside them in `ServicesProofs`, as do
lemmas and proofs in every proof module.

### The MC modules

`MC*.tla` give TLC its instances: definitions for the constants that a cfg
cannot write (a route of replies, a workflow, rows of a registry) and symmetries.
Symmetry is used only where no liveness property is checked.

### Time

`Tick` is one unit of time. `age`, `beatAge`, `scanAge`, `sinceBeat` are ages
rather than timestamps, so the state space is finite without a clock bound:
ages saturate at `Oldest = StaleAfter + MaxGap + 1`, beyond which no comparison
can tell them apart. `Tick` may not happen while a live worker's last landed
heartbeat is `MaxGap` old: that is the one timing assumption, "a live worker
lands a heartbeat at least every `MaxGap`". Settings validation refuses a
`stale_after` below three intervals (`core/config.py: enforce_workflow_lease`,
`enforce_ingest_lease`), which is the source of

* `MaxGap <= StaleAfter` (`Orchestrator`, `Ingestion`), and
* `2 * MaxGap <= StaleAfter` (`WorkflowRuns`). This one is stronger because
  TLC showed that it must be: the heartbeat of the worker that paused a run
  may still be in flight when another worker resumes it, and sets
  `heartbeat_at` back by up to one gap.

The pair `age` and `Tick` model `datetime.now(UTC)` of several processes as one
clock; skew between worker hosts is part of `MaxGap`.

### Faults

`MaxFaults` bounds, per behaviour, worker crashes, unhandled request errors,
ticks that raise, node deletions, revocations and failing delete transactions together; in
`Supervisor`, deaths of services, of PostgreSQL and of a running app, and failing steps; in
`Leader` (`MaxTroubles`), crashes and failing commands. Everywhere else failures are free: any
command to Redis, docker or a provider may fail at any time.
Breaks that follow from the state (a row is gone, a service that is awaited
has exited) are not counted.

## 3. Runs

| Run | Instance | Question |
|---|---|---|
| `orchestrator_tasks` | 1 task, 2 nodes, 2 workers, 2 attempts, 3 faults, fair | leases, failover, trace, contract and termination of a task |
| `workflow_runs` | work with a retry, approval, conditional work; 2 workers, 1 operator, 2 faults, fair | everything a run promises, while one request at a time serves it |
| `workflow_handover` | approval, work; 1 operator, requests overlap | fails: the pausing request takes the lease away |
| `ingestion_uploads` | 2 documents, 1 worker, 1 fault, fair | rows, vectors, contract, termination, with a concurrent delete |
| `ingestion_zombies` | 1 document, delete, no fault | fails: vectors survive their collection |
| `registry_agents` | 1 agent whose key may be revoked, 2 rows, 2 calls at a time, 1 sweeper, 2 attempts, 2 faults, fair | bindings, and whether the status follows what the agent does |
| `registry_identity` | the same, no fault | fails: a retried registration makes two nodes |
| `supervisor_lifecycle` | 1 app, one command waiting behind another, restart limit 1, 2 faults, fair | everything the supervisor promises through starts, stops, recoveries and crashes |
| `gateway_calls` | a route of 3 entries, 3 attempts each, 13 kinds of reply, fair | budget, retries, rows, streams and the end of one LLM call |
| `services_parts` | see below | accounts and routes, adapters, scheduler, loaders |
| `accounts_routes` | 1 account, 2 requests, 2 routes | fails: two rows for one route |
| `edges_parts` | 3 attempts at a limit of 2; 2 connections on 2 workers; 2 workers at a lock, 2 troubles; 2 phantom tasks, 2 cancellations; 2 calls at an agent with one slot; fair | windows, sessions, leadership, containers, calls |

Why the bounds suffice. The lease protocol relates one job, the worker that
executes it, and one worker that reaps it: two workers make the executor and
the reaper different processes. Nothing in the code lets one job's row
influence another's except through `_live_*`, the scan and (in `Ingestion`) the
shared Qdrant collection; the ingestion run has two documents, and the
proofs of section 6 cover any number of tasks. Two nodes and two attempts let an
attempt fail over, with either node deleted under it; `MaxAttempts` below the number of
nodes is again covered by the proofs. `StaleAfter` and `MaxGap` are the
smallest legal values; the proofs of section 6 cover all others, for
the three of them. Two
faults allow a crash of the executor followed by a failed tick or an error of
whoever takes over; three in the orchestrator's run delete a node and crash
twice. The ingestion run has one worker to leave room for two documents, and
its reaper therefore works in the process that ingests, or in its successor after a crash.

In the registry, agents share nothing but the sweep: one agent with two
overlapping calls and two rows exercises every race of a key with itself, and
the second row is what a sweep fails on or an agent leaves behind.

A supervisor has one mutex, so one holder, one waiting command and the monitor
are all the parties there are; two faults exceed the restart limit of one, and
let two services die before the monitor looks. A PostgreSQL that does not stop counts as a fault. The
children die with their app.

A gateway call deals with one entry at a time; three entries make "the next
one" differ from "the last one", and a budget of seven ticks against timeouts of three
lets the deadline fall into every entry, every retry and every sleep.

`services_parts`: two accounts, two routes of up to two entries and two
requests of an administrator or a user, with three committed changes, are
enough for one request to read, another to change the account or the route, and a third change to
restore what the first relies on. Streams have two calls of up to two
fragments, so that deltas interleave and a cut leaves a proper part of a call.
Conversations have six messages, which is two turns with two tool calls each
and the ids that repeat between them. Bodies of five characters over a line limit of three and
a stream limit of four meet every limit from both sides, with `\r\n` split anywhere. The
scheduler sees every pair of 24 kinds of node. Documents have up to three
pieces and six characters, with chunks of four and an overlap of one: two short paragraphs and
their separator are packed into one chunk, three are not, and a long one is split.

`edges_parts`: three attempts at a limit of two are the smallest number that can exceed
it, and time passes two windows. Queues of one drop the second of two events.

`CHECK_DEADLOCK FALSE` stands in the cfgs of parts that come to an end: a call, a
stream, a document, a bounded number of attempts or edits. In the other runs nothing
stops (`Tick`, the loops, the agents and the users go on) and deadlock checking stays on.

What each property says, and the mutation of the code that breaks it, is in
`PROJECT.json`; the comments above the definitions say it in words. In short:

* `LeaseHeld` (three modules): an executing job is unfinished, fresh, and in no reaper's list.
* `ImplementsContract`, `EveryTaskEnds`, `UploadsSettle`: refinement of
  `JobContract` (for streams, of `AdapterContract`) and its liveness half.
* `AttemptsSerial`, `TraceClosed` (orchestrator): of a task's attempts at most
  one is running or has succeeded; a finished task has no running attempt.
  Note what is not claimed: a *failed* task may have a *succeeded* attempt,
  when the worker dies between the two commits.
* `StepsInOrder` (workflows): gates hold. `RecordsSound`: the trace of a run
  that is over is closed, a paused run waits for exactly one decision, no
  output is lost. `FinalIsFinal`: an end is never revised; `RunsComeToRest`:
  every run ends or waits for a decision.
* `RecordsSound` (ingestion): the rows agree, and an embedded document is
  searchable. The latter speaks of a collection nobody has set out to delete: after
  `DeleteFails` the vectors are gone and the rows remain (`collection = "emptied"`),
  which the code knows and leaves to a repeated delete.
* `IdentitySound`, `StatusConverges` (registry): a key is bound to an existing
  node of its own, and an agent that reports has a binding unless its node was
  deleted; an agent that goes on reporting is online again and again, and a
  node nobody reports for, or whose key was revoked, is in the end not online. It does not say *stays*
  online: a sweep that read before a heartbeat and writes after it takes the
  node down until the next one.
* `OneOwner`, `LookedAfter`, `Recovers` (supervisor): stores run only under the
  lock; a running controller has a monitor or is about to stop, and an idle one has
  recorded all its processes; no operation keeps the mutex, and a dead store
  comes back or the phase is no longer Running. `OneOwner` says nothing of the
  agent: `set_local_node` behind a stop starts one for a controller that is
  off. `LookedAfter` is a promise of an app that is alone: a second app that is
  refused the folder and then stopped removes the pid file of the first.
* `WithinBudget`, `RefusedOnce`, `RowsTell`, `NoSilentSwitch`, `CallEnds`
  (gateway): nothing is waited for beyond the budget; a final refusal is not
  retried; one usage row per entry tried, telling what happened; a stream shows
  the output of one attempt; every call ends.
* `OwnKeysOnly`, `PrivacyKept`, `RowsSound`, `OneRoute` (accounts).
* `RequestFaithful`, `AnswerFaithful`, `LinesOfBody` (adapters): results reach
  the call they answer and refused options are never dropped silently; a call is
  never handed over with a part of its arguments, and where one is missing or has none of
  them, the answer is not reported as complete; lines do not depend on chunks. That a provider which
  stops within a call's arguments does not call that a normal end (`Reasons`) is
  assumed of the provider, for OpenAI and Anthropic; without it, a call without its arguments
  (section 5) would look complete, too.
* `PlacementSafe`, `ChunksFaithful` (scheduler, loaders).
* `AttemptsBounded`, `EndedIsSilent`, `EventsOnce`, `SomebodyLeads`,
  `ContainersOwned`, `OneOutcome`, `CallsEnd` (edges). `AttemptsBounded` counts what the store
  admitted: a request that the rate limiter lets through because the store failed is not
  among them. `EventsOnce` says nothing once a publish has failed. `OneOutcome` lets a caller that stays be told
  once, or its connection break off without an outcome, never an answer end silently; section 5
  says why it cannot say more. `SomebodyLeads` is what the
  lease modules assume of the gate: `SF(Select)` below.

## 4. Fairness

* `WF(Tick)`: time passes.
* `WF(RequestStep)`, `WF(Decide)`, `WF(IngestStep)`: every wait in a handler has
  a timeout (`task_dispatch_timeout_seconds`, the LLM budget, the ingestion
  timeout), after which the handler goes on. Nothing forces an operator to
  decide, a user to submit, or Qdrant to serve a call.
* `WF(LoopStep(w))`: the lease loops catch every exception and repeat.
* `WF(Restart(w))`: uvicorn respawns workers, and the compose file restarts containers (`restart: unless-stopped`).
* `SF(\E w : Select(w))`: some worker whose tick gets that far, again and
  again, obtains the leader lock. Strong, because a tick may fail or lose the
  lock in between. It needs Redis to be reachable again and again
  (`try_lead` stands down when it is not), or no Redis at all, where the gate
  always says yes. Nothing is assumed of the lock's exclusiveness: `Select` is
  enabled on any number of workers at once.

* `WF(AgentStep)`, `WF(CallStep)`, `WF(SweepStep)` (registry): the agent's loops
  go on and its client has a timeout, the controller serves a call it
  received, some leader sweeps. Nobody has to start or restart an agent, and a call may be lost.
* `WF(OpBegins \/ OpStep)`, `WF(Check)` (supervisor): every step of an operation
  has a timeout (`await_ready`, `process::run`, `terminate`), the mutex is fair,
  and the monitor's loop goes on while it exists. No user has to ask for anything.
* Gateway: `WF(Loop)`, the call's own steps; `WF(Tick)`, time; `WF(StreamOver)`,
  because an open stream has no budget but the read timeout of the HTTP client. A provider need
  not answer a budgeted call.
* `LeaderFairness`: the lock expires, and a worker that is up goes on calling
  `try_lead`. Commands may fail `MaxTroubles` times.
* `AgentFairness`: the agent's own steps; a controller that stays takes what is
  sent and gives up on a silent stream (its read timeout, 120 s); a CLI that was killed exits. A
  CLI that was not killed may hang for good.

## 5. Where the code and its statements part

Each of these is a run that TLC ends with a counterexample.

1. **The lease of a resumed run** (`workflow_handover`). After `_execute_from`
   has committed PAUSED it refreshes the run before `_executing` discards the
   run id. An approval served by the same worker in that window adds the same id to the same
   set; the first request's discard removes it for both. The run then executes
   without a heartbeat and the reaper fails it.
2. **Zombie vectors** (`ingestion_zombies`). `delete_collection` drops the
   Qdrant collection first. An upload that re-creates it, upserts and commits
   its terminal state before the delete's transaction finds its rows in place,
   so no `StaleDataError` tells it to clean up.
3. **One key, two nodes** (`registry_identity`). `register_node` inserts a node
   if the key was unbound when the call was authenticated. An agent whose first
   attempt is slow times out and registers again; both calls insert, the second
   binding wins, and the other row remains in the registry as `registered`.
   `IdentitySound` holds all the same: heartbeats go to a node of that key.
4. **One route, two rows** (`accounts_routes`). `set_policy` inserts when it
   finds no route, and nothing makes owner and purpose unique. Two first PUTs
   that overlap insert two rows; every later read of that route raises
   `MultipleResultsFound`. `OwnKeysOnly`, `PrivacyKept` and `RowsSound` do not depend
   on there being one.

The run `workflow_runs` sets `MaxServing = 1`, that is, a decision is only
opened when no other request serves the run: finding 1 and the first item below
are what happens otherwise. Deletes are unrestricted in that run.

Also observed while modelling; the models contain it where it is marked (m),
and no property claims otherwise:

* (m) Two decisions on one approval: `approve_run` checks PAUSED on what it
  read, `resume_run` writes without repeating the condition
  (`api/v1/workflows.py:169-181`). One operator approves, another rejects, and
  the run records a rejected approval and succeeds.
* (m) `delete_workflow` counts the open runs and deletes in separate statements
  (`api/v1/workflows.py:85-92`): a run started in between is deleted while it executes.
* (m) `start_all` writes `pids.json` once the API is ready, minutes after Qdrant
  was spawned (`supervisor/mod.rs:548`). With `Outlive = TRUE` (macOS) an app that
  dies in between leaves a Qdrant that the next start does not find
  (`src/desktop-tauri/README.md:54-55`).
* (m) `set_local_node` looks at the phase before it waits; `start_all` saves
  the settings it loaded at its beginning (`mod.rs:324`, `mod.rs:545`).
* (m) Redis `try_hit` adds a hit and removes it again when it is over the
  limit: for that moment, and for good if the removal fails, a rejected hit does consume
  budget, which `window_store.py:10-12` says it does not.
* (m) `events.py:62` "exactly once" holds as long as Redis does not fail: a
  publish that fails after Redis relayed it is delivered twice; a reconnecting
  listener and a full queue lose events; publish tasks may overtake each other.
* (m) An EXPIRE that lands after the lock went to another worker renews that
  worker's lock, and for a moment two workers lead.
* (m) A call suspended in a line that nobody takes releases its Claude slot
  before its CLI is killed, so that for a moment more CLIs run than there are slots.
* (m) A call without its arguments. `parse_arguments` takes no text at all for "no arguments". A
  provider that stops (`max_tokens`, `length`), or an OpenAI connection that closes, after a call was named and
  before the first fragment of its arguments therefore makes the adapter hand over a
  `TOOL_CALL` with `{}` (`anthropic.py:276-288`, `openai_compat.py:284`), which
  `types.py:207` calls "a complete, parsed call". A call cut later is an error.
  `AnswerFaithful` is what remains true: such an answer carries no reason of completeness.
* (m) A caller that is never told. `ClaudeCodeRuntime.stream` promises "a single error event"
  (`claude_code.py:227-228`), but what it raises besides `ClaudeRuntimeError` is caught nowhere: a
  `stream_event` whose `event` or `delta` is no object (`claude_code.py:339-341`), a
  `unifiedWindows` that is none (`:116`), a temporary directory or prompt file that cannot
  be written (`:235`, `:244`). The connection breaks off; slot and gauge are given back
  (`CallsEnd` holds), and `OneOutcome` says so: `raised` is the only way of a caller that stays
  to no outcome.
* (m) A synthesized tool-call id (`call_n`) repeats from turn to turn.
* (m) Two PATCHes of one account that overlap may leave the `base_url` of one with the
  `is_local` of the other (`accounts.py:396-400`). `PrivacyKept` does not depend on it, because the
  address is checked again when a call connects.
* (m) `stop` releases the folder lock also when PostgreSQL did not stop (`postgres.rs:319-338`); the next
  start finds the server and stops it first. `OneOwner` says only that no app believes to
  run the stores without the lock.
* (m) The two separators between pieces count as one character for
  `_TextBudget`, so a text may exceed `MAX_EXTRACTED_CHARS` by a character per
  piece; a window of the hard split that holds only blanks becomes an empty chunk.
* `probe_account` stores its verdict after an await and may attach it to a key
  that was replaced meanwhile (`llm/accounts.py:533`); `discovery.models_for`
  stores a list after an `invalidate` that came while it was fetched; with the keyring store a
  secret is written outside the transaction (`llm/vault.py:119-122`), as the key of a legacy provider is:
  `api/v1/admin.py:86` audits first so that no change of it goes unaudited, and a commit
  that fails afterwards undoes the audit row alone.

## 6. Proofs

The theorems hold for every value of the constants that satisfies the
assumptions of the modules, which TLC evaluates in the runs: any number of
tasks, nodes, workers, keys, apps, entries, connections, accounts, cards. All
are of the form *invariant*, *step property* or *refinement*; `PROJECT.json` lists
them with the property each of them states. Type correctness is proved (`TypeCorrect`, or
the `...Types` part of an invariant) and not checked by a run of its own. A property that a run checks is
rarely inductive; what follows says what had to be added, and why.

### Jobs

**Orchestrator.** `TypeCorrect`, `LeaseInvariant`, `LeaseSafety` (the theorem behind
ADR-035), `TraceInvariant`, `FailoverSerial`, `TracesClosed`, `ContractImplemented`.

`LeaseHeld` bounds a lease by `StaleAfter`, and `Tick` increases every age. The
strengthening bounds it by what the holder's loop guarantees: `age[t] <=
sinceBeat[owner[t]]` (`Holding`), and `sinceBeat[w] <= MaxGap <= StaleAfter`. That
in turn is preserved by a landing heartbeat only if rows *not* named in the
UPDATE are young too. They were submitted after the ids were fixed, so they are
no older than the UPDATE's timestamp: `age[t] <= beatAge[w]` for
`t \in live[w] \ beatSet[w]` (`Beating`). And a reaper's list never holds an
owned task (`Beating`): at the time of the select an owned task was fresh, and a
task is submitted only once, so an orphan stays an orphan. `TypeOK` carries the
relations between ages that this needs (a pending heartbeat or scan is no older than the
worker's last landed heartbeat).

That a finished task has no running attempt depends on what the finisher knew.
`Attempted` says it for the request: where it stands (`at`) determines which
attempts of its task may be open or won, so `Finish` finds none open.
`Snapshots` says it for a reaper: every attempt of a selected task that is still
running is in the list loaded with the select. It needs the lease (`LeaseInv`):
only because a selected task has no executor can no attempt be added after the
snapshot. That is why a reaper may close just what it loaded.

The refinement maps `Submit` to `Start`, the finishing actions to `Conclude`, every
kind of broken request and crash to `Abandon`, a successful `Reap` to the
contract's `Reap`, and everything else to stuttering.

**Ingestion.** `TypeCorrect`, `RowInvariant`, `RecordsTrue`, `LeaseInvariant`,
`LeaseSafety`, `ContractImplemented`. The lease argument is that of the
orchestrator, with one more case: the delete of the collection removes rows
under their ingestion, so `Holding` speaks of a job that runs *or is deleted*.
`RecordsSound` needs `StoreInv`: an upsert that was answered, and a pipeline about to commit
success, have their vectors in Qdrant as long as nobody has set out to delete the
collection. That it stops there is the finding `ingestion_zombies`.

**Workflow runs.** `TypeCorrect` without conditions; `LeaseInvariant`, `LeaseSafety`,
`EndsAreFinal`, `TraceInvariant`, `StepsOrdered`, `RecordsTrue` under the hypothesis
`MaxServing = 1`, which is a constant of the model and no assumption of
it: with overlapping requests the lease is lost (finding 1), `FinalIsFinal` with
it, and two requests that both execute a run write each other's rows. A worker whose
heartbeat is still in flight when another worker resumes the run sets its
`heartbeat_at` back by up to a gap, so the lease is at most
`sinceBeat[host] + MaxGap`, and the argument needs `2 * MaxGap <= StaleAfter`. A
run that a reaper has selected is served by nobody and cannot become paused, hence stays that way.

`TraceInv` ties each request's own session to the rows. `Progress` says how far
an executing request has got (what it has in memory, which step it works on,
that the rows before that step are settled), `Loaded` that what a decision has
read is still so, and `Resting` in what state a run is left behind: an abandoned
one may have an open attempt, which is then in the snapshot of whoever selects
it; a paused one waits at the first step that is not settled. The hard actions
are those that take a run from one category to another: pausing, resuming, and reaping.

### Registry, supervisor, gateway

**NodeRegistry.** `TypeCorrect`, `IdentityInvariant`, `IdentitySafety`. An agent that
runs, an answer that is on its way to it, and a handler that works on a node it
read from the key all presuppose that the key *has been bound*, and that
only a deletion can have unbound it (`Known`). A revoked key or a lost answer does not
change that. Any number of agents, nodes and overlapping calls.

**Supervisor.** `OwnerInvariant`, `OwnerSafety`, `LookInvariant`, `RunningIsWatched`,
`AloneIsLookedAfter`. Whoever works on the folder has the
lock: an app in phase Running, one that cleans, starts PostgreSQL or drains, one that
starts a service or waits for it, except where the operation is a local node
that is switched on, which starts nothing but an agent (`OwnerInv`). The exception is the hazard
at `mod.rs:324`, and the reason why `OneOwner` does not speak of agents.

`LookInv` is about the monitor and `pids.json`. `Watched` (a running controller has its
monitor, or a stop has been asked for) holds for any number of apps; to keep it one has
to know what may run beside a running controller (`Beside`: its recovery, a backup,
or a local node that is switched on, never a second start). That `pids.json` names what is
alive needs that no two entries share a process (`Apart`: otherwise killing one
app's service would take a live one out of another's record), and a point from which on the file
is complete: a start writes it when the API is ready and again with the agent, and a restart
after each service, so that up to the service being started it is always true
(`Covered`). `LookedAfter` is proved for `Apps = {a}`, which is a hypothesis of
`AloneIsLookedAfter` and not of the module. For two apps it is false: one that is refused the
folder and then stopped removes the other's file (hazard at `mod.rs:863`).
`RunningIsWatched` is the part that does not depend on it.

**LLMGateway.** `CallInvariant`, `BudgetKept`, `RowsTrue`, `StreamFaithful`,
`RefusalsFinal`. Between any two steps of a call, attempts are counted where the
provider received them (`CountInv`); there is a row for every entry behind the
call (`RowsInv`); the alarm is within the budget (`BudgetInv`); refusals are
behind the call (`RefusedInv`); what a stream has shown is of the attempt that it
waits for (`FramesInv`), so that a retry, which starts only when nothing was shown,
finds no frames. What a reply may be is the assumption `ReplyTypes`.

### The services

`ServicesProofs` is about a behaviour of `Services`, which takes the steps of one part.

**Accounts.** `AccountsInvariant`, `NobodysKeys`, `PrivateStaysPrivate`,
`KeysAndRoutes`. A request commits what it read some awaits ago, so the question is what
of it cannot have changed. The invariant says: owners. `SetInv`, `DeleteInv` and
`CallInv` state for each kind of request that the rows it names exist or are
deleted, and that their owners are those it saw. That needs ids that are not used
again; the first attempt at this proof failed because the model let a deleted
account's id be inserted once more with another owner, which UUIDs exclude, and
the model was corrected (`Removed`). `RoutesShared` says that a route of the deployment names accounts of the
deployment, or ones that are gone. Privacy does not follow from what was
read but from the address policy, which is built again when the call connects
and which the resolved address has to satisfy.

**Streams.** `StreamInvariant`, `AnswersFaithful`, `AdaptersImplement`, in each
dialect, for any number of calls and fragments. The adapter holds exactly what the
provider has sent, and a provider that calls its answer complete has sent every argument
(`WireInv`); which events have been yielded determines where it stands
(`OutInv`), dialect by dialect: the OpenAI adapter hands calls over at the end,
the others when their block closes, and the node's Claude reports usage while it
still reads. `AdapterContract` is then implemented step by step. (The proof
showed that the refinement mapping, first written as a CASE with arms that overlapped, was not a
function of the state for every dialect; it is now a chain of conditions.)

**Placement.** `PlacementsSafe`, for any number of nodes and cards. `Ranks` is the
lemma it rests on: each position has a rank of its own, so the ranks are all
taken and the ranking permutes its input; what is true of every candidate is then true
of every candidate at its place.

**Induction over data.** The last three theorems say what an algorithm
computes of a sequence of any length. The library's induction principles take an
operator as parameter, which cannot be instantiated here; but a property that fails along a
sequence fails at a least place, and that is a statement about a *set* of
numbers: `LeastNumber`, and `Along` made from it. That a recursive function exists and
satisfies its equation, which its definition does not give for free, is `Iterated`.

**Requests.** `RequestsFaithful`, for every conversation, dialect and set of options.
`Tells(turns, s, n)` says of the turns an adapter has made of the first `n` messages that
every part of them is there, in the order of the messages, and nothing else;
`ToldMore` that a further message, merged into the last turn or not, keeps this. With it,
the attribution of results is a matter of ids: `IdsDiffer` (ids tell the calls of
one answer apart) and `NamedByCall` (a result names the call that is pending when it
comes). `RequestInv` says what a client may have written so far, and keeps the request that was sent.

**Lines.** `LinesFaithful`, for every body and every way of cutting it. `ChunksJoin`
says what joining two texts does to newlines, complete lines and rest; `SseGoesOn` and
`SseEnds` that the state of `iter_sse` after some lines is that from which it reads
the others. The invariant (`ReaderInv`) is then short: what was taken is a beginning of the body,
and lines and messages so far are those of that beginning.

**Chunks.** `ChunksAreFaithful`, for every document and every `Size`, `Overlap` and limit that
the settings admit. Of the pieces taken so far, the text holds all the ink in order
(`Copied`); of the paragraphs taken so far, the chunks and the one being packed do (`Packed`); and
the budget bounds the text with its separators (`WithinLimit`). A word that is not longer than the
overlap survives the hard split because `WindowsIs` gives the
windows in closed form: each character has a window that begins less than a step before it,
and a step and the overlap make a window.

### The edges

`EdgesProofs`, about a behaviour of `Edges`: `EdgesInvariant` and

* `AttemptsGuarded`. An attempt that was let through has its hit in the
  store until the hit is out of the window or the history is cleared, because
  the removal of a rejected one takes away only its own (`HitsKept`). The
  number of hits that `try_hit` counts is therefore never less than the number that got through.
* `SessionsSilent`, `EventsInOrder`. An event that a connection was sent, holds,
  has queued or will receive is in one of these places, once, and earlier places
  hold earlier events, or with a relay, which may reorder, other events (`LineInv`). When a relay fails this is given up (`broken`), as the
  code does; silence does not depend on it: what a connection of an ended session
  was sent, and what it is about to send, was published before the end (`SilenceInv`).
* `ContainersKept`: what is known of a container at every stage of its task (`ContainerKnown`).
* `OutcomeOnce`: what a call has sent at every stage, what is left of the
  result it gives, and that what was raised came after no outcome (`OutcomeInv`).

### What stays with TLC

* Liveness (`EveryTaskEnds`, `UploadsSettle`, `RunsComeToRest`,
  `StatusConverges`, `Recovers`, `CallEnds`, `SomebodyLeads`, `CallsEnd`): fairness is
  about ENABLED, which the prover cannot handle.
* The runs that expect a violation: a counterexample is a single behaviour.

Every invariant, step property and refinement that a passing run checks is the subject of a theorem: for
all values of the constants that the assumptions admit, except where a hypothesis is named
above (`MaxServing = 1` for the runs of a workflow, `Apps = {a}` for `LookedAfter`).

## 7. Not modelled

* Prompts, templates, embeddings, audit rows, prices, logs: data the properties
  do not depend on. The ranking is a module of its own; the orchestrator takes
  any order of candidates and does not depend on it.
* Row locks and isolation levels, except where a claim holds its row to the
  commit (`Ingestion!Reap`): one transaction is one step, and interleavings
  inside a transaction matter only where the code reads before it writes,
  which is modelled as two steps.
* A worker that is paused longer than `stale_after` and resumes: `MaxGap`
  excludes it. Its `_finish` would overwrite the reaper's verdict (the hazard at
  `orchestrator.py: _finish`); the mutants of the lease properties show that
  effect.
* `install_model` and `patch_node`: they rewrite the description of a node,
  which nothing else in the registry reads, and `Scheduler` takes any rows; a re-registration
  during a long pull is undone
  (the hazard at `nodes.py:200`).
* `probe_account`, the cache of model lists, the keyring store, usage
  statistics: a stored verdict or a list that is shown; the gateway asks the provider.
* The OpenRouter sign-in: its flow is a sealed token, the controller keeps no
  state of it; the account it ends in is `LLMAccounts!Create`. A key exchanged for
  an account that is then refused stays at the provider.
* Legacy provider calls (one call, no state), retrieval and embedders (read-only), capacity
  recommendations (advice), the desktop's controller client and UI,
  configuration, migrations, deployment: no state that changes under
  concurrency. What configuration enforces appears as assumptions, what deployment promises
  as the fairness of `Restart`.
* The network mode, ports and secrets of the supervisor, and the content of backups.
* A parallel step of a workflow is a work step: it has one row, its branches are tasks with
  sessions of their own, and their outputs are recorded together after all have ended. A branch
  that raises breaks the request (`RequestBreaks`) while its siblings go on as tasks.

## 8. Plan

Done: the job leases and their contract, the registry, the supervisor, the LLM
layer, the edges; for each of them the safety properties, as theorems. Left:

1. Model: the model-list cache with `probe_account` (a verdict and a list that are
   stored after an await), and with it the rest of `api/v1/llm.py`.
2. Model: `install_model` as a handler with a long await in `NodeRegistry`, so that the hazard
   at `nodes.py:200` gets a property of its own, and the gap between the two reads
   of `delete_workflow` likewise (`workflows.py:92`).
