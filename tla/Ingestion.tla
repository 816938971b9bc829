------------------------------- MODULE Ingestion -------------------------------
(***************************************************************************)
(* Document ingestion into one knowledge collection: services/knowledge/   *)
(* ingestion.py and store.py, the upload and delete handlers of            *)
(* api/v1/knowledge.py and the ingest lease loop of main.py (ADR-013,      *)
(* ADR-036).  A document and its embedding job are rows of the database,   *)
(* its vectors live in Qdrant, and no transaction spans the two.           *)
(*                                                                         *)
(* One committed transaction, or one call served by Qdrant, is one action. *)
(* A client that disconnects changes nothing: the ingestion is shielded.   *)
(***************************************************************************)
EXTENDS Naturals, FiniteSets

CONSTANTS
    Docs, Workers, NoWorker,
    StaleAfter,  \* settings.ingest_stale_after_seconds, in ticks
    MaxGap,      \* longest time between two landed heartbeats of a live worker
    MaxFaults    \* bound: crashes, unhandled errors, failed ticks and deletes

ASSUME IngestNone == NoWorker \notin Workers
ASSUME IngestBounds == MaxFaults \in Nat
\* Settings refuses a stale_after below three heartbeat intervals.
ASSUME IngestLease ==
    StaleAfter \in Nat /\ MaxGap \in Nat \ {0} /\ MaxGap <= StaleAfter

VARIABLES
    collection,  \* the row: present, deleting (vectors dropped, rows not yet
                 \* deleted), emptied (that delete failed), gone
    document,    \* Document.status
    job,         \* EmbeddingJob.status of the document's job
    age,         \* ticks since EmbeddingJob.heartbeat_at, 0 once it is over
    exists,      \* whether Qdrant has the collection
    points,      \* the documents whose vectors Qdrant holds
    call,        \* the document's upsert at Qdrant: none, sent, done, refused
    at,          \* where in the pipeline the ingestion is
    result,      \* the outcome about to be committed
    host,        \* the worker that ingests the document
    up,          \* worker processes that are running
    live,        \* _live_jobs of each worker
    loop,        \* where in _ingest_lease_tick the worker is
    sinceBeat,   \* ticks since the worker's last landed heartbeat was stamped
    beatSet,     \* the ids a heartbeat UPDATE in flight names
    beatAge,     \* ticks since that UPDATE's timestamp was taken
    todo,        \* stale jobs selected by the reaper
    scanAge,     \* ticks since the reaper computed its cutoff
    faults       \* faults so far

rowVars   == <<collection, document, job, age>>
storeVars == <<exists, points, call>>
pipeVars  == <<at, result, host>>
beatVars  == <<sinceBeat, beatSet, beatAge>>
scanVars  == <<todo, scanAge>>
loopVars  == <<loop, beatVars, scanVars>>
vars == <<rowVars, storeVars, pipeVars, up, live, loopVars, faults>>

Pipeline == {"extract", "ensure", "create", "upsert", "upserting"}

Oldest == StaleAfter + MaxGap + 1
Older(a) == IF a < Oldest THEN a + 1 ELSE a

RowTypes ==
    /\ collection \in {"present", "deleting", "emptied", "gone"}
    /\ document \in [Docs -> {"absent", "uploaded", "embedded", "failed", "deleted"}]
    /\ job \in [Docs -> {"absent", "running", "succeeded", "failed", "deleted"}]
    /\ age \in [Docs -> 0..Oldest]
    /\ \A d \in Docs : job[d] # "running" => age[d] = 0

StoreTypes ==
    /\ exists \in BOOLEAN
    /\ points \in SUBSET Docs
    /\ points # {} => exists
    /\ call \in [Docs -> {"none", "sent", "done", "refused"}]

PipeTypes ==
    /\ up \in SUBSET Workers
    /\ live \in [Workers -> SUBSET Docs]
    /\ at \in [Docs -> {"idle", "commit", "cleanup"} \cup Pipeline]
    /\ result \in [Docs -> {"none", "succeeded", "failed"}]
    /\ \A d \in Docs : at[d] = "commit" => result[d] # "none"
    /\ host \in [Docs -> Workers \cup {NoWorker}]

LoopTypes ==
    /\ loop \in [Workers -> {"sleep", "beating", "beaten", "reaping"}]
    /\ sinceBeat \in [Workers -> 0..MaxGap]
    /\ beatSet \in [Workers -> SUBSET Docs]
    /\ beatAge \in [Workers -> 0..MaxGap]
    /\ todo \in [Workers -> SUBSET Docs]
    /\ scanAge \in [Workers -> 0..MaxGap]
    \* a tick is of a live worker and began after its last landed heartbeat
    /\ \A w \in Workers :
          /\ beatAge[w] <= sinceBeat[w] /\ scanAge[w] <= sinceBeat[w]
          /\ loop[w] # "sleep" => w \in up
          /\ loop[w] # "reaping" => scanAge[w] = 0

TypeOK == RowTypes /\ StoreTypes /\ PipeTypes /\ LoopTypes /\ faults \in 0..MaxFaults

Init ==
    /\ collection = "present"
    /\ document = [d \in Docs |-> "absent"]
    /\ job = [d \in Docs |-> "absent"]
    /\ age = [d \in Docs |-> 0]
    /\ exists = FALSE
    /\ points = {}
    /\ call = [d \in Docs |-> "none"]
    /\ at = [d \in Docs |-> "idle"]
    /\ result = [d \in Docs |-> "none"]
    /\ host = [d \in Docs |-> NoWorker]
    /\ up = Workers
    /\ live = [w \in Workers |-> {}]
    /\ loop = [w \in Workers |-> "sleep"]
    /\ sinceBeat = [w \in Workers |-> 0]
    /\ beatSet = [w \in Workers |-> {}]
    /\ beatAge = [w \in Workers |-> 0]
    /\ todo = [w \in Workers |-> {}]
    /\ scanAge = [w \in Workers |-> 0]
    /\ faults = 0

Fault == faults < MaxFaults /\ faults' = faults + 1

--------------------------------------------------------------------------------
(* The ingestion: ingest_document, _extract_embed_store, _run_pipeline        *)

\* Mutant of Upload: the lease is not taken.
UploadUnleased(d, w) ==
    /\ w \in up /\ collection # "gone" /\ document[d] = "absent"
    /\ document' = [document EXCEPT ![d] = "uploaded"]
    /\ job' = [job EXCEPT ![d] = "running"]
    /\ age' = [age EXCEPT ![d] = 0]
    /\ host' = [host EXCEPT ![d] = w]
    /\ at' = [at EXCEPT ![d] = "extract"]
    /\ UNCHANGED <<collection, storeVars, result, up, live, loopVars, faults>>

\* Both rows are committed, then the lease is held.
Upload(d, w) ==
    /\ w \in up /\ collection # "gone" /\ document[d] = "absent"
    /\ document' = [document EXCEPT ![d] = "uploaded"]
    /\ job' = [job EXCEPT ![d] = "running"]
    /\ age' = [age EXCEPT ![d] = 0]
    /\ live' = [live EXCEPT ![w] = @ \cup {d}]
    /\ host' = [host EXCEPT ![d] = w]
    /\ at' = [at EXCEPT ![d] = "extract"]
    /\ UNCHANGED <<collection, storeVars, result, up, loopVars, faults>>

Goto(d, from, to) ==
    /\ at[d] = from
    /\ at' = [at EXCEPT ![d] = to]
    /\ UNCHANGED <<rowVars, host, up, live, loopVars, faults>>

\* Text, chunks and vectors are ready.
Embed(d) == Goto(d, "extract", "ensure") /\ UNCHANGED <<storeVars, result>>

\* ensure_collection asks first and creates afterwards: another ingestion or a
\* delete may come between, and a second create is refused.
FindCollection(d) ==
    /\ Goto(d, "ensure", IF exists THEN "upsert" ELSE "create")
    /\ UNCHANGED <<storeVars, result>>

CreateCollection(d) ==
    /\ ~exists
    /\ Goto(d, "create", "upsert")
    /\ exists' = TRUE
    /\ UNCHANGED <<points, call, result>>

CreateRefused(d) ==
    /\ exists
    /\ Goto(d, "create", "commit")
    /\ result' = [result EXCEPT ![d] = "failed"]
    /\ UNCHANGED storeVars

SendUpsert(d) ==
    /\ Goto(d, "upsert", "upserting")
    /\ call' = [call EXCEPT ![d] = "sent"]
    /\ UNCHANGED <<exists, points, result>>

\* Qdrant serves the upsert, also when nobody waits for the answer any more.
ServeUpsert(d) ==
    /\ call[d] = "sent"
    /\ points' = IF exists THEN points \cup {d} ELSE points
    /\ call' = [call EXCEPT ![d] =
                   IF at[d] # "upserting" THEN "none" ELSE IF exists THEN "done" ELSE "refused"]
    /\ UNCHANGED <<rowVars, exists, pipeVars, up, live, loopVars, faults>>

UpsertReturns(d) ==
    /\ call[d] \in {"done", "refused"}
    /\ Goto(d, "upserting", "commit")
    /\ result' = [result EXCEPT ![d] = IF call[d] = "done" THEN "succeeded" ELSE "failed"]
    /\ call' = [call EXCEPT ![d] = "none"]
    /\ UNCHANGED <<exists, points>>

\* An error in the pipeline, or the timeout: an upsert sent stays with Qdrant.
PipelineFails(d) ==
    /\ at[d] \in Pipeline
    /\ Goto(d, at[d], "commit")
    /\ result' = [result EXCEPT ![d] = "failed"]
    /\ call' = [call EXCEPT ![d] = IF @ = "sent" THEN @ ELSE "none"]
    /\ UNCHANGED <<exists, points>>

ForgetIngestions(D) ==
    /\ at' = [d \in Docs |-> IF d \in D THEN "idle" ELSE at[d]]
    /\ result' = [d \in Docs |-> IF d \in D THEN "none" ELSE result[d]]
    /\ host' = [d \in Docs |-> IF d \in D THEN NoWorker ELSE host[d]]

\* Mutant of EndIngestion: the lease outlives the ingestion.
KeepsLease(d) == ForgetIngestions({d}) /\ UNCHANGED live

\* _ingesting discards the id on every way out.
EndIngestion(d) ==
    /\ live' = [live EXCEPT ![host[d]] = @ \ {d}]
    /\ ForgetIngestions({d})

\* The terminal state goes to both rows in one commit, by primary key.
Record(d) ==
    /\ at[d] = "commit" /\ document[d] # "deleted"
    /\ document' = [document EXCEPT ![d] =
                       IF result[d] = "succeeded" THEN "embedded" ELSE result[d]]
    /\ job' = [job EXCEPT ![d] = result[d]]
    /\ age' = [age EXCEPT ![d] = 0]
    /\ EndIngestion(d)
    /\ UNCHANGED <<collection, storeVars, up, loopVars, faults>>

\* StaleDataError, and the collection is gone.
RecordStale(d) ==
    /\ document[d] = "deleted"
    /\ Goto(d, "commit", "cleanup")
    /\ UNCHANGED <<storeVars, result>>

\* drop_collection asks whether the collection exists and then deletes it.  One
\* step: when it is absent at the first call, that call is the drop; when it is
\* present, the second one is, whatever came in between.
DropVectors == exists' = FALSE /\ points' = {} /\ UNCHANGED call

\* Whatever the pipeline re-created is dropped; the upload answers 409.
Cleanup(d) ==
    /\ at[d] = "cleanup"
    /\ DropVectors
    /\ EndIngestion(d)
    /\ UNCHANGED <<rowVars, up, loopVars, faults>>

\* An unhandled error: a commit that fails, or the drop of the cleanup.
IngestError(d) ==
    /\ at[d] \in {"commit", "cleanup"} /\ Fault
    /\ EndIngestion(d)
    /\ UNCHANGED <<rowVars, storeVars, up, loopVars>>

--------------------------------------------------------------------------------
(* DELETE /knowledge/collections/{id}                                         *)

\* Qdrant first: when it fails, the request ends with 502 and nothing is lost.
DeleteDrops ==
    /\ collection \in {"present", "emptied"}
    /\ collection' = "deleting"
    /\ DropVectors
    /\ UNCHANGED <<document, job, age, pipeVars, up, live, loopVars, faults>>

\* Then the jobs, the documents and the collection, in one transaction.
DeleteCommits ==
    /\ collection = "deleting"
    /\ collection' = "gone"
    /\ document' = [d \in Docs |-> IF document[d] = "absent" THEN "absent" ELSE "deleted"]
    /\ job' = [d \in Docs |-> IF job[d] = "absent" THEN "absent" ELSE "deleted"]
    /\ age' = [d \in Docs |-> 0]
    /\ UNCHANGED <<storeVars, pipeVars, up, live, loopVars, faults>>

\* A row inserted between two of its statements breaks a foreign key, or the
\* database fails: the vectors are gone, the rows are not.
DeleteFails ==
    /\ collection = "deleting" /\ Fault
    /\ collection' = "emptied"
    /\ UNCHANGED <<document, job, age, storeVars, pipeVars, up, live, loopVars>>

--------------------------------------------------------------------------------
(* The lease loop: _ingest_lease_tick                                         *)

\* The UPDATE is built: ids and timestamp are fixed here.
BeatStart(w) ==
    /\ w \in up /\ loop[w] = "sleep"
    /\ loop' = [loop EXCEPT ![w] = "beating"]
    /\ beatSet' = [beatSet EXCEPT ![w] = live[w]]
    /\ beatAge' = [beatAge EXCEPT ![w] = 0]
    /\ UNCHANGED <<rowVars, storeVars, pipeVars, up, live, sinceBeat, scanVars, faults>>

ForgetBeat(w) ==
    /\ beatSet' = [beatSet EXCEPT ![w] = {}]
    /\ beatAge' = [beatAge EXCEPT ![w] = 0]

\* It commits, on the jobs that are RUNNING.
BeatLands(w) ==
    /\ loop[w] = "beating"
    /\ age' = [d \in Docs |->
                  IF d \in beatSet[w] /\ job[d] = "running" THEN beatAge[w] ELSE age[d]]
    /\ sinceBeat' = [sinceBeat EXCEPT ![w] = beatAge[w]]
    /\ loop' = [loop EXCEPT ![w] = "beaten"]
    /\ ForgetBeat(w)
    /\ UNCHANGED <<collection, document, job, storeVars, pipeVars, up, live, scanVars, faults>>

\* try_lead says no: back to sleep.
StandDown(w) ==
    /\ loop[w] = "beaten"
    /\ loop' = [loop EXCEPT ![w] = "sleep"]
    /\ UNCHANGED <<rowVars, storeVars, pipeVars, up, live, beatVars, scanVars, faults>>

\* Mutant of Stale: a lease exactly at the bound counts as lapsed.
StaleAtBound(d, since) == job[d] = "running" /\ age[d] >= StaleAfter + since

\* The job's heartbeat is older than the cutoff fixed `since` ticks ago.
Stale(d, since) == job[d] = "running" /\ age[d] > StaleAfter + since

Select(w) ==
    /\ loop[w] = "beaten"
    /\ loop' = [loop EXCEPT ![w] = "reaping"]
    /\ todo' = [todo EXCEPT ![w] = {d \in Docs : Stale(d, 0)}]
    /\ scanAge' = [scanAge EXCEPT ![w] = 0]
    /\ UNCHANGED <<rowVars, storeVars, pipeVars, up, live, beatVars, faults>>

ForgetScan(w) ==
    /\ loop' = [loop EXCEPT ![w] = "sleep"]
    /\ todo' = [todo EXCEPT ![w] = {}]
    /\ scanAge' = [scanAge EXCEPT ![w] = 0]

Claimed(w) == {d \in todo[w] : Stale(d, scanAge[w])}

\* Mutant of Reap: the documents are left to their uploads.
ReapJobsOnly(w) ==
    /\ loop[w] = "reaping"
    /\ job' = [d \in Docs |-> IF d \in Claimed(w) THEN "failed" ELSE job[d]]
    /\ age' = [d \in Docs |-> IF d \in Claimed(w) THEN 0 ELSE age[d]]
    /\ ForgetScan(w)
    /\ UNCHANGED <<collection, document, storeVars, pipeVars, up, live, beatVars, faults>>

\* Every selected job still stale is claimed, its document failed if it is still
\* UPLOADED, and one commit publishes them all: a claim locks its row till then.
Reap(w) ==
    /\ loop[w] = "reaping"
    /\ job' = [d \in Docs |-> IF d \in Claimed(w) THEN "failed" ELSE job[d]]
    /\ document' = [d \in Docs |->
                       IF d \in Claimed(w) /\ document[d] = "uploaded" THEN "failed" ELSE document[d]]
    /\ age' = [d \in Docs |-> IF d \in Claimed(w) THEN 0 ELSE age[d]]
    /\ ForgetScan(w)
    /\ UNCHANGED <<collection, storeVars, pipeVars, up, live, beatVars, faults>>

\* A tick that raises is logged and retried at the next interval.
TickFails(w) ==
    /\ loop[w] # "sleep" /\ Fault
    /\ ForgetScan(w) /\ ForgetBeat(w)
    /\ UNCHANGED <<rowVars, storeVars, pipeVars, up, live, sinceBeat>>

--------------------------------------------------------------------------------
(* The environment: processes and time                                        *)

\* A worker dies with its ingestions; what it sent to Qdrant is on its way.
Crash(w) ==
    /\ w \in up /\ Fault
    /\ up' = up \ {w}
    /\ live' = [live EXCEPT ![w] = {}]
    /\ LET lost == {d \in Docs : host[d] = w} IN
        /\ ForgetIngestions(lost)
        /\ call' = [d \in Docs |-> IF d \in lost /\ call[d] # "sent" THEN "none" ELSE call[d]]
    /\ ForgetScan(w) /\ ForgetBeat(w)
    /\ sinceBeat' = [sinceBeat EXCEPT ![w] = 0]
    /\ UNCHANGED <<rowVars, exists, points>>

\* The server respawns the worker, with an empty _live_jobs.
Restart(w) ==
    /\ w \notin up
    /\ up' = up \cup {w}
    /\ UNCHANGED <<rowVars, storeVars, pipeVars, live, loopVars, faults>>

\* Time passes, while no live worker is overdue with its heartbeat.
Tick ==
    /\ \A w \in up : sinceBeat[w] < MaxGap
    /\ age' = [d \in Docs |-> IF job[d] = "running" THEN Older(age[d]) ELSE age[d]]
    /\ sinceBeat' = [w \in Workers |-> IF w \in up THEN sinceBeat[w] + 1 ELSE sinceBeat[w]]
    /\ beatAge' = [w \in Workers |->
                      IF loop[w] = "beating" THEN beatAge[w] + 1 ELSE beatAge[w]]
    /\ scanAge' = [w \in Workers |->
                      IF loop[w] = "reaping" THEN scanAge[w] + 1 ELSE scanAge[w]]
    /\ UNCHANGED <<collection, document, job, storeVars, pipeVars, up, live, loop,
                   beatSet, todo, faults>>

--------------------------------------------------------------------------------

IngestStep(d) ==
    \/ Embed(d) \/ FindCollection(d) \/ CreateCollection(d) \/ CreateRefused(d)
    \/ SendUpsert(d) \/ UpsertReturns(d) \/ PipelineFails(d)
    \/ Record(d) \/ RecordStale(d) \/ Cleanup(d)

LoopStep(w) == BeatStart(w) \/ BeatLands(w) \/ StandDown(w) \/ Select(w) \/ Reap(w)

Next ==
    \/ \E d \in Docs :
          IngestStep(d) \/ ServeUpsert(d) \/ IngestError(d) \/ \E w \in Workers : Upload(d, w)
    \/ DeleteDrops \/ DeleteCommits \/ DeleteFails
    \/ \E w \in Workers : LoopStep(w) \/ TickFails(w) \/ Crash(w) \/ Restart(w)
    \/ Tick

\* The pipeline's timeout ends every wait, loops run, workers are respawned; some
\* worker whose tick gets that far obtains the leader lock.  Qdrant owes nothing.
Fairness ==
    /\ WF_vars(Tick)
    /\ \A d \in Docs : WF_vars(IngestStep(d))
    /\ \A w \in Workers : WF_vars(LoopStep(w)) /\ WF_vars(Restart(w))
    /\ SF_vars(\E w \in Workers : Select(w))

Spec == Init /\ [][Next]_vars

FairSpec == Spec /\ Fairness

--------------------------------------------------------------------------------
(* Properties                                                                 *)

\* An ingestion in progress is out of the reaper's reach, through retries of the
\* heartbeat and scans that started earlier (ADR-036); only a delete of the
\* collection takes its rows away.
LeaseHeld ==
    \A d \in Docs : at[d] # "idle" /\ job[d] # "deleted" =>
        /\ job[d] = "running"
        /\ age[d] <= StaleAfter
        /\ \A w \in Workers : d \notin todo[w]

\* Documents and jobs are written by uploads, by the reaper and by deletes, and
\* tell the same story after each of them.
RowsAgree ==
    \A d \in Docs : <<document[d], job[d]>> \in
        {<<"absent", "absent">>, <<"uploaded", "running">>, <<"embedded", "succeeded">>,
         <<"failed", "failed">>, <<"deleted", "deleted">>}

\* A document shown as embedded can be retrieved: its vectors are in Qdrant, as
\* long as nobody set out to delete the collection, whatever other ingestions do.
EmbeddedIsSearchable ==
    \A d \in Docs : document[d] = "embedded" /\ collection = "present" => d \in points

\* What the library shows is true: no rows out of step, nothing listed as
\* embedded that retrieval cannot find.
RecordsSound == TypeOK /\ RowsAgree /\ EmbeddedIsSearchable

\* No document hangs in UPLOADED, whatever happened to its pipeline or worker.
UploadsSettle == \A d \in Docs : document[d] = "uploaded" ~> document[d] # "uploaded"

\* An upload and a delete that race "may not end up with Qdrant vectors for a
\* collection that no longer exists": checked to fail, see README.md.
NoZombieVectors ==
    collection = "gone" /\ (\A d \in Docs : at[d] = "idle" /\ call[d] = "none") => points = {}

--------------------------------------------------------------------------------
(* Inductive invariants                                                       *)

\* Who ingests what, and why a held lease is never older than its holder's last
\* heartbeat.
Holding ==
    \A d \in Docs :
        /\ host[d] = NoWorker <=> at[d] = "idle"
        /\ \A w \in Workers : d \in live[w] <=> host[d] = w
        /\ host[d] # NoWorker =>
              /\ host[d] \in up
              /\ job[d] \in {"running", "deleted"}
              /\ age[d] <= sinceBeat[host[d]]

\* The same while a heartbeat is in flight: what it does not name is younger than
\* its timestamp.  And what a reaper has selected nobody ingests any more.
Beating ==
    \A w \in Workers :
        /\ loop[w] = "beating" => \A d \in live[w] \ beatSet[w] : age[d] <= beatAge[w]
        /\ \A d \in beatSet[w] : job[d] # "absent" /\ host[d] \in {w, NoWorker}
        /\ \A d \in todo[w] : job[d] # "absent" /\ host[d] = NoWorker

LeaseInv == Holding /\ Beating

\* Only the commit that ends a delete takes rows away, and only after it does an
\* ingestion clean up: until a delete sets out, an upsert that was acknowledged is
\* still in Qdrant.
StoreInv ==
    \A d \in Docs :
        /\ document[d] = "deleted" => collection = "gone"
        /\ at[d] = "cleanup" => collection = "gone"
        /\ collection = "present" =>
              /\ call[d] = "done" => d \in points
              /\ at[d] = "commit" /\ result[d] = "succeeded" => d \in points
              /\ document[d] = "embedded" => d \in points

RowInv == RowsAgree /\ StoreInv

--------------------------------------------------------------------------------
(* The job contract                                                           *)

JobOutcome ==
    [d \in Docs |-> CASE job[d] = "running" -> "open"
                      [] job[d] = "deleted" -> "dropped"
                      [] OTHER -> job[d]]
JobHeld == {d \in Docs : at[d] # "idle"}

Contract == INSTANCE JobContract
                WITH Jobs <- Docs, Droppable <- Docs, outcome <- JobOutcome, held <- JobHeld

\* An embedding job keeps the contract tasks keep: its holder decides it, once,
\* and the reaper only fails jobs nobody holds; a delete may drop it at any time.
ImplementsContract == Contract!Safe
================================================================================
