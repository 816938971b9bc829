---------------------------- MODULE IngestionProofs ----------------------------
(***************************************************************************)
(* Proofs about Ingestion for every set of documents and workers and every *)
(* MaxGap <= StaleAfter.  LeaseInv is inductive on top of TypeOK and says  *)
(* why the lease of an ingestion cannot lapse; RowInv is inductive on top  *)
(* of both and says why rows and vectors agree.  The job contract is       *)
(* implemented step by step under the three.                               *)
(***************************************************************************)
EXTENDS Ingestion, TLAPS

USE IngestNone, IngestBounds, IngestLease

--------------------------------------------------------------------------------
(* Facts about the helpers                                                    *)

\* Saturation keeps an age in range and adds one tick at most.
LEMMA OlderAge ==
    ASSUME NEW a \in 0..Oldest
    PROVE  Older(a) \in 0..Oldest /\ a <= Older(a) /\ Older(a) <= a + 1
  BY DEF Older, Oldest

\* A heartbeat's or a scan's age is a legal lease age.
LEMMA AgeRange == 0 \in 0..Oldest /\ 0 \in 0..MaxGap /\ 0..MaxGap \subseteq 0..Oldest
  BY DEF Oldest

\* Variables a step leaves alone keep their part of the type invariant.
LEMMA Untouched ==
    /\ RowTypes /\ UNCHANGED rowVars => RowTypes'
    /\ StoreTypes /\ UNCHANGED storeVars => StoreTypes'
    /\ PipeTypes /\ UNCHANGED <<up, live, pipeVars>> => PipeTypes'
    /\ LoopTypes /\ UNCHANGED <<up, loopVars>> => LoopTypes'
  BY DEF RowTypes, StoreTypes, PipeTypes, LoopTypes, rowVars, storeVars, pipeVars,
         loopVars, beatVars, scanVars

\* Dropping the collection leaves nothing to be found in it.
LEMMA DropTypes == StoreTypes /\ DropVectors => StoreTypes'
  BY DEF StoreTypes, DropVectors

--------------------------------------------------------------------------------
(* Type correctness                                                           *)

\* Ending an ingestion keeps the pipelines well typed.
LEMMA EndIngestionTypes ==
    ASSUME PipeTypes, NEW d \in Docs, EndIngestion(d), UNCHANGED up
    PROVE  PipeTypes'
<1>1. live' \in [Workers -> SUBSET Docs]
  BY DEF PipeTypes, EndIngestion
<1>2. /\ at' \in [Docs -> {"idle", "commit", "cleanup"} \cup Pipeline]
      /\ result' \in [Docs -> {"none", "succeeded", "failed"}]
      /\ host' \in [Docs -> Workers \cup {NoWorker}]
      /\ \A e \in Docs : at'[e] = "commit" => result'[e] # "none"
  BY DEF PipeTypes, EndIngestion, ForgetIngestions
<1>3. QED
  BY <1>1, <1>2 DEF PipeTypes

LEMMA UploadTypes ==
    ASSUME TypeOK, NEW d \in Docs, NEW w \in Workers, Upload(d, w)
    PROVE  TypeOK'
<1>1. RowTypes' /\ PipeTypes'
  BY AgeRange DEF Upload, TypeOK, RowTypes, PipeTypes, Pipeline
<1>2. QED
  BY <1>1, Untouched DEF Upload, TypeOK

\* Moving on in the pipeline, towards the commit only with a result.
LEMMA GotoTypes ==
    ASSUME TypeOK, NEW d \in Docs, NEW from,
           NEW to \in {"idle", "commit", "cleanup"} \cup Pipeline, Goto(d, from, to),
           result' \in [Docs -> {"none", "succeeded", "failed"}],
           \A e \in Docs : at'[e] = "commit" => result'[e] # "none",
           StoreTypes'
    PROVE  TypeOK'
<1>1. PipeTypes'
  BY DEF Goto, TypeOK, PipeTypes
<1>2. QED
  BY <1>1, Untouched DEF Goto, TypeOK

LEMMA IngestStepTypes ==
    ASSUME TypeOK, NEW d \in Docs, IngestStep(d) \/ ServeUpsert(d) \/ IngestError(d)
    PROVE  TypeOK'
<1> USE DEF Pipeline
<1>1. CASE Embed(d)
  BY <1>1, GotoTypes, Untouched DEF Embed, Goto, TypeOK, PipeTypes
<1>2. CASE FindCollection(d)
  BY <1>2, GotoTypes, Untouched DEF FindCollection, Goto, TypeOK, PipeTypes
<1>3. CASE CreateCollection(d)
  BY <1>3, GotoTypes DEF CreateCollection, Goto, TypeOK, PipeTypes, StoreTypes
<1>4. CASE CreateRefused(d)
  BY <1>4, GotoTypes, Untouched DEF CreateRefused, Goto, TypeOK, PipeTypes
<1>5. CASE SendUpsert(d)
  BY <1>5, GotoTypes DEF SendUpsert, Goto, TypeOK, PipeTypes, StoreTypes
<1>6. CASE ServeUpsert(d)
  <2>1. StoreTypes'
    BY <1>6 DEF ServeUpsert, TypeOK, StoreTypes
  <2>2. QED
    BY <1>6, <2>1, Untouched DEF ServeUpsert, TypeOK
<1>7. CASE UpsertReturns(d)
  BY <1>7, GotoTypes DEF UpsertReturns, Goto, TypeOK, PipeTypes, StoreTypes
<1>8. CASE PipelineFails(d)
  BY <1>8, GotoTypes DEF PipelineFails, Goto, TypeOK, PipeTypes, StoreTypes
<1>9. CASE Record(d)
  <2>1. RowTypes'
    BY <1>9, AgeRange DEF Record, TypeOK, RowTypes, PipeTypes
  <2>2. QED
    BY <1>9, <2>1, EndIngestionTypes, Untouched DEF Record, TypeOK
<1>10. CASE RecordStale(d)
  BY <1>10, GotoTypes, Untouched DEF RecordStale, Goto, TypeOK, PipeTypes
<1>11. CASE Cleanup(d)
  BY <1>11, EndIngestionTypes, DropTypes, Untouched DEF Cleanup, TypeOK
<1>12. CASE IngestError(d)
  <2>1. faults' \in 0..MaxFaults
    BY <1>12 DEF IngestError, Fault, TypeOK
  <2>2. QED
    BY <1>12, <2>1, EndIngestionTypes, Untouched DEF IngestError, TypeOK
<1>13. QED
  BY <1>1, <1>2, <1>3, <1>4, <1>5, <1>6, <1>7, <1>8, <1>9, <1>10, <1>11, <1>12 DEF IngestStep

LEMMA DeleteTypes ==
    ASSUME TypeOK, DeleteDrops \/ DeleteCommits \/ DeleteFails
    PROVE  TypeOK'
<1>1. CASE DeleteDrops
  <2>1. RowTypes'
    BY <1>1 DEF DeleteDrops, TypeOK, RowTypes
  <2>2. QED
    BY <1>1, <2>1, DropTypes, Untouched DEF DeleteDrops, TypeOK
<1>2. CASE DeleteCommits
  <2>1. RowTypes'
    BY <1>2, AgeRange DEF DeleteCommits, TypeOK, RowTypes
  <2>2. QED
    BY <1>2, <2>1, Untouched DEF DeleteCommits, TypeOK
<1>3. CASE DeleteFails
  <2>1. RowTypes' /\ faults' \in 0..MaxFaults
    BY <1>3 DEF DeleteFails, Fault, TypeOK, RowTypes
  <2>2. QED
    BY <1>3, <2>1, Untouched DEF DeleteFails, TypeOK
<1>4. QED
  BY <1>1, <1>2, <1>3

LEMMA ReapTypes ==
    ASSUME TypeOK, NEW w \in Workers, Reap(w)
    PROVE  TypeOK'
<1>1. RowTypes'
  BY AgeRange DEF Reap, TypeOK, RowTypes
<1>2. LoopTypes'
  BY AgeRange DEF Reap, ForgetScan, TypeOK, LoopTypes, beatVars
<1>3. QED
  BY <1>1, <1>2, Untouched DEF Reap, TypeOK

LEMMA LoopStepTypes ==
    ASSUME TypeOK, NEW w \in Workers, LoopStep(w) \/ TickFails(w)
    PROVE  TypeOK'
<1>1. CASE BeatStart(w)
  <2>1. LoopTypes'
    BY <1>1, AgeRange DEF BeatStart, TypeOK, PipeTypes, LoopTypes, scanVars
  <2>2. QED
    BY <1>1, <2>1, Untouched DEF BeatStart, TypeOK
<1>2. CASE BeatLands(w)
  <2>1. RowTypes'
    BY <1>2, AgeRange DEF BeatLands, TypeOK, RowTypes, LoopTypes
  <2>2. LoopTypes'
    BY <1>2, AgeRange DEF BeatLands, ForgetBeat, TypeOK, LoopTypes, scanVars
  <2>3. QED
    BY <1>2, <2>1, <2>2, Untouched DEF BeatLands, TypeOK
<1>3. CASE StandDown(w)
  <2>1. LoopTypes'
    BY <1>3 DEF StandDown, TypeOK, LoopTypes, beatVars, scanVars
  <2>2. QED
    BY <1>3, <2>1, Untouched DEF StandDown, TypeOK
<1>4. CASE Select(w)
  <2>1. LoopTypes'
    BY <1>4, AgeRange DEF Select, TypeOK, LoopTypes, beatVars
  <2>2. QED
    BY <1>4, <2>1, Untouched DEF Select, TypeOK
<1>5. CASE Reap(w)
  BY <1>5, ReapTypes
<1>6. CASE TickFails(w)
  <2>1. LoopTypes' /\ faults' \in 0..MaxFaults
    BY <1>6, AgeRange DEF TickFails, Fault, ForgetScan, ForgetBeat, TypeOK, LoopTypes
  <2>2. QED
    BY <1>6, <2>1, Untouched DEF TickFails, TypeOK
<1>7. QED
  BY <1>1, <1>2, <1>3, <1>4, <1>5, <1>6 DEF LoopStep

LEMMA CrashTypes ==
    ASSUME TypeOK, NEW w \in Workers, Crash(w)
    PROVE  TypeOK'
<1>1. PipeTypes'
  BY DEF Crash, ForgetIngestions, TypeOK, PipeTypes
<1>2. StoreTypes'
  BY DEF Crash, TypeOK, StoreTypes
<1>3. LoopTypes'
  BY AgeRange DEF Crash, ForgetScan, ForgetBeat, TypeOK, LoopTypes
<1>4. faults' \in 0..MaxFaults
  BY DEF Crash, Fault, TypeOK
<1>5. QED
  BY <1>1, <1>2, <1>3, <1>4, Untouched DEF Crash, TypeOK

LEMMA TickTypes ==
    ASSUME TypeOK, Tick
    PROVE  TypeOK'
<1>1. RowTypes'
  BY OlderAge DEF Tick, TypeOK, RowTypes
<1>2. ASSUME NEW w \in Workers
      PROVE  /\ sinceBeat'[w] \in 0..MaxGap
             /\ beatAge'[w] \in 0..MaxGap /\ beatAge'[w] <= sinceBeat'[w]
             /\ scanAge'[w] \in 0..MaxGap /\ scanAge'[w] <= sinceBeat'[w]
             /\ loop[w] # "reaping" => scanAge'[w] = 0
  BY DEF Tick, TypeOK, LoopTypes
<1>3. /\ sinceBeat' = [w \in Workers |-> sinceBeat'[w]]
      /\ beatAge' = [w \in Workers |-> beatAge'[w]]
      /\ scanAge' = [w \in Workers |-> scanAge'[w]]
  BY DEF Tick
<1>4. LoopTypes'
  BY <1>2, <1>3 DEF Tick, TypeOK, LoopTypes
<1>5. QED
  BY <1>1, <1>4, Untouched DEF Tick, TypeOK

\* Every reachable state of the ingestion is well typed: Qdrant holds vectors only
\* while it has the collection, an ingestion commits only with a result, and no
\* heartbeat or scan is older than its worker's last landed heartbeat.
THEOREM TypeCorrect == Spec => []TypeOK
<1>1. Init => TypeOK
  <2>1. Init => RowTypes
    BY AgeRange DEF Init, RowTypes
  <2>2. Init => StoreTypes
    <3>1. Init => exists \in BOOLEAN /\ (points # {} => exists)
      BY Zenon DEF Init
    <3>2. QED
      BY <3>1 DEF Init, StoreTypes
  <2>3. Init => PipeTypes
    BY DEF Init, PipeTypes
  <2>4. Init => LoopTypes
    BY AgeRange DEF Init, LoopTypes
  <2>5. QED
    BY <2>1, <2>2, <2>3, <2>4 DEF Init, TypeOK
<1>2. TypeOK /\ [Next]_vars => TypeOK'
  <2> SUFFICES ASSUME TypeOK, [Next]_vars PROVE TypeOK'
    OBVIOUS
  <2>1. ASSUME NEW d \in Docs, IngestStep(d) \/ ServeUpsert(d) \/ IngestError(d) PROVE TypeOK'
    BY <2>1, IngestStepTypes
  <2>2. ASSUME NEW d \in Docs, NEW w \in Workers, Upload(d, w) PROVE TypeOK'
    BY <2>2, UploadTypes
  <2>3. CASE DeleteDrops \/ DeleteCommits \/ DeleteFails
    BY <2>3, DeleteTypes
  <2>4. ASSUME NEW w \in Workers, LoopStep(w) \/ TickFails(w) PROVE TypeOK'
    BY <2>4, LoopStepTypes
  <2>5. ASSUME NEW w \in Workers, Crash(w) PROVE TypeOK'
    BY <2>5, CrashTypes
  <2>6. ASSUME NEW w \in Workers, Restart(w) PROVE TypeOK'
    <3>1. PipeTypes' /\ LoopTypes'
      BY <2>6 DEF Restart, TypeOK, PipeTypes, LoopTypes, pipeVars, loopVars, beatVars, scanVars
    <3>2. QED
      BY <2>6, <3>1, Untouched DEF Restart, TypeOK
  <2>7. CASE Tick
    BY <2>7, TickTypes
  <2>8. CASE UNCHANGED vars
    BY <2>8, Untouched DEF vars, TypeOK
  <2>9. QED
    BY <2>1, <2>2, <2>3, <2>4, <2>5, <2>6, <2>7, <2>8 DEF Next
<1>3. QED
  BY <1>1, <1>2, PTL DEF Spec

--------------------------------------------------------------------------------
(* Rows and vectors agree                                                     *)

LEMMA ElsewhereRows ==
    RowInv /\ UNCHANGED <<collection, document, job, at, result, storeVars>> => RowInv'
  BY DEF RowInv, RowsAgree, StoreInv, storeVars

\* A step of a pipeline before its commit changes no row and loses no vectors.
LEMMA GotoRows ==
    ASSUME TypeOK, RowInv, NEW d \in Docs, NEW a \in Pipeline \cup {"cleanup"},
           at' = [at EXCEPT ![d] = a], UNCHANGED <<rowVars, result>>, points \subseteq points',
           \A e \in Docs : call'[e] = "done" => call[e] = "done",
           a = "cleanup" => document[d] = "deleted"
    PROVE  RowInv'
<1>1. \A e \in Docs : at'[e] = IF e = d THEN a ELSE at[e]
  BY DEF TypeOK, PipeTypes
<1>2. a # "commit"
  BY DEF Pipeline
<1>3. RowsAgree'
  BY DEF RowInv, RowsAgree, rowVars
<1>4. StoreInv'
  BY <1>1, <1>2 DEF RowInv, StoreInv, rowVars
<1>5. QED
  BY <1>3, <1>4 DEF RowInv

\* It gets to the commit of a success only with its vectors in Qdrant.
LEMMA CommitRows ==
    ASSUME TypeOK, RowInv, NEW d \in Docs,
           at' = [at EXCEPT ![d] = "commit"], UNCHANGED <<rowVars, points>>,
           \A e \in Docs : call'[e] = "done" => call[e] = "done",
           \A e \in Docs \ {d} : result'[e] = result[e],
           result'[d] = "succeeded" => call[d] = "done"
    PROVE  RowInv'
<1>1. \A e \in Docs : at'[e] = IF e = d THEN "commit" ELSE at[e]
  BY DEF TypeOK, PipeTypes
<1>2. RowsAgree'
  BY DEF RowInv, RowsAgree, rowVars
<1>3. StoreInv'
  BY <1>1 DEF RowInv, StoreInv, rowVars
<1>4. QED
  BY <1>2, <1>3 DEF RowInv

LEMMA IngestStepRows ==
    ASSUME TypeOK, RowInv, NEW d \in Docs, IngestStep(d) \/ ServeUpsert(d) \/ IngestError(d)
    PROVE  RowInv'
<1> USE DEF Pipeline
<1>1. CASE Embed(d) \/ FindCollection(d)
  <2>1. PICK a \in {"ensure", "upsert", "create"} : at' = [at EXCEPT ![d] = a]
    BY <1>1 DEF Embed, FindCollection, Goto
  <2>2. UNCHANGED <<rowVars, result, storeVars>>
    BY <1>1 DEF Embed, FindCollection, Goto
  <2>3. QED
    BY <2>1, <2>2, GotoRows DEF storeVars
<1>2. CASE CreateCollection(d) \/ SendUpsert(d)
  BY <1>2, GotoRows DEF CreateCollection, SendUpsert, Goto, TypeOK, StoreTypes
<1>3. CASE CreateRefused(d) \/ UpsertReturns(d) \/ PipelineFails(d)
  <2>1. /\ result'[d] = "succeeded" => call[d] = "done"
        /\ \A e \in Docs \ {d} : result'[e] = result[e]
    BY <1>3 DEF CreateRefused, UpsertReturns, PipelineFails, TypeOK, PipeTypes
  <2>2. points' = points /\ \A e \in Docs : call'[e] = "done" => call[e] = "done"
    BY <1>3 DEF CreateRefused, UpsertReturns, PipelineFails, storeVars, TypeOK, StoreTypes
  <2>3. at' = [at EXCEPT ![d] = "commit"] /\ UNCHANGED rowVars
    BY <1>3 DEF CreateRefused, UpsertReturns, PipelineFails, Goto
  <2>4. QED
    BY <2>1, <2>2, <2>3, CommitRows
<1>4. CASE RecordStale(d)
  BY <1>4, GotoRows DEF RecordStale, Goto, storeVars
<1>5. CASE ServeUpsert(d)
  <2>1. points \subseteq points' /\ (call'[d] = "done" => d \in points')
    BY <1>5 DEF ServeUpsert, TypeOK, StoreTypes
  <2>2. \A e \in Docs \ {d} : call'[e] = call[e]
    BY <1>5 DEF ServeUpsert, TypeOK, StoreTypes
  <2>3. UNCHANGED <<collection, document, job, at, result>>
    BY <1>5 DEF ServeUpsert, rowVars, pipeVars
  <2>4. QED
    BY <2>1, <2>2, <2>3 DEF RowInv, RowsAgree, StoreInv
<1>6. CASE Record(d)
  <2>1. /\ job'[d] = result[d]
        /\ document'[d] = IF result[d] = "succeeded" THEN "embedded" ELSE result[d]
        /\ result[d] \in {"succeeded", "failed"} /\ at[d] = "commit"
        /\ \A e \in Docs \ {d} : job'[e] = job[e] /\ document'[e] = document[e]
    BY <1>6 DEF Record, TypeOK, RowTypes, PipeTypes
  <2>2. \A e \in Docs : /\ at'[e] = IF e = d THEN "idle" ELSE at[e]
                     /\ result'[e] = IF e = d THEN "none" ELSE result[e]
    BY <1>6 DEF Record, EndIngestion, ForgetIngestions
  <2>3. UNCHANGED <<collection, points, call>>
    BY <1>6 DEF Record, storeVars
  <2>4. RowsAgree'
    BY <2>1 DEF RowInv, RowsAgree
  <2>5. StoreInv'
    BY <2>1, <2>2, <2>3 DEF RowInv, StoreInv
  <2>6. QED
    BY <2>4, <2>5 DEF RowInv
<1>7. CASE Cleanup(d)
  <2>1. collection = "gone"
    BY <1>7 DEF Cleanup, RowInv, StoreInv
  <2>2. QED
    BY <1>7, <2>1 DEF Cleanup, RowInv, RowsAgree, StoreInv, rowVars
<1>8. CASE IngestError(d)
  <2>1. \A e \in Docs : /\ at'[e] = IF e = d THEN "idle" ELSE at[e]
                     /\ result'[e] = IF e = d THEN "none" ELSE result[e]
    BY <1>8 DEF IngestError, EndIngestion, ForgetIngestions
  <2>2. QED
    BY <1>8, <2>1 DEF IngestError, RowInv, RowsAgree, StoreInv, rowVars, storeVars
<1>9. QED
  BY <1>1, <1>2, <1>3, <1>4, <1>5, <1>6, <1>7, <1>8 DEF IngestStep

LEMMA DeleteRows ==
    ASSUME TypeOK, RowInv, DeleteDrops \/ DeleteCommits \/ DeleteFails
    PROVE  RowInv'
<1>1. CASE DeleteDrops \/ DeleteFails
  <2>1. collection # "gone" /\ collection' \in {"deleting", "emptied"} /\ UNCHANGED <<document, job, at>>
    BY <1>1 DEF DeleteDrops, DeleteFails, pipeVars
  <2>2. QED
    BY <2>1 DEF RowInv, RowsAgree, StoreInv
<1>2. CASE DeleteCommits
  <2>1. RowsAgree'
    BY <1>2 DEF DeleteCommits, RowInv, RowsAgree
  <2>2. collection' = "gone"
    BY <1>2 DEF DeleteCommits
  <2>3. QED
    BY <2>1, <2>2 DEF RowInv, StoreInv
<1>3. QED
  BY <1>1, <1>2

\* The reaper fails a job and the document it has not finished together.
LEMMA ReapRows ==
    ASSUME TypeOK, RowInv, NEW w \in Workers, Reap(w)
    PROVE  RowInv'
<1>1. \A d \in Docs :
         /\ d \notin Claimed(w) => job'[d] = job[d] /\ document'[d] = document[d]
         /\ d \in Claimed(w) => job'[d] = "failed" /\ document'[d] = "failed"
  BY DEF Reap, Claimed, Stale, RowInv, RowsAgree
<1>2. UNCHANGED <<collection, at, result, points, call>>
  BY DEF Reap, pipeVars, storeVars
<1>3. RowsAgree'
  BY <1>1 DEF RowInv, RowsAgree
<1>4. StoreInv'
  BY <1>1, <1>2 DEF RowInv, StoreInv
<1>5. QED
  BY <1>3, <1>4 DEF RowInv

LEMMA CrashRows ==
    ASSUME TypeOK, RowInv, NEW w \in Workers, Crash(w)
    PROVE  RowInv'
<1>1. \A d \in Docs : /\ at'[d] = IF host[d] = w THEN "idle" ELSE at[d]
                      /\ result'[d] = IF host[d] = w THEN "none" ELSE result[d]
                      /\ call'[d] = "none" \/ call'[d] = call[d]
  BY DEF Crash, ForgetIngestions
<1>2. QED
  BY <1>1 DEF Crash, RowInv, RowsAgree, StoreInv, rowVars

\* Rows of documents and jobs tell the same story, only the commit of a delete
\* takes them away, and until a delete sets out no acknowledged vectors are lost.
THEOREM RowInvariant == Spec => []RowInv
<1>1. Init => RowInv
  BY DEF Init, RowInv, RowsAgree, StoreInv
<1>2. TypeOK /\ RowInv /\ [Next]_vars => RowInv'
  <2> SUFFICES ASSUME TypeOK, RowInv, [Next]_vars PROVE RowInv'
    OBVIOUS
  <2>1. ASSUME NEW d \in Docs, IngestStep(d) \/ ServeUpsert(d) \/ IngestError(d) PROVE RowInv'
    BY <2>1, IngestStepRows
  <2>2. ASSUME NEW d \in Docs, NEW w \in Workers, Upload(d, w) PROVE RowInv'
    <3>1. \A e \in Docs : /\ job'[e] = IF e = d THEN "running" ELSE job[e]
                          /\ document'[e] = IF e = d THEN "uploaded" ELSE document[e]
                          /\ at'[e] = IF e = d THEN "extract" ELSE at[e]
      BY <2>2 DEF Upload, TypeOK, RowTypes, PipeTypes
    <3>2. QED
      BY <2>2, <3>1 DEF Upload, RowInv, RowsAgree, StoreInv, storeVars
  <2>3. CASE DeleteDrops \/ DeleteCommits \/ DeleteFails
    BY <2>3, DeleteRows
  <2>4. ASSUME NEW w \in Workers, Reap(w) PROVE RowInv'
    BY <2>4, ReapRows
  <2>5. ASSUME NEW w \in Workers, Crash(w) PROVE RowInv'
    BY <2>5, CrashRows
  <2>6. ASSUME NEW w \in Workers,
               BeatStart(w) \/ BeatLands(w) \/ StandDown(w) \/ Select(w) \/ TickFails(w) \/ Restart(w)
        PROVE  RowInv'
    BY <2>6, ElsewhereRows DEF BeatStart, BeatLands, StandDown, Select, TickFails, Restart,
       rowVars, pipeVars
  <2>7. CASE Tick
    BY <2>7, ElsewhereRows DEF Tick, pipeVars
  <2>8. CASE UNCHANGED vars
    BY <2>8, ElsewhereRows DEF vars, rowVars, pipeVars
  <2>9. QED
    BY <2>1, <2>2, <2>3, <2>4, <2>5, <2>6, <2>7, <2>8 DEF Next, LoopStep
<1>3. QED
  BY <1>1, <1>2, TypeCorrect, PTL DEF Spec

\* What the library shows is true, whatever ingestions, reapers, crashes and
\* deletes do: a document listed as embedded is in Qdrant until a delete sets out.
THEOREM RecordsTrue == Spec => []RecordsSound
<1>1. TypeOK /\ RowInv => RecordsSound
  BY DEF RowInv, StoreInv, RecordsSound, EmbeddedIsSearchable
<1>2. QED
  BY <1>1, TypeCorrect, RowInvariant, PTL

--------------------------------------------------------------------------------
(* A held lease never lapses                                                  *)

\* A step inside the pipeline moves an ingestion on and leaves its lease as it is.
LEMMA GotoLease ==
    ASSUME TypeOK, LeaseInv, NEW d \in Docs, at[d] # "idle", NEW a \in Pipeline \cup {"commit", "cleanup"},
           Goto(d, at[d], a)
    PROVE  LeaseInv'
<1>1. \A e \in Docs : at'[e] = IF e = d THEN a ELSE at[e]
  BY DEF Goto, TypeOK, PipeTypes
<1>2. a # "idle"
  BY DEF Pipeline
<1>3. QED
  BY <1>1, <1>2 DEF Goto, LeaseInv, Holding, Beating, rowVars, loopVars, beatVars, scanVars

\* What does not touch rows, ingestions or the loop touches no lease.
LEMMA Elsewhere ==
    LeaseInv /\ UNCHANGED <<job, age, at, host, up, live, loopVars>> => LeaseInv'
  BY DEF LeaseInv, Holding, Beating, loopVars, beatVars, scanVars

\* Letting go of a document, with its own row possibly rewritten.
LEMMA EndIngestionLease ==
    ASSUME TypeOK, LeaseInv, NEW d \in Docs, at[d] # "idle", EndIngestion(d),
           UNCHANGED <<up, loopVars>>,
           \A e \in Docs \ {d} : job'[e] = job[e] /\ age'[e] = age[e],
           job'[d] # "absent"
    PROVE  LeaseInv'
<1>1. host[d] \in Workers
  BY DEF LeaseInv, Holding, TypeOK, PipeTypes
<1>2. \A w \in Workers : live'[w] = live[w] \ {d}
  BY <1>1 DEF EndIngestion, LeaseInv, Holding, TypeOK, PipeTypes
<1>3. \A e \in Docs : /\ host'[e] = IF e = d THEN NoWorker ELSE host[e]
                      /\ at'[e] = IF e = d THEN "idle" ELSE at[e]
  BY DEF EndIngestion, ForgetIngestions
<1>4. Holding'
  BY <1>1, <1>2, <1>3 DEF LeaseInv, Holding, loopVars, beatVars
<1>5. Beating'
  <2>1. UNCHANGED <<loop, sinceBeat, beatSet, beatAge, todo>>
    BY DEF loopVars, beatVars, scanVars
  <2>2. ASSUME NEW w \in Workers, loop[w] = "beating", NEW e \in live'[w] \ beatSet[w]
        PROVE  age'[e] <= beatAge[w]
    BY <1>2, <2>2 DEF LeaseInv, Beating, TypeOK, PipeTypes
  <2>3. ASSUME NEW w \in Workers
        PROVE  /\ \A e \in beatSet[w] : job'[e] # "absent" /\ host'[e] \in {w, NoWorker}
               /\ \A e \in todo[w] : job'[e] # "absent" /\ host'[e] = NoWorker
    BY <1>3 DEF LeaseInv, Beating, TypeOK, LoopTypes
  <2>4. QED
    BY <2>1, <2>2, <2>3 DEF Beating
<1>6. QED
  BY <1>4, <1>5 DEF LeaseInv

LEMMA IngestStepLease ==
    ASSUME TypeOK, LeaseInv, NEW d \in Docs, IngestStep(d) \/ ServeUpsert(d) \/ IngestError(d)
    PROVE  LeaseInv'
<1>0. at[d] # "idle" => job[d] # "absent"
  BY DEF LeaseInv, Holding
<1>1. CASE Embed(d) \/ FindCollection(d) \/ CreateCollection(d) \/ CreateRefused(d)
  BY <1>1, GotoLease DEF Embed, FindCollection, CreateCollection, CreateRefused, Goto, Pipeline
<1>2. CASE SendUpsert(d) \/ UpsertReturns(d) \/ PipelineFails(d) \/ RecordStale(d)
  BY <1>2, GotoLease DEF SendUpsert, UpsertReturns, PipelineFails, RecordStale, Goto, Pipeline
<1>3. CASE ServeUpsert(d)
  BY <1>3, Elsewhere DEF ServeUpsert, rowVars, pipeVars
<1>4. CASE Record(d)
  <2>1. job'[d] # "absent" /\ \A e \in Docs \ {d} : job'[e] = job[e] /\ age'[e] = age[e]
    BY <1>4 DEF Record, TypeOK, RowTypes, PipeTypes
  <2>2. QED
    BY <1>4, <2>1, EndIngestionLease DEF Record
<1>5. CASE Cleanup(d)
  BY <1>0, <1>5, EndIngestionLease DEF Cleanup, rowVars
<1>6. CASE IngestError(d)
  BY <1>0, <1>6, EndIngestionLease DEF IngestError, rowVars
<1>7. QED
  BY <1>1, <1>2, <1>3, <1>4, <1>5, <1>6 DEF IngestStep

\* A document is uploaded once, so no heartbeat or scan has heard of it before.
LEMMA UploadLease ==
    ASSUME TypeOK, LeaseInv, RowsAgree, NEW d \in Docs, NEW w \in Workers, Upload(d, w)
    PROVE  LeaseInv'
<1>1. job[d] = "absent" /\ host[d] = NoWorker
  BY DEF Upload, RowsAgree, LeaseInv, Holding
<1>2. \A v \in Workers : live'[v] = IF v = w THEN live[v] \cup {d} ELSE live[v]
  BY DEF Upload, TypeOK, PipeTypes
<1>3. \A e \in Docs : /\ host'[e] = IF e = d THEN w ELSE host[e]
                      /\ at'[e] = IF e = d THEN "extract" ELSE at[e]
                      /\ job'[e] = IF e = d THEN "running" ELSE job[e]
                      /\ age'[e] = IF e = d THEN 0 ELSE age[e]
  BY DEF Upload, TypeOK, RowTypes, PipeTypes
<1>4. UNCHANGED <<up, loop, sinceBeat, beatSet, beatAge, todo>> /\ w \in up
  BY DEF Upload, loopVars, beatVars, scanVars
<1>5. \A v \in Workers : 0 <= sinceBeat[v] /\ 0 <= beatAge[v]
  BY DEF TypeOK, LoopTypes
<1>6. Holding'
  <2>1. ASSUME NEW e \in Docs
        PROVE  /\ host'[e] = NoWorker <=> at'[e] = "idle"
               /\ \A v \in Workers : e \in live'[v] <=> host'[e] = v
    <3>1. CASE e = d
      <4>1. \A v \in Workers : d \notin live[v]
        BY <1>1 DEF LeaseInv, Holding
      <4>2. \A v \in Workers : d \in live'[v] <=> v = w
        BY <1>2, <4>1
      <4>3. QED
        BY <1>3, <3>1, <4>2
    <3>2. CASE e # d
      <4>1. host'[e] = host[e] /\ at'[e] = at[e] /\ \A v \in Workers : e \in live'[v] <=> e \in live[v]
        BY <1>2, <1>3, <3>2
      <4>2. QED
        BY <4>1 DEF LeaseInv, Holding
    <3>3. QED
      BY <3>1, <3>2
  <2>2. ASSUME NEW e \in Docs, host'[e] # NoWorker
        PROVE  host'[e] \in up /\ job'[e] \in {"running", "deleted"} /\ age'[e] <= sinceBeat[host'[e]]
    BY <1>3, <1>4, <1>5, <2>2 DEF LeaseInv, Holding
  <2>3. QED
    BY <1>4, <2>1, <2>2 DEF Holding
<1>7. Beating'
  <2>1. \A v \in Workers : d \notin beatSet[v] /\ d \notin todo[v]
    BY <1>1 DEF LeaseInv, Beating
  <2>2. ASSUME NEW v \in Workers, loop[v] = "beating", NEW e \in live'[v] \ beatSet[v]
        PROVE  age'[e] <= beatAge[v]
    <3>1. e = d \/ e \in live[v]
      BY <1>2
    <3>2. e \in Docs
      BY <3>1 DEF TypeOK, PipeTypes
    <3>3. QED
      BY <1>3, <1>5, <2>2, <3>1, <3>2 DEF LeaseInv, Beating
  <2>3. ASSUME NEW v \in Workers
        PROVE  /\ \A e \in beatSet[v] : job'[e] # "absent" /\ host'[e] \in {v, NoWorker}
               /\ \A e \in todo[v] : job'[e] # "absent" /\ host'[e] = NoWorker
    BY <1>3, <2>1 DEF LeaseInv, Beating, TypeOK, LoopTypes
  <2>4. QED
    BY <1>4, <2>2, <2>3 DEF Beating
<1>8. QED
  BY <1>6, <1>7 DEF LeaseInv

\* A delete takes the rows away, not the ingestions that have them open.
LEMMA DeleteLease ==
    ASSUME TypeOK, LeaseInv, DeleteDrops \/ DeleteCommits \/ DeleteFails
    PROVE  LeaseInv'
<1>1. CASE DeleteDrops \/ DeleteFails
  BY <1>1, Elsewhere DEF DeleteDrops, DeleteFails, pipeVars
<1>2. CASE DeleteCommits
  <2>1. UNCHANGED <<at, host, up, live, loop, sinceBeat, beatSet, beatAge, todo>>
    BY <1>2 DEF DeleteCommits, pipeVars, loopVars, beatVars, scanVars
  <2>2. \A d \in Docs : /\ age'[d] = 0
                        /\ job[d] # "absent" => job'[d] = "deleted"
    BY <1>2 DEF DeleteCommits
  <2>3. \A w \in Workers : 0 <= sinceBeat[w] /\ 0 <= beatAge[w]
    BY DEF TypeOK, LoopTypes
  <2>4. Holding'
    BY <2>1, <2>2, <2>3 DEF LeaseInv, Holding, TypeOK, PipeTypes
  <2>5. Beating'
    <3>1. ASSUME NEW w \in Workers, NEW d \in live[w] PROVE age'[d] <= beatAge[w]
      BY <2>2, <2>3, <3>1 DEF TypeOK, PipeTypes
    <3>2. ASSUME NEW w \in Workers
          PROVE  /\ \A d \in beatSet[w] : job'[d] # "absent" /\ host[d] \in {w, NoWorker}
                 /\ \A d \in todo[w] : job'[d] # "absent" /\ host[d] = NoWorker
      BY <2>2 DEF LeaseInv, Beating, TypeOK, LoopTypes
    <3>3. QED
      BY <2>1, <3>1, <3>2 DEF Beating
  <2>6. QED
    BY <2>4, <2>5 DEF LeaseInv
<1>3. QED
  BY <1>1, <1>2

\* Steps that change no row and no ingestion, and forget heartbeats or scans.
LEMMA IdleLease ==
    ASSUME TypeOK, LeaseInv, UNCHANGED <<job, age, at, host, up, live, sinceBeat>>,
           \A w \in Workers :
              /\ loop'[w] = "beating" => loop[w] = "beating" /\ beatSet'[w] = beatSet[w]
                                         /\ beatAge'[w] = beatAge[w]
              /\ beatSet'[w] \subseteq beatSet[w] /\ todo'[w] \subseteq todo[w]
    PROVE  LeaseInv'
<1>1. Holding'
  BY DEF LeaseInv, Holding
<1>2. Beating'
  BY DEF LeaseInv, Beating, TypeOK, LoopTypes
<1>3. QED
  BY <1>1, <1>2 DEF LeaseInv

\* What the reaper finds stale is ingested by nobody: a held lease is at most as
\* old as its holder's last heartbeat, MaxGap at most.
LEMMA StaleIsOrphaned ==
    ASSUME TypeOK, LeaseInv, NEW d \in Docs, NEW since \in 0..MaxGap, Stale(d, since)
    PROVE  host[d] = NoWorker /\ job[d] # "absent"
<1>1. ASSUME host[d] # NoWorker PROVE FALSE
  <2>1. host[d] \in Workers /\ age[d] <= sinceBeat[host[d]]
    BY <1>1 DEF LeaseInv, Holding, TypeOK, PipeTypes
  <2>2. sinceBeat[host[d]] <= MaxGap /\ sinceBeat[host[d]] \in Nat /\ age[d] \in Nat
    BY <2>1 DEF TypeOK, LoopTypes, RowTypes, Oldest
  <2>3. QED
    BY <2>1, <2>2 DEF Stale
<1>2. QED
  BY <1>1 DEF Stale

LEMMA ReapLease ==
    ASSUME TypeOK, LeaseInv, NEW w \in Workers, Reap(w)
    PROVE  LeaseInv'
<1>1. \A d \in Claimed(w) : host[d] = NoWorker
  BY DEF Claimed, LeaseInv, Beating
<1>2. \A d \in Docs : /\ d \notin Claimed(w) => job'[d] = job[d] /\ age'[d] = age[d]
                      /\ job[d] # "absent" => job'[d] # "absent"
  BY DEF Reap
<1>3. UNCHANGED <<up, live, host, at, sinceBeat, beatSet, beatAge>>
  BY DEF Reap, pipeVars, beatVars
<1>4. Holding'
  BY <1>1, <1>2, <1>3 DEF LeaseInv, Holding
<1>5. Beating'
  <2>1. /\ loop'[w] = "sleep" /\ todo'[w] = {}
        /\ \A v \in Workers \ {w} : loop'[v] = loop[v] /\ todo'[v] = todo[v]
    BY DEF Reap, ForgetScan, TypeOK, LoopTypes
  <2>2. \A v \in Workers : \A d \in live[v] : d \in Docs /\ age'[d] = age[d]
    BY <1>1, <1>2 DEF LeaseInv, Holding, TypeOK, PipeTypes
  <2>3. QED
    BY <1>2, <1>3, <2>1, <2>2 DEF LeaseInv, Beating, TypeOK, LoopTypes
<1>6. QED
  BY <1>4, <1>5 DEF LeaseInv

LEMMA BeatStartLease ==
    ASSUME TypeOK, LeaseInv, NEW w \in Workers, BeatStart(w)
    PROVE  LeaseInv'
<1>1. Holding'
  BY DEF BeatStart, LeaseInv, Holding, rowVars, pipeVars
<1>2. \A v \in Workers : /\ beatSet'[v] = IF v = w THEN live[v] ELSE beatSet[v]
                         /\ beatAge'[v] = IF v = w THEN 0 ELSE beatAge[v]
                         /\ v # w => loop'[v] = loop[v]
  BY DEF BeatStart, TypeOK, LoopTypes
<1>3. \A d \in live[w] : host[d] = w /\ job[d] # "absent"
  BY DEF LeaseInv, Holding, TypeOK, PipeTypes
<1>4. Beating'
  BY <1>2, <1>3 DEF BeatStart, LeaseInv, Beating, rowVars, pipeVars, scanVars
<1>5. QED
  BY <1>1, <1>4 DEF LeaseInv

\* The heartbeat in flight covers every document still ingested when it lands.
LEMMA BeatLandsLease ==
    ASSUME TypeOK, LeaseInv, NEW w \in Workers, BeatLands(w)
    PROVE  LeaseInv'
<1>1. /\ sinceBeat'[w] = beatAge[w] /\ beatSet'[w] = {} /\ loop'[w] = "beaten"
      /\ \A v \in Workers \ {w} : /\ sinceBeat'[v] = sinceBeat[v] /\ beatSet'[v] = beatSet[v]
                                  /\ beatAge'[v] = beatAge[v] /\ loop'[v] = loop[v]
  BY DEF BeatLands, ForgetBeat, TypeOK, LoopTypes
<1>2. UNCHANGED <<job, up, live, host, at, todo>>
  BY DEF BeatLands, pipeVars, scanVars
<1>3. ASSUME NEW d \in Docs, host[d] # NoWorker
      PROVE  age'[d] <= sinceBeat'[host[d]]
  <2>1. /\ job[d] \in {"running", "deleted"} /\ host[d] \in Workers
        /\ age[d] <= sinceBeat[host[d]]
    BY <1>3 DEF LeaseInv, Holding, TypeOK, PipeTypes
  <2>2. CASE host[d] = w
    <3>1. d \in beatSet[w] \/ age[d] <= beatAge[w]
      BY <2>2 DEF BeatLands, LeaseInv, Holding, Beating
    <3>2. beatAge[w] <= beatAge[w] /\ 0 <= beatAge[w]
      BY DEF TypeOK, LoopTypes
    <3>3. job[d] = "deleted" => age[d] <= beatAge[w]
      BY <3>2 DEF TypeOK, RowTypes
    <3>4. QED
      BY <1>1, <2>1, <2>2, <3>1, <3>2, <3>3 DEF BeatLands
  <2>3. CASE host[d] # w
    <3>1. d \notin beatSet[w]
      BY <1>3, <2>3 DEF LeaseInv, Beating
    <3>2. QED
      BY <1>1, <2>1, <2>3, <3>1 DEF BeatLands
  <2>4. QED
    BY <2>2, <2>3
<1>4. Holding'
  BY <1>2, <1>3 DEF LeaseInv, Holding
<1>5. Beating'
  <2>1. ASSUME NEW v \in Workers \ {w}, NEW d \in live[v] PROVE age'[d] = age[d]
    BY <2>1 DEF BeatLands, LeaseInv, Holding, Beating, TypeOK, PipeTypes
  <2>2. QED
    BY <1>1, <1>2, <2>1 DEF LeaseInv, Beating
<1>6. QED
  BY <1>4, <1>5 DEF LeaseInv

LEMMA LoopStepLease ==
    ASSUME TypeOK, LeaseInv, NEW w \in Workers, LoopStep(w) \/ TickFails(w)
    PROVE  LeaseInv'
<1>1. CASE BeatStart(w)
  BY <1>1, BeatStartLease
<1>2. CASE BeatLands(w)
  BY <1>2, BeatLandsLease
<1>3. CASE StandDown(w)
  BY <1>3, IdleLease DEF StandDown, TypeOK, LoopTypes, rowVars, pipeVars, beatVars, scanVars
<1>4. CASE Select(w)
  <2>1. Holding'
    BY <1>4 DEF Select, LeaseInv, Holding, rowVars, pipeVars, beatVars
  <2>2. \A d \in todo'[w] : job[d] # "absent" /\ host[d] = NoWorker
    BY <1>4, StaleIsOrphaned, AgeRange DEF Select, TypeOK, LoopTypes
  <2>3. \A v \in Workers \ {w} : todo'[v] = todo[v] /\ loop'[v] = loop[v]
    BY <1>4 DEF Select, TypeOK, LoopTypes
  <2>4. loop'[w] = "reaping" /\ UNCHANGED <<rowVars, live, host, beatVars>>
    BY <1>4 DEF Select, TypeOK, LoopTypes, pipeVars
  <2>5. Beating'
    BY <2>2, <2>3, <2>4 DEF LeaseInv, Beating, rowVars, beatVars
  <2>6. QED
    BY <2>1, <2>5 DEF LeaseInv
<1>5. CASE Reap(w)
  BY <1>5, ReapLease
<1>6. CASE TickFails(w)
  BY <1>6, IdleLease DEF TickFails, ForgetScan, ForgetBeat, TypeOK, LoopTypes, rowVars, pipeVars
<1>7. QED
  BY <1>1, <1>2, <1>3, <1>4, <1>5, <1>6 DEF LoopStep

\* A dead worker ingests nothing.
LEMMA CrashLease ==
    ASSUME TypeOK, LeaseInv, NEW w \in Workers, Crash(w)
    PROVE  LeaseInv'
<1>1. \A d \in Docs : /\ host'[d] = IF host[d] = w THEN NoWorker ELSE host[d]
                      /\ at'[d] = IF host[d] = w THEN "idle" ELSE at[d]
  BY DEF Crash, ForgetIngestions
<1>2. /\ live'[w] = {} /\ beatSet'[w] = {} /\ todo'[w] = {} /\ loop'[w] = "sleep"
      /\ \A v \in Workers \ {w} :
            /\ live'[v] = live[v] /\ beatSet'[v] = beatSet[v] /\ todo'[v] = todo[v]
            /\ sinceBeat'[v] = sinceBeat[v] /\ beatAge'[v] = beatAge[v] /\ loop'[v] = loop[v]
  BY DEF Crash, ForgetScan, ForgetBeat, TypeOK, PipeTypes, LoopTypes
<1>3. up' = up \ {w} /\ UNCHANGED <<job, age>>
  BY DEF Crash, rowVars
<1>4. \A d \in Docs : host[d] \in Workers \cup {NoWorker}
  BY DEF TypeOK, PipeTypes
<1>5. Holding'
  BY <1>1, <1>2, <1>3, <1>4 DEF LeaseInv, Holding
<1>6. Beating'
  <2>1. ASSUME NEW v \in Workers, v # w
        PROVE  /\ loop'[v] = "beating" => \A d \in live'[v] \ beatSet'[v] : age'[d] <= beatAge'[v]
               /\ \A d \in beatSet'[v] : job'[d] # "absent" /\ host'[d] \in {v, NoWorker}
               /\ \A d \in todo'[v] : job'[d] # "absent" /\ host'[d] = NoWorker
    <3>1. /\ loop[v] = "beating" => \A d \in live[v] \ beatSet[v] : age[d] <= beatAge[v]
          /\ \A d \in beatSet[v] : d \in Docs /\ job[d] # "absent" /\ host[d] \in {v, NoWorker}
          /\ \A d \in todo[v] : d \in Docs /\ job[d] # "absent" /\ host[d] = NoWorker
      BY DEF LeaseInv, Beating, TypeOK, LoopTypes
    <3>2. /\ live'[v] = live[v] /\ beatSet'[v] = beatSet[v] /\ todo'[v] = todo[v]
          /\ beatAge'[v] = beatAge[v] /\ loop'[v] = loop[v]
      BY <1>2, <2>1
    <3>3. QED
      BY <1>1, <1>3, <3>1, <3>2
  <2>2. QED
    BY <1>2, <2>1 DEF Beating
<1>7. QED
  BY <1>5, <1>6 DEF LeaseInv

\* Time ages a held lease and its holder's heartbeat alike.
LEMMA TickLease ==
    ASSUME TypeOK, LeaseInv, Tick
    PROVE  LeaseInv'
<1>1. \A d \in Docs : age'[d] \in Nat /\ age'[d] <= age[d] + 1 /\ age[d] \in Nat
  BY OlderAge DEF Tick, TypeOK, RowTypes, Oldest
<1>2. \A w \in Workers : /\ sinceBeat[w] \in Nat /\ beatAge[w] \in Nat
                         /\ w \in up => sinceBeat'[w] = sinceBeat[w] + 1
                         /\ loop[w] = "beating" => beatAge'[w] = beatAge[w] + 1
  BY DEF Tick, TypeOK, LoopTypes
<1>3. UNCHANGED <<job, up, live, host, at, loop, beatSet, todo>>
  BY DEF Tick, pipeVars
<1>4. Holding'
  <2>1. \A d \in Docs : host[d] # NoWorker => age'[d] <= sinceBeat'[host[d]]
    BY <1>1, <1>2 DEF LeaseInv, Holding, TypeOK, PipeTypes
  <2>2. QED
    BY <1>3, <2>1 DEF LeaseInv, Holding
<1>5. Beating'
  <2>1. \A w \in Workers : loop[w] = "beating" =>
            \A d \in live[w] \ beatSet[w] : age'[d] <= beatAge'[w]
    BY <1>1, <1>2 DEF LeaseInv, Beating, TypeOK, PipeTypes
  <2>2. QED
    BY <1>3, <2>1 DEF LeaseInv, Beating
<1>6. QED
  BY <1>4, <1>5 DEF LeaseInv

\* The inductive invariant of the lease protocol.
THEOREM LeaseInvariant == Spec => []LeaseInv
<1>1. Init => LeaseInv
  BY DEF Init, LeaseInv, Holding, Beating
<1>2. TypeOK /\ RowInv /\ LeaseInv /\ [Next]_vars => LeaseInv'
  <2> SUFFICES ASSUME TypeOK, RowInv, LeaseInv, [Next]_vars PROVE LeaseInv'
    OBVIOUS
  <2>1. ASSUME NEW d \in Docs, IngestStep(d) \/ ServeUpsert(d) \/ IngestError(d) PROVE LeaseInv'
    BY <2>1, IngestStepLease
  <2>2. ASSUME NEW d \in Docs, NEW w \in Workers, Upload(d, w) PROVE LeaseInv'
    BY <2>2, UploadLease DEF RowInv
  <2>3. CASE DeleteDrops \/ DeleteCommits \/ DeleteFails
    BY <2>3, DeleteLease
  <2>4. ASSUME NEW w \in Workers, LoopStep(w) \/ TickFails(w) PROVE LeaseInv'
    BY <2>4, LoopStepLease
  <2>5. ASSUME NEW w \in Workers, Crash(w) PROVE LeaseInv'
    BY <2>5, CrashLease
  <2>6. ASSUME NEW w \in Workers, Restart(w) PROVE LeaseInv'
    BY <2>6 DEF Restart, LeaseInv, Holding, Beating, rowVars, pipeVars, loopVars, beatVars, scanVars
  <2>7. CASE Tick
    BY <2>7, TickLease
  <2>8. CASE UNCHANGED vars
    BY <2>8, Elsewhere DEF vars, rowVars, pipeVars
  <2>9. QED
    BY <2>1, <2>2, <2>3, <2>4, <2>5, <2>6, <2>7, <2>8 DEF Next
<1>3. QED
  BY <1>1, <1>2, TypeCorrect, RowInvariant, PTL DEF Spec

\* An ingestion in progress, however long it takes and whatever fails meanwhile,
\* is never reaped, and no reaper has it on its list (ADR-036).
THEOREM LeaseSafety == Spec => []LeaseHeld
<1>1. TypeOK /\ LeaseInv => LeaseHeld
  <2> SUFFICES ASSUME TypeOK, LeaseInv, NEW d \in Docs, at[d] # "idle", job[d] # "deleted"
               PROVE  /\ job[d] = "running"
                      /\ age[d] <= StaleAfter
                      /\ \A w \in Workers : d \notin todo[w]
    BY DEF LeaseHeld
  <2>1. host[d] \in Workers /\ job[d] = "running" /\ age[d] <= sinceBeat[host[d]]
    BY DEF LeaseInv, Holding, TypeOK, PipeTypes
  <2>2. sinceBeat[host[d]] \in 0..MaxGap /\ age[d] \in Nat
    BY <2>1 DEF TypeOK, LoopTypes, RowTypes, Oldest
  <2>3. \A w \in Workers : d \notin todo[w]
    BY <2>1 DEF LeaseInv, Beating
  <2>4. QED
    BY <2>1, <2>2, <2>3
<1>2. QED
  BY <1>1, TypeCorrect, LeaseInvariant, PTL

--------------------------------------------------------------------------------
(* The job contract is implemented                                            *)

\* An ingestion that ends is, to the contract, a job concluded or abandoned.
LEMMA EndIngestionHeld ==
    ASSUME NEW d \in Docs, EndIngestion(d)
    PROVE  JobHeld' = JobHeld \ {d}
  BY DEF EndIngestion, ForgetIngestions, JobHeld

\* A pipeline that moves on keeps its job and decides nothing.
LEMMA GotoContract ==
    ASSUME TypeOK, NEW d \in Docs, NEW a \in Pipeline \cup {"commit", "cleanup"},
           at[d] # "idle", Goto(d, at[d], a)
    PROVE  UNCHANGED Contract!contractVars
<1>1. \A e \in Docs : at'[e] # "idle" <=> at[e] # "idle"
  BY DEF Goto, TypeOK, PipeTypes, Pipeline
<1>2. JobHeld' = JobHeld
  BY <1>1 DEF JobHeld
<1>3. JobOutcome' = JobOutcome
  BY DEF Goto, rowVars, JobOutcome
<1>4. QED
  BY <1>2, <1>3 DEF Contract!contractVars

LEMMA AbandonOne ==
    ASSUME NEW d \in Docs, at[d] # "idle", EndIngestion(d), UNCHANGED rowVars
    PROVE  Contract!Next
<1>1. d \in JobHeld /\ JobHeld' = JobHeld \ {d}
  BY EndIngestionHeld DEF JobHeld
<1>2. JobOutcome' = JobOutcome
  BY DEF rowVars, JobOutcome
<1>3. Contract!Abandon({d})
  BY <1>1, <1>2 DEF Contract!Abandon
<1>4. QED
  BY <1>3 DEF Contract!Next

LEMMA RecordConcludes ==
    ASSUME TypeOK, LeaseInv, RowsAgree, NEW d \in Docs, Record(d)
    PROVE  Contract!Conclude(d)
<1>1. d \in JobHeld /\ JobHeld' = JobHeld \ {d}
  BY EndIngestionHeld DEF Record, JobHeld
<1>2. job[d] = "running"
  BY DEF Record, LeaseInv, Holding, RowsAgree
<1>3. result[d] \in {"succeeded", "failed"}
  BY DEF Record, TypeOK, PipeTypes
<1>4. JobOutcome[d] = "open"
  BY <1>2 DEF JobOutcome
<1>5. JobOutcome' = [JobOutcome EXCEPT ![d] = result[d]]
  BY <1>3 DEF Record, JobOutcome, TypeOK, RowTypes
<1>6. QED
  BY <1>1, <1>3, <1>4, <1>5 DEF Contract!Conclude, Contract!Decided

LEMMA IngestStepContract ==
    ASSUME TypeOK, LeaseInv, RowsAgree, NEW d \in Docs,
           IngestStep(d) \/ ServeUpsert(d) \/ IngestError(d)
    PROVE  Contract!Next \/ UNCHANGED Contract!contractVars
<1>1. CASE Embed(d) \/ FindCollection(d) \/ CreateCollection(d) \/ CreateRefused(d)
  BY <1>1, GotoContract DEF Embed, FindCollection, CreateCollection, CreateRefused, Goto, Pipeline
<1>2. CASE SendUpsert(d) \/ UpsertReturns(d) \/ PipelineFails(d) \/ RecordStale(d)
  BY <1>2, GotoContract DEF SendUpsert, UpsertReturns, PipelineFails, RecordStale, Goto, Pipeline
<1>3. CASE ServeUpsert(d)
  BY <1>3 DEF ServeUpsert, rowVars, pipeVars, Contract!contractVars, JobOutcome, JobHeld
<1>4. CASE Record(d)
  BY <1>4, RecordConcludes DEF Contract!Next
<1>5. CASE Cleanup(d) \/ IngestError(d)
  BY <1>5, AbandonOne DEF Cleanup, IngestError
<1>6. QED
  BY <1>1, <1>2, <1>3, <1>4, <1>5 DEF IngestStep

LEMMA ReapContract ==
    ASSUME TypeOK, LeaseInv, NEW w \in Workers, Reap(w)
    PROVE  Contract!Reap(Claimed(w)) /\ Claimed(w) \in SUBSET Docs
<1>1. Claimed(w) \in SUBSET Docs
  BY DEF Claimed, TypeOK, LoopTypes
<1>2. Claimed(w) \cap JobHeld = {}
  BY DEF Claimed, LeaseInv, Holding, Beating, JobHeld
<1>3. \A d \in Claimed(w) : JobOutcome[d] = "open"
  BY <1>1 DEF Claimed, Stale, JobOutcome
<1>4. JobOutcome' = [d \in Docs |-> IF d \in Claimed(w) THEN "failed" ELSE JobOutcome[d]]
  BY DEF Reap, JobOutcome
<1>5. JobHeld' = JobHeld
  BY DEF Reap, pipeVars, JobHeld
<1>6. QED
  BY <1>1, <1>2, <1>3, <1>4, <1>5 DEF Contract!Reap

LEMMA DeleteContract ==
    ASSUME TypeOK, DeleteCommits
    PROVE  Contract!Next
<1> DEFINE rows == {d \in Docs : job[d] # "absent"}
<1>1. \A d \in rows : JobOutcome[d] # "absent"
  BY DEF JobOutcome
<1>2. JobOutcome' = [d \in Docs |-> IF d \in rows THEN "dropped" ELSE JobOutcome[d]]
  BY DEF DeleteCommits, JobOutcome
<1>3. JobHeld' = JobHeld
  BY DEF DeleteCommits, pipeVars, JobHeld
<1>4. Contract!Drop(rows) /\ rows \in SUBSET Docs
  BY <1>1, <1>2, <1>3 DEF Contract!Drop
<1>5. QED
  BY <1>4 DEF Contract!Next

\* Ingestion implements JobContract: only the ingestion that holds a job decides
\* it, a decided job is never revised, a reaper fails only jobs nobody holds, and
\* nothing but the delete of the collection drops one.
THEOREM ContractImplemented == Spec => ImplementsContract
<1>1. Init => Contract!Init
  BY DEF Init, Contract!Init, JobOutcome, JobHeld
<1>2. TypeOK /\ LeaseInv /\ RowInv /\ [Next]_vars => [Contract!Next]_(Contract!contractVars)
  <2> SUFFICES ASSUME TypeOK, LeaseInv, RowInv, [Next]_vars
               PROVE  Contract!Next \/ UNCHANGED Contract!contractVars
    OBVIOUS
  <2>1. ASSUME NEW d \in Docs, IngestStep(d) \/ ServeUpsert(d) \/ IngestError(d)
        PROVE  Contract!Next \/ UNCHANGED Contract!contractVars
    BY <2>1, IngestStepContract DEF RowInv
  <2>2. ASSUME NEW d \in Docs, NEW w \in Workers, Upload(d, w) PROVE Contract!Next
    <3>1. job[d] = "absent"
      BY <2>2 DEF Upload, RowInv, RowsAgree
    <3>2. JobOutcome[d] = "absent" /\ JobOutcome' = [JobOutcome EXCEPT ![d] = "open"]
      BY <2>2, <3>1 DEF Upload, JobOutcome, TypeOK, RowTypes
    <3>3. \A e \in Docs : at'[e] = IF e = d THEN "extract" ELSE at[e]
      BY <2>2 DEF Upload, TypeOK, PipeTypes
    <3>4. JobHeld' = JobHeld \cup {d}
      BY <3>3 DEF JobHeld
    <3>5. Contract!Start(d)
      BY <3>2, <3>4 DEF Contract!Start
    <3>6. QED
      BY <3>5 DEF Contract!Next
  <2>3. CASE DeleteCommits
    BY <2>3, DeleteContract
  <2>4. ASSUME NEW w \in Workers, Reap(w) PROVE Contract!Next
    BY <2>4, ReapContract DEF Contract!Next
  <2>5. ASSUME NEW w \in Workers, Crash(w) PROVE Contract!Next
    <3> DEFINE lost == {d \in Docs : host[d] = w}
    <3>1. lost \subseteq JobHeld
      BY DEF JobHeld, LeaseInv, Holding
    <3>2. JobHeld' = JobHeld \ lost
      BY <2>5 DEF Crash, ForgetIngestions, JobHeld
    <3>3. UNCHANGED JobOutcome
      BY <2>5 DEF Crash, rowVars, JobOutcome
    <3>4. Contract!Abandon(lost) /\ lost \in SUBSET Docs
      BY <3>1, <3>2, <3>3 DEF Contract!Abandon
    <3>5. QED
      BY <3>4 DEF Contract!Next
  <2>6. UNCHANGED <<job, at>> => UNCHANGED Contract!contractVars
    BY DEF Contract!contractVars, JobOutcome, JobHeld
  <2>7. CASE DeleteDrops \/ DeleteFails
    BY <2>6, <2>7 DEF DeleteDrops, DeleteFails, pipeVars
  <2>8. ASSUME NEW w \in Workers,
               BeatStart(w) \/ BeatLands(w) \/ StandDown(w) \/ Select(w) \/ TickFails(w) \/ Restart(w)
        PROVE  UNCHANGED <<job, at>>
    BY <2>8 DEF BeatStart, BeatLands, StandDown, Select, TickFails, Restart, rowVars, pipeVars
  <2>9. CASE Tick
    BY <2>6, <2>9 DEF Tick, pipeVars
  <2>10. CASE UNCHANGED vars
    BY <2>6, <2>10 DEF vars, rowVars, pipeVars
  <2>11. QED
    BY <2>1, <2>2, <2>3, <2>4, <2>5, <2>6, <2>7, <2>8, <2>9, <2>10 DEF Next, LoopStep
<1>3. QED
  BY <1>1, <1>2, TypeCorrect, LeaseInvariant, RowInvariant, PTL DEF Spec, ImplementsContract, Contract!Safe
================================================================================
