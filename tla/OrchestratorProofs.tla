--------------------------- MODULE OrchestratorProofs ---------------------------
(***************************************************************************)
(* Proofs about Orchestrator for every set of tasks, nodes and workers and *)
(* every MaxGap <= StaleAfter.  LeaseInv is inductive on top of TypeOK and *)
(* says why a held lease cannot lapse; TraceInv is inductive on top of     *)
(* both.  The contract is implemented step by step under LeaseInv.         *)
(***************************************************************************)
EXTENDS Orchestrator, TLAPS

USE NoneAssumption, AttemptsAssumption, FaultsAssumption, LeaseAssumption

--------------------------------------------------------------------------------
(* Facts about the helpers                                                    *)

\* Saturation keeps an age in range and never turns it back.
LEMMA OlderAge ==
    ASSUME NEW a \in 0..Oldest
    PROVE  Older(a) \in 0..Oldest /\ a <= Older(a) /\ Older(a) <= a + 1
  BY DEF Older, Oldest

\* A heartbeat's or a scan's age is a legal lease age.
LEMMA AgeRange == 0 \in 0..Oldest /\ 0 \in 0..MaxGap /\ 0..MaxGap \subseteq 0..Oldest
  BY DEF Oldest

\* Ending a scan leaves the loop's state well typed.
LEMMA ForgetScanTypes ==
    ASSUME LoopTypes, NEW w \in Workers, ForgetScan(w), UNCHANGED <<up, beatVars>>
    PROVE  LoopTypes'
  BY AgeRange DEF LoopTypes, ForgetScan, beatVars

\* So does ending a request.
LEMMA EndRequestTypes ==
    ASSUME RequestTypes, NEW t \in Tasks, at[t] # "none", EndRequest(t), UNCHANGED up
    PROVE  RequestTypes'
<1>1. live' \in [Workers -> SUBSET Tasks]
  <2>1. CASE owner[t] \in Workers
    <3>1. live[owner[t]] \ {t} \in SUBSET Tasks
      BY <2>1 DEF RequestTypes
    <3>2. QED
      BY <3>1 DEF RequestTypes, EndRequest
  <2>2. CASE owner[t] \notin Workers
    BY <2>2 DEF RequestTypes, EndRequest
  <2>3. QED
    BY <2>1, <2>2
<1>2. owner' \in [Tasks -> Workers \cup {NoWorker}]
  BY DEF RequestTypes, EndRequest
<1>3. at' \in [Tasks -> {"none", "start", "external", "next", "dispatch", "won"}]
  BY DEF RequestTypes, EndRequest
<1>4. node' \in [Tasks -> Nodes \cup {NoNode}] /\ cand' \in [Tasks -> SUBSET Nodes]
  BY DEF RequestTypes, EndRequest
<1>5. tries' \in [Tasks -> 0..MaxAttempts]
  BY DEF RequestTypes, EndRequest
<1>6. QED
  BY <1>1, <1>2, <1>3, <1>4, <1>5 DEF RequestTypes

\* Variables a step leaves alone keep their part of the type invariant.
LEMMA Untouched ==
    /\ RowTypes /\ UNCHANGED rowVars => RowTypes'
    /\ RequestTypes /\ UNCHANGED <<up, live, reqVars>> => RequestTypes'
    /\ LoopTypes /\ UNCHANGED <<up, loopVars>> => LoopTypes'
  BY DEF RowTypes, RequestTypes, LoopTypes, rowVars, reqVars, loopVars, beatVars, scanVars

--------------------------------------------------------------------------------
(* Type correctness                                                           *)

LEMMA FinishTypes ==
    ASSUME TypeOK, NEW t \in Tasks, NEW o \in Finished, at[t] # "none", Finish(t, o)
    PROVE  TypeOK'
<1>1. RowTypes'
  BY AgeRange DEF TypeOK, RowTypes, Finish
<1>2. QED
  BY <1>1, EndRequestTypes, Untouched DEF TypeOK, Finish

LEMMA AttemptTypes ==
    ASSUME TypeOK, NEW t \in Tasks, Attempt(t)
    PROVE  TypeOK'
<1>1. PICK n \in cand[t] \cap registered :
         /\ exe' = [exe EXCEPT ![t][n] = "running"]
         /\ node' = [node EXCEPT ![t] = n]
         /\ cand' = [cand EXCEPT ![t] = @ \ {n}]
  BY DEF Attempt
<1>2. n \in Nodes
  BY DEF TypeOK, RowTypes
<1>3. exe' \in [Tasks -> [Nodes -> ExeStatus]]
  BY <1>1, <1>2 DEF TypeOK, RowTypes, ExeStatus
<1>4. status' \in [Tasks -> {"absent"} \cup Unfinished \cup Finished]
  BY DEF Attempt, TypeOK, RowTypes, Unfinished
<1>5. RequestTypes'
  BY <1>1, <1>2 DEF Attempt, TypeOK, RequestTypes
<1>6. QED
  BY <1>3, <1>4, <1>5, Untouched DEF TypeOK, RowTypes, Attempt

LEMMA CloseAttemptTypes ==
    ASSUME TypeOK, NEW t \in Tasks, AttemptFails(t) \/ AttemptSucceeds(t)
    PROVE  TypeOK'
<1>1. PICK r \in {"failed", "succeeded"}, a \in {"next", "won"} : CloseAttempt(t, r, a)
  BY DEF AttemptFails, AttemptSucceeds
<1>2. RowTypes'
  BY <1>1 DEF CloseAttempt, TypeOK, RowTypes, ExeStatus
<1>3. RequestTypes'
  BY <1>1 DEF CloseAttempt, TypeOK, RequestTypes
<1>4. QED
  BY <1>1, <1>2, <1>3, Untouched DEF TypeOK, CloseAttempt

\* Steps of a request keep the state well typed.
LEMMA RequestStepTypes ==
    ASSUME TypeOK, NEW t \in Tasks, RequestStep(t) \/ RequestError(t)
    PROVE  TypeOK'
<1>1. CASE Answer(t)
  BY <1>1, FinishTypes DEF Answer
<1>2. CASE CallExternal(t)
  <2>1. RowTypes' /\ RequestTypes'
    BY <1>2 DEF CallExternal, TypeOK, RowTypes, RequestTypes, Unfinished
  <2>2. QED
    BY <1>2, <2>1, Untouched DEF CallExternal, TypeOK
<1>3. CASE Route(t)
  <2>1. RequestTypes'
    BY <1>3 DEF Route, TypeOK, RowTypes, RequestTypes
  <2>2. QED
    BY <1>3, <2>1, Untouched DEF Route, TypeOK
<1>4. CASE GiveUp(t)
  BY <1>4, FinishTypes DEF GiveUp, Finished
<1>5. CASE Attempt(t)
  BY <1>5, AttemptTypes
<1>6. CASE AttemptFails(t) \/ AttemptSucceeds(t)
  BY <1>6, CloseAttemptTypes
<1>7. CASE FinishWon(t)
  BY <1>7, FinishTypes DEF FinishWon, Finished
<1>8. CASE RequestBreaks(t)
  BY <1>8, EndRequestTypes, Untouched DEF RequestBreaks, RowGone, Abort, TypeOK
<1>9. CASE RequestError(t)
  <2>1. faults' \in 0..MaxFaults
    BY <1>9 DEF RequestError, Fault, TypeOK
  <2>2. QED
    BY <1>9, <2>1, EndRequestTypes, Untouched DEF RequestError, Abort, TypeOK
<1>10. QED
  BY <1>1, <1>2, <1>3, <1>4, <1>5, <1>6, <1>7, <1>8, <1>9 DEF RequestStep

LEMMA ReapTypes ==
    ASSUME TypeOK, NEW w \in Workers, NEW t \in Tasks, Reap(w, t)
    PROVE  TypeOK'
<1>1. exe' \in [Tasks -> [Nodes -> ExeStatus]]
  <2>1. exe[t] \in [Nodes -> ExeStatus]
    BY DEF TypeOK, RowTypes
  <2>2. [n \in Nodes |-> IF n \in seen[w][t] THEN "failed" ELSE exe[t][n]] \in [Nodes -> ExeStatus]
    BY <2>1 DEF ExeStatus
  <2>3. QED
    BY <2>2 DEF Reap, TypeOK, RowTypes
<1>2. RowTypes'
  BY <1>1, AgeRange DEF Reap, TypeOK, RowTypes, Finished
<1>3. LoopTypes'
  BY DEF Reap, TypeOK, LoopTypes, beatVars
<1>4. QED
  BY <1>2, <1>3, Untouched DEF Reap, TypeOK

\* Steps of the lease loop keep the state well typed.
LEMMA LoopStepTypes ==
    ASSUME TypeOK, NEW w \in Workers, LoopStep(w) \/ TickFails(w)
    PROVE  TypeOK'
<1>1. CASE BeatStart(w)
  <2>1. LoopTypes'
    BY <1>1, AgeRange DEF BeatStart, TypeOK, RequestTypes, LoopTypes, scanVars
  <2>2. QED
    BY <1>1, <2>1, Untouched DEF BeatStart, TypeOK
<1>2. CASE BeatLands(w)
  <2>1. LoopTypes'
    BY <1>2, AgeRange DEF BeatLands, TypeOK, LoopTypes, scanVars
  <2>2. \A t \in Tasks : age'[t] \in 0..Oldest
    BY <1>2, AgeRange DEF BeatLands, TypeOK, RowTypes, LoopTypes
  <2>3. RowTypes'
    BY <1>2, <2>2 DEF BeatLands, TypeOK, RowTypes
  <2>4. QED
    BY <1>2, <2>1, <2>3, Untouched DEF BeatLands, TypeOK
<1>3. CASE StandDown(w)
  <2>1. LoopTypes'
    BY <1>3 DEF StandDown, TypeOK, LoopTypes, beatVars, scanVars
  <2>2. QED
    BY <1>3, <2>1, Untouched DEF StandDown, TypeOK
<1>4. CASE Select(w)
  <2>1. LoopTypes'
    BY <1>4, AgeRange DEF Select, TypeOK, LoopTypes, beatVars
  <2>2. QED
    BY <1>4, <2>1, Untouched DEF Select, TypeOK
<1>5. CASE ReapEnds(w)
  BY <1>5, ForgetScanTypes, Untouched DEF ReapEnds, TypeOK
<1>6. ASSUME NEW t \in Tasks, Reap(w, t) PROVE TypeOK'
  BY <1>6, ReapTypes
<1>7. ASSUME NEW t \in Tasks, ReapMisses(w, t) PROVE TypeOK'
  <2>1. LoopTypes'
    BY <1>7 DEF ReapMisses, TypeOK, LoopTypes, beatVars
  <2>2. QED
    BY <1>7, <2>1, Untouched DEF ReapMisses, TypeOK
<1>8. ASSUME NEW t \in Tasks, ReapBreaks(w, t) PROVE TypeOK'
  BY <1>8, ForgetScanTypes, Untouched DEF ReapBreaks, TypeOK
<1>9. CASE TickFails(w)
  <2>1. LoopTypes' /\ faults' \in 0..MaxFaults
    BY <1>9, AgeRange DEF TickFails, Fault, ForgetScan, TypeOK, LoopTypes
  <2>2. QED
    BY <1>9, <2>1, Untouched DEF TickFails, TypeOK
<1>10. QED
  BY <1>1, <1>2, <1>3, <1>4, <1>5, <1>6, <1>7, <1>8, <1>9 DEF LoopStep, ReapStep

LEMMA CrashTypes ==
    ASSUME TypeOK, NEW w \in Workers, Crash(w)
    PROVE  TypeOK'
<1>1. RequestTypes'
  BY DEF Crash, TypeOK, RequestTypes
<1>2. LoopTypes'
  BY AgeRange DEF Crash, ForgetScan, TypeOK, LoopTypes
<1>3. faults' \in 0..MaxFaults
  BY DEF Crash, Fault, TypeOK
<1>4. QED
  BY <1>1, <1>2, <1>3, Untouched DEF Crash, TypeOK

LEMMA TickTypes ==
    ASSUME TypeOK, Tick
    PROVE  TypeOK'
<1>1. RowTypes'
  BY OlderAge DEF Tick, TypeOK, RowTypes
<1>2. ASSUME NEW w \in Workers
      PROVE  /\ sinceBeat'[w] \in 0..MaxGap
             /\ beatAge'[w] \in 0..MaxGap /\ beatAge'[w] <= sinceBeat'[w]
             /\ scanAge'[w] \in 0..MaxGap /\ scanAge'[w] <= sinceBeat'[w]
             /\ loop[w] # "reaping" => scanAge'[w] = 0
  BY DEF Tick, TypeOK, RequestTypes, LoopTypes
<1>3. /\ sinceBeat' = [w \in Workers |-> sinceBeat'[w]]
      /\ beatAge' = [w \in Workers |-> beatAge'[w]]
      /\ scanAge' = [w \in Workers |-> scanAge'[w]]
  BY DEF Tick
<1>4. LoopTypes'
  BY <1>2, <1>3 DEF Tick, TypeOK, LoopTypes
<1>5. QED
  BY <1>1, <1>4, Untouched DEF Tick, TypeOK

\* Every reachable state is well typed: attempts never exceed MaxAttempts, ages
\* stay in their range, and no heartbeat or scan is older than its worker's last
\* landed heartbeat.
THEOREM TypeCorrect == Spec => []TypeOK
<1>1. Init => TypeOK
  BY AgeRange DEF Init, TypeOK, RowTypes, RequestTypes, LoopTypes, ExeStatus
<1>2. TypeOK /\ [Next]_vars => TypeOK'
  <2> SUFFICES ASSUME TypeOK, [Next]_vars PROVE TypeOK'
    OBVIOUS
  <2>1. ASSUME NEW t \in Tasks, RequestStep(t) \/ RequestError(t) PROVE TypeOK'
    BY <2>1, RequestStepTypes
  <2>2. ASSUME NEW t \in Tasks, NEW w \in Workers, Submit(w, t) PROVE TypeOK'
    <3>1. RowTypes' /\ RequestTypes'
      BY <2>2, AgeRange DEF Submit, TypeOK, RowTypes, RequestTypes, Unfinished
    <3>2. QED
      BY <2>2, <3>1, Untouched DEF Submit, TypeOK
  <2>3. ASSUME NEW w \in Workers, LoopStep(w) \/ TickFails(w) PROVE TypeOK'
    BY <2>3, LoopStepTypes
  <2>4. ASSUME NEW w \in Workers, Crash(w) PROVE TypeOK'
    BY <2>4, CrashTypes
  <2>5. ASSUME NEW w \in Workers, Restart(w) PROVE TypeOK'
    <3>1. RequestTypes' /\ LoopTypes'
      BY <2>5 DEF Restart, TypeOK, RequestTypes, LoopTypes, reqVars, loopVars, beatVars, scanVars
    <3>2. QED
      BY <2>5, <3>1, Untouched DEF Restart, TypeOK
  <2>6. ASSUME NEW n \in Nodes, DeleteNode(n) PROVE TypeOK'
    <3>1. RowTypes' /\ faults' \in 0..MaxFaults
      BY <2>6 DEF DeleteNode, Fault, TypeOK, RowTypes, ExeStatus
    <3>2. QED
      BY <2>6, <3>1, Untouched DEF DeleteNode, TypeOK
  <2>7. CASE Tick
    BY <2>7, TickTypes
  <2>8. CASE UNCHANGED vars
    BY <2>8, Untouched DEF vars, TypeOK
  <2>9. QED
    BY <2>1, <2>2, <2>3, <2>4, <2>5, <2>6, <2>7, <2>8 DEF Next
<1>3. QED
  BY <1>1, <1>2, PTL DEF Spec

--------------------------------------------------------------------------------
(* A held lease never lapses                                                  *)

\* Letting go of a task, with the rest of its row possibly rewritten.
LEMMA EndRequestLease ==
    ASSUME TypeOK, LeaseInv, NEW t \in Tasks, at[t] # "none", EndRequest(t),
           UNCHANGED <<up, loopVars>>,
           \A s \in Tasks \ {t} : status'[s] = status[s] /\ age'[s] = age[s],
           status'[t] # "absent"
    PROVE  LeaseInv'
<1>1. owner[t] \in Workers
  BY DEF LeaseInv, Holding, TypeOK, RequestTypes
<1>2. \A w \in Workers : live'[w] = live[w] \ {t}
  BY <1>1 DEF EndRequest, LeaseInv, Holding, TypeOK, RequestTypes
<1>3. \A s \in Tasks : owner'[s] = IF s = t THEN NoWorker ELSE owner[s]
  BY DEF EndRequest, TypeOK, RequestTypes
<1>4. \A s \in Tasks : at'[s] = IF s = t THEN "none" ELSE at[s]
  BY DEF EndRequest, TypeOK, RequestTypes
<1>5. Holding'
  BY <1>1, <1>2, <1>3, <1>4 DEF LeaseInv, Holding, loopVars, beatVars
<1>6. Beating'
  <2>1. UNCHANGED <<loop, sinceBeat, beatSet, beatAge, todo>>
    BY DEF loopVars, beatVars, scanVars
  <2>2. ASSUME NEW w \in Workers, loop[w] = "beating", NEW s \in live'[w] \ beatSet[w]
        PROVE  age'[s] <= beatAge[w]
    BY <1>2, <2>2 DEF LeaseInv, Beating, TypeOK, RequestTypes
  <2>3. ASSUME NEW w \in Workers, NEW s \in Tasks, status[s] # "absent"
        PROVE  status'[s] # "absent"
    BY <2>3
  <2>4. ASSUME NEW w \in Workers
        PROVE  /\ \A s \in beatSet[w] : status'[s] # "absent" /\ owner'[s] \in {w, NoWorker}
               /\ \A s \in todo[w] : status'[s] # "absent" /\ owner'[s] = NoWorker
    BY <1>3, <2>3 DEF LeaseInv, Beating, TypeOK, LoopTypes
  <2>5. QED
    BY <2>1, <2>2, <2>4 DEF Beating
<1>7. QED
  BY <1>5, <1>6 DEF LeaseInv

\* Moving a request along: its task stays unfinished and the lease as it is.
LEMMA ProgressLease ==
    ASSUME TypeOK, LeaseInv, NEW t \in Tasks, at[t] # "none",
           NEW a \in {"external", "next", "dispatch", "won"}, at' = [at EXCEPT ![t] = a],
           \A s \in Tasks \ {t} : status'[s] = status[s],
           status'[t] \in Unfinished,
           UNCHANGED <<age, up, live, owner, loopVars>>
    PROVE  LeaseInv'
<1>1. \A s \in Tasks : at'[s] = IF s = t THEN a ELSE at[s]
  BY DEF TypeOK, RequestTypes
<1>2. Holding'
  BY <1>1 DEF LeaseInv, Holding, loopVars, beatVars
<1>3. Beating'
  BY DEF LeaseInv, Beating, Unfinished, TypeOK, LoopTypes, loopVars, beatVars, scanVars
<1>4. QED
  BY <1>2, <1>3 DEF LeaseInv

LEMMA FinishLease ==
    ASSUME TypeOK, LeaseInv, NEW t \in Tasks, NEW o \in Finished, at[t] # "none", Finish(t, o)
    PROVE  LeaseInv'
  BY EndRequestLease DEF Finish, Finished, TypeOK, RowTypes

LEMMA RequestStepLease ==
    ASSUME TypeOK, LeaseInv, NEW t \in Tasks, RequestStep(t) \/ RequestError(t)
    PROVE  LeaseInv'
<1> USE DEF TypeOK
<1>0. at[t] # "none" => status[t] \in Unfinished
  BY DEF LeaseInv, Holding
<1>1. CASE Answer(t)
  BY <1>1, FinishLease DEF Answer
<1>2. CASE CallExternal(t)
  BY <1>2, ProgressLease DEF CallExternal, RowTypes, Unfinished
<1>3. CASE Route(t)
  BY <1>0, <1>3, ProgressLease DEF Route, rowVars
<1>4. CASE GiveUp(t)
  BY <1>4, FinishLease DEF GiveUp, Finished
<1>5. CASE Attempt(t)
  <2>1. at[t] # "none" /\ at' = [at EXCEPT ![t] = "dispatch"]
    BY <1>5 DEF Attempt
  <2>2. status'[t] \in Unfinished /\ \A s \in Tasks \ {t} : status'[s] = status[s]
    BY <1>0, <1>5 DEF Attempt, RowTypes, Unfinished
  <2>3. UNCHANGED <<age, up, live, owner, loopVars>>
    BY <1>5 DEF Attempt
  <2>4. QED
    BY <2>1, <2>2, <2>3, ProgressLease
<1>6. CASE AttemptFails(t) \/ AttemptSucceeds(t)
  BY <1>0, <1>6, ProgressLease DEF AttemptFails, AttemptSucceeds, CloseAttempt
<1>7. CASE FinishWon(t)
  BY <1>7, FinishLease DEF FinishWon, Finished
<1>8. CASE RequestBreaks(t) \/ RequestError(t)
  <2>1. at[t] # "none" /\ EndRequest(t) /\ UNCHANGED <<rowVars, up, loopVars>>
    BY <1>8 DEF RequestBreaks, RequestError, RowGone, Abort
  <2>2. status'[t] # "absent"
    BY <1>0, <2>1 DEF rowVars, Unfinished
  <2>3. QED
    BY <2>1, <2>2, EndRequestLease DEF rowVars
<1>9. QED
  BY <1>1, <1>2, <1>3, <1>4, <1>5, <1>6, <1>7, <1>8 DEF RequestStep

LEMMA SubmitLease ==
    ASSUME TypeOK, LeaseInv, NEW t \in Tasks, NEW w \in Workers, Submit(w, t)
    PROVE  LeaseInv'
<1>1. owner[t] = NoWorker
  BY DEF Submit, LeaseInv, Holding, Unfinished
<1>2. \A v \in Workers : live'[v] = IF v = w THEN live[v] \cup {t} ELSE live[v]
  BY DEF Submit, TypeOK, RequestTypes
<1>3. \A s \in Tasks : /\ owner'[s] = IF s = t THEN w ELSE owner[s]
                       /\ at'[s] = IF s = t THEN "start" ELSE at[s]
                       /\ status'[s] = IF s = t THEN "queued" ELSE status[s]
                       /\ age'[s] = IF s = t THEN 0 ELSE age[s]
  BY DEF Submit, TypeOK, RowTypes, RequestTypes
<1>4. UNCHANGED <<up, loop, sinceBeat, beatSet, beatAge, todo>>
  BY DEF Submit, loopVars, beatVars, scanVars
<1>5. Holding'
  <2>1. \A v \in Workers : t \in live'[v] <=> owner'[t] = v
    <3>1. \A v \in Workers : t \notin live[v]
      BY <1>1 DEF LeaseInv, Holding
    <3>2. QED
      BY <1>2, <1>3, <3>1
  <2>2. \A v \in Workers : 0 <= sinceBeat[v]
    BY DEF TypeOK, LoopTypes
  <2>3. w \in up
    BY DEF Submit
  <2>4. owner'[t] = w /\ w # NoWorker /\ at'[t] = "start" /\ status'[t] = "queued" /\ age'[t] = 0
    BY <1>3
  <2>5. ASSUME NEW s \in Tasks, s # t
        PROVE  /\ owner'[s] = owner[s] /\ at'[s] = at[s] /\ status'[s] = status[s] /\ age'[s] = age[s]
               /\ \A v \in Workers : s \in live'[v] <=> s \in live[v]
    BY <1>2, <1>3, <2>5
  <2>6. ASSUME NEW s \in Tasks, s # t
        PROVE  /\ owner'[s] = NoWorker <=> at'[s] = "none"
               /\ \A v \in Workers : s \in live'[v] <=> owner'[s] = v
               /\ owner'[s] # NoWorker =>
                     owner'[s] \in up /\ status'[s] \in Unfinished /\ age'[s] <= sinceBeat[owner'[s]]
    BY <2>5, <2>6 DEF LeaseInv, Holding
  <2>7. QED
    BY <1>4, <2>1, <2>2, <2>3, <2>4, <2>6 DEF Holding, Unfinished
<1>6. Beating'
  <2>1. \A v \in Workers : t \notin beatSet[v] /\ t \notin todo[v]
    BY DEF Submit, LeaseInv, Beating
  <2>2. \A v \in Workers : 0 <= beatAge[v]
    BY DEF TypeOK, LoopTypes
  <2>3. ASSUME NEW v \in Workers, loop[v] = "beating", NEW s \in live'[v] \ beatSet[v]
        PROVE  age'[s] <= beatAge[v]
    <3>1. CASE s = t
      BY <1>3, <2>2, <3>1
    <3>2. CASE s # t
      <4>1. s \in live[v] \ beatSet[v] /\ s \in Tasks
        <5>1. live'[v] = live[v] \/ live'[v] = live[v] \cup {t}
          BY <1>2
        <5>2. s \in live[v]
          BY <2>3, <3>2, <5>1
        <5>3. QED
          BY <2>3, <5>2 DEF TypeOK, RequestTypes
      <4>2. age[s] <= beatAge[v]
        BY <2>3, <4>1 DEF LeaseInv, Beating
      <4>3. QED
        BY <1>3, <3>2, <4>1, <4>2
    <3>3. QED
      BY <3>1, <3>2
  <2>4. ASSUME NEW v \in Workers
        PROVE  /\ \A s \in beatSet[v] : status'[s] # "absent" /\ owner'[s] \in {v, NoWorker}
               /\ \A s \in todo[v] : status'[s] # "absent" /\ owner'[s] = NoWorker
    BY <1>3, <2>1 DEF LeaseInv, Beating, TypeOK, LoopTypes
  <2>5. QED
    BY <1>4, <2>3, <2>4 DEF Beating
<1>7. QED
  BY <1>5, <1>6 DEF LeaseInv

\* Steps that change no row and no request, and forget heartbeats or scans.
LEMMA IdleLease ==
    ASSUME TypeOK, LeaseInv, UNCHANGED <<rowVars, up, live, reqVars, sinceBeat>>,
           \A w \in Workers :
              /\ loop'[w] = "beating" => loop[w] = "beating" /\ beatSet'[w] = beatSet[w]
                                         /\ beatAge'[w] = beatAge[w]
              /\ beatSet'[w] \subseteq beatSet[w] /\ todo'[w] \subseteq todo[w]
    PROVE  LeaseInv'
<1>1. Holding'
  BY DEF LeaseInv, Holding, rowVars, reqVars
<1>2. Beating'
  BY DEF LeaseInv, Beating, TypeOK, LoopTypes, rowVars, reqVars
<1>3. QED
  BY <1>1, <1>2 DEF LeaseInv

\* What the reaper finds stale is held by nobody: a held lease is at most as old
\* as its holder's last heartbeat, MaxGap at most.
LEMMA StaleIsOrphaned ==
    ASSUME TypeOK, LeaseInv, NEW t \in Tasks, NEW d \in 0..MaxGap, Stale(t, d)
    PROVE  owner[t] = NoWorker /\ status[t] # "absent"
<1>1. ASSUME owner[t] # NoWorker PROVE FALSE
  <2>1. owner[t] \in Workers /\ age[t] <= sinceBeat[owner[t]]
    BY <1>1 DEF LeaseInv, Holding, TypeOK, RequestTypes
  <2>2. sinceBeat[owner[t]] <= MaxGap /\ sinceBeat[owner[t]] \in Nat
    BY <2>1 DEF TypeOK, LoopTypes
  <2>3. age[t] \in Nat
    BY DEF TypeOK, RowTypes, Oldest
  <2>4. QED
    BY <2>1, <2>2, <2>3 DEF Stale
<1>2. QED
  BY <1>1 DEF Stale, Unfinished

LEMMA ReapLease ==
    ASSUME TypeOK, LeaseInv, NEW w \in Workers, NEW t \in Tasks, Reap(w, t)
    PROVE  LeaseInv'
<1>1. owner[t] = NoWorker
  BY DEF Reap, LeaseInv, Beating
<1>2. \A s \in Tasks : s # t => status'[s] = status[s] /\ age'[s] = age[s]
  BY DEF Reap, TypeOK, RowTypes
<1>3. status'[t] = "failed"
  BY DEF Reap, TypeOK, RowTypes
<1>4. UNCHANGED <<up, live, owner, at, loop, sinceBeat, beatSet, beatAge>>
  BY DEF Reap, reqVars, beatVars
<1>5. Holding'
  BY <1>1, <1>2, <1>4 DEF LeaseInv, Holding
<1>6. Beating'
  <2>1. \A v \in Workers : t \notin live[v]
    BY <1>1 DEF LeaseInv, Holding, TypeOK, RequestTypes
  <2>2. \A v \in Workers : todo'[v] \subseteq todo[v]
    BY DEF Reap, TypeOK, LoopTypes
  <2>3. ASSUME NEW v \in Workers, NEW s \in live[v] \ beatSet[v] PROVE age'[s] = age[s]
    BY <1>2, <2>1, <2>3 DEF TypeOK, RequestTypes
  <2>4. ASSUME NEW v \in Workers, NEW s \in todo'[v] PROVE s \in todo[v] /\ s \in Tasks
    BY <2>2, <2>4 DEF TypeOK, LoopTypes
  <2>5. \A s \in Tasks : status[s] # "absent" => status'[s] # "absent"
    BY <1>2, <1>3
  <2>6. \A v \in Workers : beatSet[v] \subseteq Tasks
    BY DEF TypeOK, LoopTypes
  <2>7. Beating
    BY DEF LeaseInv
  <2>8. QED
    BY <1>4, <2>3, <2>4, <2>5, <2>6, <2>7 DEF Beating
<1>7. QED
  BY <1>5, <1>6 DEF LeaseInv

LEMMA BeatStartLease ==
    ASSUME TypeOK, LeaseInv, NEW w \in Workers, BeatStart(w)
    PROVE  LeaseInv'
<1>1. Holding'
  BY DEF BeatStart, LeaseInv, Holding, rowVars, reqVars
<1>2. \A v \in Workers : /\ beatSet'[v] = IF v = w THEN live[v] ELSE beatSet[v]
                         /\ beatAge'[v] = IF v = w THEN 0 ELSE beatAge[v]
                         /\ v # w => loop'[v] = loop[v]
  BY DEF BeatStart, TypeOK, LoopTypes
<1>3. \A t \in live[w] : owner[t] = w /\ status[t] # "absent"
  BY DEF LeaseInv, Holding, TypeOK, RequestTypes, Unfinished
<1>4. Beating'
  BY <1>2, <1>3 DEF BeatStart, LeaseInv, Beating, rowVars, reqVars, scanVars
<1>5. QED
  BY <1>1, <1>4 DEF LeaseInv

\* The heartbeat in flight covers every task still held when it lands.
LEMMA BeatLandsLease ==
    ASSUME TypeOK, LeaseInv, NEW w \in Workers, BeatLands(w)
    PROVE  LeaseInv'
<1>1. /\ sinceBeat'[w] = beatAge[w] /\ beatSet'[w] = {} /\ loop'[w] = "beaten"
      /\ \A v \in Workers \ {w} : /\ sinceBeat'[v] = sinceBeat[v] /\ beatSet'[v] = beatSet[v]
                                  /\ beatAge'[v] = beatAge[v] /\ loop'[v] = loop[v]
  BY DEF BeatLands, TypeOK, LoopTypes
<1>2. UNCHANGED <<status, up, live, owner, at, todo>>
  BY DEF BeatLands, reqVars, scanVars
<1>3. ASSUME NEW t \in Tasks, owner[t] # NoWorker
      PROVE  age'[t] <= sinceBeat'[owner[t]]
  <2>1. status[t] \in Unfinished /\ owner[t] \in Workers /\ age[t] <= sinceBeat[owner[t]]
    BY <1>3 DEF LeaseInv, Holding, TypeOK, RequestTypes
  <2>2. CASE owner[t] = w
    <3>1. t \in beatSet[w] \/ age[t] <= beatAge[w]
      BY <2>2 DEF BeatLands, LeaseInv, Holding, Beating
    <3>2. beatAge[w] <= beatAge[w]
      BY DEF TypeOK, LoopTypes
    <3>3. QED
      BY <1>1, <2>1, <2>2, <3>1, <3>2 DEF BeatLands
  <2>3. CASE owner[t] # w
    <3>1. t \notin beatSet[w]
      BY <1>3, <2>3 DEF LeaseInv, Beating
    <3>2. QED
      BY <1>1, <2>1, <2>3, <3>1 DEF BeatLands
  <2>4. QED
    BY <2>2, <2>3
<1>4. Holding'
  BY <1>2, <1>3 DEF LeaseInv, Holding
<1>5. Beating'
  <2>1. ASSUME NEW v \in Workers \ {w}, NEW t \in live[v] PROVE age'[t] = age[t]
    BY <2>1 DEF BeatLands, LeaseInv, Holding, Beating, TypeOK, RequestTypes
  <2>2. QED
    BY <1>1, <1>2, <2>1 DEF LeaseInv, Beating
<1>6. QED
  BY <1>4, <1>5 DEF LeaseInv

LEMMA LoopStepLease ==
    ASSUME TypeOK, LeaseInv, NEW w \in Workers, LoopStep(w) \/ TickFails(w)
    PROVE  LeaseInv'
<1>1. CASE BeatStart(w)
  BY <1>1, BeatStartLease
<1>2. CASE BeatLands(w)
  BY <1>2, BeatLandsLease
<1>3. CASE StandDown(w)
  BY <1>3, IdleLease DEF StandDown, TypeOK, LoopTypes, beatVars, scanVars
<1>4. CASE Select(w)
  <2>1. Holding'
    BY <1>4 DEF Select, LeaseInv, Holding, rowVars, reqVars, beatVars
  <2>2. \A t \in todo'[w] : status[t] # "absent" /\ owner[t] = NoWorker
    BY <1>4, StaleIsOrphaned, AgeRange DEF Select, TypeOK, LoopTypes
  <2>3. \A v \in Workers \ {w} : todo'[v] = todo[v] /\ loop'[v] = loop[v]
    BY <1>4 DEF Select, TypeOK, LoopTypes
  <2>4. loop'[w] = "reaping" /\ UNCHANGED <<rowVars, live, owner, beatVars>>
    BY <1>4 DEF Select, TypeOK, LoopTypes, reqVars
  <2>5. Beating'
    BY <2>2, <2>3, <2>4 DEF LeaseInv, Beating, rowVars, beatVars
  <2>6. QED
    BY <2>1, <2>5 DEF LeaseInv
<1>5. CASE ReapEnds(w)
  BY <1>5, IdleLease DEF ReapEnds, ForgetScan, TypeOK, LoopTypes, beatVars
<1>6. ASSUME NEW t \in Tasks, Reap(w, t) PROVE LeaseInv'
  BY <1>6, ReapLease
<1>7. ASSUME NEW t \in Tasks, ReapMisses(w, t) PROVE LeaseInv'
  BY <1>7, IdleLease DEF ReapMisses, TypeOK, LoopTypes, beatVars
<1>8. ASSUME NEW t \in Tasks, ReapBreaks(w, t) PROVE LeaseInv'
  BY <1>8, IdleLease DEF ReapBreaks, ForgetScan, TypeOK, LoopTypes, beatVars
<1>9. CASE TickFails(w)
  BY <1>9, IdleLease DEF TickFails, ForgetScan, TypeOK, LoopTypes
<1>10. QED
  BY <1>1, <1>2, <1>3, <1>4, <1>5, <1>6, <1>7, <1>8, <1>9 DEF LoopStep, ReapStep

\* A dead worker holds nothing.
LEMMA CrashLease ==
    ASSUME TypeOK, LeaseInv, NEW w \in Workers, Crash(w)
    PROVE  LeaseInv'
<1>1. \A t \in Tasks : /\ owner'[t] = IF owner[t] = w THEN NoWorker ELSE owner[t]
                       /\ at'[t] = IF owner[t] = w THEN "none" ELSE at[t]
  BY DEF Crash
<1>2. /\ live'[w] = {} /\ beatSet'[w] = {} /\ todo'[w] = {} /\ loop'[w] = "sleep"
      /\ \A v \in Workers \ {w} :
            /\ live'[v] = live[v] /\ beatSet'[v] = beatSet[v] /\ todo'[v] = todo[v]
            /\ sinceBeat'[v] = sinceBeat[v] /\ beatAge'[v] = beatAge[v] /\ loop'[v] = loop[v]
  BY DEF Crash, ForgetScan, TypeOK, RequestTypes, LoopTypes
<1>3. up' = up \ {w} /\ UNCHANGED <<status, age>>
  BY DEF Crash, rowVars
<1>4. \A t \in Tasks : owner[t] \in Workers \cup {NoWorker}
  BY DEF TypeOK, RequestTypes
<1>5. Holding'
  BY <1>1, <1>2, <1>3, <1>4 DEF LeaseInv, Holding
<1>6. Beating'
  <2>1. ASSUME NEW v \in Workers, v # w
        PROVE  /\ loop'[v] = "beating" => \A t \in live'[v] \ beatSet'[v] : age'[t] <= beatAge'[v]
               /\ \A t \in beatSet'[v] : status'[t] # "absent" /\ owner'[t] \in {v, NoWorker}
               /\ \A t \in todo'[v] : status'[t] # "absent" /\ owner'[t] = NoWorker
    <3>1. /\ loop[v] = "beating" => \A t \in live[v] \ beatSet[v] : age[t] <= beatAge[v]
          /\ \A t \in beatSet[v] : t \in Tasks /\ status[t] # "absent" /\ owner[t] \in {v, NoWorker}
          /\ \A t \in todo[v] : t \in Tasks /\ status[t] # "absent" /\ owner[t] = NoWorker
      BY DEF LeaseInv, Beating, TypeOK, LoopTypes
    <3>2. /\ live'[v] = live[v] /\ beatSet'[v] = beatSet[v] /\ todo'[v] = todo[v]
          /\ beatAge'[v] = beatAge[v] /\ loop'[v] = loop[v]
      BY <1>2, <2>1
    <3>3. QED
      BY <1>1, <1>3, <3>1, <3>2
  <2>2. QED
    BY <1>2, <2>1 DEF Beating
<1>7. QED
  BY <1>5, <1>6 DEF LeaseInv

\* Time ages a held lease and its holder's heartbeat alike.
LEMMA TickLease ==
    ASSUME TypeOK, LeaseInv, Tick
    PROVE  LeaseInv'
<1>1. \A t \in Tasks : age'[t] \in Nat /\ age'[t] <= age[t] + 1 /\ age[t] \in Nat
  BY OlderAge DEF Tick, TypeOK, RowTypes, Oldest
<1>2. \A w \in Workers : /\ sinceBeat[w] \in Nat /\ beatAge[w] \in Nat
                         /\ w \in up => sinceBeat'[w] = sinceBeat[w] + 1
                         /\ loop[w] = "beating" => beatAge'[w] = beatAge[w] + 1
  BY DEF Tick, TypeOK, LoopTypes
<1>3. UNCHANGED <<status, up, live, owner, at, loop, beatSet, todo>>
  BY DEF Tick, reqVars
<1>4. Holding'
  <2>1. \A t \in Tasks : owner[t] # NoWorker => age'[t] <= sinceBeat'[owner[t]]
    BY <1>1, <1>2 DEF LeaseInv, Holding, TypeOK, RequestTypes
  <2>2. QED
    BY <1>3, <2>1 DEF LeaseInv, Holding
<1>5. Beating'
  <2>1. \A w \in Workers : loop[w] = "beating" =>
            \A t \in live[w] \ beatSet[w] : age'[t] <= beatAge'[w]
    BY <1>1, <1>2 DEF LeaseInv, Beating, TypeOK, RequestTypes
  <2>2. QED
    BY <1>3, <2>1 DEF LeaseInv, Beating
<1>6. QED
  BY <1>4, <1>5 DEF LeaseInv

\* The inductive invariant of the lease protocol.
THEOREM LeaseInvariant == Spec => []LeaseInv
<1>1. Init => LeaseInv
  BY DEF Init, LeaseInv, Holding, Beating
<1>2. TypeOK /\ LeaseInv /\ [Next]_vars => LeaseInv'
  <2> SUFFICES ASSUME TypeOK, LeaseInv, [Next]_vars PROVE LeaseInv'
    OBVIOUS
  <2>1. ASSUME NEW t \in Tasks, RequestStep(t) \/ RequestError(t) PROVE LeaseInv'
    BY <2>1, RequestStepLease
  <2>2. ASSUME NEW t \in Tasks, NEW w \in Workers, Submit(w, t) PROVE LeaseInv'
    BY <2>2, SubmitLease
  <2>3. ASSUME NEW w \in Workers, LoopStep(w) \/ TickFails(w) PROVE LeaseInv'
    BY <2>3, LoopStepLease
  <2>4. ASSUME NEW w \in Workers, Crash(w) PROVE LeaseInv'
    BY <2>4, CrashLease
  <2>5. ASSUME NEW w \in Workers, Restart(w) PROVE LeaseInv'
    BY <2>5 DEF Restart, LeaseInv, Holding, Beating, rowVars, reqVars, loopVars, beatVars, scanVars
  <2>6. ASSUME NEW n \in Nodes, DeleteNode(n) PROVE LeaseInv'
    BY <2>6 DEF DeleteNode, LeaseInv, Holding, Beating, reqVars, loopVars, beatVars, scanVars
  <2>7. CASE Tick
    BY <2>7, TickLease
  <2>8. CASE UNCHANGED vars
    BY <2>8 DEF vars, LeaseInv, Holding, Beating, rowVars, reqVars, loopVars, beatVars, scanVars
  <2>9. QED
    BY <2>1, <2>2, <2>3, <2>4, <2>5, <2>6, <2>7, <2>8 DEF Next
<1>3. QED
  BY <1>1, <1>2, TypeCorrect, PTL DEF Spec

\* A task that a worker executes is never reaped, and no reaper has it on its
\* list, however long its dispatch takes (docstring of reap_stale_tasks).
THEOREM LeaseSafety == Spec => []LeaseHeld
<1>1. TypeOK /\ LeaseInv => LeaseHeld
  <2> SUFFICES ASSUME TypeOK, LeaseInv, NEW t \in Tasks, owner[t] # NoWorker
               PROVE  /\ status[t] \in Unfinished
                      /\ age[t] <= StaleAfter
                      /\ \A w \in Workers : t \notin todo[w]
    BY DEF LeaseHeld
  <2>1. status[t] \in Unfinished /\ age[t] <= sinceBeat[owner[t]] /\ owner[t] \in Workers
    BY DEF LeaseInv, Holding, TypeOK, RequestTypes
  <2>2. sinceBeat[owner[t]] \in 0..MaxGap /\ age[t] \in Nat
    BY <2>1 DEF TypeOK, LoopTypes, RowTypes, Oldest
  <2>3. \A w \in Workers : t \notin todo[w]
    BY DEF LeaseInv, Beating
  <2>4. QED
    BY <2>1, <2>2, <2>3
<1>2. QED
  BY <1>1, TypeCorrect, LeaseInvariant, PTL

--------------------------------------------------------------------------------
(* The trace                                                                  *)

\* Ending a request whose task has no running attempt, or stays unfinished.
LEMMA EndRequestTrace ==
    ASSUME TypeOK, LeaseInv, TraceInv, NEW t \in Tasks, at[t] # "none", EndRequest(t),
           UNCHANGED <<exe, todo, seen>>,
           \A s \in Tasks \ {t} : status'[s] = status[s],
           status'[t] # "absent",
           at[t] = "dispatch" => status'[t] \in Unfinished
    PROVE  TraceInv'
<1>1. \A s \in Tasks : /\ owner'[s] = IF s = t THEN NoWorker ELSE owner[s]
                       /\ at'[s] = IF s = t THEN "none" ELSE at[s]
                       /\ s # t => node'[s] = node[s]
  BY DEF EndRequest, TypeOK, RequestTypes
<1>2. owner[t] # NoWorker
  BY DEF LeaseInv, Holding
<1>3. Attempted'
  BY <1>1, <1>2 DEF TraceInv, Attempted
<1>4. QED
  BY <1>3 DEF TraceInv, Snapshots, AttemptsSerial

\* Moving a request along without touching its attempts.
LEMMA ProgressTrace ==
    ASSUME TypeOK, LeaseInv, TraceInv, NEW t \in Tasks, at[t] = "start",
           NEW a \in {"external", "next"}, at' = [at EXCEPT ![t] = a],
           \A s \in Tasks \ {t} : status'[s] = status[s],
           status'[t] \in Unfinished,
           UNCHANGED <<exe, owner, node, todo, seen>>
    PROVE  TraceInv'
<1>1. \A s \in Tasks : at'[s] = IF s = t THEN a ELSE at[s]
  BY DEF TypeOK, RequestTypes
<1>2. owner[t] # NoWorker
  BY DEF LeaseInv, Holding
<1>3. Attempted'
  BY <1>1, <1>2 DEF TraceInv, Attempted, Unfinished
<1>4. QED
  BY <1>3 DEF TraceInv, Snapshots, AttemptsSerial

\* An attempt is only opened when the task has none open or won.
LEMMA AttemptTrace ==
    ASSUME TypeOK, LeaseInv, TraceInv, NEW t \in Tasks, Attempt(t)
    PROVE  TraceInv'
<1>1. PICK n \in Nodes : exe' = [exe EXCEPT ![t][n] = "running"] /\ node' = [node EXCEPT ![t] = n]
  BY DEF Attempt, TypeOK, RowTypes
<1>2. owner[t] # NoWorker /\ status[t] \in Unfinished /\ at[t] = "next"
  BY DEF Attempt, LeaseInv, Holding
<1>3. \A m \in Nodes : exe[t][m] \notin {"running", "succeeded"}
  BY <1>2 DEF TraceInv, Attempted
<1>4. \A s \in Tasks, m \in Nodes :
          exe'[s][m] = IF s = t /\ m = n THEN "running" ELSE exe[s][m]
  BY <1>1 DEF TypeOK, RowTypes
<1>5. \A s \in Tasks : /\ at'[s] = IF s = t THEN "dispatch" ELSE at[s]
                       /\ node'[s] = IF s = t THEN n ELSE node[s]
                       /\ s # t => status'[s] = status[s]
  BY <1>1 DEF Attempt, TypeOK, RowTypes, RequestTypes
<1>6. status'[t] \in Unfinished
  BY <1>2 DEF Attempt, TypeOK, RowTypes, Unfinished
<1>7. UNCHANGED <<owner, todo, seen>>
  BY DEF Attempt, loopVars, scanVars
<1>8. Attempted'
  BY <1>2, <1>3, <1>4, <1>5, <1>6, <1>7 DEF TraceInv, Attempted, Unfinished
<1>9. Snapshots'
  <2>1. \A w \in Workers : t \notin todo[w]
    BY <1>2 DEF LeaseInv, Beating
  <2>2. QED
    BY <1>4, <1>7, <2>1 DEF TraceInv, Snapshots, TypeOK, LoopTypes
<1>10. AttemptsSerial'
  BY <1>3, <1>4 DEF TraceInv, AttemptsSerial
<1>11. QED
  BY <1>8, <1>9, <1>10 DEF TraceInv

LEMMA CloseAttemptTrace ==
    ASSUME TypeOK, LeaseInv, TraceInv, NEW t \in Tasks, AttemptFails(t) \/ AttemptSucceeds(t)
    PROVE  TraceInv'
<1>1. PICK r \in {"failed", "succeeded"}, a \in {"next", "won"} :
          CloseAttempt(t, r, a) /\ (r = "succeeded" => a = "won")
  BY DEF AttemptFails, AttemptSucceeds
<1>2. owner[t] # NoWorker /\ status[t] \in Unfinished /\ at[t] = "dispatch" /\ node[t] \in Nodes
  BY <1>1 DEF CloseAttempt, LeaseInv, Holding, TraceInv, Attempted
<1>3. \A m \in Nodes \ {node[t]} : exe[t][m] \notin {"running", "succeeded"}
  BY <1>2 DEF TraceInv, Attempted
<1>4. \A s \in Tasks, m \in Nodes :
          exe'[s][m] = IF s = t /\ m = node[t] THEN r ELSE exe[s][m]
  BY <1>1, <1>2 DEF CloseAttempt, TypeOK, RowTypes
<1>5. \A s \in Tasks : at'[s] = IF s = t THEN a ELSE at[s]
  BY <1>1 DEF CloseAttempt, TypeOK, RequestTypes
<1>6. UNCHANGED <<status, owner, node, todo, seen>>
  BY <1>1 DEF CloseAttempt, loopVars, scanVars
<1>7. Attempted'
  BY <1>1, <1>2, <1>3, <1>4, <1>5, <1>6 DEF TraceInv, Attempted, Unfinished
<1>8. Snapshots'
  BY <1>4, <1>6 DEF TraceInv, Snapshots, TypeOK, LoopTypes
<1>9. AttemptsSerial'
  BY <1>2, <1>3, <1>4 DEF TraceInv, AttemptsSerial
<1>10. QED
  BY <1>7, <1>8, <1>9 DEF TraceInv

LEMMA FinishTrace ==
    ASSUME TypeOK, LeaseInv, TraceInv, NEW t \in Tasks, NEW o \in Finished,
           at[t] \notin {"none", "dispatch"}, Finish(t, o)
    PROVE  TraceInv'
<1>1. EndRequest(t) /\ UNCHANGED <<exe, todo, seen>>
  BY DEF Finish, loopVars, scanVars
<1>2. \A s \in Tasks : status'[s] = IF s = t THEN o ELSE status[s]
  BY DEF Finish, TypeOK, RowTypes
<1>3. QED
  BY <1>1, <1>2, EndRequestTrace DEF Finished

LEMMA RequestStepTrace ==
    ASSUME TypeOK, LeaseInv, TraceInv, NEW t \in Tasks, RequestStep(t) \/ RequestError(t)
    PROVE  TraceInv'
<1>0. at[t] # "none" => status[t] \in Unfinished
  BY DEF LeaseInv, Holding
<1>1. CASE Answer(t)
  BY <1>1, FinishTrace DEF Answer
<1>2. CASE CallExternal(t)
  <2>1. \A s \in Tasks : status'[s] = IF s = t THEN "running" ELSE status[s]
    BY <1>2 DEF CallExternal, TypeOK, RowTypes
  <2>2. QED
    BY <1>2, <2>1, ProgressTrace DEF CallExternal, Unfinished, loopVars, scanVars
<1>3. CASE Route(t)
  BY <1>0, <1>3, ProgressTrace DEF Route, rowVars, loopVars, scanVars
<1>4. CASE GiveUp(t)
  BY <1>4, FinishTrace DEF GiveUp, Finished
<1>5. CASE Attempt(t)
  BY <1>5, AttemptTrace
<1>6. CASE AttemptFails(t) \/ AttemptSucceeds(t)
  BY <1>6, CloseAttemptTrace
<1>7. CASE FinishWon(t)
  BY <1>7, FinishTrace DEF FinishWon, Finished
<1>8. CASE RequestBreaks(t) \/ RequestError(t)
  <2>1. at[t] # "none" /\ EndRequest(t) /\ UNCHANGED <<status, exe, todo, seen>>
    BY <1>8 DEF RequestBreaks, RequestError, RowGone, Abort, rowVars, loopVars, scanVars
  <2>2. QED
    BY <1>0, <2>1, EndRequestTrace DEF Unfinished
<1>9. QED
  BY <1>1, <1>2, <1>3, <1>4, <1>5, <1>6, <1>7, <1>8 DEF RequestStep

\* Loop steps that leave rows and requests alone and add nothing to a list.
LEMMA IdleTrace ==
    ASSUME TypeOK, TraceInv, UNCHANGED <<status, exe, owner, at, node>>,
           \A w \in Workers : todo'[w] = {} \/ (todo'[w] \subseteq todo[w] /\ seen'[w] = seen[w])
    PROVE  TraceInv'
<1>1. Snapshots'
  BY DEF TraceInv, Snapshots
<1>2. QED
  BY <1>1 DEF TraceInv, Attempted, AttemptsSerial

\* The reaper closes every open attempt of what it claims: its snapshot has them.
LEMMA ReapTrace ==
    ASSUME TypeOK, LeaseInv, TraceInv, NEW w \in Workers, NEW t \in Tasks, Reap(w, t)
    PROVE  TraceInv'
<1>1. owner[t] = NoWorker /\ status[t] # "absent"
  BY DEF Reap, LeaseInv, Beating
<1>2. \A s \in Tasks, m \in Nodes :
          exe'[s][m] = IF s = t /\ m \in seen[w][t] THEN "failed" ELSE exe[s][m]
  BY DEF Reap, TypeOK, RowTypes
<1>3. \A m \in Nodes : exe'[t][m] # "running"
  BY <1>2 DEF Reap, TraceInv, Snapshots
<1>4. \A s \in Tasks : status'[s] = IF s = t THEN "failed" ELSE status[s]
  BY DEF Reap, TypeOK, RowTypes
<1>5. UNCHANGED <<owner, at, node, seen>>
  BY DEF Reap, reqVars
<1>6. Attempted'
  BY <1>1, <1>2, <1>3, <1>4, <1>5 DEF TraceInv, Attempted
<1>7. Snapshots'
  <2>1. \A v \in Workers : todo'[v] \subseteq todo[v] /\ todo[v] \subseteq Tasks
    BY DEF Reap, TypeOK, LoopTypes
  <2>2. QED
    BY <1>2, <1>5, <2>1 DEF TraceInv, Snapshots
<1>8. AttemptsSerial'
  BY <1>2 DEF TraceInv, AttemptsSerial
<1>9. QED
  BY <1>6, <1>7, <1>8 DEF TraceInv

LEMMA LoopStepTrace ==
    ASSUME TypeOK, LeaseInv, TraceInv, NEW w \in Workers, LoopStep(w) \/ TickFails(w)
    PROVE  TraceInv'
<1>1. CASE BeatStart(w)
  BY <1>1, IdleTrace DEF BeatStart, rowVars, reqVars, scanVars
<1>2. CASE BeatLands(w)
  BY <1>2, IdleTrace DEF BeatLands, reqVars, scanVars
<1>3. CASE StandDown(w)
  BY <1>3, IdleTrace DEF StandDown, rowVars, reqVars, scanVars
<1>4. CASE Select(w)
  <2>1. /\ UNCHANGED <<status, exe, owner, at, node>>
        /\ \A t \in todo'[w], n \in Nodes : exe[t][n] = "running" => n \in seen'[w][t]
        /\ \A v \in Workers \ {w} : todo'[v] = todo[v] /\ seen'[v] = seen[v]
    BY <1>4 DEF Select, TypeOK, LoopTypes, rowVars, reqVars
  <2>2. Snapshots'
    BY <2>1 DEF TraceInv, Snapshots
  <2>3. QED
    BY <2>1, <2>2 DEF TraceInv, Attempted, AttemptsSerial
<1>5. CASE ReapEnds(w) \/ TickFails(w) \/ \E t \in Tasks : ReapBreaks(w, t)
  <2>1. ForgetScan(w) /\ UNCHANGED <<status, exe, owner, at, node>>
    BY <1>5 DEF ReapEnds, TickFails, ReapBreaks, rowVars, reqVars
  <2>2. \A v \in Workers : todo'[v] = {} \/ (todo'[v] = todo[v] /\ seen'[v] = seen[v])
    BY <2>1 DEF ForgetScan, TypeOK, LoopTypes
  <2>3. QED
    BY <2>1, <2>2, IdleTrace
<1>6. ASSUME NEW t \in Tasks, Reap(w, t) PROVE TraceInv'
  BY <1>6, ReapTrace
<1>7. ASSUME NEW t \in Tasks, ReapMisses(w, t) PROVE TraceInv'
  BY <1>7, IdleTrace DEF ReapMisses, TypeOK, LoopTypes, rowVars, reqVars
<1>8. QED
  BY <1>1, <1>2, <1>3, <1>4, <1>5, <1>6, <1>7 DEF LoopStep, ReapStep

\* A dead worker's tasks keep their attempts, for the reaper to close.
LEMMA CrashTrace ==
    ASSUME TypeOK, LeaseInv, TraceInv, NEW w \in Workers, Crash(w)
    PROVE  TraceInv'
<1>1. \A t \in Tasks : /\ owner'[t] = IF owner[t] = w THEN NoWorker ELSE owner[t]
                       /\ at'[t] = IF owner[t] = w THEN "none" ELSE at[t]
                       /\ owner[t] # w => node'[t] = node[t]
  BY DEF Crash
<1>2. UNCHANGED <<status, exe>>
  BY DEF Crash, rowVars
<1>3. Attempted'
  BY <1>1, <1>2 DEF TraceInv, Attempted
<1>4. \A v \in Workers : todo'[v] = {} \/ (todo'[v] = todo[v] /\ seen'[v] = seen[v])
  BY DEF Crash, ForgetScan, TypeOK, LoopTypes
<1>5. Snapshots'
  BY <1>2, <1>4 DEF TraceInv, Snapshots
<1>6. QED
  BY <1>2, <1>3, <1>5 DEF TraceInv, AttemptsSerial

\* Deleting a node only removes attempts.
LEMMA DeleteNodeTrace ==
    ASSUME TypeOK, TraceInv, NEW n \in Nodes, DeleteNode(n)
    PROVE  TraceInv'
<1>1. \A t \in Tasks, m \in Nodes : exe'[t][m] = IF m = n THEN "none" ELSE exe[t][m]
  BY DEF DeleteNode, TypeOK, RowTypes
<1>2. UNCHANGED <<status, owner, at, node, todo, seen>>
  BY DEF DeleteNode, reqVars, loopVars, scanVars
<1>3. Attempted' /\ AttemptsSerial'
  BY <1>1, <1>2 DEF TraceInv, Attempted, AttemptsSerial
<1>4. Snapshots'
  BY <1>1, <1>2 DEF TraceInv, Snapshots, TypeOK, LoopTypes
<1>5. QED
  BY <1>3, <1>4 DEF TraceInv

\* The inductive invariant of the trace, on top of types and leases.
THEOREM TraceInvariant == Spec => []TraceInv
<1>1. Init => TraceInv
  BY DEF Init, TraceInv, Attempted, Snapshots, AttemptsSerial
<1>2. TypeOK /\ LeaseInv /\ TraceInv /\ [Next]_vars => TraceInv'
  <2> SUFFICES ASSUME TypeOK, LeaseInv, TraceInv, [Next]_vars PROVE TraceInv'
    OBVIOUS
  <2>1. ASSUME NEW t \in Tasks, RequestStep(t) \/ RequestError(t) PROVE TraceInv'
    BY <2>1, RequestStepTrace
  <2>2. ASSUME NEW t \in Tasks, NEW w \in Workers, Submit(w, t) PROVE TraceInv'
    <3>1. \A s \in Tasks \ {t} : status'[s] = status[s] /\ owner'[s] = owner[s] /\ at'[s] = at[s]
      BY <2>2 DEF Submit, TypeOK, RowTypes, RequestTypes
    <3>2. at'[t] = "start" /\ \A n \in Nodes : exe[t][n] = "none"
      BY <2>2 DEF Submit, TypeOK, RequestTypes, TraceInv, Attempted
    <3>3. UNCHANGED <<exe, node, todo, seen>>
      BY <2>2 DEF Submit, loopVars, scanVars
    <3>4. Attempted'
      BY <3>1, <3>2, <3>3 DEF TraceInv, Attempted
    <3>5. QED
      BY <3>3, <3>4 DEF TraceInv, Snapshots, AttemptsSerial
  <2>3. ASSUME NEW w \in Workers, LoopStep(w) \/ TickFails(w) PROVE TraceInv'
    BY <2>3, LoopStepTrace
  <2>4. ASSUME NEW w \in Workers, Crash(w) PROVE TraceInv'
    BY <2>4, CrashTrace
  <2>5. ASSUME NEW w \in Workers, Restart(w) PROVE TraceInv'
    BY <2>5, IdleTrace DEF Restart, rowVars, reqVars, loopVars, scanVars
  <2>6. ASSUME NEW n \in Nodes, DeleteNode(n) PROVE TraceInv'
    BY <2>6, DeleteNodeTrace
  <2>7. CASE Tick
    BY <2>7, IdleTrace DEF Tick, reqVars
  <2>8. CASE UNCHANGED vars
    BY <2>8, IdleTrace DEF vars, rowVars, reqVars, loopVars, scanVars
  <2>9. QED
    BY <2>1, <2>2, <2>3, <2>4, <2>5, <2>6, <2>7, <2>8 DEF Next
<1>3. QED
  BY <1>1, <1>2, TypeCorrect, LeaseInvariant, PTL DEF Spec

\* Failover is sequential, through crashes, reapers and node deletions: of a
\* task's attempts at most one is running or has succeeded.
THEOREM FailoverSerial == Spec => []AttemptsSerial
<1>1. TraceInv => AttemptsSerial
  BY DEF TraceInv
<1>2. QED
  BY <1>1, TraceInvariant, PTL

\* A finished task has no running attempt, whoever finished it.
THEOREM TracesClosed == Spec => []TraceClosed
<1>1. TraceInv => TraceClosed
  BY DEF TraceInv, Attempted, TraceClosed, Unfinished, Finished
<1>2. QED
  BY <1>1, TraceInvariant, PTL

--------------------------------------------------------------------------------
(* The job contract is implemented                                            *)

\* A request that ends is, to the contract, a job concluded or abandoned.
LEMMA EndRequestHeld ==
    ASSUME TypeOK, NEW t \in Tasks, EndRequest(t)
    PROVE  JobHeld' = JobHeld \ {t}
<1>1. \A s \in Tasks : owner'[s] = IF s = t THEN NoWorker ELSE owner[s]
  BY DEF EndRequest, TypeOK, RequestTypes
<1>2. QED
  BY <1>1 DEF JobHeld

LEMMA FinishConcludes ==
    ASSUME TypeOK, LeaseInv, NEW t \in Tasks, NEW o \in Finished, at[t] # "none", Finish(t, o)
    PROVE  Contract!Conclude(t)
<1>1. t \in JobHeld /\ status[t] \in Unfinished
  BY DEF LeaseInv, Holding, JobHeld
<1>2. JobOutcome[t] = "open"
  BY <1>1 DEF JobOutcome
<1>3. JobOutcome' = [JobOutcome EXCEPT ![t] = o]
  BY DEF Finish, JobOutcome, TypeOK, RowTypes, Finished, Unfinished
<1>4. JobHeld' = JobHeld \ {t}
  BY EndRequestHeld DEF Finish
<1>5. QED
  BY <1>1, <1>2, <1>3, <1>4 DEF Contract!Conclude, Contract!Decided, Finished

\* Every other step of a request leaves the contract's state alone.
LEMMA RequestStepContract ==
    ASSUME TypeOK, LeaseInv, NEW t \in Tasks, RequestStep(t) \/ RequestError(t)
    PROVE  Contract!Next \/ UNCHANGED Contract!contractVars
<1> USE DEF Contract!contractVars
<1>0. at[t] # "none" => status[t] \in Unfinished /\ t \in JobHeld
  BY DEF LeaseInv, Holding, JobHeld
<1>1. CASE Answer(t)
  BY <1>1, FinishConcludes DEF Answer, Contract!Next
<1>2. CASE CallExternal(t)
  BY <1>0, <1>2 DEF CallExternal, JobOutcome, JobHeld, TypeOK, RowTypes, Unfinished
<1>3. CASE Route(t)
  BY <1>3 DEF Route, rowVars, JobOutcome, JobHeld
<1>4. CASE GiveUp(t)
  BY <1>4, FinishConcludes DEF GiveUp, Finished, Contract!Next
<1>5. CASE Attempt(t)
  <2>1. UNCHANGED JobOutcome
    BY <1>0, <1>5 DEF Attempt, JobOutcome, TypeOK, RowTypes, Unfinished
  <2>2. UNCHANGED JobHeld
    BY <1>5 DEF Attempt, JobHeld
  <2>3. QED
    BY <2>1, <2>2
<1>6. CASE AttemptFails(t) \/ AttemptSucceeds(t)
  BY <1>6 DEF AttemptFails, AttemptSucceeds, CloseAttempt, JobOutcome, JobHeld
<1>7. CASE FinishWon(t)
  BY <1>7, FinishConcludes DEF FinishWon, Finished, Contract!Next
<1>8. CASE RequestBreaks(t) \/ RequestError(t)
  <2>1. at[t] # "none" /\ EndRequest(t) /\ UNCHANGED JobOutcome
    BY <1>8 DEF RequestBreaks, RequestError, RowGone, Abort, rowVars, JobOutcome
  <2>2. Contract!Abandon({t})
    BY <1>0, <2>1, EndRequestHeld DEF Contract!Abandon
  <2>3. QED
    BY <2>2 DEF Contract!Next
<1>9. QED
  BY <1>1, <1>2, <1>3, <1>4, <1>5, <1>6, <1>7, <1>8 DEF RequestStep

LEMMA ReapContract ==
    ASSUME TypeOK, LeaseInv, NEW w \in Workers, NEW t \in Tasks, Reap(w, t)
    PROVE  Contract!Reap({t})
<1>1. t \notin JobHeld
  BY DEF Reap, LeaseInv, Beating, JobHeld
<1>2. JobOutcome[t] = "open"
  BY DEF Reap, Stale, JobOutcome
<1>3. JobOutcome' = [s \in Tasks |-> IF s \in {t} THEN "failed" ELSE JobOutcome[s]]
  BY DEF Reap, JobOutcome, TypeOK, RowTypes, Unfinished
<1>4. JobHeld' = JobHeld
  BY DEF Reap, reqVars, JobHeld
<1>5. QED
  BY <1>1, <1>2, <1>3, <1>4 DEF Contract!Reap

\* Orchestrator implements JobContract: only the request holding a task decides
\* it, a decided task is never revised, and a reaper fails only tasks nobody holds.
THEOREM ContractImplemented == Spec => ImplementsContract
<1>1. Init => Contract!Init
  BY DEF Init, Contract!Init, JobOutcome, JobHeld, Unfinished
<1>2. TypeOK /\ LeaseInv /\ [Next]_vars => [Contract!Next]_(Contract!contractVars)
  <2> SUFFICES ASSUME TypeOK, LeaseInv, [Next]_vars
               PROVE  Contract!Next \/ UNCHANGED Contract!contractVars
    OBVIOUS
  <2> USE DEF Contract!contractVars
  <2>1. ASSUME NEW t \in Tasks, RequestStep(t) \/ RequestError(t)
        PROVE  Contract!Next \/ UNCHANGED Contract!contractVars
    BY <2>1, RequestStepContract
  <2>2. ASSUME NEW t \in Tasks, NEW w \in Workers, Submit(w, t) PROVE Contract!Next
    <3>1. JobOutcome[t] = "absent"
      BY <2>2 DEF Submit, JobOutcome, Unfinished
    <3>2. JobOutcome' = [JobOutcome EXCEPT ![t] = "open"]
      BY <2>2 DEF Submit, JobOutcome, TypeOK, RowTypes, Unfinished
    <3>3. \A s \in Tasks : owner'[s] = IF s = t THEN w ELSE owner[s]
      BY <2>2 DEF Submit, TypeOK, RequestTypes
    <3>4. JobHeld' = JobHeld \cup {t}
      BY <3>3 DEF JobHeld
    <3>5. Contract!Start(t)
      BY <3>1, <3>2, <3>4 DEF Contract!Start
    <3>6. QED
      BY <3>5 DEF Contract!Next
  <2>3. ASSUME NEW w \in Workers, LoopStep(w) \/ TickFails(w)
        PROVE  Contract!Next \/ UNCHANGED Contract!contractVars
    <3>1. CASE \E t \in Tasks : Reap(w, t)
      <4>1. PICK t \in Tasks : Contract!Reap({t})
        BY <3>1, ReapContract
      <4>2. {t} \in SUBSET Tasks
        OBVIOUS
      <4>3. QED
        BY <4>1, <4>2 DEF Contract!Next
    <3>2. CASE ~ \E t \in Tasks : Reap(w, t)
      <4>1. UNCHANGED <<status, owner>>
        BY <2>3, <3>2 DEF LoopStep, ReapStep, BeatStart, BeatLands, StandDown, Select, ReapEnds,
           ReapMisses, ReapBreaks, TickFails, rowVars, reqVars
      <4>2. QED
        BY <4>1 DEF JobOutcome, JobHeld
    <3>3. QED
      BY <3>1, <3>2
  <2>4. ASSUME NEW w \in Workers, Crash(w) PROVE Contract!Next
    <3> DEFINE lost == {t \in Tasks : owner[t] = w}
    <3>1. JobHeld' = JobHeld \ lost /\ lost \subseteq JobHeld
      BY <2>4 DEF Crash, JobHeld
    <3>2. UNCHANGED JobOutcome
      BY <2>4 DEF Crash, rowVars, JobOutcome
    <3>3. Contract!Abandon(lost) /\ lost \in SUBSET Tasks
      BY <3>1, <3>2 DEF Contract!Abandon
    <3>4. QED
      BY <3>3 DEF Contract!Next
  <2>5. ASSUME NEW w \in Workers, Restart(w) PROVE UNCHANGED <<status, owner>>
    BY <2>5 DEF Restart, rowVars, reqVars
  <2>6. ASSUME NEW n \in Nodes, DeleteNode(n) PROVE UNCHANGED <<status, owner>>
    BY <2>6 DEF DeleteNode, reqVars
  <2>7. CASE Tick
    BY <2>7 DEF Tick, reqVars, JobOutcome, JobHeld
  <2>8. CASE UNCHANGED vars
    BY <2>8 DEF vars, rowVars, reqVars, JobOutcome, JobHeld
  <2>9. UNCHANGED <<status, owner>> => UNCHANGED Contract!contractVars
    BY DEF JobOutcome, JobHeld
  <2>10. QED
    BY <2>1, <2>2, <2>3, <2>4, <2>5, <2>6, <2>7, <2>8, <2>9 DEF Next
<1>3. QED
  BY <1>1, <1>2, TypeCorrect, LeaseInvariant, PTL DEF Spec, ImplementsContract, Contract!Safe
================================================================================
