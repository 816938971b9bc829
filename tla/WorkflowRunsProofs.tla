--------------------------- MODULE WorkflowRunsProofs ---------------------------
(***************************************************************************)
(* Proofs about WorkflowRuns for every definition of a workflow and every  *)
(* set of runs, operators and workers.  Type correctness holds as it is.   *)
(* The lease and the trace are proved for MaxServing = 1: with two         *)
(* requests on a run they fail, as the run that refutes NeverPicked shows. *)
(* LeaseInv is inductive on top of TypeOK and TraceInv on top of both.     *)
(***************************************************************************)
EXTENDS WorkflowRuns, FiniteSetTheorems, TLAPS

USE RunNames, DefinitionAssumption, RunBounds, RunLease

--------------------------------------------------------------------------------
(* Facts about the helpers                                                    *)

\* Saturation keeps an age in range and adds one tick at most.
LEMMA OlderAge ==
    ASSUME NEW a \in 0..Oldest
    PROVE  Older(a) \in 0..Oldest /\ a <= Older(a) /\ Older(a) <= a + 1
  BY DEF Older, Oldest

\* A heartbeat's or a scan's age is a legal lease age.
LEMMA AgeRange == 0 \in 0..Oldest /\ 0 \in 0..MaxGap /\ 0..MaxGap \subseteq 0..Oldest
  BY DEF Oldest

\* A place before the first step and one after the last.
LEMMA PlaceRange ==
    Len(definition) \in Nat \ {0} /\ 0 \in 0..Len(definition) + 1 /\ 1 \in 0..Len(definition) + 1
<1>1. Len(definition) \in Nat \ {0}
  OBVIOUS
<1>2. QED
  BY <1>1

\* The steps are numbered from 1 and each may be tried six times at most.
LEMMA StepRange ==
    ASSUME NEW i \in Steps
    PROVE  /\ i \in Nat \ {0} /\ i \in 0..Len(definition) + 1
           /\ i + 1 \in 0..Len(definition) + 1 /\ i + 1 # 0
           /\ definition[i].retries \in 0..5
<1>1. i \in Nat \ {0} /\ i <= Len(definition)
  BY PlaceRange DEF Steps
<1>2. definition[i].retries \in 0..5
  OBVIOUS
<1>3. QED
  BY <1>1, <1>2, PlaceRange

\* The row of an attempt within the bounds of its step.
LEMMA AttemptKey ==
    ASSUME NEW i \in Steps, NEW a \in 1..definition[i].retries + 1, NEW q \in Requests
    PROVE  <<i, a, q>> \in Keys /\ <<i, a, q>>[1] = i
<1>1. a \in 1..6
  BY StepRange
<1>2. QED
  BY <1>1 DEF Keys

LEMMA FirstRow ==
    ASSUME NEW i \in Steps, NEW q \in Requests
    PROVE  <<i, 1, q>> \in Keys /\ <<i, 1, q>>[1] = i
<1>1. 1 \in 1..definition[i].retries + 1
  BY StepRange
<1>2. QED
  BY <1>1, AttemptKey

\* Variables a step leaves alone keep their part of the type invariant.
LEMMA Untouched ==
    /\ RowTypes /\ UNCHANGED rowVars => RowTypes'
    /\ RequestTypes /\ UNCHANGED <<up, live, reqVars>> => RequestTypes'
    /\ LoopTypes /\ UNCHANGED <<up, loopVars>> => LoopTypes'
  BY DEF RowTypes, RequestTypes, LoopTypes, rowVars, reqVars, loopVars, beatVars, scanVars

--------------------------------------------------------------------------------
(* Type correctness                                                           *)

\* Ending a request keeps the requests well typed.
LEMMA EndRequestTypes ==
    ASSUME RequestTypes, NEW q \in Requests, at[q] # "idle", EndRequest(q), UNCHANGED up
    PROVE  RequestTypes'
<1>1. live' \in [Workers -> SUBSET Runs]
  BY DEF RequestTypes, EndRequest
<1>2. ASSUME NEW p \in Requests
      PROVE  /\ at'[p] = IF p = q THEN "idle" ELSE at[p]
             /\ run'[p] = IF p = q THEN NoRun ELSE run[p]
             /\ idx'[p] = IF p = q THEN 0 ELSE idx[p]
             /\ attempt'[p] = IF p = q THEN 0 ELSE attempt[p]
  BY DEF EndRequest, ForgetRequests
<1>3. /\ at' \in [Requests -> {"idle", "leaving", "deciding"} \cup Executing]
      /\ run' \in [Requests -> Runs \cup {NoRun}]
      /\ host' \in [Requests -> Workers \cup {NoWorker}]
      /\ idx' \in [Requests -> 0..Len(definition) + 1]
      /\ attempt' \in [Requests -> 0..6]
      /\ mem' \in [Requests -> SUBSET Steps]
      /\ pending' \in [Requests -> SUBSET Keys]
  BY PlaceRange DEF RequestTypes, EndRequest, ForgetRequests
<1>4. QED
  BY <1>1, <1>2, <1>3 DEF RequestTypes, Executing

LEMMA StartTypes ==
    ASSUME TypeOK, NEW r \in Runs, NEW w \in Workers, Start(r, w)
    PROVE  TypeOK'
<1>1. r \in Requests
  BY DEF Requests
<1>2. RowTypes'
  BY AgeRange DEF Start, TypeOK, RowTypes, Open
<1>3. RequestTypes'
  BY <1>1, PlaceRange DEF Start, TypeOK, RequestTypes, Executing
<1>4. QED
  BY <1>2, <1>3, Untouched DEF Start, TypeOK

\* A request that serves a run knows it, and its row has the run's type.
LEMMA Served ==
    ASSUME TypeOK, NEW q \in Requests, at[q] # "idle"
    PROVE  run[q] \in Runs
  BY DEF TypeOK, RequestTypes

LEMMA TraceTypes ==
    ASSUME RowTypes, NEW r \in Runs, NEW k, NEW s \in StepStatus,
           trace' = [trace EXCEPT ![r][k] = s],
           UNCHANGED <<workflow, status, current, age, context>>
    PROVE  RowTypes'
  BY DEF RowTypes

\* Moving a request to another place of its handler.
LEMMA MoveTypes ==
    ASSUME RequestTypes, NEW q \in Requests, at[q] # "idle",
           NEW a \in {"leaving", "step", "entered", "retry", "record"}, at' = [at EXCEPT ![q] = a],
           a = "step" => idx[q] # 0,
           a \in {"entered", "retry", "record"} => idx[q] \in Steps,
           UNCHANGED <<up, live, run, host, idx, attempt, mem, pending>>
    PROVE  RequestTypes'
  BY DEF RequestTypes, Executing

\* Moving it to the next step.
LEMMA NextStepTypes ==
    ASSUME RequestTypes, NEW q \in Requests, at[q] # "idle", idx[q] \in Steps, NextStep(q),
           mem' \in [Requests -> SUBSET Steps],
           UNCHANGED <<up, live, run, host, pending>>
    PROVE  RequestTypes'
<1>1. idx[q] + 1 \in 0..Len(definition) + 1 /\ idx[q] + 1 # 0
  BY StepRange
<1>2. \A p \in Requests : /\ at'[p] = IF p = q THEN "step" ELSE at[p]
                          /\ idx'[p] = IF p = q THEN idx[q] + 1 ELSE idx[p]
                          /\ attempt'[p] = IF p = q THEN 0 ELSE attempt[p]
  BY DEF NextStep, RequestTypes
<1>3. /\ at' \in [Requests -> {"idle", "leaving", "deciding"} \cup Executing]
      /\ idx' \in [Requests -> 0..Len(definition) + 1]
      /\ attempt' \in [Requests -> 0..6]
  BY <1>1 DEF NextStep, RequestTypes, Executing
<1>4. QED
  BY <1>1, <1>2, <1>3 DEF RequestTypes

LEMMA TryTypes ==
    ASSUME TypeOK, NEW q \in Requests, Try(q)
    PROVE  TypeOK'
<1>1. idx[q] \in Steps /\ attempt[q] \in 0..6 /\ run[q] \in Runs
  BY Served DEF Try, TypeOK, RequestTypes
<1>2. attempt[q] + 1 \in 1..definition[idx[q]].retries + 1 /\ attempt[q] + 1 \in 0..6
  <2>1. definition[idx[q]].retries \in 0..5
    BY <1>1, StepRange
  <2>2. attempt[q] < definition[idx[q]].retries + 1
    BY DEF Try
  <2>3. QED
    BY <1>1, <2>1, <2>2
<1>3. <<idx[q], attempt[q] + 1, q>> \in Keys
  BY <1>1, <1>2, AttemptKey
<1>4. RowTypes'
  BY <1>1, TraceTypes DEF Try, TypeOK, StepStatus
<1>5. /\ at' \in [Requests -> {"idle", "leaving", "deciding"} \cup Executing]
      /\ attempt' \in [Requests -> 0..6]
      /\ \A p \in Requests : /\ at'[p] = IF p = q THEN "trying" ELSE at[p]
                             /\ attempt'[p] = IF p = q THEN attempt[q] + 1 ELSE attempt[p]
  BY <1>2 DEF Try, TypeOK, RequestTypes, Executing
<1>6. RequestTypes'
  BY <1>1, <1>3, <1>5 DEF Try, TypeOK, RequestTypes
<1>7. QED
  BY <1>4, <1>6, Untouched DEF Try, TypeOK

LEMMA CloseTryTypes ==
    ASSUME TypeOK, NEW q \in Requests, NEW s \in {"failed", "succeeded"},
           NEW a \in {"retry", "record"}, CloseTry(q, s, a)
    PROVE  TypeOK'
<1>1. idx[q] \in Steps /\ run[q] \in Runs
  BY Served DEF CloseTry, TypeOK, RequestTypes
<1>2. RowTypes'
  BY <1>1, TraceTypes DEF CloseTry, TypeOK, StepStatus
<1>3. RequestTypes'
  BY <1>1, MoveTypes DEF CloseTry, TypeOK
<1>4. QED
  BY <1>2, <1>3, Untouched DEF CloseTry, TypeOK

\* Steps of a request keep the state well typed.
LEMMA RequestStepTypes ==
    ASSUME TypeOK, NEW q \in Requests, RequestStep(q) \/ RequestError(q)
    PROVE  TypeOK'
<1> USE Served
<1>1. CASE EnterStep(q)
  <2>1. RowTypes' /\ RequestTypes'
    BY <1>1, MoveTypes DEF EnterStep, TypeOK, RowTypes
  <2>2. QED
    BY <1>1, <2>1, Untouched DEF EnterStep, TypeOK
<1>2. CASE Skip(q)
  <2>1. RowTypes'
    BY <1>2, TraceTypes DEF Skip, TypeOK, StepStatus
  <2>2. RequestTypes'
    BY <1>2, NextStepTypes DEF Skip, TypeOK, RequestTypes
  <2>3. QED
    BY <1>2, <2>1, <2>2, Untouched DEF Skip, TypeOK
<1>3. CASE Pause(q)
  <2>1. trace' \in [Runs -> [Keys -> StepStatus]]
    BY <1>3 DEF Pause, TypeOK, RowTypes, StepStatus
  <2>2. RowTypes'
    BY <1>3, <2>1 DEF Pause, TypeOK, RowTypes, Open
  <2>3. RequestTypes'
    BY <1>3, MoveTypes DEF Pause, TypeOK
  <2>4. QED
    BY <1>3, <2>2, <2>3, Untouched DEF Pause, TypeOK
<1>4. CASE Try(q)
  BY <1>4, TryTypes
<1>5. CASE TryFails(q) \/ TrySucceeds(q)
  BY <1>5, CloseTryTypes DEF TryFails, TrySucceeds
<1>6. CASE Record(q)
  <2>1. idx[q] \in Steps /\ mem[q] \in SUBSET Steps
    BY <1>6 DEF Record, TypeOK, RequestTypes
  <2>2. RowTypes'
    BY <1>6, <2>1 DEF Record, TypeOK, RowTypes
  <2>3. mem' \in [Requests -> SUBSET Steps]
    BY <1>6, <2>1 DEF Record, TypeOK, RequestTypes
  <2>4. RequestTypes'
    BY <1>6, <2>1, <2>3, NextStepTypes DEF Record, TypeOK
  <2>5. QED
    BY <1>6, <2>2, <2>4, Untouched DEF Record, TypeOK
<1>7. CASE FinishRun(q)
  <2>1. PICK s \in Final : Finish(q, s)
    BY <1>7 DEF FinishRun, Final
  <2>2. RowTypes'
    BY <1>7, <2>1, AgeRange DEF FinishRun, Finish, TypeOK, RowTypes
  <2>3. RequestTypes'
    BY <1>7, MoveTypes DEF FinishRun, TypeOK
  <2>4. QED
    BY <1>7, <2>2, <2>3, Untouched DEF FinishRun, TypeOK
<1>8. CASE Leave(q) \/ RequestBreaks(q)
  <2>1. at[q] # "idle"
    BY <1>8 DEF Leave, RequestBreaks, Executing
  <2>2. QED
    BY <1>8, <2>1, EndRequestTypes, Untouched DEF Leave, RequestBreaks, TypeOK
<1>9. CASE RequestError(q)
  <2>1. faults' \in 0..MaxFaults
    BY <1>9 DEF RequestError, Fault, TypeOK
  <2>2. QED
    BY <1>9, <2>1, EndRequestTypes, Untouched DEF RequestError, TypeOK
<1>10. QED
  BY <1>1, <1>2, <1>3, <1>4, <1>5, <1>6, <1>7, <1>8, <1>9 DEF RequestStep

LEMMA OpenDecisionTypes ==
    ASSUME TypeOK, NEW o \in Operators, NEW r \in Runs, NEW w \in Workers, OpenDecision(o, r, w)
    PROVE  TypeOK'
<1>1. o \in Requests
  BY DEF Requests
<1>2. PICK k \in Keys : k[1] = current[r] /\ pending' = [pending EXCEPT ![o] = {k}]
  BY DEF OpenDecision
<1>3. current[r] \in Steps
  BY <1>2 DEF Keys
<1>4. pending' \in [Requests -> SUBSET Keys]
  BY <1>2 DEF TypeOK, RequestTypes
<1>5. RequestTypes'
  BY <1>1, <1>3, <1>4, StepRange DEF OpenDecision, TypeOK, RowTypes, RequestTypes
<1>6. QED
  BY <1>5, Untouched DEF OpenDecision, TypeOK

LEMMA ResolveTypes ==
    ASSUME TypeOK, NEW o \in Requests, NEW s \in {"failed", "succeeded"}, Resolve(o, s)
    PROVE  run[o] \in Runs /\ idx[o] \in Steps /\ trace' \in [Runs -> [Keys -> StepStatus]]
<1>1. run[o] \in Runs /\ idx[o] \in Steps
  BY Served DEF Resolve, TypeOK, RequestTypes
<1>2. [k \in Keys |-> IF k \in pending[o] THEN s ELSE trace[run[o]][k]] \in [Keys -> StepStatus]
  BY <1>1 DEF TypeOK, RowTypes, StepStatus
<1>3. QED
  BY <1>1, <1>2 DEF Resolve, TypeOK, RowTypes

LEMMA DecideTypes ==
    ASSUME TypeOK, NEW o \in Operators, Decide(o)
    PROVE  TypeOK'
<1>0. o \in Requests
  BY DEF Requests
<1>1. CASE Approve(o)
  <2>1. /\ run[o] \in Runs /\ idx[o] \in Steps /\ mem[o] \in SUBSET Steps
        /\ trace' \in [Runs -> [Keys -> StepStatus]]
    BY <1>0, <1>1, ResolveTypes DEF Approve, Resume, TypeOK, RequestTypes
  <2>2. RowTypes'
    BY <1>1, <2>1, AgeRange DEF Approve, Resume, TypeOK, RowTypes, Open
  <2>3. idx[o] + 1 \in 0..Len(definition) + 1 /\ idx[o] + 1 # 0
    BY <2>1, StepRange
  <2>4. live' \in [Workers -> SUBSET Runs] /\ mem' \in [Requests -> SUBSET Steps]
    BY <1>1, <2>1 DEF Approve, Resume, TypeOK, RequestTypes
  <2>5. RequestTypes'
    BY <1>0, <1>1, <2>1, <2>3, <2>4 DEF Approve, Resume, Resolve, TypeOK, RequestTypes, Executing
  <2>6. QED
    BY <1>1, <2>2, <2>5, Untouched DEF Approve, Resume, TypeOK
<1>2. CASE Reject(o)
  <2>1. run[o] \in Runs /\ trace' \in [Runs -> [Keys -> StepStatus]]
    BY <1>0, <1>2, ResolveTypes DEF Reject
  <2>2. RowTypes'
    BY <1>2, <2>1, AgeRange DEF Reject, Finish, TypeOK, RowTypes, Final
  <2>3. RequestTypes'
    BY <1>0, <1>2, EndRequestTypes DEF Reject, Resolve, TypeOK
  <2>4. QED
    BY <1>2, <2>2, <2>3, Untouched DEF Reject, TypeOK
<1>3. QED
  BY <1>1, <1>2 DEF Decide

LEMMA DeleteTypes ==
    ASSUME TypeOK, DeleteCounts \/ DeleteCommits \/ DeleteFails
    PROVE  TypeOK'
<1>1. CASE DeleteCounts
  <2>1. RowTypes'
    BY <1>1 DEF DeleteCounts, TypeOK, RowTypes
  <2>2. QED
    BY <1>1, <2>1, Untouched DEF DeleteCounts, TypeOK
<1>2. CASE DeleteCommits
  <2>1. RowTypes'
    BY <1>2, AgeRange DEF DeleteCommits, TypeOK, RowTypes, StepStatus
  <2>2. QED
    BY <1>2, <2>1, Untouched DEF DeleteCommits, TypeOK
<1>3. CASE DeleteFails
  <2>1. RowTypes' /\ faults' \in 0..MaxFaults
    BY <1>3 DEF DeleteFails, Fault, TypeOK, RowTypes
  <2>2. QED
    BY <1>3, <2>1, Untouched DEF DeleteFails, TypeOK
<1>4. QED
  BY <1>1, <1>2, <1>3

LEMMA ReapTypes ==
    ASSUME TypeOK, NEW w \in Workers, NEW r \in Runs, Reap(w, r)
    PROVE  TypeOK'
<1>1. trace' \in [Runs -> [Keys -> StepStatus]]
  <2>1. [k \in Keys |-> IF k \in seen[w][r] THEN "failed" ELSE trace[r][k]] \in [Keys -> StepStatus]
    BY DEF TypeOK, RowTypes, StepStatus
  <2>2. QED
    BY <2>1 DEF Reap, TypeOK, RowTypes
<1>2. RowTypes'
  BY <1>1, AgeRange DEF Reap, Claim, TypeOK, RowTypes, Final
<1>3. LoopTypes'
  BY DEF Reap, Claim, TypeOK, LoopTypes, beatVars
<1>4. QED
  BY <1>2, <1>3, Untouched DEF Reap, Claim, TypeOK

\* Steps of the lease loop keep the state well typed.
LEMMA LoopStepTypes ==
    ASSUME TypeOK, NEW w \in Workers, LoopStep(w) \/ TickFails(w)
    PROVE  TypeOK'
<1>1. CASE BeatStart(w)
  <2>1. LoopTypes'
    BY <1>1, AgeRange DEF BeatStart, TypeOK, RequestTypes, LoopTypes, scanVars
  <2>2. QED
    BY <1>1, <2>1, Untouched DEF BeatStart, TypeOK
<1>2. CASE BeatLands(w)
  <2>1. RowTypes'
    BY <1>2, AgeRange DEF BeatLands, TypeOK, RowTypes, LoopTypes, Open
  <2>2. LoopTypes'
    BY <1>2, AgeRange DEF BeatLands, ForgetBeat, TypeOK, LoopTypes, scanVars
  <2>3. QED
    BY <1>2, <2>1, <2>2, Untouched DEF BeatLands, TypeOK
<1>3. CASE StandDown(w)
  <2>1. LoopTypes'
    BY <1>3 DEF StandDown, TypeOK, LoopTypes, beatVars, scanVars
  <2>2. QED
    BY <1>3, <2>1, Untouched DEF StandDown, TypeOK
<1>4. CASE Select(w)
  <2>1. [r \in Runs |-> {k \in Keys : Stale(r, 0) /\ trace[r][k] = "running"}] \in [Runs -> SUBSET Keys]
    OBVIOUS
  <2>2. seen' \in [Workers -> [Runs -> SUBSET Keys]]
    BY <1>4, <2>1 DEF Select, TypeOK, LoopTypes
  <2>3. LoopTypes'
    BY <1>4, <2>2, AgeRange DEF Select, TypeOK, LoopTypes, beatVars
  <2>4. QED
    BY <1>4, <2>3, Untouched DEF Select, TypeOK
<1>5. CASE ReapEnds(w)
  <2>1. LoopTypes'
    BY <1>5, AgeRange DEF ReapEnds, ForgetScan, TypeOK, LoopTypes, beatVars
  <2>2. QED
    BY <1>5, <2>1, Untouched DEF ReapEnds, TypeOK
<1>6. ASSUME NEW r \in Runs, Reap(w, r) PROVE TypeOK'
  BY <1>6, ReapTypes
<1>7. ASSUME NEW r \in Runs, ReapMisses(w, r) PROVE TypeOK'
  <2>1. LoopTypes'
    BY <1>7 DEF ReapMisses, TypeOK, LoopTypes, beatVars
  <2>2. QED
    BY <1>7, <2>1, Untouched DEF ReapMisses, TypeOK
<1>8. CASE TickFails(w)
  <2>1. LoopTypes' /\ faults' \in 0..MaxFaults
    BY <1>8, AgeRange DEF TickFails, Fault, ForgetScan, ForgetBeat, TypeOK, LoopTypes
  <2>2. QED
    BY <1>8, <2>1, Untouched DEF TickFails, TypeOK
<1>9. QED
  BY <1>1, <1>2, <1>3, <1>4, <1>5, <1>6, <1>7, <1>8 DEF LoopStep

LEMMA CrashTypes ==
    ASSUME TypeOK, NEW w \in Workers, Crash(w)
    PROVE  TypeOK'
<1> DEFINE lost == {q \in Requests : host[q] = w}
<1>1. \A q \in Requests : /\ at'[q] = IF q \in lost THEN "idle" ELSE at[q]
                          /\ run'[q] = IF q \in lost THEN NoRun ELSE run[q]
                          /\ idx'[q] = IF q \in lost THEN 0 ELSE idx[q]
                          /\ attempt'[q] = IF q \in lost THEN 0 ELSE attempt[q]
  BY DEF Crash, ForgetRequests
<1>2. /\ at' \in [Requests -> {"idle", "leaving", "deciding"} \cup Executing]
      /\ run' \in [Requests -> Runs \cup {NoRun}]
      /\ host' \in [Requests -> Workers \cup {NoWorker}]
      /\ idx' \in [Requests -> 0..Len(definition) + 1]
      /\ attempt' \in [Requests -> 0..6]
      /\ mem' \in [Requests -> SUBSET Steps]
      /\ pending' \in [Requests -> SUBSET Keys]
  BY PlaceRange DEF Crash, ForgetRequests, TypeOK, RequestTypes
<1>3. RequestTypes'
  BY <1>1, <1>2 DEF Crash, TypeOK, RequestTypes, Executing
<1>4. LoopTypes'
  BY AgeRange DEF Crash, ForgetScan, ForgetBeat, TypeOK, LoopTypes
<1>5. faults' \in 0..MaxFaults
  BY DEF Crash, Fault, TypeOK
<1>6. QED
  BY <1>3, <1>4, <1>5, Untouched DEF Crash, TypeOK

LEMMA TickTypes ==
    ASSUME TypeOK, Tick
    PROVE  TypeOK'
<1>1. RowTypes'
  BY OlderAge DEF Tick, TypeOK, RowTypes
<1>2. ASSUME NEW w \in Workers
      PROVE  /\ sinceBeat'[w] \in 0..MaxGap
             /\ beatAge'[w] \in 0..MaxGap /\ beatAge'[w] <= sinceBeat'[w]
             /\ scanAge'[w] \in 0..MaxGap /\ scanAge'[w] <= sinceBeat'[w]
             /\ loop[w] # "reaping" => scanAge'[w] = 0
  BY DEF Tick, TypeOK, LoopTypes
<1>3. /\ sinceBeat' = [w \in Workers |-> sinceBeat'[w]]
      /\ beatAge' = [w \in Workers |-> beatAge'[w]]
      /\ scanAge' = [w \in Workers |-> scanAge'[w]]
  BY DEF Tick
<1>4. LoopTypes'
  BY <1>2, <1>3 DEF Tick, TypeOK, LoopTypes
<1>5. QED
  BY <1>1, <1>4, Untouched DEF Tick, TypeOK

\* Every reachable state is well typed, however many requests serve a run: no
\* attempt beyond the step's retries gets a row, and no heartbeat or scan is older
\* than its worker's last landed heartbeat.
THEOREM TypeCorrect == Spec => []TypeOK
<1>1. Init => TypeOK
  <2>1. Init => RowTypes
    BY AgeRange DEF Init, RowTypes, StepStatus
  <2>2. Init => RequestTypes
    BY PlaceRange DEF Init, RequestTypes
  <2>3. Init => LoopTypes
    BY AgeRange DEF Init, LoopTypes
  <2>4. QED
    BY <2>1, <2>2, <2>3 DEF Init, TypeOK
<1>2. TypeOK /\ [Next]_vars => TypeOK'
  <2> SUFFICES ASSUME TypeOK, [Next]_vars PROVE TypeOK'
    OBVIOUS
  <2>1. ASSUME NEW q \in Requests, RequestStep(q) \/ RequestError(q) PROVE TypeOK'
    BY <2>1, RequestStepTypes
  <2>2. ASSUME NEW r \in Runs, NEW w \in Workers, Start(r, w) PROVE TypeOK'
    BY <2>2, StartTypes
  <2>3. ASSUME NEW r \in Runs, NEW w \in Workers, NEW o \in Operators, OpenDecision(o, r, w)
        PROVE  TypeOK'
    BY <2>3, OpenDecisionTypes
  <2>4. ASSUME NEW o \in Operators, Decide(o) PROVE TypeOK'
    BY <2>4, DecideTypes
  <2>5. CASE DeleteCounts \/ DeleteCommits \/ DeleteFails
    BY <2>5, DeleteTypes
  <2>6. ASSUME NEW w \in Workers, LoopStep(w) \/ TickFails(w) PROVE TypeOK'
    BY <2>6, LoopStepTypes
  <2>7. ASSUME NEW w \in Workers, Crash(w) PROVE TypeOK'
    BY <2>7, CrashTypes
  <2>8. ASSUME NEW w \in Workers, Restart(w) PROVE TypeOK'
    <3>1. RequestTypes' /\ LoopTypes'
      BY <2>8 DEF Restart, TypeOK, RequestTypes, LoopTypes, reqVars, loopVars, beatVars, scanVars
    <3>2. QED
      BY <2>8, <3>1, Untouched DEF Restart, TypeOK
  <2>9. CASE Tick
    BY <2>9, TickTypes
  <2>10. CASE UNCHANGED vars
    BY <2>10, Untouched DEF vars, TypeOK
  <2>11. QED
    BY <2>1, <2>2, <2>3, <2>4, <2>5, <2>6, <2>7, <2>8, <2>9, <2>10 DEF Next
<1>3. QED
  BY <1>1, <1>2, PTL DEF Spec

--------------------------------------------------------------------------------
(* A held lease never lapses                                                  *)

\* A request that may still write finds its run as its place expects it, and no
\* reaper has selected a run before its request is done with it.
LEMMA Unselected ==
    ASSUME TypeOK, LeaseInv, NEW q \in Requests, at[q] # "idle", Writes(q)
    PROVE  /\ at[q] \in Executing => status[run[q]] = "running"
           /\ at[q] = "deciding" => status[run[q]] = "paused"
           /\ at[q] # "leaving" => \A w \in Workers : run[q] \notin todo[w]
<1>1. /\ at[q] \in Executing => status[run[q]] = "running"
      /\ at[q] = "deciding" => status[run[q]] = "paused"
  BY DEF LeaseInv, Holding, Writes
<1>2. at[q] # "leaving" => status[run[q]] \in {"running", "paused"}
  BY <1>1 DEF TypeOK, RequestTypes
<1>3. q \in Serving(run[q])
  BY DEF Serving
<1>4. QED
  BY <1>1, <1>2, <1>3, Served DEF LeaseInv, Beating, TypeOK, LoopTypes

\* What does not touch rows, requests or the loop touches no lease.
LEMMA Elsewhere ==
    LeaseInv /\ UNCHANGED <<status, age, at, run, host, up, live, loopVars>> => LeaseInv'
  BY DEF LeaseInv, Holding, Beating, Serving, loopVars, beatVars, scanVars

\* A request moves on, rewriting its own run's status as its new place expects.
LEMMA MoveLease ==
    ASSUME TypeOK, LeaseInv, NEW q \in Requests, at[q] \in Executing, Writes(q),
           NEW a \in Executing \cup {"leaving"}, at' = [at EXCEPT ![q] = a],
           a \in Executing => status'[run[q]] = "running",
           a = "leaving" => status'[run[q]] \in Final \cup {"paused"}, age'[run[q]] \in {age[run[q]], 0},
           \A r \in Runs \ {run[q]} : status'[r] = status[r] /\ age'[r] = age[r],
           UNCHANGED <<run, host, up, live, loopVars>>
    PROVE  LeaseInv'
<1>1. run[q] \in Runs /\ \A w \in Workers : run[q] \notin todo[w]
  BY Unselected, Served DEF Executing
<1>2. \A p \in Requests : at'[p] = IF p = q THEN a ELSE at[p]
  BY DEF TypeOK, RequestTypes
<1>3. ASSUME NEW p \in Requests, p # q, at[p] # "idle"
      PROVE  run[p] \in Runs \ {run[q]}
  BY <1>1, <1>3, Served DEF LeaseInv, Holding
<1>4. ASSUME NEW w \in Workers
      PROVE  0 <= sinceBeat[w] + MaxGap /\ 0 <= beatAge[w] + MaxGap
  BY DEF TypeOK, LoopTypes
<1>5. Holding'
  <2>1. ASSUME NEW p \in Requests, at'[p] # "idle"
        PROVE  /\ host[p] \in up
               /\ at'[p] = "deciding" => status'[run[p]] \in {"paused", "deleted"}
               /\ at'[p] = "leaving" => status'[run[p]] \in Final \cup {"paused", "deleted"}
               /\ at'[p] \in Executing =>
                     /\ status'[run[p]] \in {"running", "deleted"} /\ run[p] \in live[host[p]]
                     /\ age'[run[p]] <= sinceBeat[host[p]] + MaxGap
    <3>1. CASE p = q
      <4>1. host[q] \in up /\ host[q] \in Workers /\ run[q] \in live[host[q]]
            /\ age[run[q]] <= sinceBeat[host[q]] + MaxGap
        BY DEF LeaseInv, Holding, TypeOK, RequestTypes, Executing
      <4>2. QED
        BY <1>2, <1>4, <3>1, <4>1 DEF Executing
    <3>2. CASE p # q
      BY <1>2, <1>3, <2>1, <3>2 DEF LeaseInv, Holding
    <3>3. QED
      BY <3>1, <3>2
  <2>2. QED
    BY <2>1 DEF LeaseInv, Holding, Final, Executing, loopVars, beatVars
<1>6. Beating'
  <2>1. UNCHANGED <<loop, sinceBeat, beatSet, beatAge, todo, live, run>>
    BY DEF loopVars, beatVars, scanVars
  <2>2. ASSUME NEW w \in Workers, loop[w] = "beating", NEW r \in live[w] \ beatSet[w]
        PROVE  age'[r] <= beatAge[w] + MaxGap
    <3>1. r \in Runs /\ age[r] <= beatAge[w] + MaxGap
      BY <2>2 DEF LeaseInv, Beating, TypeOK, RequestTypes
    <3>2. QED
      BY <1>4, <3>1
  <2>3. ASSUME NEW w \in Workers, NEW r \in todo[w]
        PROVE  status'[r] = status[r]
    BY <1>1 DEF TypeOK, LoopTypes
  <2>4. QED
    BY <2>1, <2>2, <2>3 DEF LeaseInv, Beating, Serving
<1>7. QED
  BY <1>5, <1>6 DEF LeaseInv

\* A request ends; the row of its run stays or is finished with it.
LEMMA EndRequestLease ==
    ASSUME TypeOK, LeaseInv, NEW q \in Requests, at[q] # "idle", EndRequest(q),
           UNCHANGED <<up, loopVars>>,
           \A r \in Runs \ {run[q]} : status'[r] = status[r] /\ age'[r] = age[r],
           \/ status'[run[q]] = status[run[q]] /\ age'[run[q]] = age[run[q]]
           \/ at[q] # "leaving" /\ Writes(q) /\ age'[run[q]] = 0
    PROVE  LeaseInv'
<1>1. run[q] \in Runs /\ host[q] \in Workers
  BY Served DEF LeaseInv, Holding, TypeOK, RequestTypes
<1>2. \A p \in Requests : /\ at'[p] = IF p = q THEN "idle" ELSE at[p]
                          /\ run'[p] = IF p = q THEN NoRun ELSE run[p]
                          /\ host'[p] = IF p = q THEN NoWorker ELSE host[p]
  BY DEF EndRequest, ForgetRequests
<1>3. \A w \in Workers : live'[w] \subseteq live[w] /\ live[w] \ {run[q]} \subseteq live'[w]
  BY <1>1 DEF EndRequest, TypeOK, RequestTypes
<1>4. ASSUME NEW p \in Requests, p # q, at[p] # "idle"
      PROVE  run[p] \in Runs \ {run[q]} /\ host[p] \in Workers
  <2>1. run[p] \in Runs
    BY <1>4, Served
  <2>2. run[p] # run[q] /\ host[p] \in up
    BY <1>1, <1>4, <2>1 DEF LeaseInv, Holding
  <2>3. QED
    BY <2>1, <2>2 DEF TypeOK, RequestTypes
<1>5. Holding'
  <2>1. ASSUME NEW p \in Requests, at'[p] # "idle"
        PROVE  /\ host'[p] \in up
               /\ at'[p] = "deciding" => status'[run'[p]] \in {"paused", "deleted"}
               /\ at'[p] = "leaving" => status'[run'[p]] \in Final \cup {"paused", "deleted"}
               /\ at'[p] \in Executing =>
                     /\ status'[run'[p]] \in {"running", "deleted"} /\ run'[p] \in live'[host'[p]]
                     /\ age'[run'[p]] <= sinceBeat[host'[p]] + MaxGap
    <3>1. p # q
      BY <1>2, <2>1
    <3>2. at'[p] = at[p] /\ run'[p] = run[p] /\ host'[p] = host[p]
      BY <1>2, <3>1
    <3>3. status'[run[p]] = status[run[p]] /\ age'[run[p]] = age[run[p]]
      BY <1>4, <2>1, <3>1, <3>2
    <3>4. run[p] \in live[host[p]] => run[p] \in live'[host[p]]
      BY <1>3, <1>4, <2>1, <3>1, <3>2
    <3>5. QED
      BY <2>1, <3>2, <3>3, <3>4 DEF LeaseInv, Holding
  <2>2. UNCHANGED <<up, sinceBeat>>
    BY DEF loopVars, beatVars
  <2>3. \A o, p \in Requests : run'[o] = run'[p] => o = p \/ run'[o] = NoRun
    BY <1>2 DEF LeaseInv, Holding
  <2>4. \A p \in Requests : p \in Runs => run'[p] \in {p, NoRun}
    BY <1>2 DEF LeaseInv, Holding
  <2>5. QED
    BY <2>1, <2>2, <2>3, <2>4 DEF Holding, Final, Executing
<1>6. Beating'
  <2>1. UNCHANGED <<loop, sinceBeat, beatSet, beatAge, todo>>
    BY DEF loopVars, beatVars, scanVars
  <2>2. ASSUME NEW w \in Workers, loop[w] = "beating", NEW r \in live'[w] \ beatSet[w]
        PROVE  age'[r] <= beatAge[w] + MaxGap
    <3>1. r \in Runs /\ age[r] <= beatAge[w] + MaxGap
      BY <1>3, <2>2 DEF LeaseInv, Beating, TypeOK, RequestTypes
    <3>2. 0 <= beatAge[w] + MaxGap
      BY DEF TypeOK, LoopTypes
    <3>3. QED
      BY <3>1, <3>2
  <2>3. ASSUME NEW w \in Workers, NEW r \in todo[w]
        PROVE  status'[r] = status[r]
    BY Unselected DEF TypeOK, LoopTypes
  <2>4. \A r \in Runs : Serving(r)' \subseteq Serving(r)
    BY <1>2 DEF Serving
  <2>5. QED
    BY <2>1, <2>2, <2>3, <2>4 DEF LeaseInv, Beating, TypeOK, LoopTypes
<1>7. QED
  BY <1>5, <1>6 DEF LeaseInv

LEMMA RequestStepLease ==
    ASSUME TypeOK, LeaseInv, NEW q \in Requests, RequestStep(q) \/ RequestError(q)
    PROVE  LeaseInv'
<1>1. ASSUME at[q] \in Executing, Writes(q)
      PROVE  status[run[q]] = "running" /\ run[q] \in Runs
  BY <1>1, Unselected, Served DEF Executing
<1>2. CASE EnterStep(q) \/ Skip(q) \/ Try(q) \/ TryFails(q) \/ TrySucceeds(q) \/ Record(q)
  <2>1. at[q] \in Executing /\ Writes(q)
    BY <1>2 DEF EnterStep, Skip, Try, TryFails, TrySucceeds, CloseTry, Record, Executing
  <2>2. PICK a \in Executing : at' = [at EXCEPT ![q] = a]
    BY <1>2 DEF EnterStep, Skip, NextStep, Try, TryFails, TrySucceeds, CloseTry, Record, Executing
  <2>3. UNCHANGED <<status, age, run, host, up, live, loopVars>>
    BY <1>2 DEF EnterStep, Skip, Try, TryFails, TrySucceeds, CloseTry, Record
  <2>4. a # "leaving"
    BY DEF Executing
  <2>5. QED
    BY <1>1, <2>1, <2>2, <2>3, <2>4, MoveLease
<1>3. CASE Pause(q) \/ FinishRun(q)
  <2>1. at[q] \in Executing /\ Writes(q) /\ at' = [at EXCEPT ![q] = "leaving"]
    BY <1>3 DEF Pause, FinishRun, Finish, Executing
  <2>2. /\ status'[run[q]] \in Final \cup {"paused"} /\ age'[run[q]] \in {age[run[q]], 0}
        /\ \A r \in Runs \ {run[q]} : status'[r] = status[r] /\ age'[r] = age[r]
    BY <1>1, <1>3, <2>1 DEF Pause, FinishRun, Finish, Final, TypeOK, RowTypes
  <2>3. UNCHANGED <<run, host, up, live, loopVars>>
    BY <1>3 DEF Pause, FinishRun
  <2>4. "leaving" \notin Executing
    BY DEF Executing
  <2>5. QED
    BY <2>1, <2>2, <2>3, <2>4, MoveLease
<1>4. CASE Leave(q) \/ RequestBreaks(q) \/ RequestError(q)
  <2>1. at[q] # "idle" /\ EndRequest(q) /\ UNCHANGED <<status, age, up, loopVars>>
    BY <1>4 DEF Leave, RequestBreaks, RequestError, Executing, rowVars
  <2>2. QED
    BY <2>1, EndRequestLease
<1>5. QED
  BY <1>2, <1>3, <1>4 DEF RequestStep

\* A request begins to serve a run that nobody serves and no reaper has selected.
LEMMA BeginLease ==
    ASSUME TypeOK, LeaseInv, NEW q \in Requests, NEW r \in Runs, NEW w \in up,
           at[q] = "idle", Serving(r) = {}, q \in Runs => q = r,
           \A v \in Workers : r \notin todo[v],
           NEW a \in {"step", "deciding"}, at' = [at EXCEPT ![q] = a],
           run' = [run EXCEPT ![q] = r], host' = [host EXCEPT ![q] = w],
           UNCHANGED <<up, loopVars>>,
           \A s \in Runs \ {r} : status'[s] = status[s] /\ age'[s] = age[s],
           \/ /\ a = "deciding" /\ status'[r] = "paused"
              /\ age'[r] = age[r] /\ live' = live
           \/ /\ a = "step" /\ status'[r] = "running"
              /\ age'[r] = 0 /\ live' = [live EXCEPT ![w] = @ \cup {r}]
    PROVE  LeaseInv'
<1> USE DEF Executing
<1>1. w \in Workers /\ r # NoRun /\ run[q] = NoRun
  BY DEF TypeOK, RequestTypes
<1>2. \A p \in Requests : /\ at'[p] = IF p = q THEN a ELSE at[p]
                          /\ run'[p] = IF p = q THEN r ELSE run[p]
                          /\ host'[p] = IF p = q THEN w ELSE host[p]
  BY DEF TypeOK, RequestTypes
<1>3. \A p \in Requests : run[p] # r
  BY DEF Serving
<1>4. \A v \in Workers : live[v] \subseteq live'[v] /\ live'[v] \subseteq live[v] \cup {r}
  <2>1. CASE live' = live
    BY <2>1
  <2>2. CASE live' = [live EXCEPT ![w] = @ \cup {r}]
    BY <2>2 DEF TypeOK, RequestTypes
  <2>3. QED
    BY <2>1, <2>2
<1>5. a = "step" => r \in live'[w]
  BY <1>1 DEF TypeOK, RequestTypes
<1>6. \A v \in Workers : 0 <= sinceBeat[v] + MaxGap /\ 0 <= beatAge[v] + MaxGap
  BY DEF TypeOK, LoopTypes
<1>7. Holding'
  <2>1. ASSUME NEW p \in Requests, at'[p] # "idle"
        PROVE  /\ host'[p] \in up
               /\ at'[p] = "deciding" => status'[run'[p]] \in {"paused", "deleted"}
               /\ at'[p] = "leaving" => status'[run'[p]] \in Final \cup {"paused", "deleted"}
               /\ at'[p] \in Executing =>
                     /\ status'[run'[p]] \in {"running", "deleted"} /\ run'[p] \in live'[host'[p]]
                     /\ age'[run'[p]] <= sinceBeat[host'[p]] + MaxGap
    <3>1. CASE p = q
      BY <1>1, <1>2, <1>5, <1>6, <3>1
    <3>2. CASE p # q
      <4>1. at'[p] = at[p] /\ run'[p] = run[p] /\ host'[p] = host[p] /\ run[p] \in Runs \ {r}
        BY <1>2, <1>3, <2>1, <3>2, Served
      <4>2. host[p] \in up /\ host[p] \in Workers
        BY <2>1, <4>1 DEF LeaseInv, Holding, TypeOK, RequestTypes
      <4>3. status'[run[p]] = status[run[p]] /\ age'[run[p]] = age[run[p]]
        BY <4>1
      <4>4. run[p] \in live[host[p]] => run[p] \in live'[host[p]]
        BY <1>4, <4>2
      <4>5. QED
        BY <2>1, <4>1, <4>2, <4>3, <4>4 DEF LeaseInv, Holding
    <3>3. QED
      BY <3>1, <3>2
  <2>2. \A o, p \in Requests : run'[o] = run'[p] => o = p \/ run'[o] = NoRun
    BY <1>2, <1>3 DEF LeaseInv, Holding
  <2>3. \A p \in Requests : p \in Runs => run'[p] \in {p, NoRun}
    BY <1>2 DEF LeaseInv, Holding
  <2>4. UNCHANGED <<up, sinceBeat>>
    BY DEF loopVars, beatVars
  <2>5. QED
    BY <2>1, <2>2, <2>3, <2>4 DEF Holding, Final
<1>8. Beating'
  <2>1. UNCHANGED <<loop, sinceBeat, beatSet, beatAge, todo>>
    BY DEF loopVars, beatVars, scanVars
  <2>2. ASSUME NEW v \in Workers, loop[v] = "beating", NEW s \in live'[v] \ beatSet[v]
        PROVE  age'[s] <= beatAge[v] + MaxGap
    <3>1. CASE s \in live[v]
      <4>1. s \in Runs /\ age[s] <= beatAge[v] + MaxGap
        BY <2>2, <3>1 DEF LeaseInv, Beating, TypeOK, RequestTypes
      <4>2. QED
        BY <1>6, <4>1
    <3>2. CASE s \notin live[v]
      <4>1. s = r /\ live' # live
        BY <1>4, <2>2, <3>2
      <4>2. QED
        BY <1>6, <4>1
    <3>3. QED
      BY <3>1, <3>2
  <2>3. ASSUME NEW v \in Workers, NEW s \in todo[v]
        PROVE  s \in Runs /\ status'[s] = status[s] /\ Serving(s)' = Serving(s)
    <3>1. s \in Runs \ {r}
      BY DEF TypeOK, LoopTypes
    <3>2. \A p \in Requests : run'[p] = s <=> run[p] = s
      BY <1>1, <1>2, <3>1
    <3>3. QED
      BY <3>1, <3>2 DEF Serving
  <2>4. QED
    BY <2>1, <2>2, <2>3 DEF LeaseInv, Beating
<1>9. QED
  BY <1>7, <1>8 DEF LeaseInv

LEMMA StartLease ==
    ASSUME TypeOK, LeaseInv, NEW r \in Runs, NEW w \in Workers, Start(r, w)
    PROVE  LeaseInv'
<1>1. Serving(r) = {}
  <2>1. ASSUME NEW q \in Requests, run[q] = r PROVE FALSE
    <3>1. at[q] # "idle" /\ status[run[q]] = "absent"
      BY <2>1 DEF Start, TypeOK, RequestTypes
    <3>2. QED
      BY <3>1 DEF LeaseInv, Holding, TypeOK, RequestTypes, Final
  <2>2. QED
    BY <2>1 DEF Serving
<1>2. r \in Requests /\ at[r] = "idle"
  BY <1>1 DEF Requests, Serving, LeaseInv, Holding, TypeOK, RequestTypes
<1>3. \A v \in Workers : r \notin todo[v]
  BY DEF Start, LeaseInv, Beating
<1>4. /\ status'[r] = "running" /\ age'[r] = 0
      /\ \A s \in Runs \ {r} : status'[s] = status[s] /\ age'[s] = age[s]
  BY DEF Start, TypeOK, RowTypes
<1>5. QED
  BY <1>1, <1>2, <1>3, <1>4, BeginLease DEF Start

\* Of requests that serve one run at a time there is none beside a decision.
LEMMA NobodyElse ==
    ASSUME MaxServing = 1, LeaseInv, NEW r \in Runs, Cardinality(Serving(r)) < MaxServing
    PROVE  Serving(r) = {}
<1>1. ASSUME NEW q \in Serving(r) PROVE FALSE
  <2>1. ASSUME NEW p \in Serving(r) PROVE p = q
    BY <1>1, <2>1 DEF Serving, LeaseInv, Holding
  <2>2. Serving(r) = {q}
    BY <1>1, <2>1
  <2>3. Cardinality({q}) = 1
    BY FS_Singleton
  <2>4. Cardinality(Serving(r)) = 1
    BY <2>2, <2>3
  <2>5. QED
    BY <2>4
<1>2. QED
  BY <1>1

LEMMA OpenDecisionLease ==
    ASSUME MaxServing = 1, TypeOK, LeaseInv, NEW o \in Operators, NEW r \in Runs, NEW w \in Workers,
           OpenDecision(o, r, w)
    PROVE  LeaseInv'
<1>1. Serving(r) = {} /\ o \in Requests /\ o \notin Runs
  BY NobodyElse DEF OpenDecision, Requests
<1>2. status[r] = "paused" /\ \A v \in Workers : r \notin todo[v]
  BY DEF OpenDecision, LeaseInv, Beating
<1>3. QED
  BY <1>1, <1>2, BeginLease DEF OpenDecision, rowVars

\* An approved run is executing again, with a fresh lease on the operator's worker.
LEMMA ResumeLease ==
    ASSUME TypeOK, LeaseInv, NEW o \in Requests, at[o] = "deciding", NEW r \in Runs, run[o] = r,
           \A w \in Workers : r \notin todo[w], at' = [at EXCEPT ![o] = "step"],
           UNCHANGED <<run, host, up, loopVars>>,
           live' = [live EXCEPT ![host[o]] = @ \cup {r}],
           status'[r] = "running", age'[r] = 0,
           \A s \in Runs \ {r} : status'[s] = status[s] /\ age'[s] = age[s]
    PROVE  LeaseInv'
<1>1. host[o] \in up /\ host[o] \in Workers
  BY DEF LeaseInv, Holding, TypeOK, RequestTypes
<1>2. \A p \in Requests : at'[p] = IF p = o THEN "step" ELSE at[p]
  BY DEF TypeOK, RequestTypes
<1>3. \A w \in Workers : live[w] \subseteq live'[w] /\ live'[w] \subseteq live[w] \cup {r}
  BY DEF TypeOK, RequestTypes
<1>4. r \in live'[host[o]]
  BY <1>1 DEF TypeOK, RequestTypes
<1>5. \A w \in Workers : 0 <= sinceBeat[w] + MaxGap /\ 0 <= beatAge[w] + MaxGap
  BY DEF TypeOK, LoopTypes
<1>6. Holding'
  <2>1. ASSUME NEW p \in Requests, at'[p] # "idle"
        PROVE  /\ host[p] \in up
               /\ at'[p] = "deciding" => status'[run[p]] \in {"paused", "deleted"}
               /\ at'[p] = "leaving" => status'[run[p]] \in Final \cup {"paused", "deleted"}
               /\ at'[p] \in Executing =>
                     /\ status'[run[p]] \in {"running", "deleted"} /\ run[p] \in live'[host[p]]
                     /\ age'[run[p]] <= sinceBeat[host[p]] + MaxGap
    <3>1. CASE p = o
      BY <1>1, <1>2, <1>4, <1>5, <3>1
    <3>2. CASE p # o
      <4>1. at'[p] = at[p] /\ run[p] \in Runs \ {r}
        BY <1>2, <2>1, <3>2, Served DEF LeaseInv, Holding
      <4>2. host[p] \in up /\ host[p] \in Workers
        BY <2>1, <4>1 DEF LeaseInv, Holding, TypeOK, RequestTypes
      <4>3. run[p] \in live[host[p]] => run[p] \in live'[host[p]]
        BY <1>3, <4>2
      <4>4. QED
        BY <2>1, <4>1, <4>2, <4>3 DEF LeaseInv, Holding
    <3>3. QED
      BY <3>1, <3>2
  <2>2. UNCHANGED <<run, up, sinceBeat>>
    BY DEF loopVars, beatVars
  <2>3. QED
    BY <2>1, <2>2 DEF LeaseInv, Holding, Executing, Final
<1>7. Beating'
  <2>1. UNCHANGED <<loop, beatSet, beatAge, todo, run>>
    BY DEF loopVars, beatVars, scanVars
  <2>2. ASSUME NEW w \in Workers, loop[w] = "beating", NEW s \in live'[w] \ beatSet[w]
        PROVE  age'[s] <= beatAge[w] + MaxGap
    <3>1. CASE s = r
      BY <1>5, <3>1
    <3>2. CASE s # r
      <4>1. s \in live[w] /\ s \in Runs
        BY <1>3, <2>2, <3>2 DEF TypeOK, RequestTypes
      <4>2. QED
        BY <2>2, <3>2, <4>1 DEF LeaseInv, Beating
    <3>3. QED
      BY <3>1, <3>2
  <2>3. ASSUME NEW w \in Workers, NEW s \in todo[w] PROVE s \in Runs /\ status'[s] = status[s]
    BY DEF TypeOK, LoopTypes
  <2>4. QED
    BY <2>1, <2>2, <2>3 DEF LeaseInv, Beating, Serving
<1>8. QED
  BY <1>6, <1>7 DEF LeaseInv

LEMMA DecideLease ==
    ASSUME TypeOK, LeaseInv, NEW o \in Operators, Decide(o)
    PROVE  LeaseInv'
<1>1. o \in Requests /\ at[o] = "deciding" /\ Writes(o) /\ run[o] \in Runs
  BY Served DEF Decide, Approve, Resume, Reject, Resolve, Requests, TypeOK
<1>2. CASE Approve(o)
  <2>1. host[o] \in up /\ host[o] \in Workers /\ \A w \in Workers : run[o] \notin todo[w]
    BY <1>1, Unselected DEF LeaseInv, Holding, TypeOK, RequestTypes
  <2>2. /\ at' = [at EXCEPT ![o] = "step"] /\ UNCHANGED <<run, host, up, loopVars>>
        /\ live' = [live EXCEPT ![host[o]] = @ \cup {run[o]}]
        /\ status'[run[o]] = "running" /\ age'[run[o]] = 0
        /\ \A r \in Runs \ {run[o]} : status'[r] = status[r] /\ age'[r] = age[r]
    BY <1>1, <1>2 DEF Approve, Resume, TypeOK, RowTypes
  <2>3. QED
    BY <1>1, <2>1, <2>2, ResumeLease
<1>3. CASE Reject(o)
  <2>1. EndRequest(o) /\ UNCHANGED <<up, loopVars>>
    BY <1>3 DEF Reject
  <2>2. /\ age'[run[o]] = 0
        /\ \A r \in Runs \ {run[o]} : status'[r] = status[r] /\ age'[r] = age[r]
    BY <1>1, <1>3 DEF Reject, Finish, TypeOK, RowTypes
  <2>3. QED
    BY <1>1, <2>1, <2>2, EndRequestLease
<1>4. QED
  BY <1>2, <1>3 DEF Decide

\* Its workflow deleted, a run is out of every lease's reach.
LEMMA DeleteLease ==
    ASSUME TypeOK, LeaseInv, DeleteCounts \/ DeleteCommits \/ DeleteFails
    PROVE  LeaseInv'
<1>1. CASE DeleteCounts \/ DeleteFails
  BY <1>1, Elsewhere DEF DeleteCounts, DeleteFails, reqVars
<1>2. CASE DeleteCommits
  <2>1. UNCHANGED <<at, run, host, up, live, loop, sinceBeat, beatSet, beatAge, todo>>
    BY <1>2 DEF DeleteCommits, reqVars, loopVars, beatVars, scanVars
  <2>2. \A r \in Runs : age'[r] = 0 /\ (status[r] # "absent" => status'[r] = "deleted")
    BY <1>2 DEF DeleteCommits
  <2>3. \A w \in Workers : 0 <= sinceBeat[w] + MaxGap /\ 0 <= beatAge[w] + MaxGap
    BY DEF TypeOK, LoopTypes
  <2>4. ASSUME NEW q \in Requests, at[q] # "idle"
        PROVE  /\ run[q] \in Runs /\ host[q] \in up /\ host[q] \in Workers /\ status[run[q]] # "absent"
               /\ at[q] \in Executing => run[q] \in live[host[q]]
    <3>1. run[q] \in Runs /\ host[q] \in up /\ at[q] \in {"leaving", "deciding"} \cup Executing
      BY <2>4, Served DEF LeaseInv, Holding, TypeOK, RequestTypes
    <3>2. QED
      BY <3>1 DEF LeaseInv, Holding, Final, TypeOK, RequestTypes
  <2>5. Holding'
    BY <2>1, <2>2, <2>3, <2>4 DEF LeaseInv, Holding, Executing, Final
  <2>6. Beating'
    <3>1. ASSUME NEW w \in Workers, NEW r \in live[w] PROVE age'[r] <= beatAge[w] + MaxGap
      BY <2>2, <2>3, <3>1 DEF TypeOK, RequestTypes
    <3>2. ASSUME NEW w \in Workers, NEW r \in todo[w] PROVE status'[r] = "deleted"
      BY <2>2 DEF LeaseInv, Beating, TypeOK, LoopTypes
    <3>3. QED
      BY <2>1, <3>1, <3>2 DEF Beating, Serving
  <2>7. QED
    BY <2>5, <2>6 DEF LeaseInv
<1>3. QED
  BY <1>1, <1>2

\* Steps that change no row and no request, and forget heartbeats or scans.
LEMMA IdleLease ==
    ASSUME TypeOK, LeaseInv, UNCHANGED <<status, age, at, run, host, up, live, sinceBeat>>,
           \A w \in Workers :
              /\ loop'[w] = "beating" => loop[w] = "beating" /\ beatSet'[w] = beatSet[w]
                                         /\ beatAge'[w] = beatAge[w]
              /\ todo'[w] \subseteq todo[w]
    PROVE  LeaseInv'
<1>1. Holding'
  BY DEF LeaseInv, Holding, Executing, Final
<1>2. Beating'
  BY DEF LeaseInv, Beating, Serving, TypeOK, LoopTypes
<1>3. QED
  BY <1>1, <1>2 DEF LeaseInv

\* What a scan finds stale is served by nobody: an executor's lease is at most two
\* gaps old, and who leaves or decides has a run that is not RUNNING.
LEMMA StaleIsOrphaned ==
    ASSUME TypeOK, LeaseInv, NEW r \in Runs, NEW since \in 0..MaxGap, Stale(r, since)
    PROVE  status[r] = "running" /\ Serving(r) = {}
<1>1. ASSUME NEW q \in Requests, run[q] = r PROVE FALSE
  <2>1. at[q] # "idle" /\ status[run[q]] = "running"
    BY <1>1 DEF Stale, TypeOK, RequestTypes
  <2>2. at[q] \in Executing
    BY <2>1 DEF LeaseInv, Holding, TypeOK, RequestTypes, Final
  <2>3. host[q] \in Workers /\ age[r] <= sinceBeat[host[q]] + MaxGap
    BY <1>1, <2>1, <2>2 DEF LeaseInv, Holding, TypeOK, RequestTypes
  <2>4. sinceBeat[host[q]] <= MaxGap /\ sinceBeat[host[q]] \in Nat /\ age[r] \in Nat
    BY <2>3 DEF TypeOK, LoopTypes, RowTypes, Oldest
  <2>5. age[r] > StaleAfter + since
    BY DEF Stale
  <2>6. QED
    BY <2>3, <2>4, <2>5
<1>2. QED
  BY <1>1 DEF Stale, Serving

LEMMA ReapLease ==
    ASSUME TypeOK, LeaseInv, NEW w \in Workers, NEW r \in Runs, Reap(w, r)
    PROVE  LeaseInv'
<1>1. Serving(r) = {} /\ status[r] = "running"
  BY DEF Reap, Claim, Stale, LeaseInv, Beating
<1>2. /\ age'[r] = 0 /\ status'[r] = "failed"
      /\ \A s \in Runs \ {r} : status'[s] = status[s] /\ age'[s] = age[s]
  BY DEF Reap, Claim, TypeOK, RowTypes
<1>3. /\ UNCHANGED <<up, live, at, run, host, loop, sinceBeat, beatSet, beatAge>>
      /\ \A v \in Workers : todo'[v] \subseteq todo[v]
  BY DEF Reap, Claim, reqVars, beatVars, TypeOK, LoopTypes
<1>4. ASSUME NEW q \in Requests, at[q] # "idle"
      PROVE  status'[run[q]] = status[run[q]] /\ age'[run[q]] = age[run[q]]
  BY <1>1, <1>2, <1>4, Served DEF Serving
<1>5. Holding'
  BY <1>3, <1>4 DEF LeaseInv, Holding, Executing, Final
<1>6. Beating'
  <2>1. ASSUME NEW v \in Workers, loop[v] = "beating", NEW s \in live[v] \ beatSet[v]
        PROVE  age'[s] <= beatAge[v] + MaxGap
    <3>1. s \in Runs /\ age[s] <= beatAge[v] + MaxGap /\ 0 <= beatAge[v] + MaxGap
      BY <2>1 DEF LeaseInv, Beating, TypeOK, RequestTypes, LoopTypes
    <3>2. QED
      BY <1>2, <3>1
  <2>2. ASSUME NEW v \in Workers, NEW s \in todo[v]
        PROVE  status'[s] = status[s] \/ status'[s] = "failed"
    BY <1>2 DEF TypeOK, LoopTypes
  <2>3. QED
    BY <1>3, <2>1, <2>2 DEF LeaseInv, Beating, Serving
<1>7. QED
  BY <1>5, <1>6 DEF LeaseInv

LEMMA BeatStartLease ==
    ASSUME TypeOK, LeaseInv, NEW w \in Workers, BeatStart(w)
    PROVE  LeaseInv'
<1>1. UNCHANGED <<status, age, at, run, host, up, live, sinceBeat, todo>>
  BY DEF BeatStart, rowVars, reqVars, scanVars
<1>2. \A v \in Workers : /\ v = w => beatSet'[v] = live[v]
                         /\ v # w => loop'[v] = loop[v] /\ beatSet'[v] = beatSet[v]
                                     /\ beatAge'[v] = beatAge[v]
  BY DEF BeatStart, TypeOK, LoopTypes
<1>3. Holding'
  BY <1>1 DEF LeaseInv, Holding, Executing, Final
<1>4. Beating'
  BY <1>1, <1>2 DEF LeaseInv, Beating, Serving
<1>5. QED
  BY <1>3, <1>4 DEF LeaseInv

\* A heartbeat that lands renews the lease of every run still executed on its
\* worker, and at worst sets back by one gap that of a run resumed on another.
LEMMA BeatLandsLease ==
    ASSUME TypeOK, LeaseInv, NEW w \in Workers, BeatLands(w)
    PROVE  LeaseInv'
<1>1. UNCHANGED <<status, at, run, host, up, live, todo>>
  BY DEF BeatLands, reqVars, scanVars
<1>2. /\ loop'[w] = "beaten" /\ sinceBeat'[w] = beatAge[w]
      /\ \A v \in Workers \ {w} : /\ loop'[v] = loop[v] /\ sinceBeat'[v] = sinceBeat[v]
                                  /\ beatSet'[v] = beatSet[v] /\ beatAge'[v] = beatAge[v]
  BY DEF BeatLands, ForgetBeat, TypeOK, LoopTypes
<1>3. \A v \in Workers : sinceBeat[v] \in 0..MaxGap /\ beatAge[v] \in 0..MaxGap
  BY DEF TypeOK, LoopTypes
<1>4. ASSUME NEW q \in Requests, at[q] \in Executing
      PROVE  age'[run[q]] <= sinceBeat'[host[q]] + MaxGap
  <2>1. /\ run[q] \in Runs /\ host[q] \in Workers /\ run[q] \in live[host[q]]
        /\ age[run[q]] <= sinceBeat[host[q]] + MaxGap
        /\ status[run[q]] \in {"running", "deleted"}
    BY <1>4, Served DEF LeaseInv, Holding, TypeOK, RequestTypes, Executing
  <2>2. CASE status[run[q]] = "deleted"
    <3>1. age'[run[q]] = 0 /\ sinceBeat'[host[q]] \in 0..MaxGap
      BY <1>2, <1>3, <2>1, <2>2 DEF BeatLands, TypeOK, RowTypes, Open
    <3>2. QED
      BY <3>1
  <2>3. CASE status[run[q]] = "running" /\ run[q] \in beatSet[w]
    <3>1. age'[run[q]] = beatAge[w] /\ sinceBeat'[host[q]] \in 0..MaxGap
      BY <1>2, <1>3, <2>1, <2>3 DEF BeatLands
    <3>2. QED
      BY <1>3, <3>1
  <2>4. CASE status[run[q]] = "running" /\ run[q] \notin beatSet[w]
    <3>1. age'[run[q]] = age[run[q]]
      BY <2>1, <2>4 DEF BeatLands
    <3>2. host[q] = w => age[run[q]] <= beatAge[w] + MaxGap
      BY <2>1, <2>4 DEF BeatLands, LeaseInv, Beating
    <3>3. QED
      BY <1>2, <2>1, <3>1, <3>2
  <2>5. QED
    BY <2>1, <2>2, <2>3, <2>4
<1>5. Holding'
  BY <1>1, <1>4 DEF LeaseInv, Holding, Executing, Final
<1>6. Beating'
  <2>1. ASSUME NEW v \in Workers \ {w}, loop[v] = "beating", NEW r \in live[v] \ beatSet[v]
        PROVE  age'[r] <= beatAge[v] + MaxGap
    <3>1. r \in Runs /\ age[r] <= beatAge[v] + MaxGap
      BY <2>1 DEF LeaseInv, Beating, TypeOK, RequestTypes
    <3>2. age'[r] \in {age[r], beatAge[w]}
      BY <3>1 DEF BeatLands
    <3>3. QED
      BY <1>3, <3>1, <3>2
  <2>2. QED
    BY <1>1, <1>2, <2>1 DEF LeaseInv, Beating, Serving
<1>7. QED
  BY <1>5, <1>6 DEF LeaseInv

LEMMA LoopStepLease ==
    ASSUME TypeOK, LeaseInv, NEW w \in Workers, LoopStep(w) \/ TickFails(w)
    PROVE  LeaseInv'
<1>1. CASE BeatStart(w)
  BY <1>1, BeatStartLease
<1>2. CASE BeatLands(w)
  BY <1>2, BeatLandsLease
<1>3. CASE StandDown(w) \/ ReapEnds(w) \/ TickFails(w)
  <2>1. UNCHANGED <<status, age, at, run, host, up, live, sinceBeat>>
    BY <1>3 DEF StandDown, ReapEnds, TickFails, rowVars, reqVars, beatVars
  <2>2. ASSUME NEW v \in Workers
        PROVE  /\ loop'[v] = "beating" => loop[v] = "beating" /\ beatSet'[v] = beatSet[v]
                                          /\ beatAge'[v] = beatAge[v]
               /\ todo'[v] \subseteq todo[v]
    BY <1>3 DEF StandDown, ReapEnds, TickFails, ForgetScan, ForgetBeat, beatVars, scanVars,
                TypeOK, LoopTypes
  <2>3. QED
    BY <2>1, <2>2, IdleLease
<1>4. CASE Select(w)
  <2>1. UNCHANGED <<status, age, at, run, host, up, live, sinceBeat, beatSet, beatAge>>
    BY <1>4 DEF Select, rowVars, reqVars, beatVars
  <2>2. loop'[w] = "reaping" /\ \A v \in Workers \ {w} : todo'[v] = todo[v] /\ loop'[v] = loop[v]
    BY <1>4 DEF Select, TypeOK, LoopTypes
  <2>3. \A r \in todo'[w] : status[r] = "running" /\ Serving(r) = {}
    BY <1>4, StaleIsOrphaned, AgeRange DEF Select, TypeOK, LoopTypes
  <2>4. Holding'
    BY <2>1 DEF LeaseInv, Holding, Executing, Final
  <2>5. Beating'
    BY <2>1, <2>2, <2>3 DEF LeaseInv, Beating, Serving
  <2>6. QED
    BY <2>4, <2>5 DEF LeaseInv
<1>5. ASSUME NEW r \in Runs, Reap(w, r) PROVE LeaseInv'
  BY <1>5, ReapLease
<1>6. ASSUME NEW r \in Runs, ReapMisses(w, r) PROVE LeaseInv'
  <2>1. UNCHANGED <<status, age, at, run, host, up, live, sinceBeat, loop, beatSet, beatAge>>
    BY <1>6 DEF ReapMisses, rowVars, reqVars, beatVars
  <2>2. \A v \in Workers : todo'[v] \subseteq todo[v]
    BY <1>6 DEF ReapMisses, TypeOK, LoopTypes
  <2>3. QED
    BY <2>1, <2>2, IdleLease
<1>7. QED
  BY <1>1, <1>2, <1>3, <1>4, <1>5, <1>6 DEF LoopStep

\* A crash takes the worker's requests with it, and leaves every other lease.
LEMMA CrashLease ==
    ASSUME TypeOK, LeaseInv, NEW w \in Workers, Crash(w)
    PROVE  LeaseInv'
<1>1. \A q \in Requests :
         /\ at'[q] = IF host[q] = w THEN "idle" ELSE at[q]
         /\ run'[q] = IF host[q] = w THEN NoRun ELSE run[q]
         /\ host'[q] = IF host[q] = w THEN NoWorker ELSE host[q]
  BY DEF Crash, ForgetRequests
<1>2. UNCHANGED <<status, age>> /\ up' = up \ {w}
  BY DEF Crash, rowVars
<1>3. /\ live'[w] = {} /\ loop'[w] = "sleep" /\ todo'[w] = {}
      /\ \A v \in Workers \ {w} : /\ live'[v] = live[v] /\ loop'[v] = loop[v] /\ todo'[v] = todo[v]
                                  /\ sinceBeat'[v] = sinceBeat[v] /\ beatSet'[v] = beatSet[v]
                                  /\ beatAge'[v] = beatAge[v]
  BY DEF Crash, ForgetScan, ForgetBeat, TypeOK, RequestTypes, LoopTypes
<1>4. Holding'
  <2>1. ASSUME NEW q \in Requests, at'[q] # "idle"
        PROVE  /\ at'[q] = at[q] /\ run'[q] = run[q] /\ host'[q] = host[q]
               /\ host[q] \in Workers \ {w} /\ host[q] \in up'
    BY <1>1, <1>2, <2>1 DEF LeaseInv, Holding, TypeOK, RequestTypes
  <2>2. \A p, q \in Requests : run'[p] = run'[q] => p = q \/ run'[p] = NoRun
    BY <1>1 DEF LeaseInv, Holding
  <2>3. \A q \in Requests : q \in Runs => run'[q] \in {q, NoRun}
    BY <1>1 DEF LeaseInv, Holding
  <2>4. QED
    BY <1>2, <1>3, <2>1, <2>2, <2>3 DEF LeaseInv, Holding, Executing, Final
<1>5. Beating'
  <2>1. ASSUME NEW v \in Workers, NEW r \in todo'[v]
        PROVE  r \in todo[v] /\ Serving(r)' \subseteq Serving(r)
    <3>1. r \in Runs /\ r \in todo[v]
      BY <1>3 DEF TypeOK, LoopTypes
    <3>2. \A q \in Requests : run'[q] = r => run[q] = r
      BY <1>1, <3>1
    <3>3. QED
      BY <3>1, <3>2 DEF Serving
  <2>2. QED
    BY <1>2, <1>3, <2>1 DEF LeaseInv, Beating
<1>6. QED
  BY <1>4, <1>5 DEF LeaseInv

LEMMA TickLease ==
    ASSUME TypeOK, LeaseInv, Tick
    PROVE  LeaseInv'
<1>1. UNCHANGED <<status, at, run, host, up, live, loop, beatSet, todo>>
  BY DEF Tick, reqVars
<1>2. \A r \in Runs : age[r] \in Nat /\ age'[r] \in Nat /\ age'[r] <= age[r] + 1
  BY OlderAge DEF Tick, TypeOK, RowTypes, Oldest
<1>3. \A w \in Workers : /\ sinceBeat[w] \in Nat /\ beatAge[w] \in Nat
                         /\ w \in up => sinceBeat'[w] = sinceBeat[w] + 1
                         /\ loop[w] = "beating" => beatAge'[w] = beatAge[w] + 1
  BY DEF Tick, TypeOK, LoopTypes
<1>4. Holding'
  <2>1. ASSUME NEW q \in Requests, at[q] \in Executing
        PROVE  age'[run[q]] <= sinceBeat'[host[q]] + MaxGap
    <3>1. run[q] \in Runs /\ host[q] \in up /\ host[q] \in Workers
          /\ age[run[q]] <= sinceBeat[host[q]] + MaxGap
      BY <2>1, Served DEF LeaseInv, Holding, TypeOK, RequestTypes, Executing
    <3>2. QED
      BY <1>2, <1>3, <3>1
  <2>2. QED
    BY <1>1, <2>1 DEF LeaseInv, Holding, Executing, Final
<1>5. Beating'
  <2>1. ASSUME NEW w \in Workers, loop[w] = "beating", NEW r \in live[w] \ beatSet[w]
        PROVE  age'[r] <= beatAge'[w] + MaxGap
    <3>1. r \in Runs /\ age[r] <= beatAge[w] + MaxGap
      BY <2>1 DEF LeaseInv, Beating, TypeOK, RequestTypes
    <3>2. QED
      BY <1>2, <1>3, <2>1, <3>1
  <2>2. QED
    BY <1>1, <2>1 DEF LeaseInv, Beating, Serving
<1>6. QED
  BY <1>4, <1>5 DEF LeaseInv

LEMMA NextLease ==
    ASSUME MaxServing = 1, TypeOK, LeaseInv, [Next]_vars
    PROVE  LeaseInv'
<1>1. ASSUME NEW q \in Requests, RequestStep(q) \/ RequestError(q) PROVE LeaseInv'
  BY <1>1, RequestStepLease
<1>2. ASSUME NEW r \in Runs, NEW w \in Workers, Start(r, w) PROVE LeaseInv'
  BY <1>2, StartLease
<1>3. ASSUME NEW r \in Runs, NEW w \in Workers, NEW o \in Operators, OpenDecision(o, r, w)
      PROVE  LeaseInv'
  BY <1>3, OpenDecisionLease
<1>4. ASSUME NEW o \in Operators, Decide(o) PROVE LeaseInv'
  BY <1>4, DecideLease
<1>5. CASE DeleteCounts \/ DeleteCommits \/ DeleteFails
  BY <1>5, DeleteLease
<1>6. ASSUME NEW w \in Workers, LoopStep(w) \/ TickFails(w) PROVE LeaseInv'
  BY <1>6, LoopStepLease
<1>7. ASSUME NEW w \in Workers, Crash(w) PROVE LeaseInv'
  BY <1>7, CrashLease
<1>8. ASSUME NEW w \in Workers, Restart(w) PROVE LeaseInv'
  <2>1. Holding' /\ Beating'
    BY <1>8 DEF Restart, LeaseInv, Holding, Beating, Serving, Executing, Final, rowVars, reqVars,
                loopVars, beatVars, scanVars
  <2>2. QED
    BY <2>1 DEF LeaseInv
<1>9. CASE Tick
  BY <1>9, TickLease
<1>10. CASE UNCHANGED vars
  BY <1>10, Elsewhere DEF vars, rowVars, reqVars
<1>11. QED
  BY <1>1, <1>2, <1>3, <1>4, <1>5, <1>6, <1>7, <1>8, <1>9, <1>10 DEF Next

\* Served by one request at a time, a run has the status its request expects, and
\* an executor's lease is at most one gap older than its worker's last heartbeat.
THEOREM LeaseInvariant == ASSUME MaxServing = 1 PROVE Spec => []LeaseInv
<1>1. Init => LeaseInv
  <2>1. Init => Holding
    BY DEF Init, Holding, Executing
  <2>2. Init => Beating
    BY DEF Init, Beating
  <2>3. QED
    BY <2>1, <2>2 DEF LeaseInv
<1>2. TypeOK /\ LeaseInv /\ [Next]_vars => LeaseInv'
  BY NextLease
<1>3. QED
  BY <1>1, <1>2, TypeCorrect, PTL DEF Spec

\* No run is reaped under the request that executes it: whatever heartbeats and
\* scans are in flight, and however long it had been paused, it is RUNNING, young
\* enough and selected by no reaper, unless its workflow was deleted.
THEOREM LeaseSafety == ASSUME MaxServing = 1 PROVE Spec => []LeaseHeld
<1>1. TypeOK /\ LeaseInv => LeaseHeld
  <2> SUFFICES ASSUME TypeOK, LeaseInv, NEW q \in Requests, at[q] \in Executing, Writes(q)
               PROVE  /\ status[run[q]] = "running" /\ age[run[q]] <= StaleAfter
                      /\ \A w \in Workers : run[q] \notin todo[w]
    BY DEF LeaseHeld
  <2>1. status[run[q]] = "running" /\ \A w \in Workers : run[q] \notin todo[w]
    BY Unselected DEF Executing
  <2>2. /\ run[q] \in Runs /\ host[q] \in Workers
        /\ age[run[q]] <= sinceBeat[host[q]] + MaxGap
    BY Served DEF LeaseInv, Holding, Executing, TypeOK, RequestTypes
  <2>3. sinceBeat[host[q]] \in 0..MaxGap /\ age[run[q]] \in Nat
    BY <2>2 DEF TypeOK, RowTypes, LoopTypes, Oldest
  <2>4. age[run[q]] <= StaleAfter
    BY <2>2, <2>3
  <2>5. QED
    BY <2>1, <2>4
<1>2. QED
  BY <1>1, TypeCorrect, LeaseInvariant, PTL

\* A run that succeeded or failed is never brought back or revised, although every
\* executor writes its status by primary key from a session of its own.
THEOREM EndsAreFinal == ASSUME MaxServing = 1 PROVE Spec => FinalIsFinal
<1> DEFINE Kept == \A r \in Runs : status[r] \in Final => status'[r] \in {status[r], "deleted"}
<1>1. TypeOK /\ LeaseInv /\ [Next]_vars => [Kept]_vars
  <2> SUFFICES ASSUME TypeOK, LeaseInv, Next, NEW r \in Runs, status[r] \in Final
               PROVE  status'[r] \in {status[r], "deleted"}
    OBVIOUS
  <2> USE DEF Final
  <2>1. ASSUME NEW q \in Requests, at[q] # "idle", at[q] # "leaving", Writes(q)
        PROVE  run[q] # r
    BY <2>1, Unselected DEF TypeOK, RequestTypes
  <2>2. ASSUME NEW q \in Requests, RequestStep(q) \/ RequestError(q)
        PROVE  status'[r] \in {status[r], "deleted"}
    <3>1. CASE Pause(q) \/ FinishRun(q)
      <4>1. run[q] # r
        BY <2>1, <3>1 DEF Pause, FinishRun, Finish
      <4>2. QED
        BY <3>1, <4>1 DEF Pause, FinishRun, Finish, TypeOK, RowTypes
    <3>2. CASE ~(Pause(q) \/ FinishRun(q))
      BY <2>2, <3>2 DEF RequestStep, RequestError, EnterStep, Skip, Try, TryFails, TrySucceeds,
                        CloseTry, Record, Leave, RequestBreaks, rowVars
    <3>3. QED
      BY <3>1, <3>2
  <2>3. ASSUME NEW o \in Operators, Decide(o) PROVE status'[r] \in {status[r], "deleted"}
    <3>1. o \in Requests /\ at[o] = "deciding" /\ Writes(o)
      BY <2>3 DEF Decide, Approve, Resume, Reject, Resolve, Requests
    <3>2. run[o] # r
      BY <2>1, <3>1
    <3>3. QED
      BY <2>3, <3>2 DEF Decide, Approve, Resume, Reject, Finish, TypeOK, RowTypes
  <2>4. ASSUME NEW w \in Workers, LoopStep(w) \/ TickFails(w) \/ Crash(w) \/ Restart(w)
        PROVE  status'[r] \in {status[r], "deleted"}
    <3>1. ASSUME NEW s \in Runs, Reap(w, s) PROVE status'[r] = status[r]
      BY <3>1 DEF Reap, Claim, Stale, TypeOK, RowTypes
    <3>2. QED
      BY <2>4, <3>1 DEF LoopStep, BeatStart, BeatLands, StandDown, Select, ReapEnds, ReapMisses,
                        TickFails, Crash, Restart, rowVars
  <2>5. ASSUME NEW s \in Runs, NEW w \in Workers, Start(s, w) PROVE status'[r] = status[r]
    BY <2>5 DEF Start, TypeOK, RowTypes
  <2>6. ASSUME NEW s \in Runs, NEW w \in Workers, NEW o \in Operators, OpenDecision(o, s, w)
        PROVE  status'[r] = status[r]
    BY <2>6 DEF OpenDecision, rowVars
  <2>7. CASE DeleteCounts \/ DeleteCommits \/ DeleteFails
    BY <2>7 DEF DeleteCounts, DeleteCommits, DeleteFails
  <2>8. CASE Tick
    BY <2>8 DEF Tick
  <2>9. QED
    BY <2>2, <2>3, <2>4, <2>5, <2>6, <2>7, <2>8 DEF Next
<1>2. QED
  BY <1>1, TypeCorrect, LeaseInvariant, PTL DEF Spec, FinalIsFinal

--------------------------------------------------------------------------------
(* The trace of a run                                                         *)

\* What TraceInv says of one run.
OfRun(r) ==
    /\ Resting(r) /\ InOrder(r) /\ Closed(r)
    /\ status[r] \in {"paused", "succeeded"} => context[r] = Outputs(r)

LEMMA TraceParts ==
    /\ TraceInv => (\A r \in Runs : OfRun(r)) /\ (\A q \in Requests : Sessions(q))
    /\ (\A r \in Runs : OfRun(r)') /\ (\A q \in Requests : Sessions(q)') => TraceInv'
  BY DEF TraceInv, OfRun, StepsInOrder, TraceClosed, ContextComplete

\* A row belongs to a step.
LEMMA KeyStep == \A k \in Keys : k[1] \in Steps /\ k[1] \in Nat \ {0}
<1>1. \A k \in Keys : k[1] \in Steps
  BY DEF Keys
<1>2. QED
  BY <1>1, StepRange

\* A run whose rows a step leaves alone, and that no scan newly selects.
LEMMA SameRun ==
    ASSUME NEW r \in Runs, OfRun(r),
           status'[r] = status[r], current'[r] = current[r], context'[r] = context[r],
           trace'[r] = trace[r],
           \A w \in Workers : r \in todo'[w] => r \in todo[w] /\ seen'[w] = seen[w]
    PROVE  OfRun(r)'
<1>1. Settled(r, 1)' <=> Settled(r, 1)
  BY DEF Settled
<1>2. Outputs(r)' = Outputs(r)
  BY DEF Outputs
<1>3. Resting(r)'
  BY DEF OfRun, Resting, Settled
<1>4. InOrder(r)'
  BY DEF OfRun, InOrder, Settled
<1>5. Closed(r)'
  BY DEF OfRun, Closed, Final
<1>6. QED
  BY <1>2, <1>3, <1>4, <1>5 DEF OfRun

\* A request that does not move, whose run's rows do not change.
LEMMA SameRequest ==
    ASSUME TypeOK, NEW q \in Requests, Sessions(q),
           at'[q] = at[q], run'[q] = run[q], idx'[q] = idx[q], attempt'[q] = attempt[q],
           mem'[q] = mem[q], pending'[q] = pending[q],
           run[q] \in Runs => /\ status'[run[q]] = status[run[q]] /\ current'[run[q]] = current[run[q]]
                              /\ context'[run[q]] = context[run[q]] /\ trace'[run[q]] = trace[run[q]]
    PROVE  Sessions(q)'
<1>1. CASE at[q] = "idle"
  BY <1>1 DEF Sessions, Executing
<1>2. CASE at[q] # "idle"
  <2>1. run[q] \in Runs
    BY <1>2, Served
  <2>2. Loaded(q) => Loaded(q)'
    BY <2>1 DEF Loaded
  <2>3. Progress(q) => Progress(q)'
    BY <2>1 DEF Progress, Settled, Outputs, Row
  <2>4. Writes(q)' = Writes(q)
    BY <2>1 DEF Writes
  <2>5. QED
    BY <1>2, <2>2, <2>3, <2>4 DEF Sessions, Executing
<1>3. QED
  BY <1>1, <1>2

\* A request that steps answers only for itself and for the run it serves.
LEMMA OwnStep ==
    ASSUME TypeOK, LeaseInv, TraceInv, NEW q \in Requests, NEW r \in Runs, run[q] = r,
           \A s \in Runs \ {r} : /\ status'[s] = status[s] /\ current'[s] = current[s]
                                 /\ context'[s] = context[s] /\ trace'[s] = trace[s],
           \A p \in Requests \ {q} : /\ at'[p] = at[p] /\ run'[p] = run[p] /\ idx'[p] = idx[p]
                                     /\ attempt'[p] = attempt[p] /\ mem'[p] = mem[p]
                                     /\ pending'[p] = pending[p],
           UNCHANGED <<todo, seen>>, OfRun(r)', Sessions(q)'
    PROVE  TraceInv'
<1>1. ASSUME NEW s \in Runs PROVE OfRun(s)'
  BY SameRun, TraceParts
<1>2. ASSUME NEW p \in Requests PROVE Sessions(p)'
  <2>1. p # q /\ run[p] \in Runs => run[p] # r
    BY DEF LeaseInv, Holding
  <2>2. QED
    BY <2>1, SameRequest, TraceParts
<1>3. QED
  BY <1>1, <1>2, TraceParts

\* What is settled stays settled, and outputs stay, while no such row is rewritten.
LEMMA SettledStays ==
    ASSUME NEW r \in Runs,
           \A k \in Keys : trace[r][k] \in {"succeeded", "skipped"} => trace'[r][k] = trace[r][k]
    PROVE  \A j \in Nat : Settled(r, j) => Settled(r, j)'
  BY DEF Settled

\* One row is written, and no other.
Writing(r, new, s) == trace' = [trace EXCEPT ![r][new] = s]

\* Writing one row of a run.
LEMMA RowChange ==
    ASSUME TypeOK, NEW r \in Runs, NEW new \in Keys, NEW s \in StepStatus,
           Writing(r, new, s)
    PROVE  /\ \A k \in Keys : trace'[r][k] = IF k = new THEN s ELSE trace[r][k]
           /\ \A p \in Runs \ {r} : trace'[p] = trace[p]
  BY DEF TypeOK, RowTypes, Writing

\* Writing the only open or settled row of its step, when every earlier step is
\* settled, keeps the run in order.
LEMMA WriteRow ==
    ASSUME NEW r \in Runs, NEW new \in Keys, NEW s \in StepStatus,
           \A k \in Keys : trace'[r][k] = IF k = new THEN s ELSE trace[r][k],
           InOrder(r), status'[r] # "succeeded",
           trace[r][new] \in {"none", "failed", "running"},
           \A k \in Keys \ {new} : k[1] = new[1] => trace[r][k] \in {"none", "failed"},
           \A j \in 1..new[1] - 1 : Settled(r, j)
    PROVE  InOrder(r)'
<1>1. \A j \in Nat : Settled(r, j) => Settled(r, j)'
  BY SettledStays
<1>2. ASSUME NEW k \in Keys, trace'[r][k] # "none", NEW j \in 1..k[1] - 1 PROVE Settled(r, j)'
  BY <1>1, <1>2 DEF InOrder
<1>3. ASSUME NEW k \in Keys, NEW l \in Keys, k[1] = l[1],
             {trace'[r][k], trace'[r][l]} \cap {"none", "failed"} = {}
      PROVE  k = l
  BY <1>3 DEF InOrder
<1>4. QED
  BY <1>2, <1>3 DEF InOrder

\* An executing request that may still write: what is known of its run.
LEMMA Executes ==
    ASSUME TypeOK, LeaseInv, TraceInv, NEW q \in Requests, NEW r \in Runs, run[q] = r,
           at[q] \in Executing, Writes(q)
    PROVE  /\ status[r] = "running" /\ Progress(q) /\ OfRun(r)
           /\ \A w \in Workers : r \notin todo[w]
           /\ at[q] # "step" => idx[q] \in Steps
           /\ idx[q] \in Nat
<1>1. status[r] = "running" /\ \A w \in Workers : r \notin todo[w]
  BY Unselected DEF Executing
<1>2. Progress(q) /\ OfRun(r)
  BY TraceParts DEF Sessions
<1>3. at[q] # "step" => idx[q] \in Steps
  BY DEF TypeOK, RequestTypes, Executing
<1>4. idx[q] \in Nat
  BY PlaceRange DEF TypeOK, RequestTypes
<1>5. QED
  BY <1>1, <1>2, <1>3, <1>4

LEMMA EnterStepTrace ==
    ASSUME TypeOK, LeaseInv, TraceInv, NEW q \in Requests, NEW r \in Runs, run[q] = r, EnterStep(q)
    PROVE  TraceInv'
<1>1. at[q] = "step" /\ at[q] \in Executing /\ Writes(q) /\ idx[q] \in Steps
  BY DEF EnterStep, Executing
<1>2. /\ at'[q] = "entered" /\ \A p \in Requests \ {q} : at'[p] = at[p]
      /\ current'[r] = idx[q] /\ \A s \in Runs \ {r} : current'[s] = current[s]
  BY <1>1, Executes DEF EnterStep, TypeOK, RowTypes, RequestTypes
<1>3. OfRun(r)'
  BY <1>1, Executes DEF EnterStep, OfRun, Resting, InOrder, Closed, Settled, Outputs, Final, scanVars, loopVars
<1>4. Progress(q)'
  <2>1. /\ Progress(q) /\ status[r] = "running" /\ idx[q] \in Nat
        /\ UNCHANGED <<context, trace, run, idx, attempt, mem>>
    BY <1>1, Executes DEF EnterStep
  <2>2. \A i \in 1..idx[q] - 1 : Settled(r, i)'
    BY <2>1 DEF Progress, Settled
  <2>3. Outputs(r)' = Outputs(r)
    BY <2>1 DEF Outputs
  <2>4. \A k \in Keys : trace[r][k] # "none" => k[1] <= idx[q] /\ k[1] # idx[q] /\ trace[r][k] # "running"
    BY <1>1, <2>1 DEF Progress
  <2>5. QED
    BY <1>1, <1>2, <2>1, <2>2, <2>3, <2>4 DEF Progress
<1>5. Sessions(q)'
  BY <1>2, <1>4 DEF Sessions, Executing
<1>6. QED
  BY <1>1, <1>2, <1>3, <1>5, Executes, OwnStep DEF EnterStep, loopVars, scanVars

LEMMA SkipTrace ==
    ASSUME TypeOK, LeaseInv, TraceInv, NEW q \in Requests, NEW r \in Runs, run[q] = r,
           NEW i \in Steps, idx[q] = i, Skip(q)
    PROVE  TraceInv'
<1>1. at[q] = "entered" /\ at[q] \in Executing /\ Writes(q)
  BY DEF Skip, Executing
<1>2. status[r] = "running" /\ Progress(q) /\ OfRun(r) /\ i \in Nat
  BY <1>1, Executes
<1>3. PICK new \in Keys : new[1] = i /\ trace' = [trace EXCEPT ![r][new] = "skipped"]
  BY FirstRow DEF Skip
<1>4. /\ at'[q] = "step" /\ idx'[q] = i + 1
      /\ \A p \in Requests \ {q} : at'[p] = at[p] /\ idx'[p] = idx[p] /\ attempt'[p] = attempt[p]
      /\ UNCHANGED <<status, current, context, run, mem, pending, todo, seen>>
  BY DEF Skip, NextStep, TypeOK, RequestTypes, loopVars, scanVars
<1>5. /\ \A k \in Keys : k[1] = i => trace[r][k] = "none"
      /\ \A k \in Keys : trace[r][k] # "running"
      /\ \A k \in Keys : trace[r][k] # "none" => k[1] <= i
      /\ \A j \in 1..i - 1 : Settled(r, j)
      /\ mem[q] = context[r] /\ context[r] = Outputs(r)
  BY <1>1, <1>2 DEF Progress
<1>6. /\ \A k \in Keys : trace'[r][k] = IF k = new THEN "skipped" ELSE trace[r][k]
      /\ \A p \in Runs \ {r} : trace'[p] = trace[p]
  <2>1. "skipped" \in StepStatus
    BY DEF StepStatus
  <2>2. Writing(r, new, "skipped")
    BY <1>3 DEF Writing
  <2>3. QED
    BY <2>1, <2>2, RowChange
<1>7. InOrder(r)'
  <2>1. InOrder(r) /\ status'[r] # "succeeded" /\ "skipped" \in StepStatus
    BY <1>2, <1>4 DEF OfRun, StepStatus
  <2>2. /\ trace[r][new] \in {"none", "failed", "running"}
        /\ \A k \in Keys \ {new} : k[1] = new[1] => trace[r][k] \in {"none", "failed"}
        /\ \A j \in 1..new[1] - 1 : Settled(r, j)
    BY <1>3, <1>5
  <2>3. QED
    BY <1>6, <2>1, <2>2, WriteRow
<1>8. /\ \A j \in Nat : Settled(r, j) => Settled(r, j)'
      /\ Settled(r, i)' /\ Outputs(r)' = Outputs(r)
  BY <1>3, <1>5, <1>6 DEF Settled, Outputs
<1>9. OfRun(r)'
  <2>1. Resting(r)'
    BY <1>1, <1>2, <1>4, <1>6, Executes DEF OfRun, Resting
  <2>2. Closed(r)'
    BY <1>2, <1>4 DEF Closed, Final
  <2>3. QED
    BY <1>2, <1>4, <1>5, <1>7, <1>8, <2>1, <2>2 DEF OfRun
<1>10. Progress(q)'
  <2>1. ASSUME NEW j \in 1..i PROVE Settled(r, j)'
    BY <1>2, <1>5, <1>6, <1>8
  <2>2. ASSUME NEW k \in Keys, trace'[r][k] # "none"
        PROVE  k[1] <= i + 1 /\ k[1] # i + 1 /\ trace'[r][k] # "running"
    BY <1>2, <1>3, <1>5, <1>6, <2>2, KeyStep
  <2>3. 1..(i + 1) - 1 = 1..i
    BY <1>2
  <2>4. mem'[q] = context'[r] /\ context'[r] = Outputs(r)'
    BY <1>4, <1>5, <1>8
  <2>5. run'[q] = r /\ at'[q] = "step" /\ idx'[q] = i + 1
    BY <1>4
  <2>6. \A j \in 1..idx'[q] - 1 : Settled(r, j)'
    BY <2>1, <2>3, <2>5
  <2>7. \A k \in Keys : trace'[r][k] # "none" =>
          k[1] <= idx'[q] /\ k[1] # idx'[q] /\ trace'[r][k] # "running"
    BY <2>2, <2>5
  <2>8. QED
    BY <2>4, <2>5, <2>6, <2>7 DEF Progress
<1>11. Sessions(q)'
  BY <1>4, <1>10 DEF Sessions, Executing
<1>12. QED
  BY <1>2, <1>4, <1>6, <1>9, <1>11, OwnStep

LEMMA PauseTrace ==
    ASSUME TypeOK, LeaseInv, TraceInv, NEW q \in Requests, NEW r \in Runs, run[q] = r,
           NEW i \in Steps, idx[q] = i, Pause(q)
    PROVE  TraceInv'
<1>1. at[q] = "entered" /\ at[q] \in Executing /\ Writes(q)
  BY DEF Pause, Executing
<1>2. status[r] = "running" /\ Progress(q) /\ OfRun(r) /\ i \in Nat
  BY <1>1, Executes
<1>3. PICK new \in Keys : new[1] = i /\ trace' = [trace EXCEPT ![r][new] = "pending_approval"]
  BY FirstRow DEF Pause
<1>4. /\ at'[q] = "leaving" /\ status'[r] = "paused"
      /\ \A p \in Requests \ {q} : at'[p] = at[p]
      /\ \A s \in Runs \ {r} : status'[s] = status[s]
      /\ UNCHANGED <<current, context, run, idx, attempt, mem, pending, todo, seen>>
  BY DEF Pause, TypeOK, RowTypes, RequestTypes, loopVars, scanVars
<1>5. /\ \A k \in Keys : k[1] = i => trace[r][k] = "none"
      /\ \A k \in Keys : trace[r][k] # "running" /\ trace[r][k] # "pending_approval"
      /\ \A k \in Keys : trace[r][k] # "none" => k[1] <= i
      /\ \A j \in 1..i - 1 : Settled(r, j)
      /\ context[r] = Outputs(r) /\ current[r] = i
  BY <1>1, <1>2 DEF Progress, OfRun, Resting
<1>6. /\ \A k \in Keys : trace'[r][k] = IF k = new THEN "pending_approval" ELSE trace[r][k]
      /\ \A p \in Runs \ {r} : trace'[p] = trace[p]
  <2>1. "pending_approval" \in StepStatus
    BY DEF StepStatus
  <2>2. Writing(r, new, "pending_approval")
    BY <1>3 DEF Writing
  <2>3. QED
    BY <2>1, <2>2, RowChange
<1>7. InOrder(r)'
  <2>1. InOrder(r) /\ status'[r] # "succeeded" /\ "pending_approval" \in StepStatus
    BY <1>2, <1>4 DEF OfRun, StepStatus
  <2>2. /\ trace[r][new] \in {"none", "failed", "running"}
        /\ \A k \in Keys \ {new} : k[1] = new[1] => trace[r][k] \in {"none", "failed"}
        /\ \A j \in 1..new[1] - 1 : Settled(r, j)
    BY <1>3, <1>5
  <2>3. QED
    BY <1>6, <2>1, <2>2, WriteRow
<1>8. /\ \A j \in Nat : Settled(r, j) => Settled(r, j)'
      /\ Outputs(r)' = Outputs(r)
  BY <1>3, <1>5, <1>6 DEF Settled, Outputs
<1>9. OfRun(r)'
  <2>1. /\ current'[r] = i /\ \A j \in 1..i - 1 : Settled(r, j)'
        /\ \A k \in Keys : trace'[r][k] # "none" => k[1] <= i
    BY <1>2, <1>3, <1>4, <1>5, <1>6, <1>8
  <2>2. Resting(r)'
    BY <1>4, <2>1 DEF Resting
  <2>3. Closed(r)'
    <3>1. {k \in Keys : trace'[r][k] = "running"} = {}
      BY <1>5, <1>6
    <3>2. {k \in Keys : trace'[r][k] = "pending_approval"} = {new} /\ new[1] = current'[r]
      BY <1>3, <1>4, <1>5, <1>6
    <3>3. QED
      BY <1>4, <3>1, <3>2 DEF Closed, Final
  <2>4. QED
    BY <1>4, <1>5, <1>7, <1>8, <2>2, <2>3 DEF OfRun
<1>10. Sessions(q)'
  BY <1>4 DEF Sessions, Executing
<1>11. QED
  BY <1>4, <1>6, <1>9, <1>10, OwnStep

LEMMA TryTrace ==
    ASSUME TypeOK, LeaseInv, TraceInv, NEW q \in Requests, NEW r \in Runs, run[q] = r,
           NEW i \in Steps, idx[q] = i, Try(q)
    PROVE  TraceInv'
<1>1. at[q] \in {"entered", "retry"} /\ at[q] \in Executing /\ Writes(q)
  BY DEF Try, Executing
<1>2. status[r] = "running" /\ Progress(q) /\ OfRun(r) /\ i \in Nat
  BY <1>1, Executes
<1>3. /\ at'[q] = "trying" /\ attempt'[q] = attempt[q] + 1
      /\ \A p \in Requests \ {q} : at'[p] = at[p] /\ attempt'[p] = attempt[p]
      /\ UNCHANGED <<status, current, context, run, idx, mem, pending, todo, seen>>
  BY DEF Try, TypeOK, RequestTypes, loopVars, scanVars
<1>4. PICK new \in Keys : /\ new[1] = i /\ new = Row(q)'
                          /\ trace' = [trace EXCEPT ![r][new] = "running"]
  <2>1. TypeOK'
    BY TryTypes
  <2>2. Row(q)' \in Keys
    BY <1>3, <2>1 DEF TypeOK, RequestTypes, Row
  <2>3. Row(q)' = <<i, attempt[q] + 1, q>> /\ <<i, attempt[q] + 1, q>>[1] = i
    BY <1>3 DEF Row
  <2>4. trace' = [trace EXCEPT ![r][<<i, attempt[q] + 1, q>>] = "running"]
    BY DEF Try
  <2>5. QED
    BY <2>2, <2>3, <2>4
<1>5. /\ \A k \in Keys : k[1] = i => trace[r][k] \in {"none", "failed"}
      /\ \A k \in Keys : trace[r][k] # "running"
      /\ \A k \in Keys : trace[r][k] # "none" => k[1] <= i
      /\ \A j \in 1..i - 1 : Settled(r, j)
      /\ mem[q] = context[r] /\ context[r] = Outputs(r) /\ current[r] = i
  BY <1>1, <1>2 DEF Progress
<1>6. /\ \A k \in Keys : trace'[r][k] = IF k = new THEN "running" ELSE trace[r][k]
      /\ \A p \in Runs \ {r} : trace'[p] = trace[p]
  <2>1. "running" \in StepStatus
    BY DEF StepStatus
  <2>2. Writing(r, new, "running")
    BY <1>4 DEF Writing
  <2>3. QED
    BY <2>1, <2>2, RowChange
<1>7. InOrder(r)'
  <2>1. InOrder(r) /\ status'[r] # "succeeded" /\ "running" \in StepStatus
    BY <1>2, <1>3 DEF OfRun, StepStatus
  <2>2. /\ trace[r][new] \in {"none", "failed", "running"}
        /\ \A k \in Keys \ {new} : k[1] = new[1] => trace[r][k] \in {"none", "failed"}
        /\ \A j \in 1..new[1] - 1 : Settled(r, j)
    BY <1>4, <1>5
  <2>3. QED
    BY <1>6, <2>1, <2>2, WriteRow
<1>8. /\ \A j \in Nat : Settled(r, j) => Settled(r, j)'
      /\ Outputs(r)' = Outputs(r)
  BY <1>4, <1>5, <1>6 DEF Settled, Outputs
<1>9. OfRun(r)'
  <2>1. Resting(r)'
    BY <1>1, <1>2, <1>3, <1>6, Executes DEF OfRun, Resting
  <2>2. Closed(r)'
    BY <1>2, <1>3 DEF Closed, Final
  <2>3. QED
    BY <1>2, <1>3, <1>7, <2>1, <2>2 DEF OfRun
<1>10. Progress(q)'
  <2>1. ASSUME NEW j \in 1..i - 1 PROVE Settled(r, j)'
    BY <1>2, <1>5, <1>8
  <2>2. ASSUME NEW k \in Keys
        PROVE  /\ trace'[r][k] # "none" => k[1] <= i
               /\ trace'[r][k] = "running" => k = Row(q)'
    BY <1>2, <1>4, <1>5, <1>6
  <2>3. trace'[r][Row(q)'] = "running"
    BY <1>4, <1>6
  <2>4. QED
    BY <1>3, <1>5, <1>8, <2>1, <2>2, <2>3 DEF Progress
<1>11. Sessions(q)'
  BY <1>3, <1>10 DEF Sessions, Executing
<1>12. QED
  BY <1>3, <1>6, <1>9, <1>11, OwnStep

\* The open row of an attempt is the only row of its step that counts.
LEMMA CloseTryTrace ==
    ASSUME TypeOK, LeaseInv, TraceInv, NEW q \in Requests, NEW r \in Runs, run[q] = r,
           NEW i \in Steps, idx[q] = i,
           NEW s \in {"failed", "succeeded"}, NEW a, a = IF s = "failed" THEN "retry" ELSE "record",
           CloseTry(q, s, a)
    PROVE  TraceInv'
<1>1. at[q] = "trying" /\ at[q] \in Executing /\ Writes(q)
  BY DEF CloseTry, Executing
<1>2. status[r] = "running" /\ Progress(q) /\ OfRun(r) /\ i \in Nat
  BY <1>1, Executes
<1>3. /\ at'[q] = a /\ \A p \in Requests \ {q} : at'[p] = at[p]
      /\ UNCHANGED <<status, current, context, run, idx, attempt, mem, pending, todo, seen>>
  BY DEF CloseTry, TypeOK, RequestTypes, loopVars, scanVars
<1>4. PICK new \in Keys : /\ new[1] = i /\ new = Row(q)
                          /\ trace' = [trace EXCEPT ![r][new] = s]
  <2>1. Row(q) \in Keys /\ Row(q)[1] = i
    BY <1>1 DEF TypeOK, RequestTypes, Row
  <2>2. QED
    BY <2>1 DEF CloseTry
<1>5. /\ trace[r][new] = "running" /\ \A k \in Keys : trace[r][k] = "running" => k = new
      /\ \A k \in Keys : trace[r][k] # "none" => k[1] <= i
      /\ \A j \in 1..i - 1 : Settled(r, j)
      /\ mem[q] = context[r] /\ context[r] = Outputs(r) /\ current[r] = i
  BY <1>1, <1>2, <1>4 DEF Progress
<1>6. \A k \in Keys \ {new} : k[1] = i => trace[r][k] \in {"none", "failed"}
  BY <1>2, <1>4, <1>5 DEF OfRun, InOrder
<1>7. /\ \A k \in Keys : trace'[r][k] = IF k = new THEN s ELSE trace[r][k]
      /\ \A p \in Runs \ {r} : trace'[p] = trace[p]
  <2>1. s \in StepStatus
    BY DEF StepStatus
  <2>2. \A k \in Keys : trace'[r][k] = IF k = new THEN s ELSE trace[r][k]
    BY <1>4 DEF TypeOK, RowTypes
  <2>3. Writing(r, new, s)
    BY <1>4 DEF Writing
  <2>4. \A p \in Runs \ {r} : trace'[p] = trace[p]
    BY <2>1, <2>3, RowChange
  <2>5. QED
    BY <2>2, <2>4
<1>8. InOrder(r)'
  <2>1. InOrder(r) /\ status'[r] # "succeeded" /\ s \in StepStatus
    BY <1>2, <1>3 DEF OfRun, StepStatus
  <2>2. /\ trace[r][new] \in {"none", "failed", "running"}
        /\ \A k \in Keys \ {new} : k[1] = new[1] => trace[r][k] \in {"none", "failed"}
        /\ \A j \in 1..new[1] - 1 : Settled(r, j)
    BY <1>4, <1>5, <1>6
  <2>3. QED
    BY <1>7, <2>1, <2>2, WriteRow
<1>9. \A j \in Nat : Settled(r, j) => Settled(r, j)'
  <2>1. \A k \in Keys : trace[r][k] \in {"succeeded", "skipped"} => trace'[r][k] = trace[r][k]
    BY <1>5, <1>7
  <2>2. QED
    BY <2>1, SettledStays
<1>10. /\ s = "failed" => Outputs(r)' = Outputs(r)
       /\ s = "succeeded" => i \in Outputs(r)' /\ Outputs(r) = Outputs(r)' \ {i}
  <2>1. i \notin Outputs(r)
    BY <1>5, <1>6 DEF Outputs
  <2>2. s = "failed" => Outputs(r)' = Outputs(r)
    BY <1>5, <1>7 DEF Outputs
  <2>3. s = "succeeded" => Outputs(r)' = Outputs(r) \cup {i}
    BY <1>4, <1>5, <1>7 DEF Outputs
  <2>4. QED
    BY <2>1, <2>2, <2>3
<1>11. OfRun(r)'
  <2>1. Resting(r)'
    BY <1>1, <1>2, <1>3, <1>7, Executes DEF OfRun, Resting
  <2>2. Closed(r)'
    BY <1>2, <1>3 DEF Closed, Final
  <2>3. QED
    BY <1>2, <1>3, <1>8, <2>1, <2>2 DEF OfRun
<1>12. Progress(q)'
  <2>1. ASSUME NEW j \in 1..i - 1 PROVE Settled(r, j)'
    BY <1>2, <1>5, <1>9
  <2>2. ASSUME NEW k \in Keys
        PROVE  /\ trace'[r][k] # "none" => k[1] <= i
               /\ trace'[r][k] # "running"
               /\ a = "retry" /\ k[1] = i => trace'[r][k] \in {"none", "failed"}
    BY <1>2, <1>4, <1>5, <1>6, <1>7
  <2>3. a # "step" /\ a # "entered" /\ a # "trying"
    OBVIOUS
  <2>4. QED
    BY <1>3, <1>5, <1>10, <2>1, <2>2, <2>3 DEF Progress
<1>13. Sessions(q)'
  BY <1>3, <1>12 DEF Sessions, Executing
<1>14. QED
  BY <1>3, <1>7, <1>11, <1>13, OwnStep

LEMMA RecordTrace ==
    ASSUME TypeOK, LeaseInv, TraceInv, NEW q \in Requests, NEW r \in Runs, run[q] = r,
           NEW i \in Steps, idx[q] = i, Record(q)
    PROVE  TraceInv'
<1>1. at[q] = "record" /\ at[q] \in Executing /\ Writes(q)
  BY DEF Record, Executing
<1>2. status[r] = "running" /\ Progress(q) /\ OfRun(r) /\ i \in Nat
  BY <1>1, Executes
<1>3. /\ at'[q] = "step" /\ idx'[q] = i + 1
      /\ \A p \in Requests \ {q} : /\ at'[p] = at[p] /\ idx'[p] = idx[p]
                                   /\ attempt'[p] = attempt[p] /\ mem'[p] = mem[p]
      /\ mem'[q] = mem[q] \cup {i} /\ context'[r] = mem[q] \cup {i}
      /\ \A s \in Runs \ {r} : context'[s] = context[s]
      /\ UNCHANGED <<status, current, trace, run, pending, todo, seen>>
  BY DEF Record, NextStep, TypeOK, RowTypes, RequestTypes, loopVars, scanVars
<1>4. /\ \A k \in Keys : trace[r][k] # "running"
      /\ \A k \in Keys : trace[r][k] # "none" => k[1] <= i
      /\ \A j \in 1..i - 1 : Settled(r, j)
      /\ mem[q] = context[r] /\ context[r] = Outputs(r) \ {i} /\ i \in Outputs(r)
  BY <1>1, <1>2 DEF Progress
<1>5. Settled(r, i)
  BY <1>4 DEF Settled, Outputs
<1>6. /\ \A j : Settled(r, j)' = Settled(r, j)
      /\ Outputs(r)' = Outputs(r)
  BY <1>3 DEF Settled, Outputs
<1>7. OfRun(r)'
  <2>1. Resting(r)'
    BY <1>1, <1>2, <1>3, Executes DEF OfRun, Resting
  <2>2. InOrder(r)'
    BY <1>2, <1>3 DEF OfRun, InOrder, Settled
  <2>3. Closed(r)'
    BY <1>2, <1>3 DEF Closed, Final
  <2>4. QED
    BY <1>2, <1>3, <2>1, <2>2, <2>3 DEF OfRun
<1>8. Progress(q)'
  <2>1. ASSUME NEW j \in 1..i PROVE Settled(r, j)'
    <3>1. Settled(r, j)
      BY <1>2, <1>4, <1>5
    <3>2. QED
      BY <1>3, <3>1 DEF Settled
  <2>2. ASSUME NEW k \in Keys, trace'[r][k] # "none"
        PROVE  k[1] <= i + 1 /\ k[1] # i + 1 /\ trace'[r][k] # "running"
    BY <1>2, <1>3, <1>4, <2>2, KeyStep
  <2>3. 1..(i + 1) - 1 = 1..i
    BY <1>2
  <2>4. context'[r] = Outputs(r)' /\ mem'[q] = context'[r]
    BY <1>3, <1>4, <1>6
  <2>5. at'[q] = "step" /\ idx'[q] - 1 = i /\ idx'[q] = i + 1 /\ run'[q] = r
    BY <1>2, <1>3
  <2>6. QED
    BY <2>1, <2>2, <2>4, <2>5 DEF Progress
<1>9. Sessions(q)'
  BY <1>3, <1>8 DEF Sessions, Executing
<1>10. QED
  BY <1>3, <1>7, <1>9, OwnStep

LEMMA FinishRunTrace ==
    ASSUME TypeOK, LeaseInv, TraceInv, NEW q \in Requests, NEW r \in Runs, run[q] = r, FinishRun(q)
    PROVE  TraceInv'
<1>1. at[q] \in {"step", "retry"} /\ at[q] \in Executing /\ Writes(q)
  BY DEF FinishRun, Finish, Executing
<1>2. status[r] = "running" /\ Progress(q) /\ OfRun(r)
  BY <1>1, Executes
<1>3. /\ at'[q] = "leaving" /\ status'[r] \in Final
      /\ \A p \in Requests \ {q} : at'[p] = at[p]
      /\ \A s \in Runs \ {r} : status'[s] = status[s]
      /\ UNCHANGED <<current, context, trace, run, idx, attempt, mem, pending, todo, seen>>
  BY DEF FinishRun, Finish, Final, TypeOK, RowTypes, RequestTypes, loopVars, scanVars
<1>4. status'[r] = "succeeded" => idx[q] = Len(definition) + 1
  BY DEF FinishRun, Finish, TypeOK, RowTypes
<1>5. /\ \A k \in Keys : trace[r][k] # "running" /\ trace[r][k] # "pending_approval"
      /\ \A j \in 1..idx[q] - 1 : Settled(r, j)
      /\ context[r] = Outputs(r)
  BY <1>1, <1>2 DEF Progress, OfRun, Resting
<1>6. Outputs(r)' = Outputs(r)
  BY <1>3 DEF Outputs
<1>7. OfRun(r)'
  <2>1. Resting(r)'
    BY <1>3 DEF Resting, Final
  <2>2. status'[r] = "succeeded" => \A j \in Steps : Settled(r, j)
    BY <1>4, <1>5, PlaceRange DEF Steps
  <2>3. InOrder(r)'
    BY <1>2, <1>3, <2>2 DEF OfRun, InOrder, Settled
  <2>4. Closed(r)'
    BY <1>3, <1>5 DEF Closed, Final
  <2>5. QED
    BY <1>3, <1>5, <1>6, <2>1, <2>3, <2>4 DEF OfRun
<1>8. Sessions(q)'
  BY <1>3 DEF Sessions, Executing
<1>9. QED
  BY <1>3, <1>7, <1>8, OwnStep

\* Ending a request leaves every row as it is.
LEMMA EndRequestTrace ==
    ASSUME TypeOK, LeaseInv, TraceInv, NEW Q \in SUBSET Requests, ForgetRequests(Q),
           UNCHANGED rowVars,
           \A w \in Workers : todo'[w] # {} => todo'[w] = todo[w] /\ seen'[w] = seen[w]
    PROVE  TraceInv'
<1>1. UNCHANGED <<status, current, context, trace>>
  BY DEF rowVars
<1>2. ASSUME NEW r \in Runs PROVE OfRun(r)'
  BY <1>1, SameRun, TraceParts
<1>3. ASSUME NEW p \in Requests PROVE Sessions(p)'
  <2>1. CASE p \in Q
    <3>1. at'[p] = "idle" /\ mem'[p] = {}
      BY <2>1 DEF ForgetRequests
    <3>2. QED
      BY <3>1 DEF Sessions, Executing
  <2>2. CASE p \notin Q
    BY <1>1, <2>2, SameRequest, TraceParts DEF ForgetRequests
  <2>3. QED
    BY <2>1, <2>2
<1>4. QED
  BY <1>2, <1>3, TraceParts

LEMMA RequestStepTrace ==
    ASSUME TypeOK, LeaseInv, TraceInv, NEW q \in Requests, RequestStep(q) \/ RequestError(q)
    PROVE  TraceInv'
<1>1. CASE EnterStep(q) \/ FinishRun(q)
  <2>1. run[q] \in Runs
    BY <1>1, Served DEF EnterStep, FinishRun
  <2>2. QED
    BY <1>1, <2>1, EnterStepTrace, FinishRunTrace
<1>2. CASE Skip(q) \/ Pause(q) \/ Try(q) \/ TryFails(q) \/ TrySucceeds(q) \/ Record(q)
  <2>1. at[q] \in {"entered", "retry", "trying", "record"}
    BY <1>2 DEF Skip, Pause, Try, TryFails, TrySucceeds, CloseTry, Record
  <2>2. run[q] \in Runs /\ idx[q] \in Steps
    BY <2>1, Served DEF TypeOK, RequestTypes
  <2>3. CASE TryFails(q)
    BY <2>2, <2>3, CloseTryTrace DEF TryFails
  <2>4. CASE TrySucceeds(q)
    BY <2>2, <2>4, CloseTryTrace DEF TrySucceeds
  <2>5. QED
    BY <1>2, <2>2, <2>3, <2>4, SkipTrace, PauseTrace, TryTrace, RecordTrace
<1>3. CASE Leave(q) \/ RequestBreaks(q) \/ RequestError(q)
  <2>1. ForgetRequests({q}) /\ UNCHANGED rowVars /\ UNCHANGED <<todo, seen>>
    BY <1>3 DEF Leave, RequestBreaks, RequestError, EndRequest, loopVars, scanVars
  <2>2. QED
    BY <2>1, EndRequestTrace
<1>4. QED
  BY <1>1, <1>2, <1>3 DEF RequestStep

\* A run starts with an empty trace and context, and so does its request.
LEMMA StartTrace ==
    ASSUME TypeOK, LeaseInv, TraceInv, NEW r \in Runs, NEW w \in Workers, Start(r, w)
    PROVE  TraceInv'
<1>0. r \in Requests /\ LeaseInv' /\ TypeOK'
  BY StartLease, StartTypes DEF Requests
<1>1. /\ at'[r] = "step" /\ run'[r] = r /\ idx'[r] = 1 /\ status'[r] = "running"
      /\ \A p \in Requests \ {r} : at'[p] = at[p] /\ run'[p] = run[p] /\ idx'[p] = idx[p]
      /\ \A s \in Runs \ {r} : status'[s] = status[s]
      /\ UNCHANGED <<current, context, trace, attempt, mem, pending, todo, seen>>
  BY <1>0 DEF Start, TypeOK, RowTypes, RequestTypes, loopVars, scanVars
<1>2. status[r] = "absent" /\ \A v \in Workers : r \notin todo[v]
  BY DEF Start, LeaseInv, Beating
<1>3. context[r] = {} /\ \A k \in Keys : trace[r][k] = "none"
  BY <1>2, TraceParts DEF OfRun, Resting
<1>4. at[r] = "idle" /\ mem[r] = {}
  <2>1. ASSUME at[r] # "idle" PROVE FALSE
    <3>1. run[r] = r
      BY <1>0, <2>1 DEF LeaseInv, Holding, TypeOK, RequestTypes
    <3>2. QED
      BY <1>0, <1>2, <2>1, <3>1 DEF LeaseInv, Holding, TypeOK, RequestTypes, Final
  <2>2. QED
    BY <1>0, <2>1, TraceParts DEF Sessions
<1>5. Outputs(r)' = {}
  BY <1>1, <1>3 DEF Outputs
<1>6. OfRun(r)'
  <2>1. Resting(r)' /\ InOrder(r)'
    BY <1>1, <1>2, <1>3 DEF Resting, InOrder
  <2>2. Closed(r)'
    BY <1>1 DEF Closed, Final
  <2>3. QED
    BY <1>1, <2>1, <2>2 DEF OfRun
<1>7. Progress(r)'
  <2>1. 1 - 1 = 0 /\ 1..0 = {}
    OBVIOUS
  <2>2. mem'[r] = context'[r] /\ context'[r] = Outputs(r)' /\ \A k \in Keys : trace'[r][k] = "none"
    BY <1>1, <1>3, <1>4, <1>5
  <2>3. QED
    BY <1>1, <2>1, <2>2 DEF Progress
<1>8. Sessions(r)'
  BY <1>1, <1>7 DEF Sessions, Executing
<1>9. ASSUME NEW s \in Runs PROVE OfRun(s)'
  BY <1>1, <1>6, SameRun, TraceParts
<1>10. ASSUME NEW p \in Requests PROVE Sessions(p)'
  <2>1. p # r /\ run[p] \in Runs => run[p] # r
    <3>1. ASSUME p # r, run[p] = r PROVE FALSE
      BY <1>0, <1>1, <3>1 DEF LeaseInv, Holding
    <3>2. QED
      BY <3>1
  <2>2. QED
    BY <1>1, <1>8, <2>1, SameRequest, TraceParts
<1>11. QED
  BY <1>9, <1>10, TraceParts

\* What the operator's request reads is what the paused run's invariant promises.
LEMMA OpenDecisionTrace ==
    ASSUME TypeOK, LeaseInv, TraceInv, NEW o \in Operators, NEW r \in Runs, NEW w \in Workers,
           OpenDecision(o, r, w)
    PROVE  TraceInv'
<1>1. o \in Requests /\ status[r] = "paused" /\ OfRun(r)
  BY TraceParts DEF OpenDecision, Requests
<1>2. PICK k0 \in Keys : trace[r][k0] = "pending_approval" /\ pending'[o] = {k0}
  BY <1>1 DEF OpenDecision, TypeOK, RequestTypes
<1>3. /\ at'[o] = "deciding" /\ run'[o] = r /\ idx'[o] = current[r] /\ mem'[o] = context[r]
      /\ \A p \in Requests \ {o} : /\ at'[p] = at[p] /\ run'[p] = run[p] /\ idx'[p] = idx[p]
                                   /\ mem'[p] = mem[p] /\ pending'[p] = pending[p]
      /\ UNCHANGED <<status, current, context, trace, attempt, todo, seen>>
  BY <1>1 DEF OpenDecision, TypeOK, RequestTypes, rowVars, loopVars, scanVars
<1>4. \A k \in Keys : trace[r][k] = "pending_approval" <=> k = k0
  BY <1>1, <1>2 DEF OfRun, Closed
<1>5. Loaded(o)'
  BY <1>2, <1>3, <1>4 DEF Loaded
<1>6. ASSUME NEW s \in Runs PROVE OfRun(s)'
  BY <1>3, SameRun, TraceParts
<1>7. ASSUME NEW p \in Requests PROVE Sessions(p)'
  <2>1. CASE p = o
    BY <1>3, <1>5, <2>1 DEF Sessions, Executing
  <2>2. CASE p # o
    BY <1>3, <2>2, SameRequest, TraceParts
  <2>3. QED
    BY <2>1, <2>2
<1>8. QED
  BY <1>6, <1>7, TraceParts

\* A decision resolves exactly the one pending row, on the run's current step.
LEMMA ResolveTrace ==
    ASSUME TypeOK, LeaseInv, TraceInv, NEW o \in Requests, NEW r \in Runs, run[o] = r,
           NEW s \in {"failed", "succeeded"}, Resolve(o, s)
    PROVE  /\ status[r] = "paused" /\ OfRun(r) /\ Loaded(o) /\ \A w \in Workers : r \notin todo[w]
           /\ idx[o] \in Steps /\ idx[o] = current[r] /\ idx[o] \in Nat
           /\ \E new \in Keys :
                 /\ new[1] = idx[o]
                 /\ \A k \in Keys : trace[r][k] = "pending_approval" <=> k = new
                 /\ \A k \in Keys : trace'[r][k] = IF k = new THEN s ELSE trace[r][k]
           /\ \A p \in Runs \ {r} : trace'[p] = trace[p]
<1>1. at[o] = "deciding" /\ Writes(o)
  BY DEF Resolve
<1>2. status[r] = "paused" /\ \A w \in Workers : r \notin todo[w]
  BY <1>1, Unselected
<1>3. OfRun(r) /\ Loaded(o)
  BY <1>1, TraceParts DEF Sessions
<1>4. idx[o] \in Steps /\ idx[o] = current[r] /\ idx[o] \in Nat
  BY <1>1, <1>3, StepRange DEF Loaded, TypeOK, RequestTypes
<1>5. PICK new \in Keys : /\ new[1] = idx[o]
                          /\ \A k \in Keys : trace[r][k] = "pending_approval" <=> k = new
  BY <1>2, <1>3, <1>4 DEF OfRun, Closed
<1>6. \A k \in Keys : k \in pending[o] <=> k = new
  BY <1>3, <1>5 DEF Loaded
<1>7. \A k \in Keys : trace'[r][k] = IF k = new THEN s ELSE trace[r][k]
  BY <1>6 DEF Resolve, TypeOK, RowTypes
<1>8. \A p \in Runs \ {r} : trace'[p] = trace[p]
  BY DEF Resolve, TypeOK, RowTypes
<1>9. QED
  BY <1>2, <1>3, <1>4, <1>5, <1>7, <1>8

LEMMA ApproveTrace ==
    ASSUME TypeOK, LeaseInv, TraceInv, NEW o \in Requests, NEW r \in Runs, run[o] = r,
           NEW i \in Steps, idx[o] = i, Approve(o)
    PROVE  TraceInv'
<1>1. Resolve(o, "succeeded") /\ i \in Nat
  BY StepRange DEF Approve, Resume
<1>2. /\ status[r] = "paused" /\ OfRun(r) /\ Loaded(o) /\ current[r] = i
      /\ \A w \in Workers : r \notin todo[w]
      /\ \A p \in Runs \ {r} : trace'[p] = trace[p]
  BY <1>1, ResolveTrace
<1>3. PICK new \in Keys :
         /\ new[1] = i
         /\ \A k \in Keys : trace[r][k] = "pending_approval" <=> k = new
         /\ \A k \in Keys : trace'[r][k] = IF k = new THEN "succeeded" ELSE trace[r][k]
  BY <1>1, ResolveTrace
<1>4. /\ at'[o] = "step" /\ idx'[o] = i + 1
      /\ \A p \in Requests \ {o} : /\ at'[p] = at[p] /\ idx'[p] = idx[p]
                                   /\ mem'[p] = mem[p] /\ pending'[p] = pending[p]
      /\ mem'[o] = mem[o] \cup {i} /\ context'[r] = mem[o] \cup {i} /\ status'[r] = "running"
      /\ \A s \in Runs \ {r} : context'[s] = context[s] /\ status'[s] = status[s]
      /\ UNCHANGED <<current, run, attempt, todo, seen>>
  BY DEF Approve, Resume, TypeOK, RowTypes, RequestTypes, loopVars, scanVars
<1>5. /\ \A k \in Keys : trace[r][k] # "running"
      /\ \A k \in Keys : trace[r][k] # "none" => k[1] <= i
      /\ \A j \in 1..i - 1 : Settled(r, j)
      /\ context[r] = Outputs(r) /\ mem[o] = context[r]
  BY <1>2 DEF OfRun, Closed, Resting, Loaded, Final
<1>6. /\ \A j \in Nat : Settled(r, j) => Settled(r, j)'
      /\ Settled(r, i)'
  <2>1. \A k \in Keys : trace[r][k] \in {"succeeded", "skipped"} => trace'[r][k] = trace[r][k]
    BY <1>3
  <2>2. QED
    BY <1>3, <2>1, SettledStays DEF Settled
<1>7. Outputs(r)' = Outputs(r) \cup {i}
  BY <1>3 DEF Outputs
<1>8. OfRun(r)'
  <2>1. Resting(r)'
    BY <1>2, <1>3, <1>4 DEF Resting
  <2>2. InOrder(r)'
    <3>1. ASSUME NEW k \in Keys, trace'[r][k] # "none", NEW j \in 1..k[1] - 1 PROVE Settled(r, j)'
      BY <1>2, <1>3, <1>6, <3>1 DEF OfRun, InOrder
    <3>2. ASSUME NEW k \in Keys, NEW l \in Keys, k[1] = l[1],
                 {trace'[r][k], trace'[r][l]} \cap {"none", "failed"} = {}
          PROVE  k = l
      BY <1>2, <1>3, <3>2 DEF OfRun, InOrder
    <3>3. QED
      BY <1>4, <3>1, <3>2 DEF InOrder
  <2>3. Closed(r)'
    BY <1>4 DEF Closed, Final
  <2>4. QED
    BY <1>4, <2>1, <2>2, <2>3 DEF OfRun
<1>9. Progress(o)'
  <2>1. ASSUME NEW j \in 1..i PROVE Settled(r, j)'
    BY <1>1, <1>5, <1>6
  <2>2. ASSUME NEW k \in Keys, trace'[r][k] # "none"
        PROVE  k[1] <= i + 1 /\ k[1] # i + 1 /\ trace'[r][k] # "running"
    BY <1>1, <1>3, <1>5, <2>2, KeyStep
  <2>3. context'[r] = Outputs(r)' /\ mem'[o] = context'[r]
    BY <1>4, <1>5, <1>7
  <2>4. at'[o] = "step" /\ idx'[o] - 1 = i /\ idx'[o] = i + 1 /\ run'[o] = r
    BY <1>1, <1>4
  <2>5. QED
    BY <2>1, <2>2, <2>3, <2>4 DEF Progress
<1>10. Sessions(o)'
  BY <1>4, <1>9 DEF Sessions, Executing
<1>11. QED
  BY <1>2, <1>4, <1>8, <1>10, OwnStep

LEMMA RejectTrace ==
    ASSUME TypeOK, LeaseInv, TraceInv, NEW o \in Requests, NEW r \in Runs, run[o] = r, Reject(o)
    PROVE  TraceInv'
<1>1. Resolve(o, "failed") /\ at[o] = "deciding"
  BY DEF Reject, Resolve
<1>2. /\ status[r] = "paused" /\ OfRun(r) /\ Loaded(o)
      /\ \A p \in Runs \ {r} : trace'[p] = trace[p]
  BY <1>1, ResolveTrace
<1>3. PICK new \in Keys :
         /\ \A k \in Keys : trace[r][k] = "pending_approval" <=> k = new
         /\ \A k \in Keys : trace'[r][k] = IF k = new THEN "failed" ELSE trace[r][k]
  BY <1>1, ResolveTrace
<1>4. /\ at'[o] = "idle" /\ mem'[o] = {} /\ status'[r] = "failed"
      /\ \A p \in Requests \ {o} : /\ at'[p] = at[p] /\ run'[p] = run[p] /\ idx'[p] = idx[p]
                                   /\ attempt'[p] = attempt[p] /\ mem'[p] = mem[p]
                                   /\ pending'[p] = pending[p]
      /\ \A s \in Runs \ {r} : status'[s] = status[s]
      /\ UNCHANGED <<current, context, todo, seen>>
  BY DEF Reject, Finish, EndRequest, ForgetRequests, TypeOK, RowTypes, loopVars, scanVars
<1>5. \A k \in Keys : trace'[r][k] \notin {"running", "pending_approval"}
  BY <1>2, <1>3 DEF OfRun, Closed
<1>6. OfRun(r)'
  <2>1. \A j \in Nat : Settled(r, j) => Settled(r, j)'
    <3>1. \A k \in Keys : trace[r][k] \in {"succeeded", "skipped"} => trace'[r][k] = trace[r][k]
      BY <1>3
    <3>2. QED
      BY <3>1, SettledStays
  <2>2. InOrder(r)'
    <3>1. ASSUME NEW k \in Keys, trace'[r][k] # "none", NEW j \in 1..k[1] - 1 PROVE Settled(r, j)'
      BY <1>2, <1>3, <2>1, <3>1 DEF OfRun, InOrder
    <3>2. ASSUME NEW k \in Keys, NEW l \in Keys, k[1] = l[1],
                 {trace'[r][k], trace'[r][l]} \cap {"none", "failed"} = {}
          PROVE  k = l
      BY <1>2, <1>3, <3>2 DEF OfRun, InOrder
    <3>3. QED
      BY <1>4, <3>1, <3>2 DEF InOrder
  <2>3. Closed(r)' /\ Resting(r)'
    BY <1>4, <1>5 DEF Closed, Resting, Final
  <2>4. QED
    BY <1>4, <2>2, <2>3 DEF OfRun
<1>7. Sessions(o)'
  BY <1>4 DEF Sessions, Executing
<1>8. QED
  BY <1>2, <1>4, <1>6, <1>7, OwnStep

LEMMA DecideTrace ==
    ASSUME TypeOK, LeaseInv, TraceInv, NEW o \in Operators, Decide(o)
    PROVE  TraceInv'
<1>1. o \in Requests /\ at[o] = "deciding"
  BY DEF Decide, Approve, Resume, Reject, Resolve, Requests
<1>2. run[o] \in Runs /\ idx[o] \in Steps
  BY <1>1, Served DEF TypeOK, RequestTypes
<1>3. QED
  BY <1>1, <1>2, ApproveTrace, RejectTrace DEF Decide

\* A deleted run has neither trace nor context, and none of its requests may write.
LEMMA DeleteTrace ==
    ASSUME TypeOK, LeaseInv, TraceInv, DeleteCounts \/ DeleteCommits \/ DeleteFails
    PROVE  TraceInv'
<1>1. UNCHANGED <<reqVars, todo, seen>>
  BY DEF DeleteCounts, DeleteCommits, DeleteFails, loopVars, scanVars
<1>2. CASE DeleteCounts \/ DeleteFails
  <2>1. UNCHANGED <<status, current, context, trace>>
    BY <1>2 DEF DeleteCounts, DeleteFails
  <2>2. ASSUME NEW r \in Runs PROVE OfRun(r)'
    BY <1>1, <2>1, SameRun, TraceParts
  <2>3. ASSUME NEW p \in Requests PROVE Sessions(p)'
    BY <1>1, <2>1, SameRequest, TraceParts DEF reqVars
  <2>4. QED
    BY <2>2, <2>3, TraceParts
<1>3. CASE DeleteCommits
  <2>1. \A r \in Runs : /\ status'[r] \in {"absent", "deleted"}
                        /\ status[r] # "absent" => status'[r] = "deleted"
                        /\ context'[r] = {} /\ \A k \in Keys : trace'[r][k] = "none"
    BY <1>3 DEF DeleteCommits
  <2>2. ASSUME NEW r \in Runs PROVE OfRun(r)'
    <3>1. Resting(r)'
      BY <2>1 DEF Resting
    <3>2. InOrder(r)'
      <4>1. ASSUME NEW k \in Keys, NEW l \in Keys
            PROVE  {trace'[r][k], trace'[r][l]} \cap {"none", "failed"} # {}
        BY <2>1
      <4>2. status'[r] # "succeeded" /\ \A k \in Keys : trace'[r][k] = "none"
        BY <2>1
      <4>3. QED
        BY <4>1, <4>2 DEF InOrder
    <3>3. Closed(r)'
      BY <2>1 DEF Closed, Final
    <3>4. QED
      BY <2>1, <3>1, <3>2, <3>3 DEF OfRun
  <2>3. ASSUME NEW p \in Requests PROVE Sessions(p)'
    <3>1. CASE at[p] = "idle"
      BY <1>1, <3>1, TraceParts DEF Sessions, Executing, reqVars
    <3>2. CASE at[p] # "idle"
      <4>1. run[p] \in Runs /\ status[run[p]] # "absent"
        <5>1. run[p] \in Runs /\ at[p] \in {"leaving", "deciding"} \cup Executing
          BY <3>2, Served DEF TypeOK, RequestTypes
        <5>2. QED
          BY <5>1 DEF LeaseInv, Holding, Final
      <4>2. status'[run'[p]] = "deleted" /\ at'[p] = at[p]
        BY <1>1, <2>1, <4>1 DEF reqVars
      <4>3. QED
        BY <3>2, <4>2 DEF Sessions, Writes, Executing
    <3>3. QED
      BY <3>1, <3>2
  <2>4. QED
    BY <2>2, <2>3, TraceParts
<1>4. QED
  BY <1>2, <1>3

\* What the reaper loaded of a run that it claims is all that was left open.
LEMMA ReapTrace ==
    ASSUME TypeOK, LeaseInv, TraceInv, NEW w \in Workers, NEW r \in Runs, Reap(w, r)
    PROVE  TraceInv'
<1>1. /\ status[r] = "running" /\ Serving(r) = {} /\ OfRun(r)
      /\ \A k \in Keys : trace[r][k] = "running" <=> k \in seen[w][r]
  BY TraceParts DEF Reap, Claim, Stale, LeaseInv, Beating, OfRun, Resting
<1>2. /\ status'[r] = "failed"
      /\ \A s \in Runs \ {r} : status'[s] = status[s] /\ trace'[s] = trace[s]
      /\ UNCHANGED <<current, context, reqVars, seen>>
      /\ \A v \in Workers : todo'[v] \subseteq todo[v]
  BY DEF Reap, Claim, TypeOK, RowTypes, LoopTypes
<1>3. \A k \in Keys : trace'[r][k] = IF trace[r][k] = "running" THEN "failed" ELSE trace[r][k]
  BY <1>1 DEF Reap, TypeOK, RowTypes
<1>4. OfRun(r)'
  <2>1. \A k \in Keys : trace'[r][k] \notin {"running", "pending_approval"}
    BY <1>1, <1>3 DEF OfRun, Resting
  <2>2. \A j \in Nat : Settled(r, j) => Settled(r, j)'
    <3>1. \A k \in Keys : trace[r][k] \in {"succeeded", "skipped"} => trace'[r][k] = trace[r][k]
      BY <1>3
    <3>2. QED
      BY <3>1, SettledStays
  <2>3. InOrder(r)'
    <3>1. ASSUME NEW k \in Keys, trace'[r][k] # "none", NEW j \in 1..k[1] - 1 PROVE Settled(r, j)'
      BY <1>1, <1>3, <2>2, <3>1 DEF OfRun, InOrder
    <3>2. ASSUME NEW k \in Keys, NEW l \in Keys, k[1] = l[1],
                 {trace'[r][k], trace'[r][l]} \cap {"none", "failed"} = {}
          PROVE  k = l
      BY <1>1, <1>3, <3>2 DEF OfRun, InOrder
    <3>3. QED
      BY <1>2, <3>1, <3>2 DEF InOrder
  <2>4. Closed(r)' /\ Resting(r)'
    BY <1>2, <2>1 DEF Closed, Resting, Final
  <2>5. QED
    BY <1>2, <2>3, <2>4 DEF OfRun
<1>5. ASSUME NEW s \in Runs PROVE OfRun(s)'
  BY <1>2, <1>4, SameRun, TraceParts
<1>6. ASSUME NEW p \in Requests PROVE Sessions(p)'
  BY <1>1, <1>2, SameRequest, TraceParts DEF reqVars, Serving
<1>7. QED
  BY <1>5, <1>6, TraceParts

LEMMA LoopStepTrace ==
    ASSUME TypeOK, LeaseInv, TraceInv, NEW w \in Workers, LoopStep(w) \/ TickFails(w)
    PROVE  TraceInv'
<1>1. CASE BeatStart(w) \/ BeatLands(w) \/ StandDown(w) \/ ReapEnds(w) \/ TickFails(w)
  <2>1. UNCHANGED <<status, current, context, trace, reqVars>>
    BY <1>1 DEF BeatStart, BeatLands, StandDown, ReapEnds, TickFails, rowVars
  <2>2. ASSUME NEW r \in Runs, NEW v \in Workers, r \in todo'[v]
        PROVE  r \in todo[v] /\ seen'[v] = seen[v]
    BY <1>1, <2>2 DEF BeatStart, BeatLands, StandDown, ReapEnds, TickFails, ForgetScan, scanVars,
                      TypeOK, LoopTypes
  <2>3. ASSUME NEW r \in Runs PROVE OfRun(r)'
    BY <2>1, <2>2, SameRun, TraceParts
  <2>4. ASSUME NEW p \in Requests PROVE Sessions(p)'
    BY <2>1, SameRequest, TraceParts DEF reqVars
  <2>5. QED
    BY <2>3, <2>4, TraceParts
<1>2. CASE Select(w)
  <2>1. UNCHANGED <<status, current, context, trace, reqVars>>
    BY <1>2 DEF Select, rowVars
  <2>2. /\ \A r \in todo'[w] : \A k \in Keys : trace[r][k] = "running" <=> k \in seen'[w][r]
        /\ \A v \in Workers \ {w} : todo'[v] = todo[v] /\ seen'[v] = seen[v]
    BY <1>2 DEF Select, TypeOK, LoopTypes
  <2>3. ASSUME NEW r \in Runs PROVE OfRun(r)'
    <3>1. OfRun(r) /\ Outputs(r)' = Outputs(r)
      BY <2>1, TraceParts DEF Outputs
    <3>2. Resting(r)'
      BY <2>1, <2>2, <3>1 DEF OfRun, Resting, Settled
    <3>3. InOrder(r)' /\ Closed(r)'
      BY <2>1, <3>1 DEF OfRun, InOrder, Closed, Settled, Final
    <3>4. QED
      BY <2>1, <3>1, <3>2, <3>3 DEF OfRun
  <2>4. ASSUME NEW p \in Requests PROVE Sessions(p)'
    BY <2>1, SameRequest, TraceParts DEF reqVars
  <2>5. QED
    BY <2>3, <2>4, TraceParts
<1>3. ASSUME NEW r \in Runs, Reap(w, r) PROVE TraceInv'
  BY <1>3, ReapTrace
<1>4. ASSUME NEW r \in Runs, ReapMisses(w, r) PROVE TraceInv'
  <2>1. UNCHANGED <<status, current, context, trace, reqVars, seen>>
    BY <1>4 DEF ReapMisses, rowVars
  <2>2. \A v \in Workers : todo'[v] \subseteq todo[v]
    BY <1>4 DEF ReapMisses, TypeOK, LoopTypes
  <2>3. ASSUME NEW s \in Runs PROVE OfRun(s)'
    BY <2>1, <2>2, SameRun, TraceParts
  <2>4. ASSUME NEW p \in Requests PROVE Sessions(p)'
    BY <2>1, SameRequest, TraceParts DEF reqVars
  <2>5. QED
    BY <2>3, <2>4, TraceParts
<1>5. QED
  BY <1>1, <1>2, <1>3, <1>4 DEF LoopStep

LEMMA NextTrace ==
    ASSUME TypeOK, LeaseInv, TraceInv, [Next]_vars
    PROVE  TraceInv'
<1>1. ASSUME NEW q \in Requests, RequestStep(q) \/ RequestError(q) PROVE TraceInv'
  BY <1>1, RequestStepTrace
<1>2. ASSUME NEW r \in Runs, NEW w \in Workers, Start(r, w) PROVE TraceInv'
  BY <1>2, StartTrace
<1>3. ASSUME NEW r \in Runs, NEW w \in Workers, NEW o \in Operators, OpenDecision(o, r, w)
      PROVE  TraceInv'
  BY <1>3, OpenDecisionTrace
<1>4. ASSUME NEW o \in Operators, Decide(o) PROVE TraceInv'
  BY <1>4, DecideTrace
<1>5. CASE DeleteCounts \/ DeleteCommits \/ DeleteFails
  BY <1>5, DeleteTrace
<1>6. ASSUME NEW w \in Workers, LoopStep(w) \/ TickFails(w) PROVE TraceInv'
  BY <1>6, LoopStepTrace
<1>7. ASSUME NEW w \in Workers, Crash(w) PROVE TraceInv'
  <2>1. \A v \in Workers : todo'[v] # {} => todo'[v] = todo[v] /\ seen'[v] = seen[v]
    BY <1>7 DEF Crash, ForgetScan, TypeOK, LoopTypes
  <2>2. QED
    BY <1>7, <2>1, EndRequestTrace DEF Crash
<1>8. CASE \/ \E w \in Workers : Restart(w)
           \/ Tick
           \/ UNCHANGED vars
  <2>1. UNCHANGED <<status, current, context, trace, reqVars, todo, seen>>
    BY <1>8 DEF Restart, Tick, vars, rowVars, loopVars, scanVars
  <2>2. ASSUME NEW r \in Runs PROVE OfRun(r)'
    BY <2>1, SameRun, TraceParts
  <2>3. ASSUME NEW p \in Requests PROVE Sessions(p)'
    BY <2>1, SameRequest, TraceParts DEF reqVars
  <2>4. QED
    BY <2>2, <2>3, TraceParts
<1>9. QED
  BY <1>1, <1>2, <1>3, <1>4, <1>5, <1>6, <1>7, <1>8 DEF Next

\* Where a request stands in its handler and what its session holds agree with the
\* run's rows, and a run that nobody executes is fit for whoever comes next.
THEOREM TraceInvariant == ASSUME MaxServing = 1 PROVE Spec => []TraceInv
<1>1. Init => TraceInv
  <2> SUFFICES ASSUME Init PROVE TraceInv
    OBVIOUS
  <2>1. ASSUME NEW r \in Runs
        PROVE  /\ status[r] = "absent" /\ context[r] = {}
               /\ \A k \in Keys : trace[r][k] = "none"
    BY DEF Init
  <2>2. ASSUME NEW r \in Runs PROVE Resting(r) /\ InOrder(r) /\ Closed(r)
    <3>1. Resting(r) /\ Closed(r)
      BY <2>1 DEF Resting, Closed, Final
    <3>2. ASSUME NEW k \in Keys, NEW l \in Keys
          PROVE  {trace[r][k], trace[r][l]} \cap {"none", "failed"} # {}
      BY <2>1
    <3>3. InOrder(r)
      BY <2>1, <3>2 DEF InOrder
    <3>4. QED
      BY <3>1, <3>3
  <2>3. ASSUME NEW q \in Requests PROVE Sessions(q)
    BY DEF Init, Sessions, Executing
  <2>4. QED
    BY <2>1, <2>2, <2>3 DEF TraceInv, StepsInOrder, TraceClosed, ContextComplete
<1>2. TypeOK /\ LeaseInv /\ TraceInv /\ [Next]_vars => TraceInv'
  BY NextTrace
<1>3. QED
  BY <1>1, <1>2, TypeCorrect, LeaseInvariant, PTL DEF Spec

\* However a run is started, retried, paused, resumed, reaped and deleted, its steps
\* run in order and past their gates, and no step is settled or open twice.
THEOREM StepsOrdered == ASSUME MaxServing = 1 PROVE Spec => []StepsInOrder
<1>1. TraceInv => StepsInOrder
  BY DEF TraceInv
<1>2. QED
  BY <1>1, TraceInvariant, PTL

\* A run at rest can be relied on: its trace is closed, a paused run has its one
\* pending row, and its context holds what its steps produced and nothing else.
THEOREM RecordsTrue == ASSUME MaxServing = 1 PROVE Spec => []RecordsSound
<1>1. TypeOK /\ TraceInv => RecordsSound
  BY DEF TraceInv, RecordsSound
<1>2. QED
  BY <1>1, TypeCorrect, TraceInvariant, PTL
================================================================================
