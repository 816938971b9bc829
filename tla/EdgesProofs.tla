------------------------------ MODULE EdgesProofs ------------------------------
(***************************************************************************)
(* Proofs about the components of Edges that keep state of their own: the  *)
(* throttle, the live feed, phantom tasks and the server of a node's agent. *)
(* What each of them keeps is shown of its own steps first; a behaviour of *)
(* Edges then takes the steps of one of them.                              *)
(***************************************************************************)
EXTENDS Edges, FiniteSetTheorems, SequenceTheorems, TLAPS

--------------------------------------------------------------------------------
(* The throttle                                                               *)

Attempt == [at : {"new", "asking", "checking", "rejecting", "rejected", "served", "failed", "clearing",
                  "refused", "issuing"},
            counted : BOOLEAN, time : Nat, cleared : BOOLEAN]

ThrottleTypes ==
    /\ inRedis \in BOOLEAN /\ guarded \in {"login", "rate"} /\ now \in Nat
    /\ attempt \in [Attempts -> Attempt]

Recent == {a \in Attempts : attempt[a].counted /\ ~attempt[a].cleared /\ attempt[a].time > now - Window}

ThrottleInv == ThrottleTypes /\ HitsKept /\ AttemptsBounded

\* There are no more recent attempts than there are hits that hold them.
LEMMA HitsBound ==
    ASSUME NEW A, NEW H, IsFiniteSet(H), NEW time, \A a \in A : <<a, time[a]>> \in H
    PROVE  IsFiniteSet(A) /\ Cardinality(A) <= Cardinality(H)
<1> DEFINE hit == [a \in A |-> <<a, time[a]>>]
<1>1. hit \in Injection(A, H)
  BY DEF Injection, IsInjective
<1>2. QED
  BY <1>1, FS_Injection

LEMMA RecentBounded ==
    ASSUME ThrottleTypes, HitsKept
    PROVE  IsFiniteSet(Recent)
<1> DEFINE time == [a \in Attempts |-> attempt[a].time]
<1>1. \A a \in Recent : <<a, time[a]>> \in hits
  BY DEF Recent, HitsKept
<1>2. QED
  BY <1>1, HitsBound DEF HitsKept

\* Whatever leaves fewer recent attempts leaves them bounded.
LEMMA FewerRecent ==
    ASSUME ThrottleInv, Recent' \subseteq Recent
    PROVE  AttemptsBounded'
<1>1. IsFiniteSet(Recent) /\ Cardinality(Recent) <= Limit
  BY RecentBounded DEF ThrottleInv, AttemptsBounded, Recent
<1>2. IsFiniteSet(Recent') /\ Cardinality(Recent') <= Cardinality(Recent)
  BY <1>1, FS_Subset
<1>3. Cardinality(Recent') \in Nat /\ Cardinality(Recent) \in Nat /\ Limit \in Nat
  BY <1>1, <1>2, FS_CardinalityType, ThrottleBounds
<1>4. QED
  BY <1>1, <1>2, <1>3 DEF AttemptsBounded, Recent

\* Both stores prune, and keep the hits of the window.
LEMMA PruneKeeps ==
    ASSUME ThrottleTypes, HitsKept, NEW time \in Nat, time <= now
    PROVE  /\ Fresh(time) \subseteq hits /\ IsFiniteSet(Fresh(time))
           /\ \A a \in Attempts : attempt[a].counted /\ ~attempt[a].cleared
                  /\ attempt[a].time > now - Window => <<a, attempt[a].time>> \in Fresh(time)
<1>1. Fresh(time) \subseteq hits
  BY DEF Fresh
<1>2. IsFiniteSet(Fresh(time))
  BY <1>1, FS_Subset DEF HitsKept
<1>3. ASSUME NEW a \in Attempts, attempt[a].counted, ~attempt[a].cleared,
             attempt[a].time > now - Window
      PROVE  <<a, attempt[a].time>> \in Fresh(time)
  <2>1. <<a, attempt[a].time>> \in hits /\ attempt[a].time \in Nat
    BY <1>3 DEF HitsKept, ThrottleTypes, Attempt
  <2>2. attempt[a].time > time - Window /\ attempt[a].time >= time - Window
    BY <1>3, <2>1, ThrottleBounds DEF ThrottleTypes
  <2>3. QED
    BY <1>3, <2>1, <2>2 DEF Fresh
<1>4. QED
  BY <1>1, <1>2, <1>3

\* A step that only moves a request on, with the hits as they are.
LEMMA MoveStep ==
    ASSUME ThrottleInv, NEW a \in Attempts, NEW stage, Move(a, stage),
           NEW time \in Nat, time <= now,
           stage \in {"checking", "served", "failed", "clearing", "refused"}
               \/ (stage \in {"rejecting", "rejected"} /\ ~attempt[a].counted),
           UNCHANGED <<inRedis, guarded, now>>,
           hits' \in {hits, Fresh(time)} \/
               \E b \in Attempts : ~attempt[b].counted
                   /\ hits' \in {Fresh(time) \cup {<<b, time>>}, {h \in hits : h[1] # b}}
    PROVE  ThrottleInv'
<1>0. /\ attempt' = [attempt EXCEPT ![a].at = stage] /\ attempt[a] \in Attempt
      /\ stage \in {"checking", "rejecting", "rejected", "served", "failed", "clearing",
                    "refused", "issuing"}
  BY DEF Move, ThrottleInv, ThrottleTypes
<1>1. ThrottleTypes'
  BY <1>0 DEF ThrottleInv, ThrottleTypes, Attempt
<1>2. \A x \in Attempts : /\ attempt'[x].counted = attempt[x].counted
                          /\ attempt'[x].cleared = attempt[x].cleared
                          /\ attempt'[x].time = attempt[x].time
                          /\ attempt'[x].at = IF x = a THEN stage ELSE attempt[x].at
  BY <1>0 DEF ThrottleInv, ThrottleTypes, Attempt
<1>3. Fresh(time) \subseteq hits /\ IsFiniteSet(Fresh(time)) /\ IsFiniteSet(hits) /\ hits \subseteq Attempts \X Nat
  BY PruneKeeps DEF ThrottleInv, HitsKept
<1>4. /\ hits' \subseteq Attempts \X Nat /\ IsFiniteSet(hits')
      /\ \A x \in Attempts : attempt[x].counted /\ ~attempt[x].cleared
             /\ attempt[x].time > now - Window => <<x, attempt[x].time>> \in hits'
  <2>1. CASE hits' \in {hits, Fresh(time)}
    BY <1>3, <2>1, PruneKeeps DEF ThrottleInv, HitsKept
  <2>2. CASE \E b \in Attempts : ~attempt[b].counted
                 /\ hits' \in {Fresh(time) \cup {<<b, time>>}, {h \in hits : h[1] # b}}
    <3>1. PICK b \in Attempts : ~attempt[b].counted
                 /\ hits' \in {Fresh(time) \cup {<<b, time>>}, {h \in hits : h[1] # b}}
      BY <2>2
    <3>2. <<b, time>> \in Attempts \X Nat
      OBVIOUS
    <3>3. hits' \subseteq Attempts \X Nat
      BY <1>3, <3>1, <3>2
    <3>4. IsFiniteSet(hits')
      <4>1. IsFiniteSet(Fresh(time) \cup {<<b, time>>}) /\ IsFiniteSet({h \in hits : h[1] # b})
        BY <1>3, FS_AddElement, FS_Subset
      <4>2. QED
        BY <3>1, <4>1
    <3>5. ASSUME NEW x \in Attempts, attempt[x].counted, ~attempt[x].cleared,
                 attempt[x].time > now - Window
          PROVE  <<x, attempt[x].time>> \in hits'
      <4>1. <<x, attempt[x].time>> \in Fresh(time) /\ <<x, attempt[x].time>> \in hits /\ x # b
        BY <3>1, <3>5, PruneKeeps DEF ThrottleInv, HitsKept
      <4>2. QED
        BY <3>1, <4>1
    <3>6. QED
      BY <3>3, <3>4, <3>5
  <2>3. QED
    BY <2>1, <2>2
<1>5. HitsKept'
  BY <1>2, <1>4 DEF HitsKept, ThrottleInv
<1>6. Recent' \subseteq Recent
  BY <1>2 DEF Recent
<1>7. QED
  BY <1>1, <1>5, <1>6, FewerRecent DEF ThrottleInv

\* An attempt is let through: with its hit the store holds no more than Limit.
LEMMA AdmitStep ==
    ASSUME ThrottleInv, NEW a \in Attempts, NEW time \in Nat, time <= now, Admit(a, time),
           UNCHANGED <<inRedis, guarded, now>>,
           hits' = Fresh(time) \cup {<<a, time>>}, Cardinality(hits') <= Limit
    PROVE  ThrottleInv'
<1>0. /\ attempt' = [attempt EXCEPT ![a] = [attempt[a] EXCEPT !.at = "checking", !.counted = TRUE, !.time = time]]
      /\ attempt[a] \in Attempt /\ now \in Nat
  BY DEF Admit, ThrottleInv, ThrottleTypes
<1>1. ThrottleTypes'
  BY <1>0 DEF ThrottleInv, ThrottleTypes, Attempt
<1>2. /\ attempt'[a].time = time /\ attempt'[a].at = "checking"
      /\ \A x \in Attempts : x # a => attempt'[x] = attempt[x]
  BY <1>0 DEF ThrottleInv, ThrottleTypes, Attempt
<1>3. hits' \subseteq Attempts \X Nat /\ IsFiniteSet(hits')
  <2>1. Fresh(time) \subseteq hits /\ IsFiniteSet(Fresh(time)) /\ hits \subseteq Attempts \X Nat
    BY PruneKeeps DEF ThrottleInv, HitsKept
  <2>2. IsFiniteSet(hits')
    BY <2>1, FS_AddElement
  <2>3. hits' \subseteq Attempts \X Nat
    BY <1>0, <2>1
  <2>4. QED
    BY <2>2, <2>3
<1>4. ASSUME NEW x \in Attempts, attempt'[x].counted, ~attempt'[x].cleared,
             attempt'[x].time > now - Window
      PROVE  <<x, attempt'[x].time>> \in hits'
  <2>1. CASE x = a
    BY <1>2, <2>1
  <2>2. CASE x # a
    BY <1>2, <1>4, <2>2, PruneKeeps DEF ThrottleInv
  <2>3. QED
    BY <2>1, <2>2
<1>5. HitsKept'
  BY <1>2, <1>3, <1>4 DEF HitsKept, ThrottleInv
<1>6. AttemptsBounded'
  <2> DEFINE made == [x \in Attempts |-> attempt'[x].time]
  <2>0. Recent' = {x \in Attempts : attempt'[x].counted /\ ~attempt'[x].cleared
                                       /\ attempt'[x].time > now - Window}
    BY DEF Recent
  <2>1. \A x \in Recent' : <<x, made[x]>> \in hits'
    <3>1. ASSUME NEW x \in Recent' PROVE <<x, attempt'[x].time>> \in hits' /\ x \in Attempts
      <4>1. x \in Attempts /\ attempt'[x].counted /\ ~attempt'[x].cleared
            /\ attempt'[x].time > now - Window
        BY <2>0, <3>1
      <4>2. QED
        BY <1>4, <4>1
    <3>2. QED
      BY <3>1, Zenon
  <2>2. IsFiniteSet(Recent') /\ Cardinality(Recent') <= Cardinality(hits')
    <3> HIDE DEF made
    <3> QED
      BY <1>3, <2>1, HitsBound
  <2>3. Cardinality(Recent') \in Nat /\ Cardinality(hits') \in Nat /\ Limit \in Nat
    BY <1>3, <2>2, FS_CardinalityType, ThrottleBounds
  <2>4. Cardinality(Recent') <= Limit
    BY <2>2, <2>3
  <2>5. QED
    BY <2>4 DEF AttemptsBounded, Recent
<1>7. QED
  BY <1>1, <1>5, <1>6 DEF ThrottleInv

LEMMA ClearStep ==
    ASSUME ThrottleInv, NEW a \in Attempts, ClearFailures(a)
    PROVE  ThrottleInv'
<1>0. hits' = {} /\ UNCHANGED <<inRedis, guarded, now>> /\ attempt[a].at = "clearing"
  BY Zenon DEF ClearFailures
<1>1. ASSUME NEW b \in Attempts
      PROVE  /\ attempt'[b] \in Attempt
             /\ attempt'[b].counted = attempt[b].counted
             /\ attempt'[b].time = attempt[b].time
             /\ attempt[b].counted => attempt'[b].cleared
             /\ attempt'[b].at \in {attempt[b].at, "issuing"}
             /\ attempt[b].at = "clearing" \/ attempt'[b].at = attempt[b].at
  <2> DEFINE gone == attempt[b].cleared \/ attempt[b].counted
             stage == IF b = a THEN "issuing" ELSE attempt[b].at
  <2>1. attempt[b] \in Attempt /\ gone \in BOOLEAN
    BY DEF ThrottleInv, ThrottleTypes, Attempt
  <2>2. stage \in {attempt[b].at, "issuing"} /\ (attempt[b].at = "clearing" \/ stage = attempt[b].at)
    BY <1>0
  <2>3. attempt'[b] = [attempt[b] EXCEPT !.cleared = gone, !.at = stage]
    BY Zenon DEF ClearFailures
  <2>4. attempt[b].counted => gone
    OBVIOUS
  <2> HIDE DEF gone, stage
  <2>5. attempt'[b] \in Attempt
    BY <2>1, <2>2, <2>3 DEF Attempt
  <2>6. attempt'[b].cleared = gone
    BY <2>1, <2>3 DEF Attempt
  <2>7. attempt'[b].at = stage
    BY <2>1, <2>3 DEF Attempt
  <2>8. attempt'[b].counted = attempt[b].counted /\ attempt'[b].time = attempt[b].time
    BY <2>1, <2>3 DEF Attempt
  <2>9. QED
    BY <2>2, <2>4, <2>5, <2>6, <2>7, <2>8
<1>2. ThrottleTypes'
  <2>1. attempt' = [b \in Attempts |-> attempt'[b]]
    BY Zenon DEF ClearFailures
  <2>2. QED
    BY <1>0, <1>1, <2>1 DEF ThrottleInv, ThrottleTypes
<1>3. HitsKept'
  BY <1>0, <1>1, FS_EmptySet DEF ThrottleInv, HitsKept
<1>4. Recent' = {}
  BY <1>1 DEF Recent
<1>5. QED
  BY <1>2, <1>3, <1>4, FewerRecent DEF ThrottleInv

LEMMA ThrottleStep == ASSUME ThrottleInv, ThrottleNext PROVE ThrottleInv'
<1>0. ThrottleTypes /\ HitsKept /\ now \in Nat /\ now <= now
  BY DEF ThrottleInv, ThrottleTypes
<1>1. ASSUME NEW a \in Attempts, TryHitLocal(a) PROVE ThrottleInv'
  <2>1. CASE Cardinality(Fresh(now)) >= Limit
    <3>1. hits' = Fresh(now) /\ Move(a, "rejected") /\ ~attempt[a].counted
      BY <1>0, <1>1, <2>1 DEF TryHitLocal, HitsKept
    <3>2. QED
      BY <1>0, <1>1, <3>1, MoveStep DEF TryHitLocal
  <2>2. CASE ~(Cardinality(Fresh(now)) >= Limit)
    <3>1. hits' = Fresh(now) \cup {<<a, now>>} /\ Admit(a, now)
      BY <1>1, <2>2 DEF TryHitLocal
    <3>2. Cardinality(hits') <= Limit
      <4>1. Cardinality(Fresh(now)) \in Nat /\ Limit \in Nat /\ IsFiniteSet(Fresh(now))
        BY <1>0, PruneKeeps, FS_CardinalityType, ThrottleBounds
      <4>2. Cardinality(hits') <= Cardinality(Fresh(now)) + 1
        <5>1. Cardinality(Fresh(now) \cup {<<a, now>>})
                  = IF <<a, now>> \in Fresh(now) THEN Cardinality(Fresh(now)) ELSE Cardinality(Fresh(now)) + 1
          BY <4>1, FS_AddElement
        <5>2. Cardinality(hits') = Cardinality(Fresh(now)) \/ Cardinality(hits') = Cardinality(Fresh(now)) + 1
          BY <3>1, <5>1
        <5>3. QED
          BY <4>1, <5>2
      <4>3. Cardinality(hits') \in Nat
        BY <3>1, <4>1, FS_AddElement, FS_CardinalityType
      <4>4. QED
        BY <2>2, <4>1, <4>2, <4>3
    <3>3. QED
      BY <1>0, <1>1, <3>1, <3>2, AdmitStep DEF TryHitLocal
  <2>3. QED
    BY <2>1, <2>2
<1>2. ASSUME NEW a \in Attempts, TryHit(a) PROVE ThrottleInv'
  <2> DEFINE time == attempt[a].time
  <2>1. time \in Nat /\ time <= now
    BY <1>0 DEF ThrottleTypes, HitsKept, Attempt
  <2>2. hits' = Fresh(time) \cup {<<a, time>>} /\ ~attempt[a].counted /\ UNCHANGED <<inRedis, guarded, now>>
        /\ ((Admit(a, time) /\ Cardinality(hits') <= Limit) \/ Move(a, "rejecting"))
    BY <1>0, <1>2 DEF TryHit, HitsKept
  <2> HIDE DEF time
  <2>3. CASE Admit(a, time) /\ Cardinality(hits') <= Limit
    BY <2>1, <2>2, <2>3, AdmitStep
  <2>4. CASE Move(a, "rejecting")
    BY <2>1, <2>2, <2>4, MoveStep
  <2>5. QED
    BY <2>2, <2>3, <2>4
<1>3. ASSUME NEW a \in Attempts, RemoveHit(a) PROVE ThrottleInv'
  <2>1. hits' = {h \in hits : h[1] # a} /\ Move(a, "rejected") /\ ~attempt[a].counted
        /\ UNCHANGED <<inRedis, guarded, now>>
    BY <1>0, <1>3 DEF RemoveHit, HitsKept
  <2>2. QED
    BY <1>0, <2>1, MoveStep
<1>4. ASSUME NEW a \in Attempts, StoreFails(a) PROVE ThrottleInv'
  <2> DEFINE stage == IF guarded = "rate" THEN "served" ELSE "failed"
  <2> DEFINE time == attempt[a].time
  <2>1. Move(a, stage) /\ stage \in {"served", "failed"} /\ UNCHANGED <<inRedis, guarded, now>>
    BY <1>4 DEF StoreFails
  <2>2. time \in Nat /\ time <= now
    BY <1>0 DEF ThrottleTypes, HitsKept, Attempt
  <2>3. hits' \in {hits, Fresh(time)} \/
            \E b \in Attempts : ~attempt[b].counted
                /\ hits' \in {Fresh(time) \cup {<<b, time>>}, {h \in hits : h[1] # b}}
    BY <1>0, <1>4 DEF StoreFails, HitsKept
  <2>4. QED
    <3> HIDE DEF stage, time
    <3> QED
      BY <2>1, <2>2, <2>3, MoveStep
<1>5. ASSUME NEW a \in Attempts, Serve(a) \/ CheckPassword(a) \/ Issue(a) PROVE ThrottleInv'
  <2>1. PICK stage \in {"served", "clearing", "refused", "failed"} : Move(a, stage)
    BY <1>5 DEF Serve, CheckPassword, Issue
  <2>2. hits' = hits /\ UNCHANGED <<inRedis, guarded, now>>
    BY <1>5 DEF Serve, CheckPassword, Issue
  <2>3. QED
    BY <1>0, <2>1, <2>2, MoveStep
<1>6. CASE Pass
  <2>1. now' = now + 1 /\ UNCHANGED <<inRedis, guarded, hits, attempt>>
    BY <1>6 DEF Pass
  <2>2. ThrottleTypes'
    BY <1>0, <2>1 DEF ThrottleTypes
  <2>3. HitsKept'
    BY <1>0, <2>1, ThrottleBounds DEF ThrottleTypes, HitsKept, Attempt
  <2>4. Recent' \subseteq Recent
    BY <1>0, <2>1, ThrottleBounds DEF ThrottleTypes, Recent, Attempt
  <2>5. QED
    BY <2>2, <2>3, <2>4, FewerRecent DEF ThrottleInv
<1>7. ASSUME NEW a \in Attempts, ReadClock(a) PROVE ThrottleInv'
  <2>1. /\ attempt' = [attempt EXCEPT ![a] = [attempt[a] EXCEPT !.at = "asking", !.time = now]]
        /\ UNCHANGED <<inRedis, guarded, now, hits>> /\ ~attempt[a].counted
    BY <1>0, <1>7 DEF ReadClock, HitsKept
  <2>2. /\ attempt'[a].at = "asking" /\ attempt'[a].time = now /\ ~attempt'[a].counted
        /\ \A x \in Attempts : x # a => attempt'[x] = attempt[x]
    BY <1>0, <2>1 DEF ThrottleTypes, Attempt
  <2>3. ThrottleTypes'
    BY <1>0, <2>1 DEF ThrottleTypes, Attempt
  <2>4. HitsKept'
    BY <1>0, <2>1, <2>2 DEF HitsKept
  <2>5. Recent' \subseteq Recent
    BY <2>1, <2>2 DEF Recent
  <2>6. QED
    BY <2>3, <2>4, <2>5, FewerRecent DEF ThrottleInv
<1>8. QED
  BY <1>1, <1>2, <1>3, <1>4, <1>5, <1>6, <1>7, ClearStep DEF ThrottleNext

LEMMA ThrottleStarts == ThrottleInit => ThrottleInv
<1>1. SUFFICES ASSUME ThrottleInit PROVE ThrottleInv
  OBVIOUS
<1>2. ThrottleTypes /\ HitsKept
  BY <1>1, ThrottleBounds, FS_EmptySet DEF ThrottleInit, ThrottleTypes, HitsKept, Attempt
<1>3. Recent = {}
  BY <1>1 DEF ThrottleInit, Recent
<1>4. AttemptsBounded
  BY <1>3, FS_EmptySet, ThrottleBounds DEF AttemptsBounded, Recent
<1>5. QED
  BY <1>2, <1>4 DEF ThrottleInv

LEMMA ThrottleIdle == ASSUME ThrottleInv, UNCHANGED throttleVars PROVE ThrottleInv'
  BY DEF ThrottleInv, ThrottleTypes, HitsKept, AttemptsBounded, throttleVars

--------------------------------------------------------------------------------
(* Phantom tasks                                                              *)

Job == [at : {"new", "context", "create", "start", "shielded", "exposed", "done"},
        result : {"none", "refused", "failed", "cancelled", "output", "unconfirmed"},
        attempted : BOOLEAN, removed : BOOLEAN, late : BOOLEAN, cancels : Nat, cut : BOOLEAN]
Containers == {"none", "late", "created", "running"}

PhantomTypes ==
    active \in Nat /\ job \in [Jobs -> Job] /\ container \in [Jobs -> Containers]

\* What a task that is done leaves behind.
LeftBehind(j) ==
    job[j].at = "done" =>
        /\ job[j].result = "output" => container[j] = "none"
        /\ container[j] # "none" => job[j].result = "unconfirmed" \/ job[j].cut \/ job[j].late

Phantoms == PhantomTypes /\ PhantomInv

LEMMA StageSet ==
    ASSUME PhantomTypes, NEW j \in Jobs, NEW stage, Step(j, stage)
    PROVE  job' = [job EXCEPT ![j] = [job[j] EXCEPT !.at = stage]]
  BY DEF Step, PhantomTypes

LEMMA StageAndResultSet ==
    ASSUME PhantomTypes, NEW j \in Jobs, NEW stage, NEW result, Ends(j, result, stage)
    PROVE  job' = [job EXCEPT ![j] = [job[j] EXCEPT !.at = stage, !.result = result]]
<1>1. job[j] \in Job
  BY DEF PhantomTypes
<1>2. job' = [job EXCEPT ![j].at = stage, ![j].result = result]
  BY DEF Ends
<1>3. QED
  BY <1>1, <1>2 DEF PhantomTypes

\* A step of one task, which takes a place, keeps it, leaves it or never had one.
LEMMA TaskStep ==
    ASSUME Phantoms, NEW j \in Jobs, NEW next \in Job, NEW left \in Containers,
           job' = [job EXCEPT ![j] = next], container' = [container EXCEPT ![j] = left],
           (ContainerKnown(j) /\ LeftBehind(j))',
           \/ /\ job[j].at \in {"new", "done"} <=> next.at \in {"new", "done"}
              /\ active' = active
           \/ /\ job[j].at = "new" /\ next.at \notin {"new", "done"}
              /\ active < Capacity /\ active' = active + 1
           \/ /\ job[j].at \notin {"new", "done"} /\ next.at = "done"
              /\ active' = active - 1
    PROVE  Phantoms'
<1>1. /\ active \in Nat /\ job \in [Jobs -> Job] /\ container \in [Jobs -> Containers]
      /\ IsFiniteSet(Taken) /\ active = Cardinality(Taken) /\ active <= Capacity /\ Capacity \in Nat
  BY PhantomBounds DEF Phantoms, PhantomTypes, PhantomInv, ContainersOwned, Taken
<1>2. /\ job'[j] = next /\ container'[j] = left
      /\ \A i \in Jobs : i # j => job'[i] = job[i] /\ container'[i] = container[i]
  BY <1>1
<1>3. ASSUME NEW i \in Jobs PROVE ContainerKnown(i)' /\ LeftBehind(i)'
  <2>1. ContainerKnown(i) /\ LeftBehind(i)
    BY DEF Phantoms, PhantomInv, ContainersOwned, LeftBehind
  <2>2. CASE i # j
    BY <1>2, <2>1, <2>2 DEF ContainerKnown, LeftBehind
  <2>3. QED
    BY <2>2
<1>4. IsFiniteSet(Taken') /\ active' = Cardinality(Taken') /\ active' <= Capacity
  <2>1. CASE (job[j].at \in {"new", "done"} <=> next.at \in {"new", "done"}) /\ active' = active
    <3>1. Taken' = Taken
      BY <1>2, <2>1 DEF Taken
    <3>2. QED
      BY <1>1, <2>1, <3>1
  <2>2. CASE /\ job[j].at = "new" /\ next.at \notin {"new", "done"}
             /\ active < Capacity /\ active' = active + 1
    <3>1. Taken' = Taken \cup {j} /\ j \notin Taken
      BY <1>2, <2>2 DEF Taken
    <3>2. IsFiniteSet(Taken') /\ Cardinality(Taken') = Cardinality(Taken) + 1
      BY <1>1, <3>1, FS_AddElement
    <3>3. QED
      BY <1>1, <2>2, <3>2
  <2>3. CASE /\ job[j].at \notin {"new", "done"} /\ next.at = "done"
             /\ active' = active - 1
    <3>1. Taken' = Taken \ {j} /\ j \in Taken
      BY <1>2, <2>3 DEF Taken
    <3>2. IsFiniteSet(Taken') /\ Cardinality(Taken') = Cardinality(Taken) - 1
      BY <1>1, <3>1, FS_RemoveElement
    <3>3. QED
      BY <1>1, <2>3, <3>2
  <2>4. QED
    BY <2>1, <2>2, <2>3
<1>5. PhantomTypes'
  <2>1. active' \in Nat
    BY <1>4, FS_CardinalityType
  <2>2. QED
    BY <1>1, <2>1 DEF PhantomTypes
<1>6. ContainersOwned'
  BY <1>3, <1>4 DEF ContainersOwned, Taken, LeftBehind
<1>7. QED
  BY <1>3, <1>4, <1>5, <1>6 DEF Phantoms, PhantomInv

\* What is known of a task and its container between its steps.
LEMMA TaskKnown ==
    ASSUME Phantoms, NEW j \in Jobs
    PROVE  /\ job[j] \in Job /\ container[j] \in Containers /\ container = [container EXCEPT ![j] = container[j]]
           /\ job = [job EXCEPT ![j] = job[j]]
           /\ job \in [Jobs -> Job] /\ container \in [Jobs -> Containers]
           /\ ContainerKnown(j) /\ LeftBehind(j)
  BY DEF Phantoms, PhantomTypes, PhantomInv, ContainersOwned, LeftBehind

LEMMA WorkStep ==
    ASSUME Phantoms, NEW j \in Jobs,
           \/ Reserve(j) \/ Inspect(j) \/ Create(j) \/ CreateBreaks(j) \/ CancelWork(j)
    PROVE  Phantoms'
<1>0. /\ job[j] \in Job /\ container[j] \in Containers /\ container = [container EXCEPT ![j] = container[j]]
      /\ job \in [Jobs -> Job] /\ container \in [Jobs -> Containers]
      /\ ContainerKnown(j) /\ LeftBehind(j) /\ PhantomTypes
  BY TaskKnown DEF Phantoms
<1>1. CASE Reserve(j)
  <2>1. container' = [container EXCEPT ![j] = container[j]] /\ job[j].at = "new"
    BY <1>0, <1>1 DEF Reserve
  <2>2. CASE Ends(j, "refused", "done") /\ active' = active
    <3> DEFINE next == [job[j] EXCEPT !.at = "done", !.result = "refused"]
    <3>1. job' = [job EXCEPT ![j] = next] /\ next \in Job /\ next.at = "done"
      <4>1. job' = [job EXCEPT ![j] = next]
        <5>1. PhantomTypes
          BY <1>0
        <5>2. QED
          BY <5>1, <2>2, StageAndResultSet, ZenonT(30)
      <4>2. next \in Job
        BY <1>0 DEF Job
      <4>3. QED
        BY <4>1, <4>2
    <3>2. (ContainerKnown(j) /\ LeftBehind(j))'
      BY <1>0, <2>1, <3>1 DEF ContainerKnown, LeftBehind, Working, Job
    <3>3. QED
      BY <1>0, <2>1, <2>2, <3>1, <3>2, TaskStep
  <2>3. CASE active < Capacity /\ active' = active + 1 /\ Step(j, "context")
    <3> DEFINE next == [job[j] EXCEPT !.at = "context"]
    <3>1. job' = [job EXCEPT ![j] = next] /\ next \in Job /\ next.at = "context"
      BY <1>0, <2>3, StageSet DEF Job
    <3>2. (ContainerKnown(j) /\ LeftBehind(j))'
      BY <1>0, <2>1, <3>1 DEF ContainerKnown, LeftBehind, Working, Job
    <3>3. QED
      BY <1>0, <2>1, <2>3, <3>1, <3>2, TaskStep
  <2>4. QED
    BY <1>1, <2>2, <2>3 DEF Reserve
<1>2. CASE Inspect(j)
  <2>1. container' = [container EXCEPT ![j] = container[j]] /\ job[j].at = "context" /\ active' = active
    BY <1>0, <1>2 DEF Inspect
  <2>2. CASE job' = [job EXCEPT ![j].at = "create", ![j].attempted = TRUE]
    <3> DEFINE next == [job[j] EXCEPT !.at = "create", !.attempted = TRUE]
    <3>1. job' = [job EXCEPT ![j] = next] /\ next \in Job /\ next.at = "create"
      BY <1>0, <2>2 DEF Job
    <3>2. (ContainerKnown(j) /\ LeftBehind(j))'
      BY <1>0, <2>1, <3>1 DEF ContainerKnown, LeftBehind, Working, Job
    <3>3. QED
      BY <1>0, <2>1, <3>1, <3>2, TaskStep
  <2>3. CASE Ends(j, "failed", "shielded")
    <3> DEFINE next == [job[j] EXCEPT !.at = "shielded", !.result = "failed"]
    <3>1. job' = [job EXCEPT ![j] = next] /\ next \in Job /\ next.at = "shielded"
      <4>1. job' = [job EXCEPT ![j] = next]
        <5>1. PhantomTypes
          BY <1>0
        <5>2. QED
          BY <5>1, <2>3, StageAndResultSet, ZenonT(30)
      <4>2. next \in Job
        BY <1>0 DEF Job
      <4>3. QED
        BY <4>1, <4>2
    <3>2. (ContainerKnown(j) /\ LeftBehind(j))'
      BY <1>0, <2>1, <3>1 DEF ContainerKnown, LeftBehind, Working, Job
    <3>3. QED
      BY <1>0, <2>1, <3>1, <3>2, TaskStep
  <2>4. QED
    BY <1>2, <2>2, <2>3 DEF Inspect
<1>3. CASE Create(j)
  <2>1. job[j].at = "create" /\ active' = active
    BY <1>3 DEF Create
  <2>2. CASE container' = [container EXCEPT ![j] = "created"] /\ Step(j, "start")
    <3> DEFINE next == [job[j] EXCEPT !.at = "start"]
    <3>1. job' = [job EXCEPT ![j] = next] /\ next \in Job /\ next.at = "start" /\ "created" \in Containers
      BY <1>0, <2>2, StageSet DEF Job, Containers
    <3>2. (ContainerKnown(j) /\ LeftBehind(j))'
      BY <1>0, <2>1, <2>2, <3>1 DEF ContainerKnown, LeftBehind, Working, Job
    <3>3. QED
      BY <1>0, <2>1, <2>2, <3>1, <3>2, TaskStep
  <2>3. CASE Ends(j, "failed", "shielded") /\ UNCHANGED container
    <3> DEFINE next == [job[j] EXCEPT !.at = "shielded", !.result = "failed"]
    <3>1. job' = [job EXCEPT ![j] = next] /\ next \in Job /\ next.at = "shielded"
      <4>1. job' = [job EXCEPT ![j] = next]
        <5>1. PhantomTypes
          BY <1>0
        <5>2. QED
          BY <5>1, <2>3, StageAndResultSet, ZenonT(30)
      <4>2. next \in Job
        BY <1>0 DEF Job
      <4>3. QED
        BY <4>1, <4>2
    <3>2. (ContainerKnown(j) /\ LeftBehind(j))'
      BY <1>0, <2>1, <2>3, <3>1 DEF ContainerKnown, LeftBehind, Working, Job
    <3>3. QED
      BY <1>0, <2>1, <2>3, <3>1, <3>2, TaskStep
  <2>4. QED
    BY <1>3, <2>2, <2>3 DEF Create
<1>4. CASE CreateBreaks(j)
  <2>1. job[j].at = "create" /\ active' = active
    BY <1>4 DEF CreateBreaks
  <2>2. PICK left \in {"none", "created", "late"} :
          /\ container' = [container EXCEPT ![j] = left]
          /\ job' = [job EXCEPT ![j] = [job[j] EXCEPT !.at = "shielded", !.result = "failed",
                                                      !.late = (left = "late")]]
    BY <1>4 DEF CreateBreaks
  <2> DEFINE next == [job[j] EXCEPT !.at = "shielded", !.result = "failed", !.late = (left = "late")]
  <2>3. next \in Job /\ next.at = "shielded" /\ left \in Containers
    BY <1>0 DEF Job, Containers
  <2>4. (ContainerKnown(j) /\ LeftBehind(j))'
    BY <1>0, <2>1, <2>2 DEF ContainerKnown, LeftBehind, Working, Job
  <2>5. QED
    BY <1>0, <2>1, <2>2, <2>3, <2>4, TaskStep
<1>5. CASE CancelWork(j)
  <2>1. job[j].at \in Working /\ active' = active
    BY <1>5 DEF CancelWork
  <2>2. PICK left \in IF job[j].at = "create" THEN {"none", "created", "late"} ELSE {container[j]} :
          /\ container' = [container EXCEPT ![j] = left]
          /\ job' = [job EXCEPT ![j] = [job[j] EXCEPT !.at = "shielded", !.result = "cancelled",
                                            !.late = (left = "late"), !.cancels = job[j].cancels + 1]]
    BY <1>5 DEF CancelWork
  <2> DEFINE next == [job[j] EXCEPT !.at = "shielded", !.result = "cancelled",
                                    !.late = (left = "late"), !.cancels = job[j].cancels + 1]
  <2>3. next \in Job /\ next.at = "shielded" /\ left \in Containers
    <3>1. left \in Containers
      BY <1>0, <2>2 DEF Containers
    <3>2. (left = "late") \in BOOLEAN /\ job[j].cancels + 1 \in Nat
      BY <1>0 DEF Job
    <3>3. next \in Job
      BY <1>0, <3>2 DEF Job
    <3>4. QED
      BY <1>0, <3>1, <3>3 DEF Job
  <2>4. (ContainerKnown(j) /\ LeftBehind(j))'
    BY <1>0, <2>1, <2>2 DEF ContainerKnown, LeftBehind, Working, Job
  <2>5. QED
    BY <1>0, <2>1, <2>2, <2>3, <2>4, TaskStep DEF Working
<1>6. QED
  BY <1>1, <1>2, <1>3, <1>4, <1>5

\* A command that only touches the container of a task.
LEMMA ContainerStep ==
    ASSUME Phantoms, NEW j \in Jobs, Start(j) \/ Finishes(j) \/ Appears(j)
    PROVE  Phantoms'
<1>0. /\ job[j] \in Job /\ container[j] \in Containers /\ job = [job EXCEPT ![j] = job[j]]
      /\ job \in [Jobs -> Job] /\ container \in [Jobs -> Containers]
      /\ ContainerKnown(j) /\ LeftBehind(j)
  BY TaskKnown
<1>1. PICK left \in {"created", "running", "none"} :
          /\ container' = [container EXCEPT ![j] = left] /\ job' = job /\ active' = active
          /\ \/ container[j] = "created" /\ job[j].at = "start"
             \/ container[j] \in {"running", "late"} /\ (left = "none" \/ container[j] = "late")
  BY DEF Start, Finishes, Appears
<1>2. left \in Containers /\ container'[j] = left /\ job'[j] = job[j]
  BY <1>0, <1>1 DEF Containers
<1>3. (ContainerKnown(j) /\ LeftBehind(j))'
  BY <1>0, <1>1, <1>2 DEF ContainerKnown, LeftBehind, Working, Job
<1>4. QED
  BY <1>0, <1>1, <1>2, <1>3, TaskStep

\* The work ends, and the cleanup begins.
LEMMA WorkEndsStep ==
    ASSUME Phantoms, NEW j \in Jobs, Output(j) \/ StartBreaks(j)
    PROVE  Phantoms'
<1>0. /\ job[j] \in Job /\ container[j] \in Containers /\ container = [container EXCEPT ![j] = container[j]]
      /\ job \in [Jobs -> Job] /\ container \in [Jobs -> Containers]
      /\ ContainerKnown(j) /\ LeftBehind(j) /\ PhantomTypes
  BY TaskKnown DEF Phantoms
<1>1. PICK result \in {"output", "failed"} : Ends(j, result, "shielded")
  BY DEF Output, StartBreaks
<1>2. job[j].at = "start" /\ container' = container /\ active' = active
  BY DEF Output, StartBreaks
<1> DEFINE next == [job[j] EXCEPT !.at = "shielded", !.result = result]
<1>3. job' = [job EXCEPT ![j] = next]
  <2>1. PhantomTypes
    BY <1>0
  <2>2. QED
    BY <1>1, <2>1, StageAndResultSet, ZenonT(30)
<1>4. next \in Job /\ next.at = "shielded" /\ job'[j] = next /\ container'[j] = container[j]
  BY <1>0, <1>2, <1>3 DEF Job
<1>5. (ContainerKnown(j) /\ LeftBehind(j))'
  BY <1>0, <1>2, <1>4 DEF ContainerKnown, LeftBehind, Working, Job
<1>6. QED
  BY <1>0, <1>2, <1>3, <1>4, <1>5, TaskStep

LEMMA CleanupStep ==
    ASSUME Phantoms, NEW j \in Jobs, CancelCleanup(j) \/ RemoveContainer(j)
    PROVE  Phantoms'
<1>0. /\ job[j] \in Job /\ container[j] \in Containers /\ container = [container EXCEPT ![j] = container[j]]
      /\ job \in [Jobs -> Job] /\ container \in [Jobs -> Containers]
      /\ ContainerKnown(j) /\ LeftBehind(j)
  BY TaskKnown
<1>1. CASE CancelCleanup(j) /\ job[j].at = "shielded"
  <2> DEFINE next == [job[j] EXCEPT !.at = "exposed", !.result = "cancelled",
                                    !.cancels = job[j].cancels + 1]
  <2>1. job' = [job EXCEPT ![j] = next] /\ active' = active /\ container' = container
    BY <1>1 DEF CancelCleanup
  <2>2. next \in Job /\ job'[j] = next /\ container'[j] = container[j]
    <3>1. job[j].cancels + 1 \in Nat
      BY <1>0 DEF Job
    <3>2. next \in Job
      BY <1>0, <3>1 DEF Job
    <3>3. QED
      BY <1>0, <2>1, <3>2
  <2>3. (ContainerKnown(j) /\ LeftBehind(j))'
    BY <1>0, <1>1, <2>2 DEF ContainerKnown, LeftBehind, Working, Job
  <2>4. next.at = "exposed"
    BY <1>0 DEF Job
  <2>5. QED
    BY <1>0, <1>1, <2>1, <2>2, <2>3, <2>4, TaskStep
<1>2. CASE CancelCleanup(j) /\ job[j].at # "shielded"
  <2> DEFINE next == [job[j] EXCEPT !.at = "done", !.cancels = job[j].cancels + 1, !.cut = TRUE]
  <2>1. /\ job' = [job EXCEPT ![j] = next] /\ active' = active - 1 /\ container' = container
        /\ job[j].at = "exposed"
    BY <1>2 DEF CancelCleanup, Cleaning
  <2>2. next \in Job /\ job'[j] = next /\ container'[j] = container[j]
    <3>1. job[j].cancels + 1 \in Nat
      BY <1>0 DEF Job
    <3>2. next \in Job
      BY <1>0, <3>1 DEF Job
    <3>3. QED
      BY <1>0, <2>1, <3>2
  <2>3. (ContainerKnown(j) /\ LeftBehind(j))'
    BY <1>0, <2>1, <2>2 DEF ContainerKnown, LeftBehind, Working, Job
  <2>4. next.at = "done"
    BY <1>0 DEF Job
  <2>5. QED
    BY <1>0, <2>1, <2>2, <2>3, <2>4, TaskStep
<1>3. CASE RemoveContainer(j)
  <2> DEFINE next == [job[j] EXCEPT !.removed = TRUE]
  <2>1. /\ job' = [job EXCEPT ![j] = next] /\ active' = active
        /\ job[j].at \in Cleaning /\ job[j].attempted
    BY <1>0, <1>3 DEF RemoveContainer
  <2>2. PICK left \in Containers : /\ container' = [container EXCEPT ![j] = left]
                                   /\ left = container[j] \/ (left = "none" /\ container[j] # "late")
    <3>1. CASE container' = container
      BY <1>0, <3>1
    <3>2. CASE container' = [container EXCEPT ![j] = IF container[j] = "late" THEN "late" ELSE "none"]
      BY <1>0, <3>2 DEF Containers
    <3>3. QED
      BY <1>3, <3>1, <3>2 DEF RemoveContainer
  <2>3. next \in Job /\ job'[j] = next /\ container'[j] = left
    BY <1>0, <2>1, <2>2 DEF Job
  <2>4. (ContainerKnown(j) /\ LeftBehind(j))'
    BY <1>0, <2>1, <2>2, <2>3 DEF ContainerKnown, LeftBehind, Working, Cleaning, Job
  <2>5. next.at = job[j].at
    BY <1>0 DEF Job
  <2>6. QED
    BY <1>0, <2>1, <2>2, <2>3, <2>4, <2>5, TaskStep
<1>4. QED
  BY <1>1, <1>2, <1>3

LEMMA LeavesStep ==
    ASSUME Phantoms, NEW j \in Jobs, Confirm(j) \/ Unconfirmed(j)
    PROVE  Phantoms'
<1>0. /\ job[j] \in Job /\ container[j] \in Containers /\ container = [container EXCEPT ![j] = container[j]]
      /\ job \in [Jobs -> Job] /\ container \in [Jobs -> Containers]
      /\ ContainerKnown(j) /\ LeftBehind(j) /\ PhantomTypes
  BY TaskKnown DEF Phantoms
<1>1. PICK result \in {job[j].result, "unconfirmed"} :
          /\ Leaves(j, result)
          /\ result = "unconfirmed" \/ (job[j].attempted => container[j] \in {"none", "late"})
  BY DEF Confirm, Unconfirmed
<1>2. job[j].at \in Cleaning /\ container' = container
  BY DEF Confirm, Unconfirmed
<1> DEFINE next == [job[j] EXCEPT !.at = "done", !.result = result]
<1>3. job' = [job EXCEPT ![j] = next] /\ active' = active - 1
  <2>1. PhantomTypes
    BY <1>0
  <2>2. Ends(j, result, "done") /\ active' = active - 1
    BY <1>1 DEF Leaves
  <2>3. job' = [job EXCEPT ![j] = next]
    BY <2>1, <2>2, StageAndResultSet, ZenonT(30)
  <2>4. QED
    BY <2>2, <2>3
<1>4. next \in Job /\ next.at = "done" /\ job'[j] = next /\ container'[j] = container[j]
  BY <1>0, <1>1, <1>2, <1>3 DEF Job
<1>5. (ContainerKnown(j) /\ LeftBehind(j))'
  BY <1>0, <1>1, <1>2, <1>4 DEF ContainerKnown, LeftBehind, Working, Cleaning, Job
<1>6. QED
  BY <1>0, <1>2, <1>3, <1>4, <1>5, TaskStep DEF Cleaning

LEMMA PhantomStep == ASSUME Phantoms, PhantomNext PROVE Phantoms'
  BY WorkStep, ContainerStep, WorkEndsStep, CleanupStep, LeavesStep DEF PhantomNext, JobStep

LEMMA PhantomStarts == PhantomInit => Phantoms
<1>1. SUFFICES ASSUME PhantomInit PROVE Phantoms
  OBVIOUS
<1>2. PhantomTypes /\ \A j \in Jobs : ContainerKnown(j) /\ LeftBehind(j)
  BY <1>1 DEF PhantomInit, PhantomTypes, ContainerKnown, LeftBehind, Job, Containers
<1>3. Taken = {}
  BY <1>1 DEF PhantomInit, Taken
<1>4. IsFiniteSet(Taken) /\ active = Cardinality(Taken) /\ active <= Capacity
  BY <1>1, <1>3, FS_EmptySet, PhantomBounds DEF PhantomInit
<1>5. QED
  BY <1>2, <1>4 DEF Phantoms, PhantomInv, ContainersOwned, LeftBehind, Taken

LEMMA PhantomIdle == ASSUME Phantoms, UNCHANGED phantomVars PROVE Phantoms'
<1>1. active' = active /\ job' = job /\ container' = container
  BY DEF phantomVars
<1>2. Taken' = Taken
  BY <1>1 DEF Taken
<1>3. QED
  BY <1>1, <1>2 DEF Phantoms, PhantomTypes, PhantomInv, ContainersOwned, ContainerKnown

--------------------------------------------------------------------------------
(* The server of a node's agent                                               *)

Lines == {"text", "aside", "usage", "finish", "error"}

CallRecord ==
    [op : {"none", "rag", "execute", "claude"},
     at : {"new", "working", "command", "waiting", "spawning", "writing", "reading", "result",
           "ending", "exiting", "release", "over", "dropped", "dropping", "done"},
     sending : BOOLEAN, left : Seq(Lines), seen : BOOLEAN, raised : BOOLEAN, sent : Seq(Lines)]

AgentTypes == call \in [Calls -> CallRecord] /\ caller \in [Calls -> {"here", "gone"}]

Agents == AgentTypes /\ AgentInv

\* The forms that what a call has sent takes.
Usage(s) ==
    /\ s # <<>> /\ Last(s) = "usage"
    /\ \A k \in DOMAIN s : k < Len(s) => s[k] \in Pieces
Concluded(s) == s # <<>> /\ Last(s) \in Outcomes

LEMMA PiecesConcludeNothing ==
    ASSUME NEW s \in Seq(Lines), OnlyPieces(s)
    PROVE  ~Concluded(s)
<1>1. SUFFICES ASSUME Concluded(s) PROVE FALSE
  OBVIOUS
<1>2. Len(s) \in DOMAIN s
  BY <1>1, EmptySeq, LenProperties DEF Concluded
<1>3. QED
  BY <1>1, <1>2 DEF Concluded, OnlyPieces, Pieces, Outcomes, Last

LEMMA PiecesShaped == ASSUME NEW s, OnlyPieces(s) PROVE Shaped(s)
  BY DEF OnlyPieces, Pieces, Shaped, Outcomes

LEMMA SendLine ==
    ASSUME NEW s \in Seq(Lines), NEW x \in Lines
    PROVE  /\ Append(s, x) \in Seq(Lines) /\ Append(s, x) # <<>> /\ Last(Append(s, x)) = x
           /\ Len(Append(s, x)) = Len(s) + 1 /\ Len(s) \in Nat
           /\ DOMAIN Append(s, x) = 1..Len(s) + 1 /\ DOMAIN s = 1..Len(s)
           /\ \A k \in DOMAIN s : Append(s, x)[k] = s[k]
           /\ Append(s, x)[Len(s) + 1] = x
<1>1. /\ Append(s, x) \in Seq(Lines) /\ Append(s, x) # <<>>
      /\ Len(Append(s, x)) = Len(s) + 1
      /\ \A k \in 1..Len(s) : Append(s, x)[k] = s[k]
      /\ Append(s, x)[Len(s) + 1] = x
  BY AppendProperties
<1>2. Len(s) \in Nat /\ DOMAIN s = 1..Len(s) /\ DOMAIN Append(s, x) = 1..Len(Append(s, x))
  BY <1>1, LenProperties
<1>3. QED
  BY <1>1, <1>2 DEF Last

LEMMA SendPiece ==
    ASSUME NEW s \in Seq(Lines), OnlyPieces(s), NEW x \in Pieces
    PROVE  OnlyPieces(Append(s, x))
<1>1. x \in Lines
  BY DEF Lines, Pieces
<1>2. QED
  BY <1>1, SendLine DEF OnlyPieces, Pieces

LEMMA SendUsage ==
    ASSUME NEW s \in Seq(Lines), OnlyPieces(s)
    PROVE  Usage(Append(s, "usage")) /\ Shaped(Append(s, "usage"))
<1>1. "usage" \in Lines
  BY DEF Lines
<1>2. QED
  BY <1>1, SendLine DEF OnlyPieces, Pieces, Usage, Shaped, Outcomes

LEMMA SendError ==
    ASSUME NEW s \in Seq(Lines), OnlyPieces(s)
    PROVE  Concluded(Append(s, "error")) /\ Shaped(Append(s, "error"))
<1>1. "error" \in Lines
  BY DEF Lines
<1>2. QED
  BY <1>1, SendLine DEF OnlyPieces, Pieces, Concluded, Shaped, Outcomes

LEMMA SendFinish ==
    ASSUME NEW s \in Seq(Lines), Usage(s)
    PROVE  Concluded(Append(s, "finish")) /\ Shaped(Append(s, "finish"))
<1>1. "finish" \in Lines
  BY DEF Lines
<1> DEFINE t == Append(s, "finish")
<1>2. /\ t # <<>> /\ Last(t) = "finish" /\ Len(t) = Len(s) + 1 /\ Len(s) \in Nat \ {0}
      /\ DOMAIN t = 1..Len(s) + 1 /\ DOMAIN s = 1..Len(s)
      /\ \A k \in DOMAIN s : t[k] = s[k]
      /\ t[Len(s) + 1] = "finish"
  BY <1>1, SendLine, EmptySeq DEF Usage
<1>3. s[Len(s)] = "usage" /\ \A k \in 1..Len(s) : k < Len(s) => s[k] \in Pieces
  BY <1>2 DEF Usage, Last
<1> HIDE DEF t
<1>4. ASSUME NEW k \in DOMAIN t
      PROVE  /\ t[k] \in Outcomes => k = Len(t)
             /\ t[k] = "finish" => k > 1 /\ t[k - 1] = "usage"
             /\ t[k] = "usage" => k >= Len(t) - 1
  <2>1. CASE k = Len(t)
    BY <1>2, <1>3, <2>1
  <2>2. CASE k = Len(t) - 1
    <3>1. k = Len(s) /\ k \in DOMAIN s
      BY <1>2, <2>2
    <3>2. t[k] = "usage"
      BY <1>2, <1>3, <3>1
    <3>3. QED
      BY <1>2, <2>2, <3>2 DEF Outcomes
  <2>3. CASE k < Len(t) - 1
    BY <1>2, <1>3, <2>3 DEF Outcomes, Pieces
  <2>4. QED
    BY <1>2, <2>1, <2>2, <2>3
<1>5. QED
  BY <1>2, <1>4 DEF Concluded, Shaped, Outcomes, t

\* The results that are given line by line.
LEMMA Results ==
    ASSUME NEW S, NEW a \in S, NEW b \in S, NEW d \in S
    PROVE  /\ <<a, b, d>> \in Seq(S) /\ <<b, d>> \in Seq(S) /\ <<d>> \in Seq(S)
           /\ Head(<<a, b, d>>) = a /\ Tail(<<a, b, d>>) = <<b, d>>
           /\ Head(<<b, d>>) = b /\ Tail(<<b, d>>) = <<d>>
           /\ Head(<<d>>) = d /\ Tail(<<d>>) = <<>>
           /\ <<b, d>> # <<d>> /\ <<a, b, d>> # <<d>> /\ <<b, d>> # <<>> /\ <<d>> # <<>>
<1>1. <<a, b, d>> \in Seq(S) /\ <<b, d>> \in Seq(S) /\ <<d>> \in Seq(S) /\ <<a>> \in Seq(S)
  OBVIOUS
<1>2. Head(<<a, b, d>>) = a /\ Head(<<b, d>>) = b /\ Head(<<d>>) = d
  OBVIOUS
<1>3. Tail(<<a, b, d>>) = <<b, d>> /\ Tail(<<b, d>>) = <<d>> /\ Tail(<<d>>) = <<>>
  OBVIOUS
<1>4. QED
  BY <1>1, <1>2, <1>3

\* A step of one call.
LEMMA CallStep ==
    ASSUME Agents, NEW c \in Calls, NEW next \in CallRecord,
           call' = [call EXCEPT ![c] = next], caller' = caller, OutcomeInv(c)'
    PROVE  Agents'
<1>1. \A d \in Calls : d # c => call'[d] = call[d] /\ caller'[d] = caller[d]
  BY DEF Agents, AgentTypes
<1>2. AgentTypes'
  BY DEF Agents, AgentTypes
<1>3. ASSUME NEW d \in Calls PROVE OutcomeInv(d)'
  <2>1. CASE d # c
    BY <1>1, <2>1 DEF Agents, AgentInv, OutcomeInv, Told
  <2>2. QED
    BY <2>1
<1>4. QED
  BY <1>2, <1>3 DEF Agents, AgentInv

LEMMA CallKnown ==
    ASSUME Agents, NEW c \in Calls
    PROVE  /\ call[c] \in CallRecord /\ call \in [Calls -> CallRecord]
           /\ caller[c] \in {"here", "gone"} /\ OutcomeInv(c)
           /\ call[c].sent \in Seq(Lines) /\ call[c].left \in Seq(Lines)
  BY DEF Agents, AgentTypes, AgentInv, CallRecord

Early == {"new", "working", "command", "waiting", "spawning", "writing"}

\* A call that has sent nothing goes on, or is over before it has begun.
LEMMA EarlyStep ==
    ASSUME Agents, NEW c \in Calls, call[c].at \in Early, NEW next \in CallRecord,
           call' = [call EXCEPT ![c] = next], caller' = caller,
           next.sent = call[c].sent, next.raised = call[c].raised,
           next.at \in Early \cup {"reading", "done"}
    PROVE  Agents'
<1>1. call[c].sent = <<>> /\ call'[c] = next /\ next.sent = <<>> /\ ~next.raised
  BY CallKnown DEF OutcomeInv, Early
<1>2. OnlyPieces(<<>>) /\ Shaped(<<>>)
  BY DEF OnlyPieces, Pieces, Shaped
<1>3. OutcomeInv(c)'
  BY <1>1, <1>2 DEF OutcomeInv, Early
<1>4. QED
  BY <1>3, CallStep

\* One that failed has sent pieces only, and sends an error.
LEMMA ErrorStep ==
    ASSUME Agents, NEW c \in Calls, OnlyPieces(call[c].sent), ~call[c].raised, caller' = caller,
           NEW stage \in {"ending", "release", "over"}, Yield(c, "error", stage)
    PROVE  Agents'
<1> DEFINE more == Append(call[c].sent, "error")
<1> DEFINE next == [call[c] EXCEPT !.at = stage, !.sending = TRUE, !.sent = more]
<1>1. "error" \in Lines
  BY DEF Lines
<1>2. call' = [call EXCEPT ![c] = next]
  BY DEF Yield
<1>3. call[c] \in CallRecord /\ call \in [Calls -> CallRecord] /\ call[c].sent \in Seq(Lines)
  BY CallKnown
<1>4. more \in Seq(Lines) /\ Concluded(more) /\ Shaped(more)
  BY <1>1, <1>3, SendLine, SendError
<1> HIDE DEF more
<1>5. next \in CallRecord /\ next.at = stage /\ next.sent = more /\ call'[c] = next /\ ~next.raised
  BY <1>2, <1>3, <1>4 DEF CallRecord
<1>6. OutcomeInv(c)'
  BY <1>4, <1>5 DEF OutcomeInv, Told, Concluded
<1>7. QED
  BY <1>2, <1>5, <1>6, CallStep

\* One that is broken off has sent pieces only, and sends no more.
LEMMA RaiseStep == ASSUME Agents, NEW c \in Calls, PrepareFails(c) \/ ReadRaises(c) PROVE Agents'
<1>1. /\ call[c] \in CallRecord /\ call \in [Calls -> CallRecord] /\ call[c].sent \in Seq(Lines)
      /\ call[c].at \in {"spawning", "reading"} /\ caller' = caller /\ OutcomeInv(c)
  BY CallKnown DEF PrepareFails, ReadRaises, At
<1>2. PICK stage \in {"ending", "release"} : Raise(c, stage)
  BY DEF PrepareFails, ReadRaises
<1> DEFINE next == [call[c] EXCEPT !.at = stage, !.raised = TRUE]
<1>3. call' = [call EXCEPT ![c] = next]
  BY <1>2 DEF Raise
<1>4. next \in CallRecord /\ next.at = stage /\ next.raised /\ next.sent = call[c].sent /\ call'[c] = next
  BY <1>1, <1>3 DEF CallRecord
<1>5. OnlyPieces(next.sent) /\ Shaped(next.sent)
  BY <1>1, <1>4 DEF OutcomeInv, OnlyPieces
<1>6. ~Told(c)'
  BY <1>1, <1>4, <1>5, PiecesConcludeNothing DEF Told, Concluded
<1>7. OutcomeInv(c)'
  BY <1>4, <1>5, <1>6 DEF OutcomeInv
<1>8. QED
  BY <1>1, <1>3, <1>4, <1>7, CallStep

\* A call whose output is settled goes on without sending any more.
LEMMA SettledStep ==
    ASSUME Agents, NEW c \in Calls, NEW next \in CallRecord,
           call' = [call EXCEPT ![c] = next], caller' = caller, next.sent = call[c].sent,
           next.raised = call[c].raised,
           \/ next.at = "done"
           \/ caller[c] = "gone" /\ next.at \in {"release", "over", "dropped", "dropping"}
           \/ /\ call[c].at \in {"ending", "exiting", "release", "over"}
              /\ next.at \in {"ending", "exiting", "release", "over"}
    PROVE  Agents'
<1>1. OutcomeInv(c) /\ call'[c] = next /\ caller'[c] = caller[c] /\ caller[c] \in {"here", "gone"}
  BY CallKnown
<1>2. OutcomeInv(c)'
  BY <1>1 DEF OutcomeInv, Told
<1>3. QED
  BY <1>2, CallStep

LEMMA BeginStep ==
    ASSUME Agents, NEW c \in Calls, Begin(c) \/ BeginClaude(c)
    PROVE  Agents'
<1>0. call[c] \in CallRecord /\ call \in [Calls -> CallRecord] /\ caller' = caller /\ call[c].at = "new"
  BY CallKnown DEF Begin, BeginClaude, At
<1>1. PICK op \in {"rag", "execute", "claude"}, stage \in {"working", "command", "done"} :
          call' = [call EXCEPT ![c] = [call[c] EXCEPT !.op = op, !.at = stage]]
  BY DEF Begin, BeginClaude
<1> DEFINE next == [call[c] EXCEPT !.op = op, !.at = stage]
<1>2. next \in CallRecord /\ next.at = stage /\ next.sent = call[c].sent /\ next.raised = call[c].raised
  BY <1>0 DEF CallRecord
<1>3. QED
  BY <1>0, <1>1, <1>2, EarlyStep DEF Early

LEMMA GoSet ==
    ASSUME Agents, NEW c \in Calls, NEW stage, Go(c, stage),
           stage \in {"spawning", "waiting", "writing", "reading", "exiting", "release", "over",
                      "dropping", "done"}
    PROVE  \E next \in CallRecord : /\ call' = [call EXCEPT ![c] = next]
                                    /\ next.sent = call[c].sent /\ next.at = stage
                                    /\ next.raised = call[c].raised
<1> DEFINE next == [call[c] EXCEPT !.at = stage]
<1>1. call[c] \in CallRecord /\ call \in [Calls -> CallRecord]
  BY CallKnown
<1>2. call' = [call EXCEPT ![c] = next]
  BY <1>1 DEF Go
<1>3. next \in CallRecord /\ next.at = stage /\ next.sent = call[c].sent /\ next.raised = call[c].raised
  BY <1>1 DEF CallRecord
<1>4. QED
  BY <1>2, <1>3

\* The stages of a call that neither send nor are left by the caller.
LEMMA GoStep ==
    ASSUME Agents, NEW c \in Calls,
           \/ Complete(c) \/ Acquire(c) \/ Written(c)
           \/ Finally(c) \/ Exited(c) \/ Release(c) \/ Over(c)
           \/ Cancelled(c) \/ DropSlot(c) \/ DropProcess(c)
    PROVE  Agents'
<1>0. caller' = caller /\ OutcomeInv(c)
  BY CallKnown DEF Complete, Acquire, Written, Finally, Exited, Release, Over, Cancelled, DropSlot, DropProcess
<1>1. PICK stage : /\ Go(c, stage)
                   /\ \/ call[c].at \in {"working", "dropping"} /\ stage = "done"
                      \/ call[c].at = "waiting" /\ stage = "spawning"
                      \/ call[c].at = "writing" /\ stage = "reading"
                      \/ call[c].at = "ending" /\ stage = "exiting"
                      \/ call[c].at = "exiting" /\ stage = "release"
                      \/ call[c].at = "release" /\ stage = "over"
                      \/ call[c].at = "over" /\ stage = "done"
                      \/ caller[c] = "gone" /\ stage \in {"over", "release"}
                      \/ call[c].at = "dropped" /\ stage = "dropping"
  BY DEF Complete, Acquire, Written, Finally, Exited, Release, Over, Cancelled, DropSlot, DropProcess, At
<1>2. PICK next \in CallRecord : /\ call' = [call EXCEPT ![c] = next]
                                 /\ next.sent = call[c].sent /\ next.at = stage
                                 /\ next.raised = call[c].raised
  BY <1>1, GoSet
<1>3. call[c].at = "dropped" => caller[c] = "gone"
  BY <1>0 DEF OutcomeInv
<1>4. CASE call[c].at \in {"waiting", "writing"} /\ stage \in {"spawning", "reading"}
  BY <1>0, <1>2, <1>4, EarlyStep DEF Early
<1>5. CASE ~(call[c].at \in {"waiting", "writing"} /\ stage \in {"spawning", "reading"})
  BY <1>0, <1>1, <1>2, <1>3, <1>5, SettledStep
<1>6. QED
  BY <1>4, <1>5

LEMMA CommandStep ==
    ASSUME Agents, NEW c \in Calls, Command(c) \/ Spawn(c) \/ ReadFailure(c) \/ Deadline(c)
    PROVE  Agents'
<1>0. /\ call[c].at \in {"command", "spawning", "reading"} /\ caller' = caller /\ OutcomeInv(c)
      /\ call[c].at \in {"command", "spawning"} => call[c].at \in Early
  BY CallKnown DEF Command, Spawn, ReadFailure, Deadline, At, Early
<1>1. OnlyPieces(call[c].sent) /\ ~call[c].raised
  BY <1>0 DEF OutcomeInv, OnlyPieces
<1>2. CASE \E stage \in {"ending", "release", "over"} : Yield(c, "error", stage)
  BY <1>0, <1>1, <1>2, ErrorStep
<1>3. CASE /\ call[c].at \in {"command", "spawning"}
           /\ \E stage \in {"spawning", "waiting", "writing"} : Go(c, stage)
  <2>1. PICK stage \in {"spawning", "waiting", "writing"} : Go(c, stage)
    BY <1>3
  <2>2. PICK next \in CallRecord : /\ call' = [call EXCEPT ![c] = next]
                                   /\ next.sent = call[c].sent /\ next.at = stage
                                   /\ next.raised = call[c].raised
    BY <2>1, GoSet
  <2>3. QED
    BY <1>0, <1>3, <2>2, EarlyStep DEF Early
<1>4. QED
  BY <1>2, <1>3 DEF Command, Spawn, ReadFailure, Deadline, At

LEMMA ReadPieceStep == ASSUME Agents, NEW c \in Calls, ReadPiece(c) PROVE Agents'
<1>0. /\ call[c] \in CallRecord /\ call \in [Calls -> CallRecord] /\ OutcomeInv(c)
      /\ call[c].sent \in Seq(Lines) /\ call[c].at = "reading" /\ caller' = caller
  BY CallKnown DEF ReadPiece, At
<1>1. PICK type \in Pieces :
          call' = [call EXCEPT ![c] = [call[c] EXCEPT !.sending = TRUE,
                                                      !.sent = Append(call[c].sent, type),
                                                      !.seen = (call[c].seen \/ type = "text")]]
  BY Zenon DEF ReadPiece
<1> DEFINE more == Append(call[c].sent, type)
<1> DEFINE seen == call[c].seen \/ type = "text"
<1> DEFINE next == [call[c] EXCEPT !.sending = TRUE, !.sent = more, !.seen = seen]
<1>2. more \in Seq(Lines) /\ OnlyPieces(more) /\ Shaped(more)
  <2>1. type \in Lines /\ OnlyPieces(call[c].sent)
    BY <1>0 DEF Lines, Pieces, OutcomeInv
  <2>2. QED
    BY <1>0, <2>1, SendLine, SendPiece, PiecesShaped
<1>3. seen \in BOOLEAN
  BY <1>0 DEF CallRecord
<1>4. call' = [call EXCEPT ![c] = next]
  BY <1>1
<1> HIDE DEF more, seen
<1>5. next \in CallRecord /\ next.at = "reading" /\ next.sent = more /\ call'[c] = next
      /\ next.raised = call[c].raised
  BY <1>0, <1>2, <1>3, <1>4 DEF CallRecord
<1>6. OutcomeInv(c)'
  BY <1>0, <1>2, <1>5 DEF OutcomeInv
<1>7. QED
  BY <1>0, <1>4, <1>5, <1>6, CallStep

LEMMA ReadResultStep == ASSUME Agents, NEW c \in Calls, ReadResult(c) PROVE Agents'
<1>0. /\ call[c] \in CallRecord /\ call \in [Calls -> CallRecord] /\ OutcomeInv(c)
      /\ call[c].at = "reading" /\ caller' = caller
  BY CallKnown DEF ReadResult, At
<1>1. PICK left \in {<<"text", "usage", "finish">>, <<"usage", "finish">>} :
          call' = [call EXCEPT ![c] = [call[c] EXCEPT !.at = "result", !.left = left]]
  BY DEF ReadResult
<1> DEFINE next == [call[c] EXCEPT !.at = "result", !.left = left]
<1>2. left \in Seq(Lines) /\ left # <<"finish">>
  <2>1. "text" \in Lines /\ "usage" \in Lines /\ "finish" \in Lines
    BY DEF Lines
  <2>2. CASE left = <<"text", "usage", "finish">>
    BY <2>1, <2>2, Results
  <2>3. CASE left = <<"usage", "finish">>
    BY <2>1, <2>3, Results
  <2>4. QED
    BY <1>1, <2>2, <2>3
<1>3. call' = [call EXCEPT ![c] = next]
  BY <1>1
<1>4. next \in CallRecord /\ next.at = "result" /\ next.left = left /\ next.sent = call[c].sent
      /\ call'[c] = next /\ next.raised = call[c].raised
  BY <1>0, <1>2, <1>3 DEF CallRecord
<1>5. OutcomeInv(c)'
  BY <1>0, <1>1, <1>2, <1>4 DEF OutcomeInv
<1>6. QED
  BY <1>0, <1>3, <1>4, <1>5, CallStep

LEMMA GiveResultStep == ASSUME Agents, NEW c \in Calls, GiveResult(c) PROVE Agents'
<1> DEFINE left == call[c].left
<1> DEFINE sent == call[c].sent
<1> DEFINE stage == IF Tail(left) = <<>> THEN "ending" ELSE "result"
<1> DEFINE more == Append(sent, Head(left))
<1> DEFINE next == [call[c] EXCEPT !.at = stage, !.left = Tail(left), !.sending = TRUE, !.sent = more]
<1>0. /\ call[c] \in CallRecord /\ call \in [Calls -> CallRecord] /\ OutcomeInv(c)
      /\ sent \in Seq(Lines) /\ call[c].at = "result" /\ caller' = caller
  BY CallKnown DEF GiveResult, At
<1>1. call' = [call EXCEPT ![c] = next]
  BY DEF GiveResult
<1>2. "text" \in Lines /\ "usage" \in Lines /\ "finish" \in Lines /\ "text" \in Pieces
  BY DEF Lines, Pieces
<1>3. /\ left \in {<<"text", "usage", "finish">>, <<"usage", "finish">>, <<"finish">>}
      /\ left = <<"finish">> => Usage(sent)
      /\ left # <<"finish">> => OnlyPieces(sent)
      /\ ~call[c].raised
  BY <1>0 DEF OutcomeInv, Usage
<1>4. CASE left = <<"text", "usage", "finish">>
  <2>1. Tail(left) = <<"usage", "finish">> /\ Head(left) = "text" /\ Tail(left) # <<>>
        /\ left # <<"finish">> /\ Tail(left) # <<"finish">> /\ Tail(left) \in Seq(Lines)
    BY <1>2, <1>4, Results
  <2>2. more \in Seq(Lines) /\ OnlyPieces(more) /\ Shaped(more)
    BY <1>0, <1>2, <1>3, <2>1, SendLine, SendPiece, PiecesShaped
  <2> HIDE DEF more, left
  <2>3. next \in CallRecord /\ next.at = "result" /\ next.left = <<"usage", "finish">>
        /\ next.sent = more /\ call'[c] = next /\ ~next.raised
    BY <1>0, <1>1, <1>3, <2>1, <2>2 DEF CallRecord
  <2> HIDE DEF next
  <2>4. OutcomeInv(c)'
    BY <2>1, <2>2, <2>3 DEF OutcomeInv
  <2>5. QED
    BY <1>0, <1>1, <2>3, <2>4, CallStep
<1>5. CASE left = <<"usage", "finish">>
  <2>1. Tail(left) = <<"finish">> /\ Head(left) = "usage" /\ Tail(left) # <<>>
        /\ left # <<"finish">> /\ Tail(left) \in Seq(Lines)
    BY <1>2, <1>5, Results
  <2>2. more \in Seq(Lines) /\ Usage(more) /\ Shaped(more)
    BY <1>0, <1>2, <1>3, <2>1, SendLine, SendUsage
  <2> HIDE DEF more, left
  <2>3. next \in CallRecord /\ next.at = "result" /\ next.left = <<"finish">>
        /\ next.sent = more /\ call'[c] = next /\ ~next.raised
    BY <1>0, <1>1, <1>3, <2>1, <2>2 DEF CallRecord
  <2> HIDE DEF next
  <2>4. OutcomeInv(c)'
    BY <2>2, <2>3 DEF OutcomeInv, Usage
  <2>5. QED
    BY <1>0, <1>1, <2>3, <2>4, CallStep
<1>6. CASE left = <<"finish">>
  <2>1. Tail(left) = <<>> /\ Head(left) = "finish" /\ Tail(left) \in Seq(Lines)
    BY <1>2, <1>6, Results, EmptySeq
  <2>2. more \in Seq(Lines) /\ Concluded(more) /\ Shaped(more)
    BY <1>0, <1>2, <1>3, <1>6, <2>1, SendLine, SendFinish
  <2> HIDE DEF more, left
  <2>3. next \in CallRecord /\ next.at = "ending" /\ next.sent = more /\ call'[c] = next
        /\ ~next.raised
    BY <1>0, <1>1, <1>3, <2>1, <2>2 DEF CallRecord
  <2> HIDE DEF next
  <2>4. OutcomeInv(c)'
    BY <2>2, <2>3 DEF OutcomeInv, Told, Concluded
  <2>5. QED
    BY <1>0, <1>1, <2>3, <2>4, CallStep
<1>7. QED
  BY <1>3, <1>4, <1>5, <1>6

LEMMA DroppedStep ==
    ASSUME Agents, NEW c \in Calls, Dropped(c)
    PROVE  Agents'
<1> DEFINE next == [call[c] EXCEPT !.sending = FALSE, !.at = "dropped"]
<1>1. /\ call[c] \in CallRecord /\ call \in [Calls -> CallRecord] /\ caller' = caller
      /\ caller[c] = "gone"
  BY CallKnown DEF Dropped
<1>2. call' = [call EXCEPT ![c] = next]
  BY DEF Dropped
<1>3. next \in CallRecord /\ next.at = "dropped" /\ next.sent = call[c].sent /\ next.raised = call[c].raised
  BY <1>1 DEF CallRecord
<1>4. QED
  BY <1>1, <1>2, <1>3, SettledStep

\* The line is on its way; the call is where it was.
LEMMA SentStep == ASSUME Agents, NEW c \in Calls, Sent(c) PROVE Agents'
<1> DEFINE next == [call[c] EXCEPT !.sending = FALSE]
<1>1. /\ call[c] \in CallRecord /\ call \in [Calls -> CallRecord] /\ caller' = caller /\ OutcomeInv(c)
      /\ call' = [call EXCEPT ![c].sending = FALSE]
  BY CallKnown DEF Sent
<1>2. call' = [call EXCEPT ![c] = next] /\ next \in CallRecord /\ next.at = call[c].at
      /\ next.sent = call[c].sent /\ next.left = call[c].left /\ call'[c] = next
      /\ next.raised = call[c].raised
  BY <1>1 DEF CallRecord
<1>3. OutcomeInv(c)'
  BY <1>1, <1>2 DEF OutcomeInv, Told
<1>4. QED
  BY <1>1, <1>2, <1>3, CallStep

LEMMA LeaveStep ==
    ASSUME Agents, NEW c \in Calls, Leave(c) \/ CliExits(c)
    PROVE  Agents'
<1>1. call' = call /\ (caller' = caller \/ caller' = [caller EXCEPT ![c] = "gone"])
  BY DEF Leave, CliExits
<1>2. AgentTypes'
  BY <1>1 DEF Agents, AgentTypes
<1>3. \A d \in Calls : caller'[d] = caller[d] \/ caller'[d] = "gone"
  BY <1>1 DEF Agents, AgentTypes
<1>4. ASSUME NEW d \in Calls PROVE OutcomeInv(d)'
  BY <1>1, <1>3, CallKnown DEF OutcomeInv, Told
<1>5. QED
  BY <1>2, <1>4 DEF Agents, AgentInv

LEMMA AgentServerStep == ASSUME Agents, AgentNext PROVE Agents'
<1>1. PICK c \in Calls :
        \/ Begin(c) \/ BeginClaude(c) \/ AgentStep(c)
        \/ Written(c) \/ ReadPiece(c) \/ ReadResult(c) \/ ReadFailure(c) \/ ReadRaises(c)
        \/ Sent(c) \/ Leave(c) \/ CliExits(c)
  BY DEF AgentNext
<1>2. CASE AgentStep(c)
  BY <1>2, GoStep, CommandStep, RaiseStep, GiveResultStep, DroppedStep DEF AgentStep
<1>3. CASE ~AgentStep(c)
  BY <1>1, <1>3, BeginStep, GoStep, ReadPieceStep, ReadResultStep, CommandStep, RaiseStep, SentStep, LeaveStep
<1>4. QED
  BY <1>2, <1>3

LEMMA AgentStarts == AgentInit => Agents
<1>1. SUFFICES ASSUME AgentInit PROVE Agents
  OBVIOUS
<1>2. <<>> \in Seq(Lines) /\ OnlyPieces(<<>>) /\ Shaped(<<>>)
  BY DEF OnlyPieces, Pieces, Shaped
<1>3. NoCall \in CallRecord /\ NoCall.sent = <<>> /\ NoCall.at = "new" /\ ~NoCall.raised
  BY <1>2 DEF NoCall, CallRecord
<1>4. AgentTypes
  BY <1>1, <1>3 DEF AgentInit, AgentTypes
<1>5. AgentInv
  BY <1>1, <1>2, <1>3 DEF AgentInit, AgentInv, OutcomeInv
<1>6. QED
  BY <1>4, <1>5 DEF Agents

LEMMA AgentIdle == ASSUME Agents, UNCHANGED agentVars PROVE Agents'
  BY DEF Agents, AgentTypes, AgentInv, OutcomeInv, Told, agentVars

LEMMA OutcomeKnown == Agents => OneOutcome
  BY DEF Agents, AgentInv, OutcomeInv, Shaped, OneOutcome, Waits

--------------------------------------------------------------------------------
(* Events in line                                                             *)

LEMMA Appended ==
    ASSUME NEW s \in Seq(Nat), NEW x \in Nat
    PROVE  /\ Append(s, x) \in Seq(Nat) /\ Len(s) \in Nat
           /\ DOMAIN s = 1..Len(s) /\ DOMAIN Append(s, x) = 1..Len(s) + 1
           /\ \A n \in 1..Len(s) : Append(s, x)[n] = s[n]
           /\ Append(s, x)[Len(s) + 1] = x
           /\ Range(Append(s, x)) = Range(s) \cup {x}
<1> DEFINE t == Append(s, x)
<1>1. /\ t \in Seq(Nat) /\ Len(s) \in Nat
      /\ DOMAIN s = 1..Len(s) /\ DOMAIN t = 1..Len(s) + 1
      /\ \A n \in 1..Len(s) : t[n] = s[n]
      /\ t[Len(s) + 1] = x
  BY AppendProperties, LenProperties
<1> HIDE DEF t
<1>2. Range(t) = Range(s) \cup {x}
  <2>1. ASSUME NEW n \in 1..Len(s) PROVE s[n] \in Range(t)
    <3>1. n \in DOMAIN t /\ t[n] = s[n]
      BY <1>1
    <3>2. QED
      BY <3>1 DEF Range
  <2>2. x \in Range(t)
    <3>1. Len(s) + 1 \in DOMAIN t
      BY <1>1
    <3>2. QED
      BY <1>1, <3>1 DEF Range
  <2>3. ASSUME NEW n \in DOMAIN t PROVE t[n] \in Range(s) \cup {x}
    <3>1. CASE n = Len(s) + 1
      BY <1>1, <3>1
    <3>2. CASE n # Len(s) + 1
      <4>1. n \in DOMAIN s /\ t[n] = s[n]
        BY <1>1, <3>2
      <4>2. QED
        BY <4>1 DEF Range
    <3>3. QED
      BY <3>1, <3>2
  <2>4. QED
    BY <1>1, <2>1, <2>2, <2>3 DEF Range
<1>3. QED
  BY <1>1, <1>2 DEF t

LEMMA HeadAndTail ==
    ASSUME NEW s \in Seq(Nat), s # <<>>
    PROVE  /\ Head(s) \in Nat /\ Tail(s) \in Seq(Nat) /\ Len(s) \in Nat \ {0}
           /\ DOMAIN s = 1..Len(s) /\ DOMAIN Tail(s) = 1..Len(s) - 1 /\ Head(s) = s[1]
           /\ \A n \in 1..Len(s) - 1 : Tail(s)[n] = s[n + 1]
           /\ Range(s) = {Head(s)} \cup Range(Tail(s))
<1> DEFINE t == Tail(s)
<1>1. /\ Head(s) \in Nat /\ t \in Seq(Nat) /\ Len(s) \in Nat \ {0}
      /\ DOMAIN s = 1..Len(s) /\ DOMAIN t = 1..Len(s) - 1 /\ Head(s) = s[1]
      /\ \A n \in 1..Len(s) - 1 : t[n] = s[n + 1]
  BY HeadTailProperties, LenProperties, EmptySeq
<1> HIDE DEF t
<1>2. Range(s) = {Head(s)} \cup Range(t)
  <2>1. ASSUME NEW n \in 1..Len(s) PROVE s[n] \in {Head(s)} \cup Range(t)
    <3>1. CASE n = 1
      BY <1>1, <3>1
    <3>2. CASE n > 1
      <4>1. n - 1 \in DOMAIN t /\ t[n - 1] = s[n]
        BY <1>1, <3>2
      <4>2. QED
        BY <4>1 DEF Range
    <3>3. QED
      BY <1>1, <3>1, <3>2
  <2>2. ASSUME NEW n \in DOMAIN t PROVE t[n] \in Range(s)
    <3>0. n \in 1..Len(s) - 1 /\ Len(s) \in Nat
      BY <1>1
    <3>1. n + 1 \in 1..Len(s)
      BY <3>0
    <3>2. n + 1 \in DOMAIN s /\ t[n] = s[n + 1]
      BY <1>1, <3>0, <3>1
    <3>3. QED
      BY <3>2 DEF Range
  <2>3. Head(s) \in Range(s)
    <3>1. 1 \in DOMAIN s /\ Head(s) = s[1]
      BY <1>1
    <3>2. QED
      BY <3>1 DEF Range
  <2>4. QED
    BY <1>1, <2>1, <2>2, <2>3 DEF Range
<1>3. QED
  BY <1>1, <1>2 DEF t

LEMMA OrderedAppended ==
    ASSUME NEW r, NEW s \in Seq(Nat), NEW x \in Nat, Ordered(r, s), InLine(r, Range(s), {x})
    PROVE  Ordered(r, Append(s, x))
<1> DEFINE t == Append(s, x)
<1>1. /\ Len(s) \in Nat /\ DOMAIN s = 1..Len(s) /\ DOMAIN t = 1..Len(s) + 1
      /\ \A n \in 1..Len(s) : t[n] = s[n]
      /\ t[Len(s) + 1] = x
  BY Appended
<1> HIDE DEF t
<1>2. ASSUME NEW m \in DOMAIN t, NEW n \in DOMAIN t, m < n PROVE Precedes(r, t[m], t[n])
  <2>1. m \in 1..Len(s) /\ t[m] = s[m]
    BY <1>1, <1>2
  <2>2. CASE n = Len(s) + 1
    <3>1. s[m] \in Range(s) /\ t[n] = x
      BY <1>1, <2>1, <2>2 DEF Range
    <3>2. QED
      BY <2>1, <3>1 DEF InLine
  <2>3. CASE n # Len(s) + 1
    <3>1. n \in 1..Len(s) /\ t[n] = s[n]
      BY <1>1, <2>3
    <3>2. QED
      BY <1>1, <1>2, <2>1, <3>1 DEF Ordered
  <2>4. QED
    BY <2>2, <2>3
<1>3. QED
  BY <1>2 DEF Ordered, t

LEMMA OrderedTail ==
    ASSUME NEW r, NEW s \in Seq(Nat), s # <<>>, Ordered(r, s)
    PROVE  Ordered(r, Tail(s)) /\ InLine(r, {Head(s)}, Range(Tail(s)))
<1> DEFINE t == Tail(s)
<1>1. /\ Len(s) \in Nat \ {0} /\ DOMAIN s = 1..Len(s) /\ DOMAIN t = 1..Len(s) - 1
      /\ Head(s) = s[1] /\ \A n \in 1..Len(s) - 1 : t[n] = s[n + 1]
  BY HeadAndTail
<1> HIDE DEF t
<1>2. ASSUME NEW m \in DOMAIN t, NEW n \in DOMAIN t, m < n PROVE Precedes(r, t[m], t[n])
  <2>1. m + 1 \in DOMAIN s /\ n + 1 \in DOMAIN s /\ m + 1 < n + 1
    BY <1>1, <1>2
  <2>2. QED
    BY <1>1, <2>1 DEF Ordered
<1>3. ASSUME NEW n \in DOMAIN t PROVE Precedes(r, Head(s), t[n])
  <2>1. n + 1 \in DOMAIN s /\ 1 \in DOMAIN s /\ 1 < n + 1
    BY <1>1
  <2>2. QED
    BY <1>1, <2>1 DEF Ordered
<1>4. InLine(r, {Head(s)}, Range(t))
  BY <1>3 DEF InLine, Range
<1>5. QED
  BY <1>2, <1>4 DEF Ordered, t

\* What comes later may become less, or more.
LEMMA RestLess ==
    ASSUME NEW r, NEW s, NEW h, NEW q, NEW R, NEW L, Lined(r, s, h, q, R), L \subseteq R
    PROVE  Lined(r, s, h, q, L)
  BY DEF Lined, InLine

LEMMA RestMore ==
    ASSUME NEW r, NEW s, NEW h, NEW q, NEW R, NEW x, Lined(r, s, h, q, R),
           InLine(r, Range(s) \cup h \cup Range(q), {x})
    PROVE  Lined(r, s, h, q, R \cup {x})
  BY DEF Lined, InLine

\* The next event is queued, taken from the queue, sent.
LEMMA Queued ==
    ASSUME NEW r, NEW s, NEW h, NEW q \in Seq(Nat), NEW R, NEW x \in R, x \in Nat, NEW L,
           Lined(r, s, h, q, R), L \subseteq R, InLine(r, {x}, L)
    PROVE  Lined(r, s, h, Append(q, x), L)
<1>1. Ordered(r, Append(q, x))
  BY OrderedAppended DEF Lined, InLine
<1>2. Range(Append(q, x)) = Range(q) \cup {x}
  BY Appended
<1>3. QED
  BY <1>1, <1>2 DEF Lined, InLine

LEMMA TakenFromQueue ==
    ASSUME NEW r, NEW s, NEW q \in Seq(Nat), q # <<>>, NEW R, Lined(r, s, {}, q, R)
    PROVE  Lined(r, s, {Head(q)}, Tail(q), R)
<1>1. Ordered(r, Tail(q)) /\ InLine(r, {Head(q)}, Range(Tail(q)))
  BY OrderedTail DEF Lined
<1>2. Range(q) = {Head(q)} \cup Range(Tail(q))
  BY HeadAndTail
<1>3. QED
  BY <1>1, <1>2 DEF Lined, InLine

LEMMA Passed ==
    ASSUME NEW r, NEW s \in Seq(Nat), NEW x \in Nat, NEW q, NEW R, Lined(r, s, {x}, q, R)
    PROVE  Lined(r, Append(s, x), {}, q, R)
<1>1. Ordered(r, Append(s, x))
  BY OrderedAppended DEF Lined, InLine
<1>2. Range(Append(s, x)) = Range(s) \cup {x}
  BY Appended
<1>3. QED
  BY <1>1, <1>2 DEF Lined, InLine

LEMMA Emptied ==
    ASSUME NEW r, NEW s, NEW h, NEW q, NEW R, Lined(r, s, h, q, R)
    PROVE  Lined(r, s, {}, <<>>, R)
<1>1. Range(<<>>) = {} /\ Ordered(r, <<>>)
  BY DEF Range, Ordered
<1>2. QED
  BY <1>1 DEF Lined, InLine

--------------------------------------------------------------------------------
(* The live feed                                                              *)

SocketRecord == [at : {"none", "accepted", "waiting", "got", "sending", "closed"},
                 queue : Seq(Nat), holds : Nat, sent : Seq(Nat)]

FeedTypes ==
    /\ relayed \in BOOLEAN /\ broken \in BOOLEAN /\ published \in Nat
    /\ session \in [Logins -> [is : {"none", "valid", "ended"}, until : Nat]]
    /\ pending \subseteq Buses \X Nat
    /\ listener \in [Buses -> {"off", "connecting", "on"}]
    /\ channel \in [Buses -> Seq(Nat)]
    /\ socket \in [Sockets -> SocketRecord]

Feeds == FeedTypes /\ FeedInv

\* What is known of a connection between its steps.
LEMMA SocketKnown ==
    ASSUME Feeds, NEW k \in Sockets
    PROVE  /\ socket[k] \in SocketRecord /\ socket \in [Sockets -> SocketRecord]
           /\ socket[k].queue \in Seq(Nat) /\ socket[k].sent \in Seq(Nat) /\ socket[k].holds \in Nat
           /\ Serves[k] \in Buses /\ Open[k] \in Logins /\ session[Open[k]].until \in Nat
           /\ session[Open[k]].is \in {"none", "valid", "ended"}
           /\ published \in Nat /\ relayed \in BOOLEAN
           /\ Range(socket[k].sent) \cup Held(socket[k].holds) \cup Range(socket[k].queue) \subseteq 1..published
           /\ SilenceInv(k) /\ QuietInv(k) /\ (~broken => LineInv(k))
           /\ Coming(Serves[k]) \subseteq 1..published
  BY FeedBounds DEF Feeds, FeedTypes, SocketRecord, FeedInv, PublishedInv

\* A step of one connection.
LEMMA SocketStep ==
    ASSUME Feeds, NEW k \in Sockets, NEW next \in SocketRecord,
           socket' = [socket EXCEPT ![k] = next],
           UNCHANGED <<relayed, session, published, pending, channel, broken>>,
           listener' \in [Buses -> {"off", "connecting", "on"}], ~relayed => listener' = listener,
           Range(next.sent) \cup Held(next.holds) \cup Range(next.queue) \subseteq 1..published,
           (SilenceInv(k) /\ QuietInv(k))',
           ~broken => Lined(relayed, next.sent, Held(next.holds), next.queue, Coming(Serves[k]))
    PROVE  Feeds'
<1>1. socket'[k] = next /\ \A i \in Sockets : i # k => socket'[i] = socket[i]
  BY SocketKnown
<1>2. FeedTypes'
  BY DEF Feeds, FeedTypes
<1>3. \A b : Coming(b)' = Coming(b)
  BY DEF Coming, Awaited
<1>4. RelayInv'
  BY DEF Feeds, FeedInv, RelayInv
<1>5. PublishedInv'
  <2>1. ASSUME NEW i \in Sockets
        PROVE  Range(socket'[i].sent) \cup Held(socket'[i].holds) \cup Range(socket'[i].queue)
                   \subseteq 1..published'
    BY <1>1 DEF Feeds, FeedInv, PublishedInv
  <2>2. \A b \in Buses : Coming(b)' \subseteq 1..published'
    BY <1>3 DEF Feeds, FeedInv, PublishedInv
  <2>3. QED
    BY <2>1, <2>2 DEF PublishedInv
<1>6. ASSUME NEW i \in Sockets
      PROVE  SilenceInv(i)' /\ QuietInv(i)' /\ (~broken' => LineInv(i)')
  <2>1. CASE i = k
    BY <1>1, <1>3, <2>1 DEF LineInv
  <2>2. CASE i # k
    <3>1. SilenceInv(i) /\ QuietInv(i) /\ (~broken => LineInv(i)) /\ socket'[i] = socket[i]
      BY <1>1, <2>2 DEF Feeds, FeedInv
    <3>2. QED
      BY <1>3, <3>1 DEF SilenceInv, QuietInv, LineInv
  <2>3. QED
    BY <2>1, <2>2
<1>7. ~broken' => \A b \in Buses : ChannelInv(b)'
  BY DEF Feeds, FeedInv, ChannelInv, Awaited
<1>8. QED
  BY <1>2, <1>4, <1>5, <1>6, <1>7 DEF Feeds, FeedInv

\* The bus hands an event to the connections of a worker.
LEMMA DispatchSet ==
    ASSUME Feeds, NEW b \in Buses, NEW e \in Nat, Dispatch(b, e), NEW k \in Sockets
    PROVE  /\ socket' \in [Sockets -> SocketRecord]
           /\ socket'[k].at = socket[k].at /\ socket'[k].sent = socket[k].sent
           /\ socket'[k].holds = socket[k].holds
           /\ \/ socket'[k].queue = socket[k].queue
              \/ /\ Serves[k] = b /\ socket'[k].queue = Append(socket[k].queue, e)
                 /\ socket[k].at \notin {"none", "accepted", "closed"}
<1>1. ASSUME NEW i \in Sockets
      PROVE  /\ socket'[i] \in SocketRecord
             /\ socket'[i].at = socket[i].at /\ socket'[i].sent = socket[i].sent
             /\ socket'[i].holds = socket[i].holds
             /\ \/ socket'[i].queue = socket[i].queue
                \/ /\ Serves[i] = b /\ socket'[i].queue = Append(socket[i].queue, e)
                   /\ socket[i].at \notin {"none", "accepted", "closed"}
  <2>1. socket[i] \in SocketRecord /\ socket[i].queue \in Seq(Nat)
    BY SocketKnown
  <2>2. CASE i \in Subscribed(b) /\ Len(socket[i].queue) < QueueSize
    <3>1. socket'[i] = [socket[i] EXCEPT !.queue = Append(socket[i].queue, e)]
      BY <2>2 DEF Dispatch
    <3>2. Append(socket[i].queue, e) \in Seq(Nat)
      BY <2>1, Appended
    <3>3. Serves[i] = b /\ socket[i].at \notin {"none", "accepted", "closed"}
      BY <2>2 DEF Subscribed
    <3>4. QED
      BY <2>1, <3>1, <3>2, <3>3 DEF SocketRecord
  <2>3. CASE ~(i \in Subscribed(b) /\ Len(socket[i].queue) < QueueSize)
    BY <2>1, <2>3 DEF Dispatch
  <2>4. QED
    BY <2>2, <2>3
<1>2. socket' \in [Sockets -> SocketRecord]
  <2>1. DOMAIN socket' = Sockets /\ socket' = [i \in Sockets |-> socket'[i]]
    BY DEF Dispatch
  <2>2. QED
    BY <1>1, <2>1
<1>3. QED
  BY <1>1, <1>2

\* Where an event was not shown before, silence and quiet are kept.
LEMMA SilenceKept ==
    ASSUME Feeds, NEW k \in Sockets, session'[Open[k]] = session[Open[k]],
           socket'[k].at = socket[k].at, socket'[k].sent = socket[k].sent,
           socket'[k].holds = socket[k].holds,
           \/ socket'[k].queue = socket[k].queue
           \/ socket[k].at \notin {"none", "accepted", "closed"}
    PROVE  SilenceInv(k)' /\ QuietInv(k)'
  BY SocketKnown DEF SilenceInv, QuietInv

\* Whoever is shown an event that was published keeps what else is said of it.
LEMMA DispatchKeeps ==
    ASSUME Feeds, NEW b \in Buses, NEW e \in 1..published', Dispatch(b, e),
           published' \in {published, published + 1}, UNCHANGED session
    PROVE  /\ socket' \in [Sockets -> SocketRecord]
           /\ \A k \in Sockets :
                 /\ SilenceInv(k)' /\ QuietInv(k)'
                 /\ Range(socket'[k].sent) \cup Held(socket'[k].holds) \cup Range(socket'[k].queue)
                        \subseteq 1..published'
<1>1. published \in Nat /\ published' \in Nat /\ e \in Nat /\ 1..published \subseteq 1..published'
  BY DEF Feeds, FeedTypes
<1>2. ASSUME NEW k \in Sockets
      PROVE  /\ socket' \in [Sockets -> SocketRecord]
             /\ SilenceInv(k)' /\ QuietInv(k)'
             /\ Range(socket'[k].sent) \cup Held(socket'[k].holds) \cup Range(socket'[k].queue)
                    \subseteq 1..published'
  <2>1. /\ socket' \in [Sockets -> SocketRecord]
        /\ socket'[k].at = socket[k].at /\ socket'[k].sent = socket[k].sent
        /\ socket'[k].holds = socket[k].holds
        /\ \/ socket'[k].queue = socket[k].queue
           \/ /\ Serves[k] = b /\ socket'[k].queue = Append(socket[k].queue, e)
              /\ socket[k].at \notin {"none", "accepted", "closed"}
    BY <1>1, DispatchSet
  <2>2. SilenceInv(k)' /\ QuietInv(k)'
    BY <2>1, SilenceKept
  <2>3. Range(socket'[k].queue) \subseteq Range(socket[k].queue) \cup {e}
    <3>1. socket[k].queue \in Seq(Nat)
      BY SocketKnown
    <3>2. Range(Append(socket[k].queue, e)) = Range(socket[k].queue) \cup {e}
      BY <1>1, <3>1, Appended
    <3>3. QED
      BY <2>1, <3>2
  <2>4. Range(socket[k].sent) \cup Held(socket[k].holds) \cup Range(socket[k].queue) \subseteq 1..published
    BY SocketKnown
  <2>5. QED
    BY <1>1, <2>1, <2>2, <2>3, <2>4
<1>3. socket' \in [Sockets -> SocketRecord]
  <2>1. CASE Sockets = {}
    BY <2>1 DEF Dispatch
  <2>2. CASE Sockets # {}
    BY <1>2, <2>2
  <2>3. QED
    BY <2>1, <2>2
<1>4. QED
  BY <1>2, <1>3

\* Its line moves on by the event, if it is one of the worker's connections.
LEMMA DispatchLine ==
    ASSUME Feeds, NEW b \in Buses, NEW e \in Nat, Dispatch(b, e), NEW k \in Sockets,
           NEW R, NEW L, L \subseteq R,
           Lined(relayed, socket[k].sent, Held(socket[k].holds), socket[k].queue, R),
           Serves[k] = b => e \in R /\ InLine(relayed, {e}, L)
    PROVE  Lined(relayed, socket'[k].sent, Held(socket'[k].holds), socket'[k].queue, L)
<1>1. /\ socket'[k].sent = socket[k].sent /\ socket'[k].holds = socket[k].holds
      /\ \/ socket'[k].queue = socket[k].queue
         \/ Serves[k] = b /\ socket'[k].queue = Append(socket[k].queue, e)
  BY DispatchSet
<1>2. CASE socket'[k].queue = socket[k].queue
  BY <1>1, <1>2, RestLess
<1>3. CASE Serves[k] = b /\ socket'[k].queue = Append(socket[k].queue, e)
  <2>1. socket[k].queue \in Seq(Nat)
    BY SocketKnown
  <2>2. Lined(relayed, socket[k].sent, Held(socket[k].holds), Append(socket[k].queue, e), L)
    BY <1>3, <2>1, Queued
  <2>3. QED
    BY <1>1, <1>3, <2>2
<1>4. QED
  BY <1>1, <1>2, <1>3

\* What was not published yet comes after all that was.
LEMMA NewIsLast ==
    ASSUME NEW r, NEW n \in Nat, NEW first, first \subseteq 1..n
    PROVE  InLine(r, first, {n + 1})
  BY DEF InLine, Precedes

LEMMA ListenerKept ==
    ASSUME Feeds, NEW b \in Buses, EnsureListener(b)
    PROVE  /\ listener' \in [Buses -> {"off", "connecting", "on"}]
           /\ ~relayed => listener' = listener
<1>1. listener \in [Buses -> {"off", "connecting", "on"}]
  BY DEF Feeds, FeedTypes
<1>2. listener' = [listener EXCEPT ![b] =
                      IF relayed /\ listener[b] = "off" THEN "connecting" ELSE listener[b]]
  BY <1>1 DEF EnsureListener
<1>3. QED
  BY <1>1, <1>2

LEMMA SessionStep ==
    ASSUME Feeds, NEW s \in Logins, LogIn(s) \/ EndSession(s)
    PROVE  Feeds'
<1>1. UNCHANGED <<relayed, published, pending, listener, channel, broken, socket>>
  BY DEF LogIn, EndSession
<1>2. published \in Nat /\ session[s] \in [is : {"none", "valid", "ended"}, until : Nat]
      /\ session \in [Logins -> [is : {"none", "valid", "ended"}, until : Nat]]
  BY DEF Feeds, FeedTypes
<1>3. \/ session' = [session EXCEPT ![s] = [session[s] EXCEPT !.is = "valid"]]
      \/ session' = [session EXCEPT ![s] = [is |-> "ended", until |-> published]]
  BY <1>2 DEF LogIn, EndSession
<1>4. session' \in [Logins -> [is : {"none", "valid", "ended"}, until : Nat]]
  BY <1>2, <1>3
<1>5. FeedTypes'
  BY <1>1, <1>4 DEF Feeds, FeedTypes
<1>6. RelayInv' /\ PublishedInv' /\ \A b : Coming(b)' = Coming(b)
  BY <1>1 DEF Feeds, FeedInv, RelayInv, PublishedInv, Coming, Awaited
<1>7. ~broken' => \A b \in Buses : ChannelInv(b)'
  BY <1>1 DEF Feeds, FeedInv, ChannelInv, Awaited
<1>8. ASSUME NEW k \in Sockets
      PROVE  SilenceInv(k)' /\ QuietInv(k)' /\ (~broken' => LineInv(k)')
  <2>1. /\ SilenceInv(k) /\ QuietInv(k) /\ (~broken => LineInv(k)) /\ socket[k].holds \in Nat
        /\ Range(socket[k].sent) \cup Held(socket[k].holds) \cup Range(socket[k].queue) \subseteq 1..published
        /\ Open[k] \in Logins
    BY SocketKnown
  <2>2. QuietInv(k)' /\ (~broken' => LineInv(k)')
    BY <1>1, <1>6, <2>1 DEF QuietInv, LineInv
  <2>3. SilenceInv(k)'
    <3>1. CASE session'[Open[k]] = [is |-> "ended", until |-> published]
      <4>1. \A e \in Range(socket[k].sent) : e <= published
        BY <2>1
      <4>2. socket[k].holds <= published
        BY <1>2, <2>1 DEF Held
      <4>3. QED
        BY <1>1, <3>1, <4>1, <4>2 DEF SilenceInv
    <3>2. CASE session'[Open[k]] = session[Open[k]]
      BY <1>1, <2>1, <3>2 DEF SilenceInv
    <3>3. CASE session'[Open[k]].is = "valid"
      BY <3>3 DEF SilenceInv
    <3>4. QED
      BY <1>2, <1>3, <2>1, <3>1, <3>2, <3>3
  <2>4. QED
    BY <2>2, <2>3
<1>9. QED
  BY <1>5, <1>6, <1>7, <1>8 DEF Feeds, FeedInv

LEMMA PublishStep ==
    ASSUME Feeds, NEW b \in Buses, Publish(b)
    PROVE  Feeds'
<1> DEFINE e == published + 1
<1>1. /\ published \in Nat /\ published' = e /\ e \in Nat /\ e \in 1..published'
      /\ 1..published \subseteq 1..published' /\ relayed \in BOOLEAN
      /\ UNCHANGED <<relayed, session, channel, broken>> /\ pending \subseteq Buses \X Nat
  BY DEF Publish, Feeds, FeedTypes
<1>2. /\ listener' \in [Buses -> {"off", "connecting", "on"}]
      /\ ~relayed => listener' = listener
  BY ListenerKept DEF Publish
<1> HIDE DEF e
<1>3. CASE relayed
  <2>1. pending' = pending \cup {<<b, e>>} /\ UNCHANGED socket
    BY <1>1, <1>3 DEF Publish
  <2>2. FeedTypes'
    BY <1>1, <1>2, <2>1 DEF Feeds, FeedTypes
  <2>3. Awaited' = Awaited \cup {e}
    <3>1. ASSUME NEW q \in pending' PROVE q[2] \in Awaited \cup {e}
      BY <2>1 DEF Awaited
    <3>2. Awaited \subseteq Awaited'
      BY <2>1 DEF Awaited
    <3>3. e \in Awaited'
      <4>1. <<b, e>> \in pending' /\ <<b, e>>[2] = e
        BY <2>1
      <4>2. QED
        BY <4>1 DEF Awaited
    <3>4. QED
      BY <3>1, <3>2, <3>3 DEF Awaited
  <2>4. \A c : Coming(c)' = Coming(c) \cup {e}
    BY <1>1, <2>3 DEF Coming
  <2>5. PublishedInv'
    BY <1>1, <2>1, <2>4 DEF Feeds, FeedInv, PublishedInv
  <2>6. RelayInv'
    <3>1. ASSUME NEW q \in pending', NEW r \in pending', q[2] = r[2] PROVE q = r
      <4>1. \A p \in pending : p[2] \in Awaited
        BY DEF Awaited
      <4>2. Awaited \subseteq 1..published
        BY DEF Feeds, FeedInv, PublishedInv, Coming
      <4>3. e \notin Awaited
        BY <1>1, <4>2 DEF e
      <4>4. <<b, e>>[2] = e
        OBVIOUS
      <4>5. CASE q \in pending /\ r \in pending
        BY <3>1, <4>5 DEF Feeds, FeedInv, RelayInv
      <4>6. CASE q = <<b, e>> /\ r = <<b, e>>
        BY <4>6
      <4>7. ~(q \in pending /\ r = <<b, e>>) /\ ~(r \in pending /\ q = <<b, e>>)
        BY <3>1, <4>1, <4>3, <4>4
      <4>8. QED
        BY <2>1, <4>5, <4>6, <4>7
    <3>2. QED
      BY <1>1, <1>3, <3>1 DEF RelayInv
  <2>7. ASSUME NEW k \in Sockets
        PROVE  SilenceInv(k)' /\ QuietInv(k)' /\ (~broken' => LineInv(k)')
    <3>1. SilenceInv(k)' /\ QuietInv(k)'
      BY <1>1, <2>1, SocketKnown DEF SilenceInv, QuietInv
    <3>2. ASSUME ~broken' PROVE LineInv(k)'
      <4>1. LineInv(k) /\ Range(socket[k].sent) \cup Held(socket[k].holds) \cup Range(socket[k].queue)
                \subseteq 1..published
        BY <1>1, <3>2, SocketKnown
      <4>2. InLine(relayed, Range(socket[k].sent) \cup Held(socket[k].holds) \cup Range(socket[k].queue), {e})
        BY <1>1, <4>1, NewIsLast DEF e
      <4>3. Lined(relayed, socket[k].sent, Held(socket[k].holds), socket[k].queue, Coming(Serves[k]) \cup {e})
        BY <4>1, <4>2, RestMore DEF LineInv
      <4>4. QED
        BY <1>1, <2>1, <2>4, <4>3 DEF LineInv
    <3>3. QED
      BY <3>1, <3>2
  <2>8. ASSUME ~broken', NEW c \in Buses PROVE ChannelInv(c)'
    <3>1. ChannelInv(c) /\ Range(channel[c]) \subseteq 1..published
      BY <1>1, <2>8 DEF Feeds, FeedInv, PublishedInv, Coming
    <3>2. InLine(relayed, Range(channel[c]), {e})
      BY <1>1, <3>1, NewIsLast DEF e
    <3>3. QED
      BY <1>1, <2>3, <3>1, <3>2 DEF ChannelInv, InLine
  <2>9. QED
    BY <2>2, <2>5, <2>6, <2>7, <2>8 DEF Feeds, FeedInv
<1>4. CASE ~relayed
  <2>1. Dispatch(b, e) /\ UNCHANGED pending /\ listener' = listener
    BY <1>1, <1>2, <1>4 DEF Publish
  <2>2. /\ socket' \in [Sockets -> SocketRecord]
        /\ \A k \in Sockets :
              /\ SilenceInv(k)' /\ QuietInv(k)'
              /\ Range(socket'[k].sent) \cup Held(socket'[k].holds) \cup Range(socket'[k].queue)
                     \subseteq 1..published'
    BY <1>1, <2>1, DispatchKeeps DEF e
  <2>3. FeedTypes' /\ RelayInv'
    BY <1>1, <1>2, <2>1, <2>2 DEF Feeds, FeedTypes, FeedInv, RelayInv
  <2>4. \A c \in Buses : Coming(c)' = {} /\ Coming(c) = {} /\ ChannelInv(c)'
    BY <1>1, <1>4, <2>1 DEF Feeds, FeedInv, RelayInv, Coming, Awaited, Range, ChannelInv, Ordered, InLine
  <2>5. PublishedInv'
    BY <2>2, <2>4 DEF PublishedInv
  <2>6. ASSUME NEW k \in Sockets PROVE ~broken' => LineInv(k)'
    <3>1. /\ ~broken => LineInv(k)
          /\ Range(socket[k].sent) \cup Held(socket[k].holds) \cup Range(socket[k].queue) \subseteq 1..published
          /\ Serves[k] \in Buses
      BY SocketKnown
    <3>2. InLine(relayed, Range(socket[k].sent) \cup Held(socket[k].holds) \cup Range(socket[k].queue), {e})
      BY <1>1, <3>1, NewIsLast DEF e
    <3>3. ASSUME ~broken'
          PROVE  Lined(relayed, socket'[k].sent, Held(socket'[k].holds), socket'[k].queue, {})
      <4>1. Lined(relayed, socket[k].sent, Held(socket[k].holds), socket[k].queue, {})
        BY <1>1, <2>4, <3>1, <3>3 DEF LineInv
      <4>2. Lined(relayed, socket[k].sent, Held(socket[k].holds), socket[k].queue, {} \cup {e})
        BY <3>2, <4>1, RestMore
      <4>3. InLine(relayed, {e}, {}) /\ e \in {} \cup {e} /\ {} \subseteq {} \cup {e}
        BY DEF InLine
      <4>4. QED
        BY <1>1, <2>1, <4>2, <4>3, DispatchLine
    <3>4. QED
      BY <1>1, <2>4, <3>1, <3>3 DEF LineInv
  <2>7. QED
    BY <2>2, <2>3, <2>4, <2>5, <2>6 DEF Feeds, FeedInv
<1>5. QED
  BY <1>3, <1>4

\* What happens to the channels when an event is relayed.
LEMMA RelaySet ==
    ASSUME Feeds, NEW e \in Nat, Relay(e), NEW c \in Buses
    PROVE  /\ channel' \in [Buses -> Seq(Nat)]
           /\ \/ channel'[c] = channel[c]
              \/ channel'[c] = Append(channel[c], e) /\ Range(channel'[c]) = Range(channel[c]) \cup {e}
<1>1. \A d \in Buses : channel[d] \in Seq(Nat) /\ Append(channel[d], e) \in Seq(Nat)
  BY AppendProperties DEF Feeds, FeedTypes
<1>2. channel' \in [Buses -> Seq(Nat)]
  BY <1>1 DEF Relay
<1>3. channel[c] \in Seq(Nat) /\ Range(Append(channel[c], e)) = Range(channel[c]) \cup {e}
  BY <1>1, Appended
<1>4. QED
  BY <1>2, <1>3 DEF Relay

\* An event that a task has published awaits no more.
LEMMA TaskDone ==
    ASSUME Feeds, NEW b \in Buses, NEW e \in Nat, <<b, e>> \in pending,
           pending' = pending \ {<<b, e>>}
    PROVE  /\ Awaited' = Awaited \ {e} /\ e \in Awaited /\ relayed
           /\ \A q, r \in pending' : q[2] = r[2] => q = r
           /\ pending' \subseteq Buses \X Nat
<1>1. /\ \A q, r \in pending : q[2] = r[2] => q = r
      /\ pending \subseteq Buses \X Nat /\ relayed
  BY DEF Feeds, FeedTypes, FeedInv, RelayInv
<1>2. <<b, e>>[2] = e
  OBVIOUS
<1>3. e \in Awaited
  BY <1>2 DEF Awaited
<1>4. ASSUME NEW q \in pending' PROVE q[2] \in Awaited \ {e}
  <2>1. q \in pending /\ q # <<b, e>>
    OBVIOUS
  <2>2. q[2] # e
    BY <1>1, <1>2, <2>1
  <2>3. QED
    BY <2>1, <2>2 DEF Awaited
<1>5. ASSUME NEW q \in pending, q[2] # e PROVE q[2] \in Awaited'
  <2>1. q \in pending'
    BY <1>2, <1>5
  <2>2. QED
    BY <2>1 DEF Awaited
<1>6. Awaited' = Awaited \ {e}
  BY <1>4, <1>5 DEF Awaited
<1>7. QED
  BY <1>1, <1>3, <1>6

LEMMA PublishRemoteStep ==
    ASSUME Feeds, NEW b \in Buses, NEW e \in Nat, PublishRemote(b, e)
    PROVE  Feeds'
<1>1. /\ <<b, e>> \in pending /\ pending' = pending \ {<<b, e>>} /\ Relay(e)
      /\ UNCHANGED <<relayed, session, published, listener, broken, socket>>
  BY DEF PublishRemote
<1>2. /\ Awaited' = Awaited \ {e} /\ e \in Awaited /\ relayed
      /\ \A q, r \in pending' : q[2] = r[2] => q = r
      /\ pending' \subseteq Buses \X Nat
  BY <1>1, TaskDone
<1>3. channel' = [c \in Buses |-> channel'[c]] /\ \A c \in Buses : channel'[c] \in Seq(Nat)
  BY <1>1, RelaySet DEF Relay
<1>4. FeedTypes' /\ RelayInv'
  BY <1>1, <1>2, <1>3 DEF Feeds, FeedTypes, RelayInv
<1>5. \A c \in Buses : Coming(c)' \subseteq Coming(c)
  <2>1. ASSUME NEW c \in Buses PROVE Range(channel'[c]) \subseteq Range(channel[c]) \cup {e}
    BY <1>1, <2>1, RelaySet
  <2>2. QED
    BY <1>2, <2>1 DEF Coming
<1>6. PublishedInv'
  BY <1>1, <1>5 DEF Feeds, FeedInv, PublishedInv
<1>7. ASSUME NEW k \in Sockets
      PROVE  SilenceInv(k)' /\ QuietInv(k)' /\ (~broken' => LineInv(k)')
  <2>1. SilenceInv(k) /\ QuietInv(k) /\ (~broken => LineInv(k)) /\ Serves[k] \in Buses
    BY SocketKnown
  <2>2. SilenceInv(k)' /\ QuietInv(k)'
    BY <1>1, <2>1 DEF SilenceInv, QuietInv
  <2>3. ~broken' => LineInv(k)'
    BY <1>1, <1>5, <2>1, RestLess DEF LineInv
  <2>4. QED
    BY <2>2, <2>3
<1>8. ASSUME ~broken', NEW c \in Buses PROVE ChannelInv(c)'
  <2>1. ChannelInv(c) /\ channel[c] \in Seq(Nat)
    BY <1>1, <1>8 DEF Feeds, FeedTypes, FeedInv
  <2>2. CASE channel'[c] = channel[c]
    BY <1>1, <1>2, <2>1, <2>2 DEF ChannelInv, InLine
  <2>3. CASE channel'[c] = Append(channel[c], e) /\ Range(channel'[c]) = Range(channel[c]) \cup {e}
    <3>1. Ordered(relayed, channel'[c])
      <4>1. InLine(relayed, Range(channel[c]), {e}) /\ Ordered(relayed, channel[c])
        BY <1>2, <2>1 DEF ChannelInv, InLine
      <4>2. QED
        BY <2>1, <2>3, <4>1, OrderedAppended
    <3>2. InLine(relayed, Range(channel'[c]), Awaited')
      BY <1>2, <2>1, <2>3 DEF ChannelInv, InLine, Precedes
    <3>3. QED
      BY <1>1, <3>1, <3>2 DEF ChannelInv
  <2>4. QED
    BY <1>1, <2>2, <2>3, RelaySet
<1>9. QED
  BY <1>4, <1>6, <1>7, <1>8 DEF Feeds, FeedInv

\* Once Redis has failed, events may come twice; the rest is kept.
LEMMA PublishFailsStep ==
    ASSUME Feeds, NEW b \in Buses, NEW e \in Nat, PublishFails(b, e)
    PROVE  Feeds'
<1>1. /\ <<b, e>> \in pending /\ pending' = pending \ {<<b, e>>} /\ Dispatch(b, e)
      /\ UNCHANGED channel \/ Relay(e)
      /\ broken' = TRUE /\ UNCHANGED <<relayed, session, published, listener>>
  BY DEF PublishFails
<1>2. /\ Awaited' = Awaited \ {e} /\ e \in Awaited /\ relayed
      /\ \A q, r \in pending' : q[2] = r[2] => q = r
      /\ pending' \subseteq Buses \X Nat
  BY <1>1, TaskDone
<1>3. e \in 1..published'
  BY <1>1, <1>2 DEF Feeds, FeedInv, PublishedInv, Coming
<1>4. /\ socket' \in [Sockets -> SocketRecord]
      /\ \A k \in Sockets :
            /\ SilenceInv(k)' /\ QuietInv(k)'
            /\ Range(socket'[k].sent) \cup Held(socket'[k].holds) \cup Range(socket'[k].queue)
                   \subseteq 1..published'
  BY <1>1, <1>3, DispatchKeeps
<1>5. channel' \in [Buses -> Seq(Nat)]
  <2>1. CASE UNCHANGED channel
    BY <2>1 DEF Feeds, FeedTypes
  <2>2. CASE Relay(e)
    <3>1. channel' = [c \in Buses |-> channel'[c]] /\ \A c \in Buses : channel'[c] \in Seq(Nat)
      BY <2>2, RelaySet DEF Relay
    <3>2. QED
      BY <3>1
  <2>3. QED
    BY <1>1, <2>1, <2>2
<1>6. FeedTypes' /\ RelayInv'
  BY <1>1, <1>2, <1>4, <1>5 DEF Feeds, FeedTypes, RelayInv
<1>7. \A c \in Buses : Coming(c)' \subseteq Coming(c)
  <2>1. ASSUME NEW c \in Buses PROVE Range(channel'[c]) \subseteq Range(channel[c]) \cup {e}
    BY <1>1, <2>1, RelaySet
  <2>2. QED
    BY <1>2, <2>1 DEF Coming
<1>8. PublishedInv'
  BY <1>1, <1>4, <1>7 DEF Feeds, FeedInv, PublishedInv
<1>9. QED
  BY <1>1, <1>4, <1>6, <1>8 DEF Feeds, FeedInv

LEMMA ListenStep ==
    ASSUME Feeds, NEW b \in Buses, Listen(b) \/ ListenerLost(b)
    PROVE  Feeds'
<1>1. /\ listener[b] \in {"connecting", "on"}
      /\ listener' \in [Buses -> {"off", "connecting", "on"}]
      /\ channel' \in [Buses -> Seq(Nat)]
      /\ \A c \in Buses : Range(channel'[c]) \subseteq Range(channel[c])
      /\ UNCHANGED <<channel, broken>> \/ broken' = TRUE
      /\ UNCHANGED <<relayed, session, published, pending, socket>>
  <2>1. channel \in [Buses -> Seq(Nat)] /\ listener \in [Buses -> {"off", "connecting", "on"}]
        /\ <<>> \in Seq(Nat) /\ Range(<<>>) = {}
    BY DEF Feeds, FeedTypes, Range
  <2>2. CASE Listen(b)
    BY <2>1, <2>2 DEF Listen
  <2>3. CASE ListenerLost(b)
    BY <2>1, <2>3 DEF ListenerLost
  <2>4. QED
    BY <2>2, <2>3
<1>2. relayed
  BY <1>1 DEF Feeds, FeedInv, RelayInv
<1>3. broken' \in BOOLEAN /\ (~broken' => UNCHANGED <<channel, broken>>)
  BY <1>1 DEF Feeds, FeedTypes
<1>4. FeedTypes' /\ RelayInv'
  BY <1>1, <1>2, <1>3 DEF Feeds, FeedTypes, FeedInv, RelayInv
<1>5. \A c \in Buses : Coming(c)' \subseteq Coming(c)
  BY <1>1 DEF Coming, Awaited
<1>6. PublishedInv'
  BY <1>1, <1>5 DEF Feeds, FeedInv, PublishedInv
<1>7. ~broken' => \A c \in Buses : ChannelInv(c)' /\ Coming(c)' = Coming(c)
  BY <1>1, <1>3 DEF Feeds, FeedInv, ChannelInv, Coming, Awaited
<1>8. ASSUME NEW k \in Sockets
      PROVE  SilenceInv(k)' /\ QuietInv(k)' /\ (~broken' => LineInv(k)')
  <2>1. SilenceInv(k) /\ QuietInv(k) /\ (~broken => LineInv(k)) /\ Serves[k] \in Buses
    BY SocketKnown
  <2>2. SilenceInv(k)' /\ QuietInv(k)'
    BY <1>1, <2>1 DEF SilenceInv, QuietInv
  <2>3. ~broken' => LineInv(k)'
    BY <1>1, <1>3, <1>7, <2>1 DEF LineInv
  <2>4. QED
    BY <2>2, <2>3
<1>9. QED
  BY <1>4, <1>6, <1>7, <1>8 DEF Feeds, FeedInv

LEMMA ReceiveStep ==
    ASSUME Feeds, NEW b \in Buses, Receive(b)
    PROVE  Feeds'
<1> DEFINE e == Head(channel[b])
<1>1. /\ channel[b] # <<>> /\ Dispatch(b, e)
      /\ channel' = [channel EXCEPT ![b] = Tail(channel[b])]
      /\ UNCHANGED <<relayed, session, published, pending, listener, broken>>
      /\ channel \in [Buses -> Seq(Nat)] /\ channel[b] \in Seq(Nat)
  BY DEF Receive, Feeds, FeedTypes
<1>2. /\ e \in Nat /\ Tail(channel[b]) \in Seq(Nat)
      /\ Range(channel[b]) = {e} \cup Range(Tail(channel[b]))
  BY <1>1, HeadAndTail
<1>3. channel' \in [Buses -> Seq(Nat)] /\ channel'[b] = Tail(channel[b])
      /\ \A c \in Buses : c # b => channel'[c] = channel[c]
  BY <1>1, <1>2
<1>4. e \in Range(channel[b]) /\ e \in Coming(b) /\ e \in 1..published'
  BY <1>1, <1>2 DEF Feeds, FeedInv, PublishedInv, Coming
<1> HIDE DEF e
<1>5. /\ socket' \in [Sockets -> SocketRecord]
      /\ \A k \in Sockets :
            /\ SilenceInv(k)' /\ QuietInv(k)'
            /\ Range(socket'[k].sent) \cup Held(socket'[k].holds) \cup Range(socket'[k].queue)
                   \subseteq 1..published'
  BY <1>1, <1>4, DispatchKeeps
<1>6. relayed
  BY <1>1 DEF Feeds, FeedInv, RelayInv
<1>7. FeedTypes' /\ RelayInv'
  BY <1>1, <1>3, <1>5, <1>6 DEF Feeds, FeedTypes, FeedInv, RelayInv
<1>8. \A c \in Buses : Coming(c)' \subseteq Coming(c)
  BY <1>1, <1>2, <1>3 DEF Coming, Awaited
<1>9. PublishedInv'
  BY <1>1, <1>5, <1>8 DEF Feeds, FeedInv, PublishedInv
<1>10. ASSUME ~broken', NEW c \in Buses PROVE ChannelInv(c)'
  <2>1. ChannelInv(c) /\ Awaited' = Awaited
    BY <1>1, <1>10 DEF Feeds, FeedInv, Awaited
  <2>2. CASE c = b
    <3>1. Ordered(relayed, Tail(channel[b]))
      BY <1>1, <2>1, <2>2, OrderedTail DEF ChannelInv
    <3>2. InLine(relayed, Range(Tail(channel[b])), Awaited)
      BY <1>2, <2>1, <2>2 DEF ChannelInv, InLine
    <3>3. QED
      BY <1>1, <1>3, <2>1, <2>2, <3>1, <3>2 DEF ChannelInv
  <2>3. CASE c # b
    BY <1>1, <1>3, <2>1, <2>3 DEF ChannelInv
  <2>4. QED
    BY <2>2, <2>3
<1>11. ASSUME ~broken', NEW k \in Sockets PROVE LineInv(k)'
  <2>1. LineInv(k) /\ Serves[k] \in Buses /\ ~broken
    BY <1>1, <1>11, SocketKnown
  <2>2. Coming(Serves[k])' \subseteq Coming(Serves[k])
    BY <1>8, <2>1
  <2>3. ASSUME Serves[k] = b
        PROVE  e \in Coming(Serves[k]) /\ InLine(relayed, {e}, Coming(Serves[k])')
    <3>1. ChannelInv(b) /\ Awaited' = Awaited
      BY <1>1, <2>1 DEF Feeds, FeedInv, Awaited
    <3>2. InLine(relayed, {e}, Range(Tail(channel[b])))
      BY <1>1, <3>1, OrderedTail DEF ChannelInv, e
    <3>3. InLine(relayed, {e}, Awaited)
      BY <1>4, <3>1 DEF ChannelInv, InLine
    <3>4. Coming(b)' = Range(Tail(channel[b])) \cup Awaited
      BY <1>3, <3>1 DEF Coming
    <3>5. QED
      BY <1>4, <2>3, <3>2, <3>3, <3>4 DEF InLine
  <2>4. Lined(relayed, socket'[k].sent, Held(socket'[k].holds), socket'[k].queue, Coming(Serves[k])')
    <3> DEFINE L == Coming(Serves[k])'
    <3> HIDE DEF L
    <3>1. L \subseteq Coming(Serves[k]) /\ (Serves[k] = b => e \in Coming(Serves[k]) /\ InLine(relayed, {e}, L))
          /\ Lined(relayed, socket[k].sent, Held(socket[k].holds), socket[k].queue, Coming(Serves[k]))
      BY <2>1, <2>2, <2>3 DEF L, LineInv
    <3>2. Lined(relayed, socket'[k].sent, Held(socket'[k].holds), socket'[k].queue, L)
      BY <1>1, <1>2, <3>1, DispatchLine
    <3>3. QED
      BY <3>2 DEF L
  <2>5. QED
    BY <1>1, <2>4 DEF LineInv
<1>12. QED
  BY <1>5, <1>7, <1>9, <1>10, <1>11 DEF Feeds, FeedInv

LEMMA AcceptStep ==
    ASSUME Feeds, NEW k \in Sockets, Accept(k) \/ Subscribe(k) \/ Idle30(k)
    PROVE  Feeds'
<1>1. /\ socket[k] \in SocketRecord /\ socket \in [Sockets -> SocketRecord]
      /\ Range(socket[k].sent) \cup Held(socket[k].holds) \cup Range(socket[k].queue) \subseteq 1..published
      /\ SilenceInv(k) /\ QuietInv(k) /\ (~broken => LineInv(k)) /\ Serves[k] \in Buses
  BY SocketKnown
<1>2. PICK stage \in {"accepted", "waiting", "got"} :
        /\ socket' = [socket EXCEPT ![k] = [socket[k] EXCEPT !.at = stage]]
        /\ UNCHANGED <<relayed, session, published, pending, channel, broken>>
        /\ socket[k].at \in {"none", "accepted"} \/ stage = "got"
        /\ socket[k].at \in {"none", "accepted", "waiting"}
  BY <1>1 DEF Accept, Subscribe, Idle30
<1>3. listener' \in [Buses -> {"off", "connecting", "on"}] /\ (~relayed => listener' = listener)
  BY <1>1, ListenerKept DEF Accept, Subscribe, Idle30, Feeds, FeedTypes
<1> DEFINE next == [socket[k] EXCEPT !.at = stage]
<1>4. /\ next \in SocketRecord /\ next.at = stage /\ next.queue = socket[k].queue
      /\ next.holds = socket[k].holds /\ next.sent = socket[k].sent
  BY <1>1 DEF SocketRecord
<1>5. socket' = [socket EXCEPT ![k] = next] /\ socket'[k] = next
  BY <1>1, <1>2
<1> HIDE DEF next
<1>6. SilenceInv(k)' /\ QuietInv(k)'
  BY <1>1, <1>2, <1>4, <1>5 DEF SilenceInv, QuietInv
<1>7. /\ Range(next.sent) \cup Held(next.holds) \cup Range(next.queue) \subseteq 1..published
      /\ ~broken => Lined(relayed, next.sent, Held(next.holds), next.queue, Coming(Serves[k]))
  BY <1>1, <1>4 DEF LineInv
<1>8. QED
  BY <1>2, <1>3, <1>4, <1>5, <1>6, <1>7, SocketStep

LEMMA GetStep ==
    ASSUME Feeds, NEW k \in Sockets, Get(k)
    PROVE  Feeds'
<1> DEFINE next == [socket[k] EXCEPT !.at = "got", !.holds = Head(socket[k].queue),
                                     !.queue = Tail(socket[k].queue)]
<1>1. /\ socket[k] \in SocketRecord /\ socket \in [Sockets -> SocketRecord]
      /\ Range(socket[k].sent) \cup Held(socket[k].holds) \cup Range(socket[k].queue) \subseteq 1..published
      /\ SilenceInv(k) /\ QuietInv(k) /\ (~broken => LineInv(k)) /\ Serves[k] \in Buses
      /\ socket[k].queue \in Seq(Nat)
  BY SocketKnown
<1>2. /\ socket[k].at = "waiting" /\ socket[k].queue # <<>>
      /\ socket' = [socket EXCEPT ![k] = next] /\ socket'[k] = next
      /\ UNCHANGED <<relayed, session, published, pending, listener, channel, broken>>
  BY <1>1 DEF Get
<1>3. /\ Head(socket[k].queue) \in Nat /\ Tail(socket[k].queue) \in Seq(Nat)
      /\ Range(socket[k].queue) = {Head(socket[k].queue)} \cup Range(Tail(socket[k].queue))
  BY <1>1, <1>2, HeadAndTail
<1>4. /\ next \in SocketRecord /\ next.at = "got" /\ next.queue = Tail(socket[k].queue)
      /\ next.holds = Head(socket[k].queue) /\ next.sent = socket[k].sent
  BY <1>1, <1>3 DEF SocketRecord
<1> HIDE DEF next
<1>5. Held(socket[k].holds) = {}
  BY <1>1, <1>2 DEF QuietInv, Held
<1>6. Held(next.holds) = {Head(socket[k].queue)}
  <2>1. Head(socket[k].queue) \in 1..published
    BY <1>1, <1>3
  <2>2. Head(socket[k].queue) # 0
    BY <2>1
  <2>3. QED
    BY <1>4, <2>2 DEF Held
<1>7. SilenceInv(k)' /\ QuietInv(k)'
  BY <1>1, <1>2, <1>4 DEF SilenceInv, QuietInv
<1>8. ASSUME ~broken PROVE Lined(relayed, next.sent, Held(next.holds), next.queue, Coming(Serves[k]))
  <2>1. Lined(relayed, socket[k].sent, {}, socket[k].queue, Coming(Serves[k]))
    BY <1>1, <1>5, <1>8 DEF LineInv
  <2>2. Lined(relayed, socket[k].sent, {Head(socket[k].queue)}, Tail(socket[k].queue), Coming(Serves[k]))
    BY <1>1, <1>2, <2>1, TakenFromQueue
  <2>3. QED
    BY <1>4, <1>6, <2>2
<1>9. Range(next.sent) \cup Held(next.holds) \cup Range(next.queue) \subseteq 1..published
  BY <1>1, <1>3, <1>4, <1>6
<1>10. listener' \in [Buses -> {"off", "connecting", "on"}]
  BY <1>2 DEF Feeds, FeedTypes
<1>11. QED
  BY <1>2, <1>4, <1>7, <1>8, <1>9, <1>10, SocketStep

\* A connection that is closed is sent nothing more.
LEMMA CloseStep ==
    ASSUME Feeds, NEW k \in Sockets, Close(k),
           UNCHANGED <<relayed, session, published, pending, listener, channel, broken>>
    PROVE  Feeds'
<1> DEFINE next == [socket[k] EXCEPT !.at = "closed", !.queue = <<>>, !.holds = 0]
<1>1. /\ socket[k] \in SocketRecord /\ socket \in [Sockets -> SocketRecord]
      /\ Range(socket[k].sent) \cup Held(socket[k].holds) \cup Range(socket[k].queue) \subseteq 1..published
      /\ SilenceInv(k) /\ QuietInv(k) /\ (~broken => LineInv(k)) /\ Serves[k] \in Buses
  BY SocketKnown
<1>2. socket' = [socket EXCEPT ![k] = next] /\ socket'[k] = next
  BY <1>1 DEF Close
<1>3. /\ next \in SocketRecord /\ next.at = "closed" /\ next.queue = <<>>
      /\ next.holds = 0 /\ next.sent = socket[k].sent
  <2>1. <<>> \in Seq(Nat)
    OBVIOUS
  <2>2. QED
    BY <1>1, <2>1 DEF SocketRecord
<1> HIDE DEF next
<1>4. SilenceInv(k)' /\ QuietInv(k)'
  BY <1>1, <1>2, <1>3 DEF SilenceInv, QuietInv
<1>5. ASSUME ~broken PROVE Lined(relayed, next.sent, Held(next.holds), next.queue, Coming(Serves[k]))
  <2>1. Lined(relayed, socket[k].sent, {}, <<>>, Coming(Serves[k]))
    BY <1>1, <1>5, Emptied DEF LineInv
  <2>2. Held(next.holds) = {}
    BY <1>3 DEF Held
  <2>3. QED
    BY <1>3, <2>1, <2>2
<1>6. Range(next.sent) \cup Held(next.holds) \cup Range(next.queue) \subseteq 1..published
  <2>1. Held(next.holds) = {} /\ Range(next.queue) = {}
    BY <1>3 DEF Held, Range
  <2>2. QED
    BY <1>1, <1>3, <2>1
<1>7. listener' \in [Buses -> {"off", "connecting", "on"}]
  BY DEF Feeds, FeedTypes
<1>8. QED
  BY <1>2, <1>3, <1>4, <1>5, <1>6, <1>7, SocketStep

\* Only a connection whose session is valid goes on to send what it holds.
LEMMA ReauthorizeStep ==
    ASSUME Feeds, NEW k \in Sockets, Reauthorize(k)
    PROVE  Feeds'
<1>1. /\ socket[k] \in SocketRecord /\ socket \in [Sockets -> SocketRecord]
      /\ Range(socket[k].sent) \cup Held(socket[k].holds) \cup Range(socket[k].queue) \subseteq 1..published
      /\ SilenceInv(k) /\ QuietInv(k) /\ (~broken => LineInv(k)) /\ Serves[k] \in Buses
  BY SocketKnown
<1>2. /\ socket[k].at = "got"
      /\ UNCHANGED <<relayed, session, published, pending, listener, channel, broken>>
  BY DEF Reauthorize
<1>3. CASE Authorized(Open[k])
  <2> DEFINE stage == IF socket[k].holds = 0 THEN "waiting" ELSE "sending"
             next == [socket[k] EXCEPT !.at = stage]
  <2>1. socket' = [socket EXCEPT ![k] = next] /\ socket'[k] = next
    BY <1>1, <1>3 DEF Reauthorize
  <2>2. /\ next \in SocketRecord /\ next.at = stage /\ next.queue = socket[k].queue
        /\ next.holds = socket[k].holds /\ next.sent = socket[k].sent
        /\ stage \in {"waiting", "sending"} /\ (stage = "sending" <=> socket[k].holds # 0)
    BY <1>1 DEF SocketRecord
  <2> HIDE DEF next, stage
  <2>3. SilenceInv(k)' /\ QuietInv(k)'
    BY <1>1, <1>2, <1>3, <2>1, <2>2 DEF SilenceInv, QuietInv, Authorized
  <2>4. /\ Range(next.sent) \cup Held(next.holds) \cup Range(next.queue) \subseteq 1..published
        /\ ~broken => Lined(relayed, next.sent, Held(next.holds), next.queue, Coming(Serves[k]))
    BY <1>1, <2>2 DEF LineInv
  <2>5. listener' \in [Buses -> {"off", "connecting", "on"}]
    BY <1>2 DEF Feeds, FeedTypes
  <2>6. QED
    BY <1>2, <2>1, <2>2, <2>3, <2>4, <2>5, SocketStep
<1>4. CASE ~Authorized(Open[k])
  BY <1>2, <1>4, CloseStep DEF Reauthorize
<1>5. QED
  BY <1>3, <1>4

LEMMA SendStep ==
    ASSUME Feeds, NEW k \in Sockets, Send(k)
    PROVE  Feeds'
<1> DEFINE next == [socket[k] EXCEPT !.at = "waiting", !.holds = 0,
                                     !.sent = Append(socket[k].sent, socket[k].holds)]
<1>1. /\ socket[k] \in SocketRecord /\ socket \in [Sockets -> SocketRecord]
      /\ Range(socket[k].sent) \cup Held(socket[k].holds) \cup Range(socket[k].queue) \subseteq 1..published
      /\ SilenceInv(k) /\ QuietInv(k) /\ (~broken => LineInv(k)) /\ Serves[k] \in Buses
      /\ socket[k].sent \in Seq(Nat) /\ socket[k].holds \in Nat
  BY SocketKnown
<1>2. /\ socket[k].at = "sending"
      /\ socket' = [socket EXCEPT ![k] = next] /\ socket'[k] = next
      /\ UNCHANGED <<relayed, session, published, pending, listener, channel, broken>>
  BY <1>1 DEF Send
<1>3. /\ Append(socket[k].sent, socket[k].holds) \in Seq(Nat)
      /\ Range(Append(socket[k].sent, socket[k].holds)) = Range(socket[k].sent) \cup {socket[k].holds}
  BY <1>1, Appended
<1>4. /\ next \in SocketRecord /\ next.at = "waiting" /\ next.queue = socket[k].queue
      /\ next.holds = 0 /\ next.sent = Append(socket[k].sent, socket[k].holds)
  BY <1>1, <1>3 DEF SocketRecord
<1> HIDE DEF next
<1>5. Held(next.holds) = {}
  BY <1>4 DEF Held

<1>6. Held(socket[k].holds) = {socket[k].holds}
  BY <1>1, <1>2 DEF QuietInv, Held
<1>7. SilenceInv(k)' /\ QuietInv(k)'
  <2>1. QuietInv(k)'
    BY <1>1, <1>2, <1>4 DEF QuietInv
  <2>2. SilenceInv(k)'
    BY <1>1, <1>2, <1>3, <1>4 DEF SilenceInv
  <2>3. QED
    BY <2>1, <2>2
<1>8. ASSUME ~broken PROVE Lined(relayed, next.sent, Held(next.holds), next.queue, Coming(Serves[k]))
  <2>1. Lined(relayed, socket[k].sent, {socket[k].holds}, socket[k].queue, Coming(Serves[k]))
    BY <1>1, <1>6, <1>8 DEF LineInv
  <2>2. Lined(relayed, Append(socket[k].sent, socket[k].holds), {}, socket[k].queue, Coming(Serves[k]))
    BY <1>1, <2>1, Passed
  <2>3. QED
    BY <1>4, <1>5, <2>2
<1>9. Range(next.sent) \cup Held(next.holds) \cup Range(next.queue) \subseteq 1..published
  BY <1>1, <1>3, <1>4, <1>5, <1>6
<1>10. listener' \in [Buses -> {"off", "connecting", "on"}]
  BY <1>2 DEF Feeds, FeedTypes
<1>11. QED
  BY <1>2, <1>4, <1>7, <1>8, <1>9, <1>10, SocketStep

LEMMA FeedStep == ASSUME Feeds, FeedNext PROVE Feeds'
<1>1. ASSUME NEW s \in Logins, LogIn(s) \/ EndSession(s) PROVE Feeds'
  BY <1>1, SessionStep
<1>2. ASSUME NEW b \in Buses, Publish(b) \/ Listen(b) \/ Receive(b) \/ ListenerLost(b) PROVE Feeds'
  BY <1>2, PublishStep, ListenStep, ReceiveStep
<1>3. ASSUME NEW b \in Buses, NEW e \in 1..MaxEvents, PublishRemote(b, e) \/ PublishFails(b, e)
      PROVE  Feeds'
  <2>1. e \in Nat
    BY FeedBounds
  <2>2. QED
    BY <1>3, <2>1, PublishRemoteStep, PublishFailsStep
<1>4. ASSUME NEW k \in Sockets,
             Accept(k) \/ Subscribe(k) \/ Get(k) \/ Idle30(k) \/ Reauthorize(k) \/ Send(k) \/ Gone(k)
      PROVE  Feeds'
  <2>1. CASE Gone(k)
    BY <2>1, CloseStep DEF Gone
  <2>2. CASE ~Gone(k)
    BY <1>4, <2>2, AcceptStep, GetStep, ReauthorizeStep, SendStep
  <2>3. QED
    BY <2>1, <2>2
<1>5. QED
  BY <1>1, <1>2, <1>3, <1>4 DEF FeedNext

LEMMA FeedStarts == FeedInit => Feeds
<1>1. SUFFICES ASSUME FeedInit PROVE Feeds
  OBVIOUS
<1>2. <<>> \in Seq(Nat) /\ Range(<<>>) = {} /\ \A r : Ordered(r, <<>>)
  BY DEF Range, Ordered
<1>3. FeedTypes
  BY <1>1, <1>2 DEF FeedInit, FeedTypes, SocketRecord
<1>4. Awaited = {} /\ \A b \in Buses : Coming(b) = {}
  BY <1>1, <1>2 DEF FeedInit, Awaited, Coming
<1>5. ASSUME NEW k \in Sockets
      PROVE  /\ socket[k].at = "none" /\ socket[k].queue = <<>> /\ Held(socket[k].holds) = {}
             /\ socket[k].holds = 0 /\ socket[k].sent = <<>> /\ session[Open[k]].is = "none"
             /\ Serves[k] \in Buses
  BY <1>1, FeedBounds DEF FeedInit, Held
<1>6. RelayInv
  BY <1>1 DEF FeedInit, RelayInv
<1>7. PublishedInv
  BY <1>2, <1>4, <1>5 DEF PublishedInv
<1>8. \A b \in Buses : ChannelInv(b)
  BY <1>1, <1>2 DEF FeedInit, ChannelInv, InLine
<1>9. \A k \in Sockets : SilenceInv(k) /\ QuietInv(k) /\ LineInv(k)
  BY <1>2, <1>4, <1>5 DEF SilenceInv, QuietInv, LineInv, Lined, InLine
<1>10. QED
  BY <1>3, <1>6, <1>7, <1>8, <1>9 DEF Feeds, FeedInv

LEMMA FeedIdle == ASSUME Feeds, UNCHANGED feedVars PROVE Feeds'
  BY DEF Feeds, FeedTypes, FeedInv, RelayInv, PublishedInv, SilenceInv, QuietInv, LineInv,
         ChannelInv, Coming, Awaited, feedVars

LEMMA SilenceKnown == Feeds => EndedIsSilent
  BY DEF Feeds, FeedInv, SilenceInv, EndedIsSilent, Range

LEMMA OrderKnown == Feeds => EventsOnce
<1>1. ASSUME Feeds, NEW k \in Sockets
      PROVE  /\ ~broken => IsInjective(socket[k].sent)
             /\ ~relayed => \A m, n \in DOMAIN socket[k].sent : m < n => socket[k].sent[m] < socket[k].sent[n]
  <2> DEFINE sent == socket[k].sent
  <2>1. /\ sent \in Seq(Nat) /\ DOMAIN sent = 1..Len(sent) /\ Len(sent) \in Nat
        /\ ~broken => Ordered(relayed, sent)
        /\ ~relayed => ~broken
    BY <1>1, SocketKnown, LenProperties DEF LineInv, Lined, Feeds, FeedInv, RelayInv
  <2>2. \A n \in DOMAIN sent : sent[n] \in Nat
    BY <2>1
  <2> HIDE DEF sent
  <2>3. ASSUME ~broken, NEW m \in DOMAIN sent, NEW n \in DOMAIN sent, sent[m] = sent[n]
        PROVE  m = n
    <3>1. CASE m < n
      BY <2>1, <2>2, <2>3, <3>1 DEF Ordered, Precedes
    <3>2. CASE n < m
      BY <2>1, <2>2, <2>3, <3>2 DEF Ordered, Precedes
    <3>3. QED
      BY <2>1, <3>1, <3>2
  <2>4. ~broken => IsInjective(sent)
    BY <2>3 DEF IsInjective
  <2>5. ~relayed => \A m, n \in DOMAIN sent : m < n => sent[m] < sent[n]
    BY <2>1 DEF Ordered, Precedes
  <2>6. QED
    BY <2>4, <2>5 DEF sent
<1>2. QED
  BY <1>1 DEF EventsOnce

--------------------------------------------------------------------------------
(* All of them together                                                       *)

EdgesInv == ThrottleInv /\ Feeds /\ Phantoms /\ Agents

LEMMA EdgesStep == ASSUME EdgesInv, [Next]_vars PROVE EdgesInv'
<1>1. CASE ThrottleNext /\ UNCHANGED <<part, feedVars, leaderVars, phantomVars, agentVars>>
  BY <1>1, ThrottleStep, FeedIdle, PhantomIdle, AgentIdle DEF EdgesInv
<1>2. CASE FeedNext /\ UNCHANGED <<part, throttleVars, leaderVars, phantomVars, agentVars>>
  BY <1>2, ThrottleIdle, FeedStep, PhantomIdle, AgentIdle DEF EdgesInv
<1>3. CASE LeaderNext /\ UNCHANGED <<part, throttleVars, feedVars, phantomVars, agentVars>>
  BY <1>3, ThrottleIdle, FeedIdle, PhantomIdle, AgentIdle DEF EdgesInv
<1>4. CASE PhantomNext /\ UNCHANGED <<part, throttleVars, feedVars, leaderVars, agentVars>>
  BY <1>4, ThrottleIdle, FeedIdle, PhantomStep, AgentIdle DEF EdgesInv
<1>5. CASE AgentNext /\ UNCHANGED <<part, throttleVars, feedVars, leaderVars, phantomVars>>
  BY <1>5, ThrottleIdle, FeedIdle, PhantomIdle, AgentServerStep DEF EdgesInv
<1>6. CASE UNCHANGED vars
  BY <1>6, ThrottleIdle, FeedIdle, PhantomIdle, AgentIdle DEF EdgesInv, vars
<1>7. QED
  BY <1>1, <1>2, <1>3, <1>4, <1>5, <1>6 DEF Next

\* In every state the throttle (core/ratelimit.py, core/loginguard.py), the live
\* feed (core/events.py, api/v1/events.py), the phantom service
\* (services/phantom.py) and the agent's server keep what their own steps keep,
\* whichever of them a behaviour is about.
THEOREM EdgesInvariant == FairSpec => []EdgesInv
<1>1. Init => EdgesInv
  BY ThrottleStarts, FeedStarts, PhantomStarts, AgentStarts DEF Init, EdgesInv
<1>2. EdgesInv /\ [Next]_vars => EdgesInv'
  BY EdgesStep
<1>3. QED
  BY <1>1, <1>2, PTL DEF FairSpec

\* Bursts cannot race the guard (core/loginguard.py:7): in either store, with any
\* number of requests, no more than Limit attempts of one window since the last
\* success get as far as the password or the handler.
THEOREM AttemptsGuarded == FairSpec => []AttemptsBounded
<1>1. EdgesInv => AttemptsBounded
  BY DEF EdgesInv, ThrottleInv
<1>2. QED
  BY <1>1, EdgesInvariant, PTL

\* Nothing that was published after a session ended is sent to its connections
\* (api/v1/events.py:35), with any number of workers, queues of any size and
\* however the relay fails.
THEOREM SessionsSilent == FairSpec => []EndedIsSilent
<1>1. EdgesInv => EndedIsSilent
  BY SilenceKnown DEF EdgesInv
<1>2. QED
  BY <1>1, EdgesInvariant, PTL

\* No connection is sent an event twice while Redis works (core/events.py:62), and
\* without a relay events are sent in the order they were published in.
THEOREM EventsInOrder == FairSpec => []EventsOnce
<1>1. EdgesInv => EventsOnce
  BY OrderKnown DEF EdgesInv
<1>2. QED
  BY <1>1, EdgesInvariant, PTL

\* A phantom task that is over has removed its container, or its answer, a second
\* cancellation or a daemon that was late accounts for it (services/phantom.py:150);
\* no more tasks run and clean up than there are places.
THEOREM ContainersKept == FairSpec => []ContainersOwned
<1>1. EdgesInv => ContainersOwned
  BY DEF EdgesInv, Phantoms, PhantomInv
<1>2. QED
  BY <1>1, EdgesInvariant, PTL

\* A caller that stays is told one outcome and nothing after it, or its connection
\* breaks off before any (claude_code.py:227-228), whatever the CLI writes and
\* whenever it exits.
THEOREM OutcomeOnce == FairSpec => []OneOutcome
<1>1. EdgesInv => OneOutcome
  BY OutcomeKnown DEF EdgesInv
<1>2. QED
  BY <1>1, EdgesInvariant, PTL
================================================================================
