--------------------------- MODULE NodeRegistryProofs ---------------------------
(***************************************************************************)
(* Proofs about NodeRegistry: its type invariant, and that every key is    *)
(* bound to a node of its own and every agent that runs is known, for any  *)
(* number of agents, calls, nodes and sweepers.                            *)
(***************************************************************************)
EXTENDS NodeRegistry, TLAPS

--------------------------------------------------------------------------------
(* Types                                                                      *)

NodeTypes ==
    /\ row \in [Nodes -> NodeStatus \cup {"none", "deleted"}]
    /\ age \in [Nodes -> 0..Timeout + 1]
    /\ registrar \in [Nodes -> Agents \cup {NoAgent}]
    /\ bound \in [Agents -> Nodes \cup {NoNode}]
    /\ revoked \in SUBSET Agents

AgentTypes ==
    /\ agent \in [Agents -> {"down", "registering", "running"}]
    /\ tries \in [Agents -> 0..MaxTries]
    /\ waiting \in [Agents -> 0..MaxCalls]
    /\ setup \in [Agents -> BOOLEAN]

CallTypes ==
    /\ at \in [Calls -> {"idle"} \cup Serving \cup Answered]
    /\ target \in [Calls -> Nodes \cup {NoNode}]
    /\ \A c \in Calls : at[c] \in {"update", "find", "write"} => target[c] # NoNode
    /\ saw \in [Calls -> NodeStatus \cup {"none"}]

RestTypes == todo \in [Sweepers -> SUBSET Nodes] /\ faults \in 0..MaxFaults

LEMMA TypeParts ==
    /\ TypeOK <=> NodeTypes /\ AgentTypes /\ CallTypes /\ RestTypes
    /\ TypeOK' <=> NodeTypes' /\ AgentTypes' /\ CallTypes' /\ RestTypes'
  BY DEF TypeOK, NodeTypes, AgentTypes, CallTypes, RestTypes

\* A handler that answers leaves no trace of what it worked on.
LEMMA AnswerTypes ==
    ASSUME CallTypes, NEW c \in Calls, NEW result \in Answered, Answer(c, result)
    PROVE  CallTypes' /\ UNCHANGED <<agentVars, todo, faults>>
  BY DEF CallTypes, Answer, Goto, Answered, Serving

LEMMA FaultTypes == ASSUME RestTypes, Fault PROVE faults' \in 0..MaxFaults
  BY RegistryBounds DEF RestTypes, Fault

LEMMA AgentStepTypes ==
    ASSUME TypeOK, NEW a \in Agents, Boot(a) \/ AgentStep(a) \/ AutoSetup(a)
    PROVE  TypeOK'
<1> USE RegistryBounds, TypeParts
<1>1. NodeTypes' /\ RestTypes'
  BY DEF Boot, AgentStep, AutoSetup, SendRegister, SendBeat, Receive, TimesOut, GiveUp, Send,
         rowVars, nodeVars, NodeTypes, RestTypes
<1>2. AgentTypes'
  <2>1. CASE Boot(a)
    BY <2>1 DEF Boot, AgentTypes
  <2>2. CASE SendRegister(a)
    <3>1. PICK i \in 1..MaxCalls : waiting' = [waiting EXCEPT ![a] = i] /\ agent' = agent
      BY <2>2 DEF SendRegister, Send
    <3>2. waiting' \in [Agents -> 0..MaxCalls]
      BY <3>1 DEF AgentTypes
    <3>3. QED
      BY <2>2, <3>1, <3>2 DEF SendRegister, AgentTypes
  <2>3. CASE SendBeat(a) \/ AutoSetup(a)
    <3>1. agent' = agent /\ (UNCHANGED waiting \/ \E i \in 1..MaxCalls : waiting' = [waiting EXCEPT ![a] = i])
      BY <2>3 DEF SendBeat, AutoSetup, Send
    <3>2. waiting' \in [Agents -> 0..MaxCalls]
      BY <3>1 DEF AgentTypes
    <3>3. QED
      BY <2>3, <3>1, <3>2 DEF SendBeat, AutoSetup, AgentTypes
  <2>4. CASE Receive(a)
    <3>1. agent' \in [Agents -> {"down", "registering", "running"}]
      BY <2>4 DEF Receive, AgentTypes
    <3>2. setup' \in [Agents -> BOOLEAN]
      BY <2>4, Zenon DEF Receive, AgentTypes
    <3>3. tries' \in [Agents -> 0..MaxTries]
      BY <2>4 DEF Receive, AgentTypes
    <3>4. waiting' \in [Agents -> 0..MaxCalls]
      BY <2>4 DEF Receive, AgentTypes
    <3>5. QED
      BY <3>1, <3>2, <3>3, <3>4 DEF AgentTypes
  <2>5. CASE TimesOut(a) \/ GiveUp(a)
    <3>1. CASE TimesOut(a)
      BY <3>1 DEF TimesOut, AgentTypes
    <3>2. CASE GiveUp(a)
      BY <3>2 DEF GiveUp, AgentTypes
    <3>3. QED
      BY <2>5, <3>1, <3>2
  <2>6. QED
    BY <2>1, <2>2, <2>3, <2>4, <2>5 DEF AgentStep
<1>3. CallTypes'
  <2>1. CASE SendRegister(a) \/ SendBeat(a) \/ AutoSetup(a)
    <3>1. PICK i \in 1..MaxCalls : Send(a, i, "register") \/ Send(a, i, "beat")
      BY <2>1 DEF SendRegister, SendBeat, AutoSetup
    <3>2. <<a, i>> \in Calls
      BY DEF Calls
    <3>3. QED
      BY <3>1, <3>2 DEF Send, CallTypes, Serving
  <2>2. CASE Receive(a)
    <3>1. <<a, waiting[a]>> \in Calls
      BY <2>2 DEF Receive, Calls, AgentTypes
    <3>2. QED
      BY <2>2, <3>1 DEF Receive, CallTypes
  <2>3. CASE Boot(a) \/ TimesOut(a) \/ GiveUp(a)
    BY <2>3 DEF Boot, TimesOut, GiveUp, callVars, CallTypes
  <2>4. QED
    BY <2>1, <2>2, <2>3 DEF AgentStep
<1>4. QED
  BY <1>1, <1>2, <1>3

LEMMA CallStepTypes ==
    ASSUME TypeOK, NEW c \in Calls, CallStep(c) \/ CallLost(c)
    PROVE  TypeOK'
<1> USE RegistryBounds, TypeParts
<1>0. c[1] \in Agents
  BY DEF Calls
<1>1. CASE Refuse(c) \/ CreateBeyondBound(c) \/ Update(c) \/ BeatUnbound(c) \/ BeatMisses(c)
  <2>1. PICK result \in Answered : Answer(c, result)
    BY <1>1 DEF Refuse, CreateBeyondBound, Update, BeatUnbound, BeatMisses, Answered
  <2>2. UNCHANGED rowVars
    BY <1>1 DEF Refuse, CreateBeyondBound, Update, BeatUnbound, BeatMisses
  <2>3. QED
    BY <2>1, <2>2, AnswerTypes DEF NodeTypes, AgentTypes, RestTypes, rowVars, nodeVars, agentVars
<1>2. CASE RegisterReads(c) \/ BeatReadsKey(c) \/ BeatReadsNode(c)
  <2>1. CallTypes'
    <3>1. CASE RegisterReads(c)
      BY <1>0, <3>1 DEF RegisterReads, Goto, NodeTypes, CallTypes, Serving
    <3>2. CASE BeatReadsKey(c)
      BY <1>0, <3>2 DEF BeatReadsKey, Goto, NodeTypes, CallTypes, Serving
    <3>3. CASE BeatReadsNode(c)
      BY <3>3 DEF BeatReadsNode, Goto, CallTypes, Serving
    <3>4. QED
      BY <1>2, <3>1, <3>2, <3>3
  <2>2. UNCHANGED <<rowVars, agentVars, todo, faults>>
    BY <1>2 DEF RegisterReads, BeatReadsKey, BeatReadsNode, Goto
  <2>3. QED
    BY <2>1, <2>2 DEF NodeTypes, AgentTypes, RestTypes, rowVars, nodeVars, agentVars
<1>3. CASE BeatWrites(c)
  <2>1. target[c] \in Nodes
    BY <1>3 DEF BeatWrites, CallTypes
  <2>2. NodeTypes'
    BY <1>3, <2>1 DEF BeatWrites, NodeTypes, NodeStatus
  <2>3. CallTypes' /\ UNCHANGED <<agentVars, todo, faults>>
    BY <1>3, AnswerTypes DEF BeatWrites, Answered
  <2>4. QED
    BY <2>2, <2>3 DEF AgentTypes, RestTypes, agentVars
<1>4. ASSUME NEW n \in Nodes, Create(c, n) PROVE TypeOK'
  <2>1. NodeTypes'
    BY <1>0, <1>4 DEF Create, NodeTypes, NodeStatus
  <2>2. CallTypes' /\ UNCHANGED <<agentVars, todo, faults>>
    BY <1>4, AnswerTypes DEF Create, Answered
  <2>3. QED
    BY <2>1, <2>2 DEF AgentTypes, RestTypes, agentVars
<1>5. CASE CallLost(c)
  <2>1. CallTypes'
    BY <1>5 DEF CallLost, CallTypes
  <2>2. RestTypes'
    BY <1>5, FaultTypes DEF CallLost, RestTypes
  <2>3. QED
    BY <1>5, <2>1, <2>2 DEF CallLost, NodeTypes, AgentTypes, rowVars, nodeVars, agentVars
<1>6. QED
  BY <1>1, <1>2, <1>3, <1>4, <1>5 DEF CallStep

LEMMA OtherStepTypes ==
    ASSUME TypeOK,
           \/ \E a \in Agents : AgentDies(a) \/ Revoke(a)
           \/ \E n \in Nodes : DeleteNode(n)
           \/ \E s \in Sweepers : SweepStep(s) \/ SweepFails(s)
           \/ Tick
           \/ UNCHANGED vars
    PROVE  TypeOK'
<1> USE RegistryBounds, TypeParts
<1>1. ASSUME NEW a \in Agents, AgentDies(a) PROVE TypeOK'
  <2>1. AgentTypes'
    BY <1>1 DEF AgentDies, AgentTypes
  <2>2. CallTypes'
    BY <1>1 DEF AgentDies, CallTypes
  <2>3. RestTypes'
    BY <1>1, FaultTypes DEF AgentDies, RestTypes
  <2>4. QED
    BY <1>1, <2>1, <2>2, <2>3 DEF AgentDies, NodeTypes, rowVars, nodeVars
<1>2. ASSUME NEW a \in Agents, Revoke(a) PROVE TypeOK'
  <2>1. NodeTypes'
    BY <1>2 DEF Revoke, NodeTypes, nodeVars
  <2>2. RestTypes'
    BY <1>2, FaultTypes DEF Revoke, RestTypes
  <2>3. QED
    BY <1>2, <2>1, <2>2 DEF Revoke, AgentTypes, CallTypes, agentVars, callVars
<1>3. ASSUME NEW n \in Nodes, DeleteNode(n) PROVE TypeOK'
  <2>1. NodeTypes'
    BY <1>3 DEF DeleteNode, NodeTypes
  <2>2. RestTypes'
    BY <1>3, FaultTypes DEF DeleteNode, RestTypes
  <2>3. QED
    BY <1>3, <2>1, <2>2 DEF DeleteNode, AgentTypes, CallTypes, agentVars, callVars
<1>4. ASSUME NEW s \in Sweepers, SweepReads(s) \/ SweepFails(s) PROVE TypeOK'
  <2>1. RestTypes'
    BY <1>4, FaultTypes DEF SweepReads, SweepFails, RestTypes
  <2>2. QED
    BY <1>4, <2>1 DEF SweepReads, SweepFails, NodeTypes, AgentTypes, CallTypes, rowVars, nodeVars,
                      agentVars, callVars
<1>5. ASSUME NEW s \in Sweepers, SweepWrites(s) PROVE TypeOK'
  <2>1. NodeTypes'
    BY <1>5 DEF SweepWrites, NodeTypes, NodeStatus
  <2>2. QED
    BY <1>5, <2>1 DEF SweepWrites, AgentTypes, CallTypes, RestTypes, agentVars, callVars
<1>6. CASE Tick
  <2>1. NodeTypes'
    BY <1>6 DEF Tick, NodeTypes
  <2>2. QED
    BY <1>6, <2>1 DEF Tick, AgentTypes, CallTypes, RestTypes, agentVars, callVars
<1>7. CASE UNCHANGED vars
  BY <1>7 DEF vars, NodeTypes, AgentTypes, CallTypes, RestTypes, rowVars, nodeVars, agentVars, callVars
<1>8. QED
  BY <1>1, <1>2, <1>3, <1>4, <1>5, <1>6, <1>7 DEF SweepStep

\* The registry, its agents and its handlers keep to their types, and a handler
\* that works on a node has one.
THEOREM TypeCorrect == Spec => []TypeOK
<1>1. Init => TypeOK
  BY RegistryBounds DEF Init, TypeOK, Calls
<1>2. TypeOK /\ [Next]_vars => TypeOK'
  BY AgentStepTypes, CallStepTypes, OtherStepTypes DEF Next
<1>3. QED
  BY <1>1, <1>2, PTL DEF Spec

--------------------------------------------------------------------------------
(* Identities                                                                 *)

\* Only a deletion unbinds a key, and what is deleted stays deleted: an agent
\* that is known remains so.
LEMMA KnownStays ==
    ASSUME TypeOK, NEW a \in Agents, Known(a),
           bound'[a] # NoNode
              \/ bound'[a] = bound[a]
              \/ (bound[a] # NoNode /\ registrar'[bound[a]] = a /\ row'[bound[a]] = "deleted"),
           \A n \in Nodes : row[n] = "deleted" => row'[n] = "deleted" /\ registrar'[n] = registrar[n]
    PROVE  Known(a)'
<1>1. CASE bound'[a] # NoNode
  BY <1>1 DEF Known
<1>2. CASE bound'[a] = NoNode /\ bound'[a] = bound[a]
  BY <1>2 DEF Known
<1>3. CASE bound[a] # NoNode /\ registrar'[bound[a]] = a /\ row'[bound[a]] = "deleted"
  <2>1. bound[a] \in Nodes
    BY <1>3 DEF TypeOK
  <2>2. QED
    BY <1>3, <2>1 DEF Known
<1>4. QED
  BY <1>1, <1>2, <1>3

\* A step that leaves the keys and the deletions alone: whoever runs, or is
\* answered or worked for after it, was known before.
LEMMA SameKeys ==
    ASSUME TypeOK, IdentityInv, UNCHANGED <<bound, registrar>>,
           \A n \in Nodes : /\ row[n] = "deleted" <=> row'[n] = "deleted"
                            /\ row[n] \in NodeStatus => row'[n] \in NodeStatus,
           \A a \in Agents : agent'[a] = "running" => Known(a),
           \A c \in Calls : at'[c] \in {"update", "find", "write", "ok"} => Known(c[1])
    PROVE  IdentityInv'
<1>1. BindingsSound'
  BY DEF IdentityInv, BindingsSound, TypeOK
<1>2. ASSUME NEW a \in Agents, Known(a) PROVE Known(a)'
  BY <1>2, KnownStays DEF Known
<1>3. \A c \in Calls : c[1] \in Agents
  BY DEF Calls
<1>4. QED
  BY <1>1, <1>2, <1>3 DEF IdentityInv

LEMMA AgentStepIdentity ==
    ASSUME TypeOK, IdentityInv, NEW a \in Agents,
           Boot(a) \/ AgentStep(a) \/ AutoSetup(a) \/ AgentDies(a)
    PROVE  IdentityInv'
<1>1. UNCHANGED rowVars
  BY DEF Boot, AgentStep, AutoSetup, AgentDies, SendRegister, SendBeat, Receive, TimesOut, GiveUp, Send
<1>2. ASSUME NEW b \in Agents, agent'[b] = "running" PROVE Known(b)
  <2>1. CASE agent[b] = "running"
    BY <2>1 DEF IdentityInv
  <2>2. CASE agent[b] # "running"
    <3>1. Receive(a) /\ b = a /\ at[<<a, waiting[a]>>] = "ok"
      BY <1>2, <2>2 DEF Boot, AgentStep, AutoSetup, AgentDies, SendRegister, SendBeat, Receive,
                        TimesOut, GiveUp, Send, TypeOK
    <3>2. <<a, waiting[a]>> \in Calls
      BY <3>1 DEF Receive, Calls, TypeOK
    <3>3. QED
      BY <3>1, <3>2 DEF IdentityInv
  <2>3. QED
    BY <2>1, <2>2
<1>3. ASSUME NEW c \in Calls, at'[c] \in {"update", "find", "write", "ok"} PROVE Known(c[1])
  <2>1. CASE Boot(a) \/ TimesOut(a) \/ GiveUp(a)
    BY <1>3, <2>1 DEF Boot, TimesOut, GiveUp, callVars, IdentityInv
  <2>2. CASE Receive(a) \/ AgentDies(a)
    <3>1. at'[c] = at[c]
      BY <1>3, <2>2 DEF Receive, AgentDies, TypeOK
    <3>2. QED
      BY <1>3, <3>1 DEF IdentityInv
  <2>3. CASE SendRegister(a) \/ SendBeat(a) \/ AutoSetup(a)
    <3>1. PICK i \in 1..MaxCalls : Send(a, i, "register") \/ Send(a, i, "beat")
      BY <2>3 DEF SendRegister, SendBeat, AutoSetup
    <3>2. at'[c] = at[c]
      BY <1>3, <3>1 DEF Send, TypeOK
    <3>3. QED
      BY <1>3, <3>2 DEF IdentityInv
  <2>4. QED
    BY <2>1, <2>2, <2>3 DEF AgentStep
<1>4. QED
  BY <1>1, <1>2, <1>3, SameKeys DEF rowVars, nodeVars

\* A handler that goes on, or answers well, works for a key that was bound.
LEMMA CallStepIdentity ==
    ASSUME TypeOK, IdentityInv, NEW c \in Calls, CallStep(c) \/ CallLost(c)
    PROVE  IdentityInv'
<1>0. c[1] \in Agents
  BY DEF Calls
<1>1. agent' = agent
  BY DEF CallStep, CallLost, Refuse, CreateBeyondBound, Create, Update, BeatUnbound, BeatMisses,
         RegisterReads, BeatReadsKey, BeatReadsNode, BeatWrites, Answer, Goto, agentVars
<1>2. \A d \in Calls : d # c => at'[d] = at[d]
  BY DEF CallStep, CallLost, Refuse, CreateBeyondBound, Create, Update, BeatUnbound, BeatMisses,
         RegisterReads, BeatReadsKey, BeatReadsNode, BeatWrites, Answer, Goto, TypeOK
<1>3. CASE \A n \in Nodes : ~Create(c, n)
  <2>1. UNCHANGED <<bound, registrar>>
    BY <1>3 DEF CallStep, CallLost, Refuse, CreateBeyondBound, Update, BeatUnbound, BeatMisses,
         RegisterReads, BeatReadsKey, BeatReadsNode, BeatWrites, rowVars, nodeVars
  <2>2. ASSUME NEW n \in Nodes
        PROVE  /\ row[n] = "deleted" <=> row'[n] = "deleted"
               /\ row[n] \in NodeStatus => row'[n] \in NodeStatus
    <3>1. CASE BeatWrites(c)
      BY <3>1 DEF BeatWrites, TypeOK, NodeStatus
    <3>2. CASE ~BeatWrites(c)
      <4>1. row' = row
        BY <1>3, <3>2 DEF CallStep, CallLost, Refuse, CreateBeyondBound, Update, BeatUnbound,
             BeatMisses, RegisterReads, BeatReadsKey, BeatReadsNode, rowVars, nodeVars
      <4>2. QED
        BY <4>1
    <3>3. QED
      BY <3>1, <3>2
  <2>3. at'[c] \in {"update", "find", "write", "ok"} => Known(c[1])
    <3>1. CASE at[c] \in {"update", "find", "write"}
      BY <3>1 DEF IdentityInv
    <3>2. CASE at[c] \notin {"update", "find", "write"}
      <4>1. at'[c] \in {"update", "find", "write", "ok"} => bound[c[1]] # NoNode
        BY <1>3, <3>2 DEF CallStep, CallLost, Refuse, CreateBeyondBound, Update, BeatUnbound,
             BeatMisses, RegisterReads, BeatReadsKey, BeatReadsNode, BeatWrites, Answer, Goto, TypeOK
      <4>2. QED
        BY <4>1 DEF Known
    <3>3. QED
      BY <3>1, <3>2
  <2>4. QED
    BY <1>1, <1>2, <2>1, <2>2, <2>3, SameKeys DEF IdentityInv
<1>4. ASSUME NEW n \in Nodes, Create(c, n) PROVE IdentityInv'
  <2>1. /\ row[n] = "none" /\ row' = [row EXCEPT ![n] = "registered"]
        /\ registrar' = [registrar EXCEPT ![n] = c[1]] /\ bound' = [bound EXCEPT ![c[1]] = n]
    BY <1>4 DEF Create
  <2>2. ASSUME NEW a \in Agents, bound'[a] # NoNode
        PROVE  row'[bound'[a]] \in NodeStatus /\ registrar'[bound'[a]] = a
    <3>1. CASE a = c[1]
      BY <2>1, <3>1 DEF TypeOK, NodeStatus
    <3>2. CASE a # c[1]
      <4>1. bound'[a] = bound[a] /\ bound[a] \in Nodes /\ row[bound[a]] \in NodeStatus
        BY <2>1, <2>2, <3>2 DEF TypeOK, IdentityInv, BindingsSound
      <4>2. bound[a] # n
        BY <2>1, <4>1 DEF NodeStatus
      <4>3. QED
        BY <2>1, <2>2, <4>1, <4>2 DEF TypeOK, IdentityInv, BindingsSound
    <3>3. QED
      BY <3>1, <3>2
  <2>3. ASSUME NEW a \in Agents, Known(a) \/ a = c[1] PROVE Known(a)'
    <3>1. CASE a = c[1]
      BY <2>1, <3>1, RegistryNone DEF Known, TypeOK
    <3>2. CASE a # c[1]
      <4>1. bound'[a] = bound[a]
        BY <2>1, <3>2 DEF TypeOK
      <4>2. \A m \in Nodes : row[m] = "deleted" => row'[m] = "deleted" /\ registrar'[m] = registrar[m]
        BY <2>1 DEF TypeOK
      <4>3. QED
        BY <2>3, <3>2, <4>1, <4>2, KnownStays DEF Known
    <3>3. QED
      BY <3>1, <3>2
  <2>4. ASSUME NEW d \in Calls, at'[d] \in {"update", "find", "write", "ok"} PROVE Known(d[1])'
    <3>1. d[1] \in Agents
      BY DEF Calls
    <3>2. QED
      BY <1>2, <2>3, <2>4, <3>1 DEF IdentityInv
  <2>5. QED
    BY <1>1, <2>2, <2>3, <2>4 DEF IdentityInv, BindingsSound
<1>5. QED
  BY <1>3, <1>4

\* A deletion unbinds the keys of the node, which their agents registered.
LEMMA DeleteIdentity ==
    ASSUME TypeOK, IdentityInv, NEW n \in Nodes, DeleteNode(n)
    PROVE  IdentityInv'
<1>1. /\ row' = [row EXCEPT ![n] = "deleted"] /\ registrar' = registrar
      /\ bound' = [a \in Agents |-> IF bound[a] = n THEN NoNode ELSE bound[a]]
      /\ UNCHANGED <<agent, at>>
  BY DEF DeleteNode, agentVars, callVars
<1>2. ASSUME NEW a \in Agents, bound'[a] # NoNode
      PROVE  row'[bound'[a]] \in NodeStatus /\ registrar'[bound'[a]] = a
  <2>1. bound'[a] = bound[a] /\ bound[a] # n /\ bound[a] \in Nodes
    BY <1>1, <1>2 DEF TypeOK
  <2>2. QED
    BY <1>1, <1>2, <2>1 DEF TypeOK, IdentityInv, BindingsSound
<1>3. ASSUME NEW a \in Agents, Known(a) PROVE Known(a)'
  <2>1. \A m \in Nodes : row[m] = "deleted" => row'[m] = "deleted" /\ registrar'[m] = registrar[m]
    BY <1>1 DEF TypeOK
  <2>2. \/ bound'[a] = bound[a]
        \/ bound[a] # NoNode /\ registrar'[bound[a]] = a /\ row'[bound[a]] = "deleted"
    BY <1>1, RegistryNone DEF TypeOK, IdentityInv, BindingsSound
  <2>3. QED
    BY <1>3, <2>1, <2>2, KnownStays DEF Known
<1>4. \A c \in Calls : c[1] \in Agents
  BY DEF Calls
<1>5. QED
  BY <1>1, <1>2, <1>3, <1>4 DEF IdentityInv, BindingsSound

LEMMA OtherStepIdentity ==
    ASSUME TypeOK, IdentityInv,
           \/ \E a \in Agents : Revoke(a)
           \/ \E s \in Sweepers : SweepStep(s) \/ SweepFails(s)
           \/ Tick
           \/ UNCHANGED vars
    PROVE  IdentityInv'
<1>1. UNCHANGED <<bound, registrar, agent, at>>
  BY DEF Revoke, SweepStep, SweepReads, SweepWrites, SweepFails, Tick, vars, rowVars, nodeVars,
         agentVars, callVars
<1>2. ASSUME NEW n \in Nodes
      PROVE  /\ row[n] = "deleted" <=> row'[n] = "deleted"
             /\ row[n] \in NodeStatus => row'[n] \in NodeStatus
  BY DEF Revoke, SweepStep, SweepReads, SweepWrites, SweepFails, Tick, vars, rowVars, nodeVars,
         TypeOK, NodeStatus
<1>3. QED
  BY <1>1, <1>2, SameKeys DEF IdentityInv

\* Bindings and what the agents believe are preserved by every step.
THEOREM IdentityInvariant == Spec => []IdentityInv
<1>1. Init => IdentityInv
  BY DEF Init, IdentityInv, BindingsSound
<1>2. TypeOK /\ IdentityInv /\ [Next]_vars => IdentityInv'
  BY AgentStepIdentity, CallStepIdentity, DeleteIdentity, OtherStepIdentity DEF Next
<1>3. QED
  BY <1>1, <1>2, TypeCorrect, PTL DEF Spec

\* No lost answer, late call, retry, deletion, revocation or sweep makes the
\* registry name the wrong node for a key, or leaves an agent that believes to be
\* registered reporting to nobody.
THEOREM IdentitySafety == Spec => []IdentitySound
<1>1. TypeOK /\ IdentityInv => IdentitySound
  BY DEF IdentityInv, IdentitySound, RunningIsBound, Known
<1>2. QED
  BY <1>1, TypeCorrect, IdentityInvariant, PTL
================================================================================
