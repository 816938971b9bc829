------------------------------ MODULE NodeRegistry ------------------------------
(***************************************************************************)
(* The node registry: services/node.py, the register, heartbeat and delete *)
(* handlers of api/v1/nodes.py and the offline sweeper of main.py          *)
(* (ADR-011, ADR-028), with the agents that call them: the registration    *)
(* and heartbeat loops of lycosa_agent/main.py.                            *)
(*                                                                         *)
(* An agent has one API key and goes by its name.  Its HTTP client gives   *)
(* up after 15 seconds while the controller goes on serving the call, so   *)
(* calls of one agent overlap; a handler reads the key when it             *)
(* authenticates the call and does not read it again.  An administrator    *)
(* may revoke the key.                                                     *)
(***************************************************************************)
EXTENDS Naturals

CONSTANTS
    Agents,
    Nodes,      \* bound: rows ever inserted into the nodes table
    Sweepers,
    NoAgent, NoNode,
    Timeout,    \* settings.heartbeat_timeout_seconds, in ticks
    MaxTries,   \* length of _REGISTER_BACKOFF_SECONDS plus one
    MaxCalls,   \* bound: calls of one agent that are in progress
    MaxFaults   \* bound: crashes, lost calls, failed sweeps, deletions, revocations

ASSUME RegistryNone == NoAgent \notin Agents /\ NoNode \notin Nodes
ASSUME RegistryBounds ==
    Timeout \in Nat /\ MaxTries \in Nat \ {0} /\ MaxCalls \in Nat \ {0} /\ MaxFaults \in Nat

Calls == Agents \X (1..MaxCalls)

VARIABLES
    row,        \* Node.status; "none" before the insert, "deleted" afterwards
    age,        \* ticks since last_heartbeat_at of an online node
    registrar,  \* the key in the node's node.register audit row
    bound,      \* ApiKey.node_id
    revoked,    \* keys with ApiKey.revoked_at, or past expires_at
    agent,      \* the agent process
    tries,      \* registration attempts it has made
    waiting,    \* the call it awaits, 0 for none
    setup,      \* whether _auto_configure_model may still register again
    at,         \* where the controller's handler of a call is
    target,     \* the node the handler works on
    saw,        \* the status of that node as the handler read it
    todo,       \* the nodes a sweep is about to flip
    faults      \* faults so far

nodeVars  == <<row, age, registrar>>
rowVars   == <<nodeVars, bound, revoked>>
agentVars == <<agent, tries, waiting, setup>>
callVars  == <<at, target, saw>>
vars == <<rowVars, agentVars, callVars, todo, faults>>

NodeStatus == {"registered", "online", "offline"}
Serving == {"register", "create", "update", "beat", "find", "write"}
Answered == {"ok", "error", "refused"}

TypeOK ==
    /\ row \in [Nodes -> NodeStatus \cup {"none", "deleted"}]
    /\ age \in [Nodes -> 0..Timeout + 1]
    /\ registrar \in [Nodes -> Agents \cup {NoAgent}]
    /\ bound \in [Agents -> Nodes \cup {NoNode}]
    /\ revoked \in SUBSET Agents
    /\ agent \in [Agents -> {"down", "registering", "running"}]
    /\ tries \in [Agents -> 0..MaxTries]
    /\ waiting \in [Agents -> 0..MaxCalls]
    /\ setup \in [Agents -> BOOLEAN]
    /\ at \in [Calls -> {"idle"} \cup Serving \cup Answered]
    /\ target \in [Calls -> Nodes \cup {NoNode}]
    /\ \A c \in Calls : at[c] \in {"update", "find", "write"} => target[c] # NoNode
    /\ saw \in [Calls -> NodeStatus \cup {"none"}]
    /\ todo \in [Sweepers -> SUBSET Nodes]
    /\ faults \in 0..MaxFaults

Init ==
    /\ row = [n \in Nodes |-> "none"]
    /\ age = [n \in Nodes |-> 0]
    /\ registrar = [n \in Nodes |-> NoAgent]
    /\ bound = [a \in Agents |-> NoNode]
    /\ revoked = {}
    /\ agent = [a \in Agents |-> "down"]
    /\ tries = [a \in Agents |-> 0]
    /\ waiting = [a \in Agents |-> 0]
    /\ setup = [a \in Agents |-> FALSE]
    /\ at = [c \in Calls |-> "idle"]
    /\ target = [c \in Calls |-> NoNode]
    /\ saw = [c \in Calls |-> "none"]
    /\ todo = [s \in Sweepers |-> {}]
    /\ faults = 0

Fault == faults < MaxFaults /\ faults' = faults + 1

--------------------------------------------------------------------------------
(* The agent                                                                  *)

Boot(a) ==
    /\ agent[a] = "down"
    /\ agent' = [agent EXCEPT ![a] = "registering"]
    /\ tries' = [tries EXCEPT ![a] = 0]
    /\ setup' = [setup EXCEPT ![a] = TRUE]
    /\ UNCHANGED <<rowVars, waiting, callVars, todo, faults>>

Send(a, i, request) ==
    /\ at[<<a, i>>] = "idle" /\ waiting[a] # i
    /\ at' = [at EXCEPT ![<<a, i>>] = request]
    /\ UNCHANGED <<rowVars, agent, target, saw, todo, faults>>

\* The for loop of _register_with_retry, back-off included.
SendRegister(a) ==
    /\ agent[a] = "registering" /\ waiting[a] = 0 /\ tries[a] < MaxTries
    /\ tries' = [tries EXCEPT ![a] = @ + 1]
    /\ \E i \in 1..MaxCalls : waiting' = [waiting EXCEPT ![a] = i] /\ Send(a, i, "register")
    /\ UNCHANGED setup

SendBeat(a) ==
    /\ agent[a] = "running" /\ waiting[a] = 0
    /\ \E i \in 1..MaxCalls : waiting' = [waiting EXCEPT ![a] = i] /\ Send(a, i, "beat")
    /\ UNCHANGED <<tries, setup>>

\* Alongside the heartbeats: a model was pulled, the profile is reported anew.
AutoSetup(a) ==
    /\ agent[a] = "running" /\ setup[a]
    /\ setup' = [setup EXCEPT ![a] = FALSE]
    /\ \E i \in 1..MaxCalls : Send(a, i, "register")
    /\ UNCHANGED <<tries, waiting>>

\* An answer, good or bad.  A heartbeat that fails is only logged; a
\* registration that is refused is not tried again, and the agent ends.
Receive(a) ==
    /\ waiting[a] # 0 /\ at[<<a, waiting[a]>>] \in Answered
    /\ LET answer == at[<<a, waiting[a]>>]
       IN  agent' = [agent EXCEPT ![a] =
               IF answer = "ok" THEN "running"
               ELSE IF answer = "refused" /\ @ = "registering" THEN "down" ELSE @]
    /\ tries' = [tries EXCEPT ![a] = IF agent'[a] = "registering" THEN @ ELSE 0]
    /\ setup' = [setup EXCEPT ![a] = @ /\ agent'[a] # "down"]
    /\ at' = [at EXCEPT ![<<a, waiting[a]>>] = "idle"]
    /\ waiting' = [waiting EXCEPT ![a] = 0]
    /\ UNCHANGED <<rowVars, target, saw, todo, faults>>

\* The client gives up waiting; the controller does not notice.
TimesOut(a) ==
    /\ waiting[a] # 0 /\ at[<<a, waiting[a]>>] \notin Answered
    /\ waiting' = [waiting EXCEPT ![a] = 0]
    /\ UNCHANGED <<rowVars, agent, tries, setup, callVars, todo, faults>>

\* "could not register with controller; giving up"
GiveUp(a) ==
    /\ agent[a] = "registering" /\ waiting[a] = 0 /\ tries[a] = MaxTries
    /\ agent' = [agent EXCEPT ![a] = "down"]
    /\ tries' = [tries EXCEPT ![a] = 0]
    /\ setup' = [setup EXCEPT ![a] = FALSE]
    /\ UNCHANGED <<rowVars, waiting, callVars, todo, faults>>

AgentDies(a) ==
    /\ agent[a] # "down" /\ Fault
    /\ agent' = [agent EXCEPT ![a] = "down"]
    /\ tries' = [tries EXCEPT ![a] = 0]
    /\ waiting' = [waiting EXCEPT ![a] = 0]
    /\ setup' = [setup EXCEPT ![a] = FALSE]
    /\ at' = [c \in Calls |-> IF c[1] = a /\ at[c] \in Answered THEN "idle" ELSE at[c]]
    /\ UNCHANGED <<rowVars, target, saw, todo>>

--------------------------------------------------------------------------------
(* The controller's handlers                                                  *)

Goto(c, place) ==
    /\ at' = [at EXCEPT ![c] = place]
    /\ UNCHANGED <<agentVars, todo, faults>>

\* The handler is done; whoever still waits gets the answer.
Answer(c, result) ==
    /\ Goto(c, IF waiting[c[1]] = c[2] THEN result ELSE "idle")
    /\ target' = [target EXCEPT ![c] = NoNode]
    /\ saw' = [saw EXCEPT ![c] = "none"]

\* resolve_api_key: 401.
Refuse(c) ==
    /\ at[c] \in {"register", "beat"} /\ c[1] \in revoked
    /\ Answer(c, "refused")
    /\ UNCHANGED rowVars

\* The key is valid when it is loaded; register_node finds it in the session again.
RegisterReads(c) ==
    /\ at[c] = "register" /\ c[1] \notin revoked
    /\ Goto(c, IF bound[c[1]] = NoNode THEN "create" ELSE "update")
    /\ target' = [target EXCEPT ![c] = bound[c[1]]]
    /\ UNCHANGED <<rowVars, saw>>

\* The key was unbound when it was read: insert a node and bind the key to it.
Create(c, n) ==
    /\ at[c] = "create" /\ row[n] = "none"
    /\ row' = [row EXCEPT ![n] = "registered"]
    /\ registrar' = [registrar EXCEPT ![n] = c[1]]
    /\ bound' = [bound EXCEPT ![c[1]] = n]
    /\ Answer(c, "ok")
    /\ UNCHANGED <<age, revoked>>

\* Nodes is a bound: an insert beyond it fails.
CreateBeyondBound(c) ==
    /\ at[c] = "create" /\ \A n \in Nodes : row[n] # "none"
    /\ Answer(c, "error")
    /\ UNCHANGED rowVars

\* Re-registration rewrites the profile and leaves the status alone; the node
\* may have been deleted since the key was read.
Update(c) ==
    /\ at[c] = "update"
    /\ Answer(c, IF row[target[c]] = "deleted" THEN "error" ELSE "ok")
    /\ UNCHANGED rowVars

\* 409: this key is not bound to a node.
BeatUnbound(c) ==
    /\ at[c] = "beat" /\ c[1] \notin revoked /\ bound[c[1]] = NoNode
    /\ Answer(c, "error")
    /\ UNCHANGED rowVars

BeatReadsKey(c) ==
    /\ at[c] = "beat" /\ c[1] \notin revoked /\ bound[c[1]] # NoNode
    /\ Goto(c, "find")
    /\ target' = [target EXCEPT ![c] = bound[c[1]]]
    /\ UNCHANGED <<rowVars, saw>>

BeatReadsNode(c) ==
    /\ at[c] = "find" /\ row[target[c]] \in NodeStatus
    /\ Goto(c, "write")
    /\ saw' = [saw EXCEPT ![c] = row[target[c]]]
    /\ UNCHANGED <<rowVars, target>>

\* Mutant of BeatWrites: only a node that has never reported comes online.
BeatWritesFirst(c) ==
    /\ at[c] = "write" /\ row[target[c]] # "deleted"
    /\ row' = [row EXCEPT ![target[c]] = IF saw[c] = "registered" THEN "online" ELSE @]
    /\ age' = [age EXCEPT ![target[c]] = 0]
    /\ Answer(c, "ok")
    /\ UNCHANGED <<registrar, bound, revoked>>

\* record_heartbeat.  The status is part of the UPDATE only if it changes what
\* the handler read: a sweep in between is not undone.
BeatWrites(c) ==
    /\ at[c] = "write" /\ row[target[c]] # "deleted"
    /\ row' = [row EXCEPT ![target[c]] = IF saw[c] # "online" THEN "online" ELSE @]
    /\ age' = [age EXCEPT ![target[c]] = 0]
    /\ Answer(c, "ok")
    /\ UNCHANGED <<registrar, bound, revoked>>

\* 404, or StaleDataError at the commit.
BeatMisses(c) ==
    /\ at[c] \in {"find", "write"} /\ row[target[c]] = "deleted"
    /\ Answer(c, "error")
    /\ UNCHANGED rowVars

\* The call does not arrive, its worker dies, or its transaction fails.
CallLost(c) ==
    /\ at[c] \in Serving /\ Fault
    /\ at' = [at EXCEPT ![c] = "idle"]
    /\ target' = [target EXCEPT ![c] = NoNode]
    /\ saw' = [saw EXCEPT ![c] = "none"]
    /\ UNCHANGED <<rowVars, agentVars, todo>>

\* Mutant of DeleteNode: the keys stay bound to the deleted node.
DeleteStaysBound(n) ==
    /\ row[n] \in NodeStatus /\ Fault
    /\ row' = [row EXCEPT ![n] = "deleted"]
    /\ age' = [age EXCEPT ![n] = 0]
    /\ UNCHANGED <<registrar, bound, revoked, agentVars, callVars, todo>>

\* delete_node unbinds the node's keys in the same transaction.
DeleteNode(n) ==
    /\ row[n] \in NodeStatus /\ Fault
    /\ row' = [row EXCEPT ![n] = "deleted"]
    /\ age' = [age EXCEPT ![n] = 0]
    /\ bound' = [a \in Agents |-> IF bound[a] = n THEN NoNode ELSE bound[a]]
    /\ UNCHANGED <<registrar, revoked, agentVars, callVars, todo>>

\* revoke_api_key.  A call that has loaded the key goes on with it, and the node
\* stays bound.
Revoke(a) ==
    /\ a \notin revoked /\ Fault
    /\ revoked' = revoked \cup {a}
    /\ UNCHANGED <<nodeVars, bound, agentVars, callVars, todo>>

--------------------------------------------------------------------------------
(* The offline sweeper, and time                                              *)

Silent(n) == row[n] = "online" /\ age[n] > Timeout

\* All online nodes are loaded; the silent ones will be flipped.
SweepReads(s) ==
    /\ todo[s] = {}
    /\ \E n \in Nodes : Silent(n)
    /\ todo' = [todo EXCEPT ![s] = {n \in Nodes : Silent(n)}]
    /\ UNCHANGED <<rowVars, agentVars, callVars, faults>>

\* One commit by primary key, whatever the nodes' heartbeats say by now; a node
\* deleted since the read fails it for all of them.
SweepWrites(s) ==
    /\ todo[s] # {}
    /\ IF \E n \in todo[s] : row[n] = "deleted"
       THEN UNCHANGED <<row, age>>
       ELSE /\ row' = [n \in Nodes |-> IF n \in todo[s] THEN "offline" ELSE row[n]]
            /\ age' = [n \in Nodes |-> IF n \in todo[s] THEN 0 ELSE age[n]]
    /\ todo' = [todo EXCEPT ![s] = {}]
    /\ UNCHANGED <<registrar, bound, revoked, agentVars, callVars, faults>>

\* A sweep that raises is logged and retried at the next interval.
SweepFails(s) ==
    /\ todo[s] # {} /\ Fault
    /\ todo' = [todo EXCEPT ![s] = {}]
    /\ UNCHANGED <<rowVars, agentVars, callVars>>

Tick ==
    /\ \E n \in Nodes : row[n] = "online" /\ age[n] <= Timeout
    /\ age' = [n \in Nodes |->
                  IF row[n] = "online" /\ age[n] <= Timeout THEN age[n] + 1 ELSE age[n]]
    /\ UNCHANGED <<row, registrar, bound, revoked, agentVars, callVars, todo, faults>>

--------------------------------------------------------------------------------

AgentStep(a) ==
    SendRegister(a) \/ SendBeat(a) \/ Receive(a) \/ TimesOut(a) \/ GiveUp(a)

CallStep(c) ==
    \/ Refuse(c) \/ RegisterReads(c) \/ Update(c)
    \/ CreateBeyondBound(c) \/ \E n \in Nodes : Create(c, n)
    \/ BeatUnbound(c) \/ BeatReadsKey(c) \/ BeatReadsNode(c) \/ BeatWrites(c) \/ BeatMisses(c)

SweepStep(s) == SweepReads(s) \/ SweepWrites(s)

Next ==
    \/ \E a \in Agents : Boot(a) \/ AgentStep(a) \/ AutoSetup(a) \/ AgentDies(a) \/ Revoke(a)
    \/ \E c \in Calls : CallStep(c) \/ CallLost(c)
    \/ \E n \in Nodes : DeleteNode(n)
    \/ \E s \in Sweepers : SweepStep(s) \/ SweepFails(s)
    \/ Tick

\* The agent's loops run and its client has a timeout, the controller serves what
\* it received, some leader sweeps.  Nobody has to start an agent.
Fairness ==
    /\ WF_vars(Tick)
    /\ \A a \in Agents : WF_vars(AgentStep(a))
    /\ \A c \in Calls : WF_vars(CallStep(c))
    /\ \A s \in Sweepers : WF_vars(SweepStep(s))

Spec == Init /\ [][Next]_vars

FairSpec == Spec /\ Fairness

--------------------------------------------------------------------------------
(* Properties                                                                 *)

\* A key is bound to a node that exists and that this key registered, whatever
\* registrations and deletions overlap: heartbeats never reach another's node.
BindingsSound ==
    \A a \in Agents : bound[a] # NoNode =>
        row[bound[a]] \in NodeStatus /\ registrar[bound[a]] = a

\* An agent that believes it is registered has a bound key, unless a node of its
\* own was deleted: no lost answer, retry or late call leaves it reporting to
\* nobody (_heartbeat_loop never registers again).
RunningIsBound ==
    \A a \in Agents : agent[a] = "running" /\ bound[a] = NoNode =>
        \E n \in Nodes : registrar[n] = a /\ row[n] = "deleted"

\* The registry names, for every key that is in use, the node that reports with it.
IdentitySound == TypeOK /\ BindingsSound /\ RunningIsBound

\* A node that keeps reporting is schedulable: sweeps that read before a
\* heartbeat and write after it, and heartbeats that do not undo them, cost it
\* no more than an interval.
ReportingComesBack ==
    \A a \in Agents :
        <>[](agent[a] = "running" /\ bound[a] # NoNode /\ a \notin revoked)
            => []<>(bound[a] # NoNode /\ row[bound[a]] = "online")

\* A node nobody may report for does not stay online: not after its agent died,
\* nor when its key was bound to another node or revoked while heartbeats were
\* under way (admin.py:221 "Revocation also severs a bound node's access"), nor
\* when sweeps failed on others.
SilentIsSwept ==
    \A n \in Nodes :
        <>[](\A a \in Agents : bound[a] = n => agent[a] = "down" \/ a \in revoked)
            => <>[](row[n] # "online")

\* The status the scheduler reads follows what the agents do, in both directions.
StatusConverges == ReportingComesBack /\ SilentIsSwept

--------------------------------------------------------------------------------
(* An inductive invariant of the identities                                   *)

\* The key of the agent has been bound, and only a deletion can have unbound it.
Known(a) ==
    bound[a] # NoNode \/ \E n \in Nodes : registrar[n] = a /\ row[n] = "deleted"

\* Whoever believes to be registered is known: the agent that runs, the answer
\* it will get, and the handler that works on a node that it read in the key.
IdentityInv ==
    /\ BindingsSound
    /\ \A a \in Agents : agent[a] = "running" => Known(a)
    /\ \A c \in Calls : at[c] \in {"update", "find", "write", "ok"} => Known(c[1])

--------------------------------------------------------------------------------
(* A promise that overlapping registrations break                             *)

\* "One key = one node identity": a key has registered no two nodes that exist.
OneKeyOneNode ==
    \A m, n \in Nodes :
        {row[m], row[n]} \subseteq NodeStatus /\ registrar[m] = registrar[n] => m = n
================================================================================
