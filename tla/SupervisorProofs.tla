---------------------------- MODULE SupervisorProofs ----------------------------
(***************************************************************************)
(* Proofs about Supervisor.  For any number of apps on one data folder,    *)
(* only the app that has the lock runs a store or PostgreSQL on it, and    *)
(* whatever a running app started has its monitor; an app that is alone on *)
(* the folder is looked after: watched, and written down in pids.json.     *)
(***************************************************************************)
EXTENDS Supervisor, WellFoundedInduction, SequenceTheorems, TLAPS

--------------------------------------------------------------------------------
(* The part of the state the lock is about                                    *)

Shape ==
    /\ lock \in Apps \cup {NoApp}
    /\ phase \in [Apps -> {"closed", "off", "starting", "running", "stopping", "error"}]
    /\ procs \in [Apps -> [Services -> Nat]]
    /\ started \in [Apps -> BOOLEAN]
    /\ op \in [Apps -> Commands \cup {"none", "recover"}]
    /\ at \in [Apps -> {"none", "lock", "clean", "drain", "postgres", "spawn", "ready", "up",
                        "stopping", "dump"}]
    /\ svc \in [Apps -> Services]

\* OwnerInv of one app.
Owns(a) ==
    /\ started[a] => lock = a
    /\ \A s \in Stores : procs[a][s] # NoPid => lock = a
    /\ phase[a] = "running" => lock = a
    /\ at[a] \in {"clean", "drain", "postgres", "up"} => lock = a
    /\ at[a] \in {"spawn", "ready"} /\ op[a] # "node on" => lock = a
    /\ op[a] = "node on" => at[a] \in {"spawn", "ready"} /\ svc[a] = "agent"

\* A step of one app that leaves the others, and the lock of another, alone.
Alone(a) ==
    \A b \in Apps \ {a} :
        /\ phase'[b] = phase[b] /\ procs'[b] = procs[b] /\ started'[b] = started[b]
        /\ op'[b] = op[b] /\ at'[b] = at[b] /\ svc'[b] = svc[b]
        /\ lock = b => lock' = b

LEMMA OwnerParts ==
    /\ OwnerInv => \A a \in Apps : Owns(a)
    /\ (\A a \in Apps : Owns(a)') => OwnerInv'
  BY DEF OwnerInv, OneOwner, Owns

LEMMA AloneKeeps ==
    ASSUME OwnerInv, NEW a \in Apps, Owns(a)', Alone(a)
    PROVE  OwnerInv'
<1>1. ASSUME NEW b \in Apps PROVE Owns(b)'
  <2>1. CASE b # a
    BY <2>1, OwnerParts DEF Owns, Alone
  <2>2. QED
    BY <2>1
<1>2. QED
  BY <1>1, OwnerParts

\* What holds of an app does not depend on the variables left out of Shape.
LEMMA SameShape ==
    ASSUME Shape, OwnerInv, UNCHANGED <<lock, phase, procs, started, op, at, svc>>
    PROVE  Shape' /\ OwnerInv'
<1>1. Shape'
  BY DEF Shape
<1>2. ASSUME NEW a \in Apps PROVE Owns(a)'
  BY OwnerParts DEF Owns
<1>3. QED
  BY <1>1, <1>2, OwnerParts

\* Where the operations are after one of them has moved, or come to its end.
Positions(a, command, place, service) ==
    /\ op'[a] = command /\ at'[a] = place /\ svc'[a] = service
    /\ op' \in [Apps -> Commands \cup {"none", "recover"}]
    /\ at' \in [Apps -> {"none", "lock", "clean", "drain", "postgres", "spawn", "ready", "up",
                         "stopping", "dump"}]
    /\ svc' \in [Apps -> Services]
    /\ \A b \in Apps \ {a} : op'[b] = op[b] /\ at'[b] = at[b] /\ svc'[b] = svc[b]

LEMMA Released == ASSUME Shape, NEW a \in Apps, LetGo(a) PROVE Positions(a, "none", "none", "qdrant")
  BY DEF LetGo, Shape, Positions, Services

LEMMA Moved ==
    ASSUME Shape, NEW a \in Apps,
           NEW place \in {"lock", "postgres", "spawn", "ready", "up", "stopping"},
           at' = [at EXCEPT ![a] = place], op' = op,
           NEW s \in Services, svc' = [svc EXCEPT ![a] = s]
    PROVE  Positions(a, op[a], place, s)
  BY DEF Shape, Positions

LEMMA Begun ==
    ASSUME Shape, NEW a \in Apps, NEW c \in Commands, NEW place \in {"lock", "stopping", "dump"},
           Begin(a, c, place), svc' = svc
    PROVE  Positions(a, c, place, svc[a])
  BY DEF Begin, Shape, Positions

\* One entry of one app is replaced.
LEMMA EntryStep ==
    ASSUME Shape, NEW a \in Apps, NEW s \in Services, NEW pid \in Nat,
           procs' = [procs EXCEPT ![a][s] = pid]
    PROVE  /\ procs' \in [Apps -> [Services -> Nat]]
           /\ procs'[a][s] = pid
           /\ \A t \in Services \ {s} : procs'[a][t] = procs[a][t]
           /\ \A b \in Apps \ {a} : procs'[b] = procs[b]
  BY DEF Shape

\* The least process that is free exists.
LEMMA Least == ASSUME NEW T, T \subseteq Nat, T # {} PROVE \E x \in T : \A y \in T : x <= y
<1> DEFINE R == {ss \in Nat \X Nat : ss[1] < ss[2]}
<1>1. IsWellFoundedOn(R, Nat)
  BY NatLessThanWellFounded DEF OpToRel
<1>2. PICK x \in T : \A y \in T : <<y, x>> \notin R
  <2> HIDE DEF R
  <2> QED
    BY <1>1, WFMin
<1>3. ASSUME NEW y \in T PROVE x <= y
  <2>1. x \in Nat /\ y \in Nat /\ <<y, x>> \in Nat \X Nat
    OBVIOUS
  <2>2. ~(y < x)
    BY <1>2, <2>1
  <2>3. QED
    BY <2>1, <2>2
<1>4. QED
  BY <1>3

--------------------------------------------------------------------------------
(* Commands                                                                   *)

LEMMA AskStep ==
    ASSUME Shape, OwnerInv, NEW a \in Apps,
           Open(a) \/ AskPlain(a) \/ AskStop(a) \/ SetLocalNode(a) \/ Check(a)
              \/ \E s \in Services \cup {"postgres"} : Forgets(a, s)
    PROVE  Shape' /\ OwnerInv'
<1>0. Owns(a)
  BY OwnerParts
<1>1. CASE Open(a)
  <2>1. Shape'
    BY <1>1 DEF Open, Shape, folderVars, liveVars, opVars
  <2>2. Owns(a)'
    BY <1>0, <1>1 DEF Open, Shape, Owns, folderVars, liveVars, opVars
  <2>3. Alone(a)
    BY <1>1 DEF Open, Shape, Alone, folderVars, liveVars, opVars
  <2>4. QED
    BY <2>1, <2>2, <2>3, AloneKeeps
<1>2. CASE AskStop(a)
  <2>1. UNCHANGED <<lock, phase, procs, started>>
    BY <1>2 DEF AskStop, folderVars, liveVars
  <2>2. CASE UNCHANGED <<op, at, svc>>
    BY <2>1, <2>2, SameShape
  <2>3. CASE Positions(a, "none", "none", "qdrant")
    <3>1. Shape'
      BY <2>1, <2>3 DEF Shape, Positions
    <3>2. Owns(a)' /\ Alone(a)
      BY <1>0, <2>1, <2>3 DEF Owns, Alone, Positions
    <3>3. QED
      BY <3>1, <3>2, AloneKeeps
  <2>4. QED
    BY <1>2, <2>2, <2>3, Released DEF AskStop
<1>3. CASE CheckProcesses(a)
  <2>1. Shape'
    BY <1>3 DEF CheckProcesses, Shape, folderVars, NoPid
  <2>2. Owns(a)'
    BY <1>0, <1>3 DEF CheckProcesses, Shape, Owns, folderVars, Stores, Services
  <2>3. Alone(a)
    BY <1>3 DEF CheckProcesses, Shape, Alone, folderVars, Services
  <2>4. QED
    BY <2>1, <2>2, <2>3, AloneKeeps
<1>4. CASE AskPlain(a) \/ SetLocalNode(a) \/ CheckPostgres(a)
              \/ \E s \in Services \cup {"postgres"} : Forgets(a, s)
  BY <1>4, SameShape DEF AskPlain, SetLocalNode, CheckPostgres, Forgets, folderVars, liveVars, opVars
<1>5. QED
  BY <1>1, <1>2, <1>3, <1>4 DEF Check

LEMMA BeginStep ==
    ASSUME Shape, OwnerInv, NEW a \in Apps, OpBegins(a)
    PROVE  Shape' /\ OwnerInv'
<1>0. Owns(a)
  BY OwnerParts
<1>1. CASE ReturnsAtOnce(a) \/ RestartsFromOff(a) \/ NothingToRecover(a)
  BY <1>1, SameShape DEF ReturnsAtOnce, RestartsFromOff, NothingToRecover, folderVars, liveVars
<1>2. CASE StartBegins(a) \/ StopBegins(a)
  <2>1. PICK c \in Commands, place \in {"lock", "stopping"}, now \in {"starting", "stopping"} :
          /\ Begin(a, c, place) /\ c # "node on" /\ phase' = [phase EXCEPT ![a] = now]
          /\ UNCHANGED <<lock, procs, started, svc>>
    <3>1. CASE StartBegins(a)
      BY <3>1 DEF StartBegins, folderVars, liveVars, Commands
    <3>2. CASE StopBegins(a)
      BY <3>2 DEF StopBegins, folderVars, liveVars, Commands
    <3>3. QED
      BY <1>2, <3>1, <3>2
  <2>2. Positions(a, c, place, svc[a])
    BY <2>1, Begun
  <2>3. /\ phase'[a] = now /\ \A b \in Apps \ {a} : phase'[b] = phase[b]
        /\ phase' \in [Apps -> {"closed", "off", "starting", "running", "stopping", "error"}]
    BY <2>1 DEF Shape
  <2>4. Shape'
    BY <2>1, <2>2, <2>3 DEF Shape, Positions
  <2>5. Owns(a)' /\ Alone(a)
    BY <1>0, <2>1, <2>2, <2>3 DEF Owns, Alone, Positions
  <2>6. QED
    BY <2>4, <2>5, AloneKeeps
<1>3. CASE NodeOn(a) \/ Backup(a)
  <2>1. Shape'
    BY <1>3 DEF NodeOn, Backup, Begin, Shape, folderVars, liveVars, Commands, Services
  <2>2. Owns(a)'
    BY <1>0, <1>3 DEF NodeOn, Backup, Begin, Shape, Owns, folderVars, liveVars
  <2>3. Alone(a)
    BY <1>3 DEF NodeOn, Backup, Begin, Shape, Alone, folderVars, liveVars
  <2>4. QED
    BY <2>1, <2>2, <2>3, AloneKeeps
<1>4. CASE NodeOff(a)
  <2>1. Shape'
    BY <1>4 DEF NodeOff, Kill, Shape, NoPid
  <2>2. Owns(a)'
    BY <1>0, <1>4 DEF NodeOff, Kill, Shape, Owns, Stores, Services
  <2>3. Alone(a)
    BY <1>4 DEF NodeOff, Kill, Shape, Alone, Services
  <2>4. QED
    BY <2>1, <2>2, <2>3, AloneKeeps
<1>5. ASSUME NEW s \in Services \cup {"postgres"}, RecoverBegins(a, s) \/ GivesUp(a, s)
      PROVE  Shape' /\ OwnerInv'
  <2>1. Shape'
    <3>1. CASE RecoverBegins(a, s)
      <4>1. (IF s = "postgres" THEN "backend" ELSE s) \in Services
        BY DEF Services
      <4>2. QED
        BY <3>1, <4>1 DEF RecoverBegins, Begin, Shape, folderVars
    <3>2. CASE GivesUp(a, s)
      BY <3>2 DEF GivesUp, Shape, folderVars
    <3>3. QED
      BY <1>5, <3>1, <3>2
  <2>2. Owns(a)'
    BY <1>0, <1>5 DEF RecoverBegins, GivesUp, Begin, Shape, Owns, folderVars, liveVars
  <2>3. Alone(a)
    BY <1>5 DEF RecoverBegins, GivesUp, Begin, Shape, Alone, folderVars, liveVars
  <2>4. QED
    BY <2>1, <2>2, <2>3, AloneKeeps
<1>6. QED
  BY <1>1, <1>2, <1>3, <1>4, <1>5 DEF OpBegins

--------------------------------------------------------------------------------
(* Steps of an operation                                                      *)

\* An operation returns: its app keeps the lock if it has it.
LEMMA ReturnStep ==
    ASSUME Shape, OwnerInv, NEW a \in Apps, Return(a),
           phase' \in [Apps -> {"closed", "off", "starting", "running", "stopping", "error"}],
           phase'[a] # "running" \/ phase'[a] = phase[a],
           \A b \in Apps \ {a} : phase'[b] = phase[b] /\ (lock = b => lock' = b),
           lock' \in Apps \cup {NoApp}, lock = a => lock' = a,
           UNCHANGED <<procs, started>>
    PROVE  Shape' /\ OwnerInv'
<1>1. Positions(a, "none", "none", "qdrant")
  BY Released DEF Return
<1>2. Shape'
  BY <1>1 DEF Shape, Positions
<1>3. Owns(a)'
  BY <1>1, OwnerParts DEF Owns, Positions
<1>4. Alone(a)
  BY <1>1 DEF Alone, Positions
<1>5. QED
  BY <1>2, <1>3, <1>4, AloneKeeps

LEMMA StartStep ==
    ASSUME Shape, OwnerInv, NEW a \in Apps,
           Lock(a) \/ LockRefused(a) \/ StartPostgres(a) \/ Spawn(a) \/ Up(a)
    PROVE  Shape' /\ OwnerInv'
<1>0. Owns(a)
  BY OwnerParts
<1>1. CASE Lock(a)
  <2>1. Shape'
    BY <1>1 DEF Lock, Shape, liveVars
  <2>2. Owns(a)'
    BY <1>0, <1>1, NoAppAssumption DEF Lock, Shape, Owns, liveVars
  <2>3. Alone(a)
    BY <1>1, NoAppAssumption DEF Lock, Shape, Alone, liveVars
  <2>4. QED
    BY <2>1, <2>2, <2>3, AloneKeeps
<1>2. CASE LockRefused(a)
  BY <1>2, ReturnStep DEF LockRefused, Shape, folderVars, liveVars
<1>3. CASE StartPostgres(a)
  <2>1. Shape'
    BY <1>3 DEF StartPostgres, SpawnNext, Shape, Services
  <2>2. Owns(a)'
    BY <1>0, <1>3 DEF StartPostgres, SpawnNext, Shape, Owns
  <2>3. Alone(a)
    BY <1>3 DEF StartPostgres, SpawnNext, Shape, Alone
  <2>4. QED
    BY <2>1, <2>2, <2>3, AloneKeeps
<1>4. CASE Spawn(a)
  <2>1. PICK pid \in Nat : procs' = [procs EXCEPT ![a][svc[a]] = pid]
    <3> DEFINE free == Pids \ (running \ {procs[a][svc[a]]})
               pid == CHOOSE p \in free : \A q \in free : p <= q
    <3>1. free \subseteq Nat /\ free # {}
      BY <1>4 DEF Spawn, Pids
    <3>2. \E p \in free : \A q \in free : p <= q
      <4> HIDE DEF free
      <4> QED
        BY <3>1, Least
    <3>3. pid \in free
      BY <3>2
    <3>4. procs' = [procs EXCEPT ![a][svc[a]] = pid]
      BY <1>4 DEF Spawn
    <3>5. QED
      BY <3>1, <3>3, <3>4
  <2>2. svc[a] \in Services /\ at[a] = "spawn"
    BY <1>4 DEF Spawn, Shape
  <2>3. /\ procs' \in [Apps -> [Services -> Nat]]
        /\ \A t \in Services \ {svc[a]} : procs'[a][t] = procs[a][t]
        /\ \A b \in Apps \ {a} : procs'[b] = procs[b]
    BY <2>1, <2>2, EntryStep
  <2>4. Shape'
    BY <1>4, <2>3 DEF Spawn, Goto, Shape
  <2>5. svc[a] \in Stores => lock = a
    BY <1>0, <2>2 DEF Owns, Stores
  <2>6. Owns(a)'
    <3>1. /\ at'[a] = "ready" /\ UNCHANGED <<lock, phase, started, op, svc>>
      BY <1>4 DEF Spawn, Goto, Shape
    <3>2. \A s \in Stores : procs'[a][s] # NoPid => lock = a
      BY <1>0, <2>3, <2>5 DEF Owns, Stores, Services
    <3>3. QED
      BY <1>0, <2>2, <3>1, <3>2 DEF Owns
  <2>7. Alone(a)
    BY <1>4, <2>2, <2>3, <2>5 DEF Spawn, Goto, Shape, Alone, Services
  <2>8. QED
    BY <2>4, <2>6, <2>7, AloneKeeps
<1>5. CASE Up(a)
  <2>1. Shape'
    BY <1>5 DEF Up, LetGo, Shape, folderVars, liveVars, Services
  <2>2. Owns(a)'
    BY <1>0, <1>5 DEF Up, LetGo, Shape, Owns, folderVars, liveVars
  <2>3. Alone(a)
    BY <1>5 DEF Up, LetGo, Shape, Alone, folderVars, liveVars
  <2>4. QED
    BY <2>1, <2>2, <2>3, AloneKeeps
<1>6. QED
  BY <1>1, <1>2, <1>3, <1>4, <1>5

LEMMA ReadyStep ==
    ASSUME Shape, OwnerInv, NEW a \in Apps,
           SpawnedAlready(a) \/ QdrantReady(a) \/ BackendReady(a) \/ LastReady(a) \/ BackupEnds(a)
    PROVE  Shape' /\ OwnerInv'
<1>0. Owns(a) /\ UNCHANGED <<lock, phase, procs, started>>
  BY OwnerParts DEF SpawnedAlready, QdrantReady, BackendReady, LastReady, BackupEnds, folderVars, liveVars
<1>1. CASE Return(a)
  BY <1>0, <1>1, ReturnStep DEF Shape
<1>2. CASE /\ at[a] \in {"spawn", "ready"} /\ op[a] = "start" /\ op' = op
           /\ \/ Goto(a, "up")
              \/ SpawnNext(a, "backend")
              \/ SpawnNext(a, "agent")
  <2>1. PICK place \in {"up", "spawn"}, s \in Services : Positions(a, "start", place, s)
    <3>1. CASE Goto(a, "up")
      <4>1. svc' = [svc EXCEPT ![a] = svc[a]] /\ svc[a] \in Services
        BY <3>1 DEF Goto, Shape
      <4>2. QED
        BY <1>2, <3>1, <4>1, Moved DEF Goto
    <3>2. ASSUME NEW s \in {"backend", "agent"}, SpawnNext(a, s)
          PROVE  Positions(a, "start", "spawn", s)
      BY <1>2, <3>2, Moved DEF SpawnNext, Services
    <3>3. QED
      BY <1>2, <3>1, <3>2 DEF Services
  <2>2. lock = a
    BY <1>0, <1>2 DEF Owns
  <2>3. Shape'
    BY <1>0, <2>1 DEF Shape, Positions
  <2>4. Owns(a)'
    BY <1>0, <2>1, <2>2 DEF Owns, Positions
  <2>5. Alone(a)
    BY <1>0, <2>1 DEF Alone, Positions
  <2>6. QED
    BY <2>3, <2>4, <2>5, AloneKeeps
<1>3. QED
  BY <1>1, <1>2 DEF SpawnedAlready, QdrantReady, BackendReady, LastReady, BackupEnds, Goto, SpawnNext

\* At most the entry of the agent of an app is taken out.
AgentOut(a) ==
    /\ procs' \in [Apps -> [Services -> Nat]]
    /\ \A s \in Stores : procs'[a][s] = procs[a][s]
    /\ \A b \in Apps \ {a} : procs'[b] = procs[b]

LEMMA AgentEntry ==
    ASSUME Shape, NEW a \in Apps,
           procs' = procs \/ procs' = [procs EXCEPT ![a]["agent"] = NoPid]
    PROVE  AgentOut(a)
<1>1. CASE procs' = procs
  BY <1>1 DEF Shape, AgentOut
<1>2. CASE procs' = [procs EXCEPT ![a]["agent"] = NoPid]
  <2>1. "agent" \in Services /\ NoPid \in Nat /\ Stores \subseteq Services \ {"agent"}
    BY DEF Services, Stores, NoPid
  <2>2. QED
    <3>1. /\ procs' \in [Apps -> [Services -> Nat]]
          /\ \A t \in Services \ {"agent"} : procs'[a][t] = procs[a][t]
          /\ \A b \in Apps \ {a} : procs'[b] = procs[b]
      BY <1>2, <2>1, EntryStep
    <3>2. QED
      BY <2>1, <3>1 DEF AgentOut
<1>3. QED
  BY <1>1, <1>2

\* A start that fails stops what it started; a node that fails is left out; a
\* recovery that fails leaves the rest running, and the lock taken.
LEMMA FailStep ==
    ASSUME Shape, OwnerInv, NEW a \in Apps, StartFails(a) \/ AgentFails(a) \/ RecoverFails(a)
    PROVE  Shape' /\ OwnerInv'
<1>0. Owns(a)
  BY OwnerParts
<1>1. CASE StartFails(a)
  <2>1. Shape'
    BY <1>1 DEF StartFails, Goto, Shape, liveVars
  <2>2. Owns(a)'
    BY <1>0, <1>1 DEF StartFails, Goto, Shape, Owns, liveVars
  <2>3. Alone(a)
    BY <1>1 DEF StartFails, Goto, Shape, Alone, liveVars
  <2>4. QED
    BY <2>1, <2>2, <2>3, AloneKeeps
<1>2. CASE AgentFails(a)
  <2>1. /\ UNCHANGED <<lock, phase, started>>
        /\ procs' = procs \/ procs' = [procs EXCEPT ![a]["agent"] = NoPid]
    BY <1>2 DEF AgentFails, Kill
  <2>2. \/ op[a] = "start" /\ at[a] \in {"spawn", "ready"} /\ Goto(a, "up")
        \/ LetGo(a)
    BY <1>2 DEF AgentFails, Return
  <2>3. AgentOut(a)
    BY <2>1, AgentEntry
  <2>4. Shape'
    BY <2>1, <2>2, <2>3 DEF Goto, LetGo, Shape, Services, AgentOut
  <2>5. Owns(a)'
    <3>1. CASE op[a] = "start" /\ at[a] \in {"spawn", "ready"} /\ Goto(a, "up")
      BY <1>0, <2>1, <2>3, <3>1 DEF Goto, Shape, Owns, AgentOut
    <3>2. CASE LetGo(a)
      BY <1>0, <2>1, <2>3, <3>2 DEF LetGo, Shape, Owns, AgentOut
    <3>3. QED
      BY <2>2, <3>1, <3>2
  <2>6. Alone(a)
    BY <2>1, <2>2, <2>3 DEF Goto, LetGo, Shape, Alone, AgentOut
  <2>7. QED
    BY <2>4, <2>5, <2>6, AloneKeeps
<1>3. CASE RecoverFails(a)
  <2>1. /\ UNCHANGED <<lock, started>> /\ phase' = [phase EXCEPT ![a] = "error"] /\ LetGo(a)
        /\ procs' = procs \/ procs' = [procs EXCEPT ![a]["agent"] = NoPid]
    <3> DEFINE gone == IF at[a] = "ready" /\ svc[a] = "agent" THEN procs[a]["agent"] ELSE NoPid
    <3>1. procs' = [procs EXCEPT ![a]["agent"] = IF gone # NoPid THEN NoPid ELSE @]
      BY <1>3 DEF RecoverFails
    <3>2. gone = NoPid => procs' = procs
      BY <3>1 DEF Shape, Services
    <3>3. QED
      BY <1>3, <3>1, <3>2 DEF RecoverFails, Return
  <2>2. AgentOut(a)
    BY <2>1, AgentEntry
  <2>3. Shape'
    BY <2>1, <2>2 DEF LetGo, Shape, Services, AgentOut
  <2>4. Owns(a)'
    BY <1>0, <2>1, <2>2 DEF LetGo, Shape, Owns, AgentOut
  <2>5. Alone(a)
    BY <2>1, <2>2 DEF LetGo, Shape, Alone, AgentOut
  <2>6. QED
    BY <2>3, <2>4, <2>5, AloneKeeps
<1>4. QED
  BY <1>1, <1>2, <1>3

\* The lock is let go when nothing runs on the folder any more.
LEMMA StopStep ==
    ASSUME Shape, OwnerInv, NEW a \in Apps, StopsService(a) \/ StopsRest(a) \/ Drain(a)
    PROVE  Shape' /\ OwnerInv'
<1>0. Owns(a)
  BY OwnerParts
<1>1. CASE StopsService(a)
  <2>1. PICK s \in Services : procs' = [procs EXCEPT ![a][s] = NoPid]
    BY <1>1 DEF StopsService, Kill, Services
  <2>2. UNCHANGED <<lock, phase, started, op, at, svc>>
    BY <1>1 DEF StopsService, opVars
  <2>3. Shape'
    BY <2>1, <2>2 DEF Shape, NoPid
  <2>4. Owns(a)'
    BY <1>0, <2>1, <2>2 DEF Shape, Owns, Stores, Services
  <2>5. Alone(a)
    BY <2>1, <2>2 DEF Shape, Alone, Services
  <2>6. QED
    BY <2>3, <2>4, <2>5, AloneKeeps
<1>2. CASE StopsRest(a)
  <2>1. Shape'
    BY <1>2 DEF StopsRest, Return, LetGo, Shape, Services
  <2>2. Owns(a)'
    BY <1>0, <1>2, NoAppAssumption DEF StopsRest, Return, LetGo, Shape, Owns, Stores, Services
  <2>3. Alone(a)
    BY <1>2, NoAppAssumption DEF StopsRest, Return, LetGo, Shape, Alone, Services
  <2>4. QED
    BY <2>1, <2>2, <2>3, AloneKeeps
<1>3. CASE Drain(a)
  <2>1. Shape'
    BY <1>3 DEF Drain, Kill, Goto, Shape, NoPid, Services
  <2>2. Owns(a)'
    BY <1>0, <1>3 DEF Drain, Kill, Goto, Shape, Owns, Stores, Services
  <2>3. Alone(a)
    BY <1>3 DEF Drain, Kill, Goto, Shape, Alone, Services
  <2>4. QED
    BY <2>1, <2>2, <2>3, AloneKeeps
<1>4. QED
  BY <1>1, <1>2, <1>3

--------------------------------------------------------------------------------
(* Processes that end                                                         *)

\* The death of processes may mark entries of any app as exited, and makes no
\* entry where there was none.
LEMMA ExitStep ==
    ASSUME Shape, OwnerInv, NEW dead, NoPid \notin dead,
           procs' = [b \in Apps |-> [s \in Services |->
                        IF procs[b][s] \in dead THEN Exited ELSE procs[b][s]]]
    PROVE  /\ procs' \in [Apps -> [Services -> Nat]]
           /\ \A b \in Apps, s \in Services : procs'[b][s] # NoPid => procs[b][s] # NoPid
<1>1. Exited \in Nat
  BY SupervisorBounds DEF Exited
<1>2. procs' \in [Apps -> [Services -> Nat]]
  BY <1>1 DEF Shape
<1>3. ASSUME NEW b \in Apps, NEW s \in Services PROVE procs'[b][s] # NoPid => procs[b][s] # NoPid
  OBVIOUS
<1>4. QED
  BY <1>2, <1>3

LEMMA DeathStep ==
    ASSUME Shape, OwnerInv,
           \/ \E a \in Apps : Clean(a) \/ AppEnds(a)
           \/ \E p \in Pids : ServiceDies(p)
           \/ PostgresDies
           \/ UNCHANGED vars
    PROVE  Shape' /\ OwnerInv'
<1>1. ASSUME NEW a \in Apps, Clean(a) PROVE Shape' /\ OwnerInv'
  <2>1. /\ procs' \in [Apps -> [Services -> Nat]]
        /\ \A b \in Apps, s \in Services : procs'[b][s] # NoPid => procs[b][s] # NoPid
    <3>1. NoPid \notin Recorded
      BY DEF Recorded
    <3>2. QED
      BY <1>1, <3>1, ExitStep DEF Clean
  <2>2. Shape'
    BY <1>1, <2>1 DEF Clean, Goto, Shape
  <2>3. ASSUME NEW b \in Apps PROVE Owns(b)'
    BY <1>1, <2>1, OwnerParts DEF Clean, Goto, Shape, Owns, Stores, Services
  <2>4. QED
    BY <2>2, <2>3, OwnerParts
<1>2. ASSUME NEW p \in Pids, ServiceDies(p) PROVE Shape' /\ OwnerInv'
  <2>1. procs' = [b \in Apps |-> [s \in Services |->
                    IF procs[b][s] \in {p} THEN Exited ELSE procs[b][s]]]
    BY <1>2 DEF ServiceDies
  <2>2. /\ procs' \in [Apps -> [Services -> Nat]]
        /\ \A b \in Apps, s \in Services : procs'[b][s] # NoPid => procs[b][s] # NoPid
    <3>1. NoPid \notin {p}
      BY DEF Pids, NoPid
    <3>2. QED
      BY <2>1, <3>1, ExitStep
  <2>3. Shape'
    BY <1>2, <2>2 DEF ServiceDies, Shape, opVars
  <2>4. ASSUME NEW b \in Apps PROVE Owns(b)'
    BY <1>2, <2>2, OwnerParts DEF ServiceDies, Owns, Stores, Services, opVars
  <2>5. QED
    BY <2>3, <2>4, OwnerParts
<1>3. ASSUME NEW a \in Apps, AppEnds(a) PROVE Shape' /\ OwnerInv'
  <2>1. Shape'
    BY <1>3 DEF AppEnds, LetGo, Shape, NoPid, Services
  <2>2. Owns(a)'
    BY <1>3 DEF AppEnds, LetGo, Shape, Owns, Stores, Services
  <2>3. Alone(a)
    BY <1>3 DEF AppEnds, LetGo, Shape, Alone, Services
  <2>4. QED
    BY <2>1, <2>2, <2>3, AloneKeeps
<1>4. CASE PostgresDies \/ UNCHANGED vars
  BY <1>4, SameShape DEF PostgresDies, vars, folderVars, liveVars, opVars
<1>5. QED
  BY <1>1, <1>2, <1>3, <1>4

\* Every step keeps the lock with whoever works on the folder.
THEOREM OwnerInvariant == Spec => []OwnerInv
<1>1. Init => Shape /\ OwnerInv
  BY DEF Init, Shape, OwnerInv, OneOwner, Services, Stores, NoPid
<1>2. Shape /\ OwnerInv /\ [Next]_vars => Shape' /\ OwnerInv'
  BY AskStep, BeginStep, StartStep, ReadyStep, FailStep, StopStep, DeathStep DEF Next, OpStep
<1>3. QED
  BY <1>1, <1>2, PTL DEF Spec

\* However commands, recoveries, aborts and crashes of any number of apps overlap,
\* at most one of them runs PostgreSQL and the stores: the one that has the lock.
THEOREM OwnerSafety == Spec => []OneOwner
<1>1. OwnerInv => OneOwner
  BY DEF OwnerInv
<1>2. QED
  BY <1>1, OwnerInvariant, PTL

--------------------------------------------------------------------------------
(* The monitor and pids.json: types and the queue of commands                 *)

EntryTypes ==
    /\ running \subseteq Pids
    /\ pids \in [Services -> running \cup {NoPid}]
    /\ procs \in [Apps -> [Services -> running \cup {NoPid, Exited}]]

FolderTypes ==
    /\ lock \in Apps \cup {NoApp}
    /\ postgres \in BOOLEAN /\ node \in BOOLEAN
    /\ phase \in [Apps -> {"closed", "off", "starting", "running", "stopping", "error"}]
    /\ faults \in 0..MaxFaults

LiveTypes ==
    /\ started \in [Apps -> BOOLEAN]
    /\ restarts \in [Apps -> [Services \cup {"postgres"} -> 0..RestartLimit + 1]]
    /\ monitor \in [Apps -> BOOLEAN]
    /\ lost \in [Apps -> SUBSET (Services \cup {"postgres"})]

Queued == Commands \cup {"recover"}

Places == {"none", "lock", "clean", "drain", "postgres", "spawn", "ready", "up", "stopping", "dump"}

OpTypes ==
    /\ op \in [Apps -> Commands \cup {"none", "recover"}]
    /\ at \in [Apps -> Places]
    /\ svc \in [Apps -> Services]
    /\ loaded \in [Apps -> BOOLEAN]

QueueTypes == waiting \in [Apps -> Seq(Queued)]

LEMMA Types == TypeOK <=> EntryTypes /\ FolderTypes /\ LiveTypes /\ OpTypes /\ QueueTypes
  BY DEF TypeOK, EntryTypes, FolderTypes, LiveTypes, OpTypes, QueueTypes, Queued, Places

\* What was asked for stays asked for: the queue of an app grows, or loses what
\* is no stop.
Kept(a) == StopAsked(a) => StopAsked(a)'

\* The queue of one app is replaced.
LEMMA QueueStep ==
    ASSUME QueueTypes, NEW a \in Apps, NEW queue \in Seq(Queued),
           waiting' = [waiting EXCEPT ![a] = queue]
    PROVE  /\ QueueTypes' /\ waiting'[a] = queue
           /\ \A b \in Apps \ {a} : waiting'[b] = waiting[b]
  BY DEF QueueTypes

LEMMA Appended ==
    ASSUME QueueTypes, NEW a \in Apps, NEW queue \in Seq(Queued), NEW c \in Queued
    PROVE  /\ Append(queue, c) \in Seq(Queued)
           /\ \A x : (\E i \in DOMAIN queue : queue[i] = x)
                        => \E i \in DOMAIN Append(queue, c) : Append(queue, c)[i] = x
           /\ \E i \in DOMAIN Append(queue, c) : Append(queue, c)[i] = c
<1>1. /\ Append(queue, c) \in Seq(Queued) /\ Len(Append(queue, c)) = Len(queue) + 1
      /\ \A i \in 1..Len(queue) : Append(queue, c)[i] = queue[i]
      /\ Append(queue, c)[Len(queue) + 1] = c
  BY AppendProperties
<1>2. DOMAIN queue = 1..Len(queue) /\ DOMAIN Append(queue, c) = 1..Len(queue) + 1 /\ Len(queue) \in Nat
  BY <1>1, LenProperties
<1>3. QED
  BY <1>1, <1>2

LEMMA Popped ==
    ASSUME NEW queue \in Seq(Queued), queue # <<>>
    PROVE  /\ Tail(queue) \in Seq(Queued)
           /\ \A x : x # Head(queue) /\ (\E i \in DOMAIN queue : queue[i] = x)
                        => \E i \in DOMAIN Tail(queue) : Tail(queue)[i] = x
<1>1. /\ Tail(queue) \in Seq(Queued) /\ Len(Tail(queue)) = Len(queue) - 1
      /\ \A i \in 1..Len(Tail(queue)) : Tail(queue)[i] = queue[i + 1]
  BY HeadTailProperties
<1>2. DOMAIN queue = 1..Len(queue) /\ DOMAIN Tail(queue) = 1..Len(queue) - 1 /\ Len(queue) \in Nat
  BY <1>1, LenProperties
<1>3. ASSUME NEW x, x # Head(queue), NEW i \in DOMAIN queue, queue[i] = x
      PROVE  \E j \in DOMAIN Tail(queue) : Tail(queue)[j] = x
  <2>1. i # 1
    BY <1>3
  <2>2. i - 1 \in DOMAIN Tail(queue) /\ Tail(queue)[i - 1] = queue[i]
    BY <1>1, <1>2, <2>1
  <2>3. QED
    BY <1>3, <2>2
<1>4. QED
  BY <1>1, <1>3

\* Taking the monitor out of the queue takes nothing else out of it.
LEMMA Withdrawn ==
    ASSUME QueueTypes, NEW a \in Apps
    PROVE  /\ WithoutRecover(a) \in Seq(Queued)
           /\ \A x : x # "recover" /\ Waits(a, x)
                        => \E i \in DOMAIN WithoutRecover(a) : WithoutRecover(a)[i] = x
<1> DEFINE queue == waiting[a]
<1>1. queue \in Seq(Queued) /\ DOMAIN queue = 1..Len(queue) /\ Len(queue) \in Nat
  BY LenProperties DEF QueueTypes
<1>2. CASE ~Waits(a, "recover")
  BY <1>1, <1>2 DEF WithoutRecover, Waits
<1>3. CASE Waits(a, "recover")
  <2> DEFINE k == CHOOSE i \in DOMAIN queue : queue[i] = "recover"
             one == SubSeq(queue, 1, k - 1)
             two == SubSeq(queue, k + 1, Len(queue))
  <2>1. k \in 1..Len(queue) /\ queue[k] = "recover"
    BY <1>1, <1>3 DEF Waits
  <2>2. WithoutRecover(a) = one \o two
    BY <1>3 DEF WithoutRecover, RemoveAt
  <2> HIDE DEF k
  <2>3. /\ one \in Seq(Queued) /\ Len(one) = k - 1
        /\ \A i \in 1..k - 1 : one[i] = queue[i]
    <3>1. \A i \in 1..k - 1 : queue[i] \in Queued
      BY <1>1, <2>1, ElementOfSeq
    <3>2. 1 \in Int /\ k - 1 \in Int
      BY <2>1
    <3>3. /\ one \in Seq(Queued) /\ Len(one) = (IF 1 <= k - 1 THEN k - 1 - 1 + 1 ELSE 0)
          /\ \A i \in 1..k - 1 - 1 + 1 : one[i] = queue[1 + i - 1]
      BY <3>1, <3>2, SubSeqProperties
    <3>4. QED
      BY <2>1, <3>3
  <2>4. /\ two \in Seq(Queued) /\ Len(two) = Len(queue) - k
        /\ \A i \in 1..Len(queue) - k : two[i] = queue[k + i]
    <3>1. \A i \in k + 1..Len(queue) : queue[i] \in Queued
      BY <1>1, <2>1, ElementOfSeq
    <3>2. k + 1 \in Int /\ Len(queue) \in Int
      BY <1>1, <2>1
    <3>3. /\ two \in Seq(Queued)
          /\ Len(two) = (IF k + 1 <= Len(queue) THEN Len(queue) - (k + 1) + 1 ELSE 0)
          /\ \A i \in 1..Len(queue) - (k + 1) + 1 : two[i] = queue[(k + 1) + i - 1]
      BY <3>1, <3>2, SubSeqProperties
    <3>4. QED
      BY <1>1, <2>1, <3>3
  <2>5. /\ one \o two \in Seq(Queued) /\ DOMAIN (one \o two) = 1..Len(queue) - 1
        /\ \A i \in 1..k - 1 : (one \o two)[i] = queue[i]
        /\ \A i \in k..Len(queue) - 1 : (one \o two)[i] = queue[i + 1]
    <3> HIDE DEF one, two
    <3>0. Len(one) + Len(two) = Len(queue) - 1
      BY <1>1, <2>1, <2>3, <2>4
    <3>1. /\ one \o two \in Seq(Queued) /\ Len(one \o two) = Len(queue) - 1
          /\ \A i \in 1..Len(queue) - 1 : (one \o two)[i] = IF i <= Len(one) THEN one[i] ELSE two[i - Len(one)]
      <4>1. one \in Seq(Queued) /\ two \in Seq(Queued)
        BY <2>3, <2>4
      <4>2. /\ one \o two \in Seq(Queued) /\ Len(one \o two) = Len(one) + Len(two)
            /\ \A i \in 1..Len(one) + Len(two) :
                  (one \o two)[i] = IF i <= Len(one) THEN one[i] ELSE two[i - Len(one)]
        BY <4>1, ConcatProperties
      <4>3. QED
        BY <3>0, <4>2
    <3>2. DOMAIN (one \o two) = 1..Len(queue) - 1
      BY <3>1, LenProperties
    <3>3. ASSUME NEW i \in 1..k - 1 PROVE (one \o two)[i] = queue[i]
      BY <1>1, <2>1, <2>3, <2>4, <3>1
    <3>4. ASSUME NEW i \in k..Len(queue) - 1 PROVE (one \o two)[i] = queue[i + 1]
      <4>1. (one \o two)[i] = two[i - Len(one)]
        BY <1>1, <2>1, <2>3, <3>1
      <4>2. QED
        BY <1>1, <2>1, <2>3, <2>4, <4>1
    <3>5. QED
      BY <3>1, <3>2, <3>3, <3>4
  <2>6. ASSUME NEW x, x # "recover", NEW i \in DOMAIN queue, queue[i] = x
        PROVE  \E j \in DOMAIN (one \o two) : (one \o two)[j] = x
    <3> HIDE DEF one, two
    <3>0. i \in 1..Len(queue) /\ k \in 1..Len(queue) /\ Len(queue) \in Nat /\ i # k
      BY <1>1, <2>1, <2>6
    <3>1. CASE i < k
      <4>1. i \in 1..k - 1 /\ i \in 1..Len(queue) - 1
        BY <3>0, <3>1
      <4>2. QED
        BY <2>5, <2>6, <4>1
    <3>2. CASE i > k
      <4>1. i - 1 \in k..Len(queue) - 1 /\ i - 1 \in 1..Len(queue) - 1 /\ i - 1 + 1 = i
        BY <3>0, <3>2
      <4>2. (one \o two)[i - 1] = queue[i]
        BY <2>5, <4>1
      <4>3. QED
        BY <2>5, <2>6, <4>1, <4>2
    <3>3. QED
      BY <3>0, <3>1, <3>2
  <2>7. QED
    BY <2>2, <2>5, <2>6 DEF Waits
<1>4. QED
  BY <1>2, <1>3

--------------------------------------------------------------------------------
(* The monitor and pids.json: entries, processes and the file                 *)

Entries == EntryTypes /\ Apart

\* What is alive after the step was alive before, in the same entry, and is in
\* pids.json if it was.
Shrinks ==
    \A b \in Apps, t \in Services :
        Alive(b, t)' => /\ Alive(b, t) /\ procs'[b][t] = procs[b][t]
                        /\ pids[t] = procs[b][t] => pids'[t] = pids[t]

LEMMA SameEntries ==
    ASSUME Entries, UNCHANGED <<running, pids, procs>>
    PROVE  Entries' /\ Shrinks
  BY DEF Entries, EntryTypes, Apart, Alive, Shrinks

LEMMA NoProcess == ASSUME EntryTypes PROVE NoPid \notin running /\ Exited \notin running
  BY SupervisorBounds DEF EntryTypes, Pids, NoPid, Exited

\* Entries only go, or are marked as exited, with the processes that end.
LEMMA Departs ==
    ASSUME Entries, NEW dead, Die(dead),
           procs' \in [Apps -> [Services -> running \cup {NoPid, Exited}]],
           \A b \in Apps, t \in Services :
              procs'[b][t] = procs[b][t] \/ procs'[b][t] \in {NoPid, Exited},
           \A b \in Apps, t \in Services : procs[b][t] \in dead \cap running => procs'[b][t] \in {NoPid, Exited}
    PROVE  Entries' /\ Shrinks
<1>1. running' \subseteq Pids /\ running' = running \ dead /\ NoPid \notin running /\ Exited \notin running
  BY NoProcess DEF Die, Entries, EntryTypes
<1>2. pids' \in [Services -> running' \cup {NoPid}]
  BY <1>1 DEF Die, Entries, EntryTypes
<1>3. procs' \in [Apps -> [Services -> running' \cup {NoPid, Exited}]]
  BY <1>1 DEF Entries, EntryTypes
<1>4. ASSUME NEW b \in Apps, NEW t \in Services, Alive(b, t)'
      PROVE  Alive(b, t) /\ procs'[b][t] = procs[b][t] /\ (pids[t] = procs[b][t] => pids'[t] = pids[t])
  BY <1>1, <1>4 DEF Alive, Die, Entries, EntryTypes
<1>5. Apart'
  BY <1>1, <1>4 DEF Apart, Alive, Entries, EntryTypes
<1>6. QED
  BY <1>1, <1>2, <1>3, <1>4, <1>5 DEF Entries, EntryTypes, Shrinks

LEMMA KillShrinks ==
    ASSUME Entries, NEW a \in Apps, NEW s \in Services, Kill(a, s)
    PROVE  Entries' /\ Shrinks
<1>1. procs' \in [Apps -> [Services -> running \cup {NoPid, Exited}]]
  BY DEF Kill, Entries, EntryTypes
<1>2. ASSUME NEW b \in Apps, NEW t \in Services
      PROVE  procs'[b][t] = IF b = a /\ t = s THEN NoPid ELSE procs[b][t]
  BY DEF Kill, Entries, EntryTypes
<1>3. ASSUME NEW b \in Apps, NEW t \in Services, procs[b][t] \in {procs[a][s]} \cap running
      PROVE  procs'[b][t] \in {NoPid, Exited}
  BY <1>2, <1>3 DEF Entries, Apart, Alive
<1>4. Die({procs[a][s]})
  BY DEF Kill
<1>5. QED
  BY <1>1, <1>2, <1>3, <1>4, Departs

LEMMA ExitShrinks ==
    ASSUME Entries, NEW dead, Die(dead),
           procs' = [b \in Apps |-> [s \in Services |->
                        IF procs[b][s] \in dead THEN Exited ELSE procs[b][s]]]
    PROVE  Entries' /\ Shrinks
<1>1. procs' \in [Apps -> [Services -> running \cup {NoPid, Exited}]]
  BY DEF Entries, EntryTypes
<1>2. ASSUME NEW b \in Apps, NEW t \in Services
      PROVE  procs'[b][t] = IF procs[b][t] \in dead THEN Exited ELSE procs[b][t]
  OBVIOUS
<1>3. QED
  BY <1>1, <1>2, Departs

\* Entries without a process are taken out.
LEMMA ForgetShrinks ==
    ASSUME Entries, NEW a \in Apps, NEW dead, UNCHANGED <<running, pids>>,
           procs' = [procs EXCEPT ![a] = [s \in Services |-> IF s \in dead THEN NoPid ELSE @[s]]]
    PROVE  Entries' /\ Shrinks
<1>1. procs' \in [Apps -> [Services -> running \cup {NoPid, Exited}]]
  BY DEF Entries, EntryTypes
<1>2. \A b \in Apps, t \in Services : procs'[b][t] = procs[b][t] \/ procs'[b][t] \in {NoPid, Exited}
  BY DEF Entries, EntryTypes
<1>3. Die({})
  BY DEF Die, Entries, EntryTypes
<1>4. QED
  BY <1>1, <1>2, <1>3, Departs

LEMMA ExitAppShrinks ==
    ASSUME Entries, NEW a \in Apps, AppEnds(a)
    PROVE  Entries' /\ Shrinks
<1> DEFINE dead == IF Outlive THEN {} ELSE {procs[a][s] : s \in Services}
<1>1. Die(dead) /\ procs' = [procs EXCEPT ![a] = [s \in Services |-> NoPid]]
  BY DEF AppEnds
<1>2. procs' \in [Apps -> [Services -> running \cup {NoPid, Exited}]]
  BY <1>1 DEF Entries, EntryTypes
<1>3. ASSUME NEW b \in Apps, NEW t \in Services
      PROVE  procs'[b][t] = IF b = a THEN NoPid ELSE procs[b][t]
  BY <1>1 DEF Entries, EntryTypes
<1>4. ASSUME NEW b \in Apps, NEW t \in Services, procs[b][t] \in dead \cap running
      PROVE  procs'[b][t] \in {NoPid, Exited}
  <2>1. PICK s \in Services : procs[b][t] = procs[a][s]
    BY <1>4
  <2>2. b = a
    BY <1>4, <2>1 DEF Entries, Apart, Alive
  <2>3. QED
    BY <1>3, <2>2
<1>5. QED
  <2> HIDE DEF dead
  <2>1. QED
    BY <1>1, <1>2, <1>3, <1>4, Departs

\* pids.json is written: it names what is alive of this app.
LEMMA Writes ==
    ASSUME Entries, NEW a \in Apps, WritePids(a), UNCHANGED <<running, procs>>
    PROVE  Entries' /\ \A s \in Services : Alive(a, s)' => pids'[s] = procs'[a][s]
<1>1. pids' \in [Services -> running \cup {NoPid}]
  BY DEF WritePids, Alive, Entries, EntryTypes
<1>2. QED
  BY <1>1 DEF WritePids, Alive, Entries, EntryTypes, Apart

\* The process that is spawned is a new one, or takes the number of the one it
\* replaces.
LEMMA Spawns ==
    ASSUME Entries, NEW a \in Apps, svc[a] \in Services, Spawn(a)
    PROVE  /\ Entries'
           /\ \A t \in Services \ {svc[a]} :
                 Alive(a, t)' => /\ Alive(a, t) /\ procs'[a][t] = procs[a][t]
                                 /\ pids[t] = procs[a][t] => pids'[t] = pids[t]
<1> DEFINE s == svc[a]
           old == procs[a][s]
           free == Pids \ (running \ {old})
           pid == CHOOSE p \in free : \A q \in free : p <= q
<1>1. pid \in free
  <2>1. free \subseteq Nat /\ free # {}
    BY DEF Spawn, Pids
  <2>2. \E p \in free : \A q \in free : p <= q
    <3> HIDE DEF free
    <3> QED
      BY <2>1, Least
  <2>3. QED
    BY <2>2
<1>2. /\ running' = (running \ {old}) \cup {pid}
      /\ pids' = [t \in Services |-> IF pids[t] \in {old, pid} THEN NoPid ELSE pids[t]]
      /\ procs' = [procs EXCEPT ![a][s] = pid]
  BY DEF Spawn
<1> HIDE DEF pid
<1>3. pid \in Pids /\ pid \notin running \ {old}
  BY <1>1
<1>4. running' \subseteq Pids /\ pids' \in [Services -> running' \cup {NoPid}]
  BY <1>2, <1>3 DEF Entries, EntryTypes
<1>5. ASSUME NEW b \in Apps, NEW t \in Services
      PROVE  procs'[b][t] = IF b = a /\ t = s THEN pid ELSE procs[b][t]
  BY <1>2 DEF Entries, EntryTypes
<1>6. ASSUME NEW b \in Apps, NEW t \in Services, ~(b = a /\ t = s)
      PROVE  procs[b][t] \in (running \ {old}) \cup {NoPid, Exited}
  BY <1>6 DEF Entries, EntryTypes, Apart, Alive
<1>7. procs' \in [Apps -> [Services -> running' \cup {NoPid, Exited}]]
  <2>1. procs' \in [Apps -> [Services -> running \cup {pid, NoPid, Exited}]]
    BY <1>2 DEF Entries, EntryTypes
  <2>2. \A b \in Apps, t \in Services : procs'[b][t] \in running' \cup {NoPid, Exited}
    BY <1>2, <1>5, <1>6
  <2>3. QED
    BY <2>1, <2>2
<1>8. pid \notin {NoPid, Exited}
  BY <1>3, SupervisorBounds DEF Pids, NoPid, Exited
<1>9. ASSUME NEW b \in Apps, NEW t \in Services, ~(b = a /\ t = s), Alive(b, t)'
      PROVE  Alive(b, t) /\ procs[b][t] # old /\ procs[b][t] # pid
  <2>1. procs'[b][t] = procs[b][t] /\ procs[b][t] \in running'
    BY <1>5, <1>9 DEF Alive
  <2>2. procs[b][t] \notin {NoPid, Exited}
    BY <2>1, <1>4, SupervisorBounds DEF Pids, NoPid, Exited
  <2>3. procs[b][t] \in running \ {old}
    BY <1>6, <1>9, <2>2
  <2>4. QED
    BY <1>3, <2>3 DEF Alive
<1>10. Apart'
  <2>1. ASSUME NEW b \in Apps, NEW c \in Apps, NEW t \in Services, NEW u \in Services,
               Alive(b, t)', procs'[c][u] = procs'[b][t]
        PROVE  b = c /\ t = u
    <3>1. Alive(c, u)'
      BY <2>1 DEF Alive
    <3>2. CASE b = a /\ t = s
      BY <1>5, <1>9, <2>1, <3>1, <3>2
    <3>3. CASE c = a /\ u = s
      BY <1>5, <1>9, <2>1, <3>1, <3>3
    <3>4. CASE ~(b = a /\ t = s) /\ ~(c = a /\ u = s)
      BY <1>5, <1>9, <2>1, <3>4 DEF Entries, Apart
    <3>5. QED
      BY <3>2, <3>3, <3>4
  <2>2. QED
    BY <2>1 DEF Apart
<1>11. ASSUME NEW t \in Services \ {s}, Alive(a, t)'
       PROVE  Alive(a, t) /\ procs'[a][t] = procs[a][t] /\ (pids[t] = procs[a][t] => pids'[t] = pids[t])
  BY <1>2, <1>5, <1>9, <1>11
<1>12. QED
  BY <1>4, <1>7, <1>10, <1>11 DEF Entries, EntryTypes

--------------------------------------------------------------------------------
(* The monitor and pids.json: what a step of one app leaves to be shown       *)

\* Watched and Beside of one app.
Own(a) ==
    /\ phase[a] = "running" => monitor[a] \/ StopAsked(a)
    /\ op[a] = "none" <=> at[a] = "none"
    /\ at[a] = "up" => op[a] = "start"
    /\ phase[a] = "running" => op[a] \in {"none", "backup", "recover", "node on"}

OthersStay(a) ==
    \A b \in Apps \ {a} :
        /\ phase'[b] = phase[b] /\ op'[b] = op[b] /\ at'[b] = at[b]
        /\ monitor'[b] = monitor[b] /\ waiting'[b] = waiting[b]

\* LookInv without what it says of pids.json.
Upright == TypeOK /\ Watched /\ Apart /\ Beside

LEMMA OwnParts ==
    /\ Upright <=> TypeOK /\ Apart /\ \A a \in Apps : Own(a)
    /\ Upright' <=> TypeOK' /\ Apart' /\ \A a \in Apps : Own(a)'
  BY DEF Upright, Watched, Beside, Own

LEMMA OthersOwn ==
    ASSUME NEW a \in Apps, \A b \in Apps : Own(b), OthersStay(a), Own(a)'
    PROVE  \A b \in Apps : Own(b)'
<1>1. ASSUME NEW b \in Apps \ {a} PROVE Own(b)'
  <2>1. StopAsked(b)' <=> StopAsked(b)
    BY DEF OthersStay, StopAsked, Waits
  <2>2. QED
    BY <2>1 DEF Own, OthersStay
<1>2. QED
  BY <1>1

LEMMA Assembled ==
    ASSUME Upright, NEW a \in Apps, Entries', FolderTypes', LiveTypes', OpTypes', QueueTypes',
           Own(a)', OthersStay(a)
    PROVE  Upright'
<1>1. TypeOK'
  BY Types, PTL DEF Entries
<1>2. \A b \in Apps : Own(b)'
  BY OwnParts, OthersOwn
<1>3. QED
  BY <1>1, <1>2, OwnParts DEF Entries

\* Good: pids.json of an app is as it has to be.
Good(a) == Recording(a) => Covered(a)

LEMMA StillCovered ==
    ASSUME NEW a \in Apps, Covered(a), Shrinks, at[a] = "ready" => at'[a] = "ready" /\ svc'[a] = svc[a]
    PROVE  Covered(a)'
  BY DEF Covered, Shrinks, Alive

LEMMA WrittenCovered ==
    ASSUME NEW a \in Apps, \A s \in Services : Alive(a, s)' => pids'[s] = procs'[a][s]
    PROVE  Covered(a)'
  BY DEF Covered

\* The service that was being started is gone.
LEMMA KilledCovered ==
    ASSUME NEW a \in Apps, Covered(a), Shrinks, \A s \in Services : s = svc[a] => ~Alive(a, s)'
    PROVE  Covered(a)'
  BY DEF Covered, Shrinks

\* Where the operation of an app stands after it has moved.
Stands(a, command, place, service) ==
    /\ OpTypes'
    /\ op'[a] = command /\ at'[a] = place /\ svc'[a] = service
    /\ \A b \in Apps \ {a} : op'[b] = op[b] /\ at'[b] = at[b]

LEMMA StandsGone ==
    ASSUME OpTypes, NEW a \in Apps, LetGo(a) PROVE Stands(a, "none", "none", "qdrant")
<1>1. OpTypes'
  BY DEF LetGo, OpTypes, Places, Services
<1>2. QED
  BY <1>1 DEF LetGo, OpTypes, Stands

LEMMA StandsAt ==
    ASSUME OpTypes, NEW a \in Apps, NEW place \in Places, at' = [at EXCEPT ![a] = place],
           op' = op, NEW s \in Services, svc' = [svc EXCEPT ![a] = s], loaded' \in [Apps -> BOOLEAN]
    PROVE  Stands(a, op[a], place, s)
<1>1. OpTypes'
  BY DEF OpTypes
<1>2. QED
  BY <1>1 DEF OpTypes, Stands

LEMMA StandsThere ==
    ASSUME OpTypes, NEW a \in Apps, UNCHANGED <<op, at, svc>>, loaded' \in [Apps -> BOOLEAN]
    PROVE  Stands(a, op[a], at[a], svc[a])
  BY DEF OpTypes, Stands

LEMMA StandsGoto ==
    ASSUME OpTypes, NEW a \in Apps, NEW place \in Places, Goto(a, place)
    PROVE  Stands(a, op[a], place, svc[a])
<1>1. svc' = [svc EXCEPT ![a] = svc[a]] /\ svc[a] \in Services
  BY DEF Goto, OpTypes
<1>2. at' = [at EXCEPT ![a] = place] /\ op' = op /\ loaded' \in [Apps -> BOOLEAN]
  BY DEF Goto, OpTypes
<1>3. QED
  BY <1>1, <1>2, StandsAt

LEMMA StandsSpawn ==
    ASSUME OpTypes, NEW a \in Apps, NEW s \in Services, SpawnNext(a, s)
    PROVE  Stands(a, op[a], "spawn", s)
<1>1. at' = [at EXCEPT ![a] = "spawn"] /\ op' = op /\ loaded' \in [Apps -> BOOLEAN]
      /\ svc' = [svc EXCEPT ![a] = s] /\ "spawn" \in Places
  BY DEF SpawnNext, OpTypes, Places
<1>2. QED
  BY <1>1, StandsAt

LEMMA StandsBegun ==
    ASSUME OpTypes, NEW a \in Apps, NEW c \in Queued, NEW place \in Places, Begin(a, c, place),
           NEW s \in Services, svc' = [svc EXCEPT ![a] = s]
    PROVE  Stands(a, c, place, s)
<1>1. OpTypes'
  BY DEF Begin, OpTypes, Queued
<1>2. QED
  BY <1>1 DEF Begin, OpTypes, Stands

\* The queue after the next in turn has been taken.
LEMMA Turned ==
    ASSUME QueueTypes, NEW a \in Apps, NEW c, Turn(a, c)
    PROVE  /\ QueueTypes' /\ \A b \in Apps \ {a} : waiting'[b] = waiting[b]
           /\ op[a] = "none"
           /\ c \notin {"stop", "restart"} => Kept(a)
<1>1. waiting[a] \in Seq(Queued) /\ waiting[a] # <<>>
  BY DEF Turn, QueueTypes
<1>2. waiting' = [waiting EXCEPT ![a] = Tail(waiting[a])]
  BY DEF Turn
<1>3. /\ QueueTypes' /\ waiting'[a] = Tail(waiting[a])
      /\ \A b \in Apps \ {a} : waiting'[b] = waiting[b]
  BY <1>1, <1>2, Popped, QueueStep
<1>4. ASSUME NEW x, x # c, Waits(a, x) PROVE Waits(a, x)'
  <2>1. x # Head(waiting[a]) /\ \E i \in DOMAIN waiting[a] : waiting[a][i] = x
    BY <1>4 DEF Turn, Waits
  <2>2. \E i \in DOMAIN Tail(waiting[a]) : Tail(waiting[a])[i] = x
    BY <1>1, <2>1, Popped
  <2>3. QED
    BY <1>3, <2>2 DEF Waits
<1>5. QED
  BY <1>3, <1>4 DEF Kept, StopAsked, Turn

MonitorTypes ==
    /\ monitor \in [Apps -> BOOLEAN]
    /\ lost \in [Apps -> SUBSET (Services \cup {"postgres"})]

LEMMA Returned ==
    ASSUME OpTypes, QueueTypes, MonitorTypes, NEW a \in Apps, Return(a)
    PROVE  /\ Stands(a, "none", "none", "qdrant") /\ QueueTypes' /\ MonitorTypes' /\ Kept(a)
           /\ \A b \in Apps \ {a} : waiting'[b] = waiting[b] /\ monitor'[b] = monitor[b]
           /\ monitor' = monitor
<1>1. Stands(a, "none", "none", "qdrant") /\ monitor' = monitor
  BY StandsGone DEF Return
<1>2. MonitorTypes'
  BY DEF Return, MonitorTypes
<1>3. waiting[a] \in Seq(Queued)
  BY DEF QueueTypes
<1>4. PICK queue \in {waiting[a], Append(waiting[a], "start"), Append(waiting[a], "recover")} :
         waiting' = [waiting EXCEPT ![a] = queue]
  BY DEF Return
<1>5. queue \in Seq(Queued) /\ \A x : Waits(a, x) => \E i \in DOMAIN queue : queue[i] = x
  <2>1. "start" \in Queued /\ "recover" \in Queued
    BY DEF Queued, Commands
  <2>2. CASE queue = waiting[a]
    BY <1>3, <2>2 DEF Waits
  <2>3. ASSUME NEW c \in Queued, queue = Append(waiting[a], c)
        PROVE  queue \in Seq(Queued) /\ \A x : Waits(a, x) => \E i \in DOMAIN queue : queue[i] = x
    <3>1. /\ Append(waiting[a], c) \in Seq(Queued)
          /\ \A x : (\E i \in DOMAIN waiting[a] : waiting[a][i] = x)
                       => \E i \in DOMAIN Append(waiting[a], c) : Append(waiting[a], c)[i] = x
      BY <1>3, Appended
    <3>2. QED
      BY <2>3, <3>1 DEF Waits
  <2>4. QED
    BY <1>4, <2>1, <2>2, <2>3
<1>6. /\ QueueTypes' /\ waiting'[a] = queue
      /\ \A b \in Apps \ {a} : waiting'[b] = waiting[b]
  BY <1>4, <1>5, QueueStep
<1>7. Kept(a)
  BY <1>5, <1>6 DEF Kept, StopAsked, Waits
<1>8. QED
  BY <1>1, <1>2, <1>6, <1>7

--------------------------------------------------------------------------------
(* The monitor and pids.json: commands                                        *)

LEMMA LookParts ==
    ASSUME Upright, NEW a \in Apps
    PROVE  /\ Entries /\ FolderTypes /\ LiveTypes /\ OpTypes /\ QueueTypes /\ MonitorTypes
           /\ Own(a) /\ svc[a] \in Services
  BY OwnParts, Types DEF Entries, LiveTypes, MonitorTypes, OpTypes

\* A step that leaves every operation where it is.
LEMMA QuietStep ==
    ASSUME Upright, NEW a \in Apps, Good(a),
           Entries', Shrinks, FolderTypes', LiveTypes', QueueTypes',
           UNCHANGED <<phase, op, at, svc, loaded, monitor>>,
           \A b \in Apps \ {a} : waiting'[b] = waiting[b],
           Kept(a) \/ (phase[a] = "off" /\ op[a] = "none")
    PROVE  Upright' /\ Good(a)'
<1>1. Own(a) /\ OpTypes
  BY LookParts
<1>2. OpTypes'
  BY <1>1 DEF OpTypes
<1>3. Own(a)'
  BY <1>1 DEF Own, Kept
<1>4. OthersStay(a)
  BY DEF OthersStay
<1>5. Recording(a)' => Recording(a)
  BY <1>1 DEF Recording, Kept, Own
<1>6. Good(a)'
  BY <1>5, StillCovered DEF Good
<1>7. QED
  BY <1>2, <1>3, <1>4, <1>6, Assembled

\* An app asks for something and waits.
LEMMA Asks ==
    ASSUME Upright, NEW a \in Apps, NEW c \in Queued, NEW queue \in Seq(Queued),
           queue = waiting[a] \/ queue = WithoutRecover(a), Ask(a, c, queue)
    PROVE  /\ QueueTypes' /\ Kept(a) /\ Waits(a, c)'
           /\ \A b \in Apps \ {a} : waiting'[b] = waiting[b]
<1>1. QueueTypes
  BY LookParts
<1>2. /\ Append(queue, c) \in Seq(Queued)
      /\ \A x : (\E i \in DOMAIN queue : queue[i] = x)
                   => \E i \in DOMAIN Append(queue, c) : Append(queue, c)[i] = x
      /\ \E i \in DOMAIN Append(queue, c) : Append(queue, c)[i] = c
  BY <1>1, Appended
<1>3. waiting' = [waiting EXCEPT ![a] = Append(queue, c)]
  BY DEF Ask
<1>4. /\ QueueTypes' /\ waiting'[a] = Append(queue, c)
      /\ \A b \in Apps \ {a} : waiting'[b] = waiting[b]
  BY <1>1, <1>2, <1>3, QueueStep
<1>5. \A x : x # "recover" /\ Waits(a, x) => \E i \in DOMAIN queue : queue[i] = x
  BY <1>1, Withdrawn DEF Waits
<1>6. \A x : x # "recover" /\ Waits(a, x) => Waits(a, x)'
  BY <1>2, <1>4, <1>5 DEF Waits
<1>7. Waits(a, c)'
  BY <1>2, <1>4 DEF Waits
<1>8. QED
  BY <1>4, <1>6, <1>7 DEF Kept, StopAsked

LEMMA AskLooks ==
    ASSUME Upright, NEW a \in Apps, Good(a), AskPlain(a) \/ AskStop(a) \/ SetLocalNode(a)
    PROVE  Upright' /\ Good(a)'
<1>0. /\ Entries /\ FolderTypes /\ LiveTypes /\ OpTypes /\ QueueTypes /\ MonitorTypes
      /\ Own(a) /\ svc[a] \in Services
  BY LookParts
<1>00. waiting[a] \in Seq(Queued) /\ WithoutRecover(a) \in Seq(Queued)
  BY <1>0, Withdrawn DEF QueueTypes
<1>1. CASE AskPlain(a)
  <2>1. PICK c \in {"start", "backup"} : Ask(a, c, waiting[a])
    BY <1>1 DEF AskPlain
  <2>2. c \in Queued
    BY DEF Queued, Commands
  <2>3. QueueTypes' /\ Kept(a) /\ \A b \in Apps \ {a} : waiting'[b] = waiting[b]
    BY <1>00, <2>1, <2>2, Asks
  <2>4. UNCHANGED <<running, pids, procs, lock, postgres, node, phase, started, restarts, op, at, svc,
                    loaded, monitor, lost, faults>>
    BY <1>1 DEF AskPlain, folderVars, liveVars, monitorVars
  <2>5. Entries' /\ Shrinks /\ FolderTypes' /\ LiveTypes'
    BY <1>0, <2>4, SameEntries DEF FolderTypes, LiveTypes
  <2>6. QED
    BY <2>3, <2>4, <2>5, QuietStep
<1>2. CASE SetLocalNode(a)
  <2>1. PICK on \in BOOLEAN :
          /\ node' = on
          /\ IF phase[a] = "running"
             THEN Ask(a, IF on THEN "node on" ELSE "node off", waiting[a])
             ELSE phase[a] # "closed" /\ UNCHANGED waiting
    BY <1>2 DEF SetLocalNode
  <2>2. QueueTypes' /\ Kept(a) /\ \A b \in Apps \ {a} : waiting'[b] = waiting[b]
    <3>1. CASE phase[a] = "running"
      <4>1. (IF on THEN "node on" ELSE "node off") \in Queued
        BY DEF Queued, Commands
      <4>2. QED
        BY <1>00, <2>1, <3>1, <4>1, Asks
    <3>2. CASE phase[a] # "running"
      BY <1>0, <2>1, <3>2 DEF QueueTypes, Kept, StopAsked, Waits
    <3>3. QED
      BY <3>1, <3>2
  <2>3. UNCHANGED <<running, pids, procs, lock, postgres, phase, started, restarts, op, at, svc,
                    loaded, monitor, lost, faults>>
    BY <1>2 DEF SetLocalNode, folderVars, liveVars, monitorVars
  <2>4. Entries' /\ Shrinks /\ FolderTypes' /\ LiveTypes'
    BY <1>0, <2>1, <2>3, SameEntries DEF FolderTypes, LiveTypes
  <2>5. QED
    BY <2>2, <2>3, <2>4, QuietStep
<1>3. CASE AskStop(a)
  <2>1. PICK c \in {"stop", "restart"} : Ask(a, c, WithoutRecover(a))
    BY <1>3 DEF AskStop
  <2>2. c \in Queued
    BY DEF Queued, Commands
  <2>3. QueueTypes' /\ Waits(a, c)' /\ \A b \in Apps \ {a} : waiting'[b] = waiting[b]
    BY <1>00, <2>1, <2>2, Asks
  <2>4. UNCHANGED <<running, pids, procs, lock, postgres, node, phase, started, restarts, faults>>
    BY <1>3 DEF AskStop, folderVars, liveVars
  <2>5. Entries' /\ Shrinks /\ FolderTypes'
    BY <1>0, <2>4, SameEntries DEF FolderTypes
  <2>6. LiveTypes' /\ \A b \in Apps \ {a} : monitor'[b] = monitor[b]
    BY <1>0, <1>3, <2>4 DEF AskStop, LiveTypes
  <2>7. StopAsked(a)'
    BY <2>1, <2>3 DEF StopAsked
  <2>8. CASE UNCHANGED <<op, at, svc, loaded>>
    <3>1. OpTypes'
      BY <1>0, <2>8 DEF OpTypes
    <3>2. Own(a)' /\ OthersStay(a)
      BY <1>0, <2>3, <2>4, <2>6, <2>7, <2>8 DEF Own, OthersStay
    <3>3. Recording(a)' => Recording(a)
      BY <2>7, <2>8 DEF Recording
    <3>4. Good(a)'
      BY <2>5, <2>8, <3>3, StillCovered DEF Good
    <3>5. QED
      BY <2>3, <2>5, <2>6, <3>1, <3>2, <3>4, Assembled
  <2>9. CASE LetGo(a)
    <3>1. Stands(a, "none", "none", "qdrant")
      BY <1>0, <2>9, StandsGone
    <3>2. Own(a)' /\ OthersStay(a) /\ OpTypes'
      BY <1>0, <2>3, <2>4, <2>6, <2>7, <3>1 DEF Own, OthersStay, Stands
    <3>3. Good(a)'
      BY <2>7, <3>1 DEF Good, Recording, Stands
    <3>4. QED
      BY <2>3, <2>5, <2>6, <3>2, <3>3, Assembled
  <2>10. QED
    BY <1>3, <2>8, <2>9 DEF AskStop
<1>4. QED
  BY <1>1, <1>2, <1>3

LEMMA CheckLooks ==
    ASSUME Upright, NEW a \in Apps, Good(a),
           \/ Open(a) \/ Check(a)
           \/ \E s \in Services \cup {"postgres"} : Forgets(a, s)
    PROVE  Upright' /\ Good(a)'
<1>0. /\ Entries /\ FolderTypes /\ LiveTypes /\ OpTypes /\ QueueTypes /\ MonitorTypes
      /\ Own(a) /\ waiting[a] \in Seq(Queued)
  BY LookParts DEF QueueTypes
<1>1. CASE Open(a)
  <2>1. /\ UNCHANGED <<running, pids, procs, lock, postgres, node, started, restarts, op, at, svc,
                       loaded, waiting, monitor, lost, faults>>
        /\ phase' = [phase EXCEPT ![a] = "off"]
    BY <1>1 DEF Open, folderVars, liveVars, opVars, monitorVars
  <2>2. Entries' /\ LiveTypes' /\ OpTypes' /\ QueueTypes' /\ FolderTypes'
    BY <1>0, <2>1, SameEntries DEF LiveTypes, OpTypes, QueueTypes, FolderTypes
  <2>3. phase'[a] = "off" /\ \A b \in Apps \ {a} : phase'[b] = phase[b]
    BY <1>0, <2>1 DEF FolderTypes
  <2>4. Own(a)' /\ OthersStay(a)
    BY <1>0, <2>1, <2>3 DEF Own, OthersStay
  <2>5. Covered(a) => Covered(a)'
    BY <1>0, <2>1, SameEntries, StillCovered
  <2>6. Good(a)'
    BY <2>1, <2>3, <2>5 DEF Good, Recording
  <2>7. QED
    BY <2>2, <2>4, <2>6, Assembled
<1>2. CASE Check(a)
  <2>1. /\ UNCHANGED <<running, pids, lock, postgres, node, phase, started, restarts, op, at, svc,
                       loaded, monitor, faults>>
        /\ waiting' = [waiting EXCEPT ![a] = Append(waiting[a], "recover")]
    BY <1>2 DEF Check, CheckProcesses, CheckPostgres, folderVars, liveVars
  <2>2. LiveTypes' /\ FolderTypes'
    <3>1. \E found \in SUBSET (Services \cup {"postgres"}) : lost' = [lost EXCEPT ![a] = found]
      BY <1>2 DEF Check, CheckProcesses, CheckPostgres
    <3>2. QED
      BY <1>0, <2>1, <3>1 DEF LiveTypes, FolderTypes
  <2>3. Entries' /\ Shrinks
    <3>1. CASE CheckPostgres(a)
      BY <1>0, <3>1, SameEntries DEF CheckPostgres, folderVars, liveVars
    <3>2. CASE CheckProcesses(a)
      BY <1>0, <2>1, <3>2, ForgetShrinks DEF CheckProcesses
    <3>3. QED
      BY <1>2, <3>1, <3>2 DEF Check
  <2>4. QueueTypes' /\ Kept(a) /\ \A b \in Apps \ {a} : waiting'[b] = waiting[b]
    <3>1. "recover" \in Queued
      BY DEF Queued
    <3>2. /\ Append(waiting[a], "recover") \in Seq(Queued)
          /\ \A x : Waits(a, x) => \E i \in DOMAIN Append(waiting[a], "recover") :
                                       Append(waiting[a], "recover")[i] = x
      BY <1>0, <3>1, Appended DEF Waits
    <3>3. /\ QueueTypes' /\ waiting'[a] = Append(waiting[a], "recover")
          /\ \A b \in Apps \ {a} : waiting'[b] = waiting[b]
      BY <1>0, <2>1, <3>2, QueueStep
    <3>4. QED
      BY <3>2, <3>3 DEF Kept, StopAsked, Waits
  <2>5. QED
    BY <2>1, <2>2, <2>3, <2>4, QuietStep
<1>3. ASSUME NEW s \in Services \cup {"postgres"}, Forgets(a, s) PROVE Upright' /\ Good(a)'
  <2>1. UNCHANGED <<running, pids, procs, lock, postgres, node, phase, started, op, at, svc,
                    loaded, waiting, monitor, lost, faults>>
    BY <1>3 DEF Forgets, folderVars, opVars, monitorVars
  <2>2. LiveTypes'
    <3>1. restarts[a][s] \in 1..RestartLimit + 1
      BY <1>0, <1>3 DEF Forgets, LiveTypes
    <3>2. restarts[a][s] - 1 \in 0..RestartLimit + 1
      BY <3>1, SupervisorBounds
    <3>3. restarts' = [restarts EXCEPT ![a][s] = restarts[a][s] - 1]
      BY <1>3 DEF Forgets
    <3>4. restarts' \in [Apps -> [Services \cup {"postgres"} -> 0..RestartLimit + 1]]
      BY <1>0, <3>2, <3>3 DEF LiveTypes
    <3>5. QED
      BY <1>0, <2>1, <3>4 DEF LiveTypes
  <2>3. Entries' /\ Shrinks /\ FolderTypes' /\ QueueTypes' /\ Kept(a)
    BY <1>0, <2>1, SameEntries DEF FolderTypes, QueueTypes, Kept, StopAsked, Waits
  <2>4. QED
    BY <2>1, <2>2, <2>3, QuietStep
<1>4. QED
  BY <1>1, <1>2, <1>3

\* An operation begins: it takes the mutex, which nobody had.
LEMMA BeginLooks ==
    ASSUME Upright, NEW a \in Apps, Good(a), NEW c \in Queued, NEW place \in Places \ {"none", "up", "ready"},
           Begin(a, c, place), NEW s \in Services, svc' = [svc EXCEPT ![a] = s],
           UNCHANGED <<running, pids, procs, monitor>>, FolderTypes', LiveTypes',
           \A b \in Apps \ {a} : phase'[b] = phase[b],
           \/ phase'[a] # "running" /\ c # "none" /\ ~(c = "start" /\ place = "spawn")
           \/ phase'[a] = phase[a] /\ c \in {"backup", "recover", "node on"}
    PROVE  Upright' /\ Good(a)'
<1>0. Entries /\ OpTypes /\ QueueTypes /\ Own(a)
  BY LookParts
<1>1. Stands(a, c, place, s)
  BY <1>0, StandsBegun
<1>2. Turn(a, c)
  BY DEF Begin
<1>3. /\ QueueTypes' /\ op[a] = "none" /\ (c \notin {"stop", "restart"} => Kept(a))
      /\ \A b \in Apps \ {a} : waiting'[b] = waiting[b]
  BY <1>0, <1>2, Turned
<1>4. Entries' /\ Shrinks
  BY <1>0, SameEntries
<1>5. c # "none" /\ at[a] = "none"
  BY <1>0, <1>3 DEF Own, Queued, Commands
<1>6. Own(a)' /\ OthersStay(a) /\ OpTypes'
  BY <1>0, <1>1, <1>3, <1>5 DEF Own, OthersStay, Stands, Kept
<1>7. Recording(a)' => Recording(a)
  BY <1>0, <1>1, <1>3 DEF Recording, Stands, Kept
<1>8. Good(a)'
  BY <1>4, <1>5, <1>7, StillCovered DEF Good
<1>9. QED
  BY <1>3, <1>4, <1>6, <1>8, Assembled

LEMMA OpBeginsLooks ==
    ASSUME Upright, NEW a \in Apps, Good(a), OpBegins(a)
    PROVE  Upright' /\ Good(a)'
<1>0. /\ Entries /\ FolderTypes /\ LiveTypes /\ OpTypes /\ QueueTypes /\ MonitorTypes
      /\ Own(a) /\ waiting[a] \in Seq(Queued) /\ svc[a] \in Services
  BY LookParts DEF QueueTypes
<1>1. ASSUME NEW c, Turn(a, c), c \notin {"stop", "restart"} \/ phase[a] = "off",
             UNCHANGED <<phase, op, at, svc, loaded, monitor>>,
             Entries', Shrinks, FolderTypes', LiveTypes'
      PROVE  Upright' /\ Good(a)'
  <2>1. /\ QueueTypes' /\ (Kept(a) \/ (phase[a] = "off" /\ op[a] = "none"))
        /\ \A b \in Apps \ {a} : waiting'[b] = waiting[b]
    BY <1>0, <1>1, Turned
  <2>2. QED
    BY <1>1, <2>1, QuietStep
<1>2. CASE ReturnsAtOnce(a)
  <2>1. PICK c \in {"start", "stop", "backup", "node on"} :
          Turn(a, c) /\ (c = "stop" => phase[a] = "off")
    <3>1. \/ phase[a] = "off" /\ Turn(a, "stop")
          \/ Turn(a, "start") \/ Turn(a, "backup") \/ Turn(a, "node on")
      BY <1>2 DEF ReturnsAtOnce
    <3>2. QED
      BY <3>1
  <2>2. UNCHANGED <<running, pids, procs, lock, postgres, node, phase, started, restarts, op, at, svc,
                    loaded, monitor, lost, faults>>
    BY <1>2 DEF ReturnsAtOnce, folderVars, liveVars, monitorVars
  <2>3. Entries' /\ Shrinks /\ FolderTypes' /\ LiveTypes'
    BY <1>0, <2>2, SameEntries DEF FolderTypes, LiveTypes
  <2>4. QED
    BY <1>1, <2>1, <2>2, <2>3
<1>3. CASE NothingToRecover(a)
  <2>1. UNCHANGED <<running, pids, procs, lock, postgres, node, phase, started, restarts, op, at, svc,
                    loaded, monitor, faults>>
    BY <1>3 DEF NothingToRecover, folderVars, liveVars
  <2>2. Entries' /\ Shrinks /\ FolderTypes' /\ LiveTypes'
    BY <1>0, <1>3, <2>1, SameEntries DEF FolderTypes, LiveTypes, NothingToRecover
  <2>3. QED
    BY <1>1, <1>3, <2>1, <2>2 DEF NothingToRecover
<1>4. CASE NodeOff(a)
  <2>1. UNCHANGED <<lock, postgres, node, phase, started, restarts, op, at, svc,
                    loaded, monitor, lost, faults>>
    BY <1>4 DEF NodeOff, monitorVars
  <2>2. Entries' /\ Shrinks
    <3>1. "agent" \in Services
      BY DEF Services
    <3>2. QED
      BY <1>0, <1>4, <3>1, KillShrinks DEF NodeOff
  <2>3. FolderTypes' /\ LiveTypes'
    BY <1>0, <2>1 DEF FolderTypes, LiveTypes
  <2>4. QED
    BY <1>1, <1>4, <2>1, <2>2, <2>3 DEF NodeOff
<1>5. CASE RestartsFromOff(a)
  <2>1. /\ UNCHANGED <<running, pids, procs, lock, postgres, node, phase, started, restarts, op, at, svc,
                       loaded, monitor, lost, faults>>
        /\ phase[a] = "off" /\ op[a] = "none" /\ waiting[a] # <<>>
        /\ waiting' = [waiting EXCEPT ![a] = Append(Tail(waiting[a]), "start")]
    BY <1>5 DEF RestartsFromOff, folderVars, liveVars, monitorVars
  <2>2. Entries' /\ Shrinks /\ FolderTypes' /\ LiveTypes'
    BY <1>0, <2>1, SameEntries DEF FolderTypes, LiveTypes
  <2>3. QueueTypes' /\ \A b \in Apps \ {a} : waiting'[b] = waiting[b]
    <3>1. Tail(waiting[a]) \in Seq(Queued) /\ "start" \in Queued
      BY <1>0, <2>1, Popped DEF Queued, Commands
    <3>2. Append(Tail(waiting[a]), "start") \in Seq(Queued)
      BY <1>0, <3>1, Appended
    <3>3. QED
      BY <1>0, <2>1, <3>2, QueueStep
  <2>4. QED
    BY <2>1, <2>2, <2>3, QuietStep
<1>6. ASSUME NEW c \in Queued, NEW place \in Places \ {"none", "up", "ready"}, NEW s \in Services,
             Begin(a, c, place), svc' = [svc EXCEPT ![a] = s],
             c \in {"start", "stop", "restart"} /\ place # "spawn",
             NEW now \in {"starting", "stopping"}, phase' = [phase EXCEPT ![a] = now],
             UNCHANGED <<running, pids, procs, lock, postgres, node, started, restarts, monitor, lost, faults>>
      PROVE  Upright' /\ Good(a)'
  <2>1. FolderTypes' /\ LiveTypes' /\ phase'[a] = now /\ \A b \in Apps \ {a} : phase'[b] = phase[b]
    BY <1>0, <1>6 DEF FolderTypes, LiveTypes
  <2>2. QED
    BY <1>6, <2>1, BeginLooks
<1>7. svc' = svc => svc' = [svc EXCEPT ![a] = svc[a]]
  BY <1>0 DEF OpTypes
<1>8. CASE StartBegins(a)
  <2>1. "start" \in Queued /\ "lock" \in Places \ {"none", "up", "ready"}
    BY DEF Queued, Commands, Places
  <2>2. /\ Begin(a, "start", "lock") /\ svc' = svc /\ phase' = [phase EXCEPT ![a] = "starting"]
        /\ UNCHANGED <<running, pids, procs, lock, postgres, node, started, restarts, monitor, lost, faults>>
    BY <1>8 DEF StartBegins, folderVars, liveVars, monitorVars
  <2>3. QED
    BY <1>0, <1>6, <1>7, <2>1, <2>2
<1>9. CASE StopBegins(a)
  <2>1. "stopping" \in Places \ {"none", "up", "ready"} /\ {"stop", "restart"} \subseteq Queued
    BY DEF Queued, Commands, Places
  <2>2. PICK c \in {"stop", "restart"} : Begin(a, c, "stopping")
    BY <1>9 DEF StopBegins
  <2>3. /\ svc' = svc /\ phase' = [phase EXCEPT ![a] = "stopping"]
        /\ UNCHANGED <<running, pids, procs, lock, postgres, node, started, restarts, monitor, lost, faults>>
    BY <1>9 DEF StopBegins, folderVars, liveVars, monitorVars
  <2>4. QED
    BY <1>0, <1>6, <1>7, <2>1, <2>2, <2>3
<1>10. ASSUME NEW c \in {"backup", "recover", "node on"}, NEW place \in {"dump", "drain", "spawn"},
              NEW s \in Services, Begin(a, c, place), svc' = [svc EXCEPT ![a] = s],
              UNCHANGED <<running, pids, procs, lock, postgres, node, phase, monitor, faults>>, LiveTypes'
       PROVE  Upright' /\ Good(a)'
  <2>1. FolderTypes' /\ c \in Queued /\ place \in Places \ {"none", "up", "ready"}
    BY <1>0, <1>10 DEF FolderTypes, Queued, Commands, Places
  <2>2. QED
    BY <1>10, <2>1, BeginLooks
<1>11. CASE NodeOn(a)
  <2>1. /\ UNCHANGED <<running, pids, procs, lock, postgres, node, phase, started, restarts, monitor, lost, faults>>
        /\ Begin(a, "node on", "spawn") /\ svc' = [svc EXCEPT ![a] = "agent"] /\ "agent" \in Services
    BY <1>11 DEF NodeOn, folderVars, liveVars, monitorVars, Services
  <2>2. LiveTypes'
    BY <1>0, <2>1 DEF LiveTypes
  <2>3. QED
    BY <1>10, <2>1, <2>2
<1>12. CASE Backup(a)
  <2>1. /\ UNCHANGED <<running, pids, procs, lock, postgres, node, phase, started, restarts, monitor, lost, faults>>
        /\ Begin(a, "backup", "dump") /\ svc' = svc
    BY <1>12 DEF Backup, folderVars, liveVars, monitorVars
  <2>2. LiveTypes'
    BY <1>0, <2>1 DEF LiveTypes
  <2>3. QED
    BY <1>0, <1>7, <1>10, <2>1, <2>2
<1>13. ASSUME NEW s \in Services \cup {"postgres"}, RecoverBegins(a, s) PROVE Upright' /\ Good(a)'
  <2>1. /\ UNCHANGED <<running, pids, procs, lock, postgres, node, phase, started, monitor, lost, faults>>
        /\ restarts[a][s] < RestartLimit /\ restarts' = [restarts EXCEPT ![a][s] = restarts[a][s] + 1]
    BY <1>13 DEF RecoverBegins, folderVars, monitorVars
  <2>2. LiveTypes'
    <3>1. restarts[a][s] + 1 \in 0..RestartLimit + 1
      BY <1>0, <2>1, SupervisorBounds DEF LiveTypes
    <3>2. restarts' \in [Apps -> [Services \cup {"postgres"} -> 0..RestartLimit + 1]]
      BY <1>0, <2>1, <3>1 DEF LiveTypes
    <3>3. QED
      BY <1>0, <2>1, <3>2 DEF LiveTypes
  <2>3. PICK place \in {"drain", "spawn"}, t \in Services :
          Begin(a, "recover", place) /\ svc' = [svc EXCEPT ![a] = t]
    <3>1. (IF s = "postgres" THEN "backend" ELSE s) \in Services
      BY DEF Services
    <3>2. QED
      BY <1>13, <3>1 DEF RecoverBegins
  <2>4. QED
    BY <1>10, <2>1, <2>2, <2>3
<1>14. ASSUME NEW s \in Services \cup {"postgres"}, GivesUp(a, s) PROVE Upright' /\ Good(a)'
  <2>1. /\ UNCHANGED <<running, pids, procs, lock, postgres, node, started, op, at, svc, loaded, monitor, faults>>
        /\ restarts' = [restarts EXCEPT ![a][s] = RestartLimit + 1]
        /\ phase' = [phase EXCEPT ![a] = "error"] /\ lost' = [lost EXCEPT ![a] = {}]
        /\ Turn(a, "recover")
    BY <1>14 DEF GivesUp, folderVars
  <2>2. LiveTypes'
    <3>1. RestartLimit + 1 \in 0..RestartLimit + 1
      BY SupervisorBounds
    <3>2. restarts' \in [Apps -> [Services \cup {"postgres"} -> 0..RestartLimit + 1]]
      BY <1>0, <2>1, <3>1 DEF LiveTypes
    <3>3. QED
      BY <1>0, <2>1, <3>2 DEF LiveTypes
  <2>3. /\ FolderTypes' /\ OpTypes' /\ phase'[a] = "error"
        /\ \A b \in Apps \ {a} : phase'[b] = phase[b]
    BY <1>0, <2>1 DEF FolderTypes, OpTypes
  <2>4. QueueTypes' /\ op[a] = "none" /\ \A b \in Apps \ {a} : waiting'[b] = waiting[b]
    BY <1>0, <2>1, Turned
  <2>5. Own(a)' /\ OthersStay(a)
    BY <1>0, <2>1, <2>3, <2>4 DEF Own, OthersStay
  <2>6. Good(a)'
    BY <1>0, <2>1, <2>3, <2>4 DEF Good, Recording, Own
  <2>7. Entries'
    BY <1>0, <2>1, SameEntries
  <2>8. QED
    BY <2>2, <2>3, <2>4, <2>5, <2>6, <2>7, Assembled
<1>15. QED
  BY <1>2, <1>3, <1>4, <1>5, <1>8, <1>9, <1>11, <1>12, <1>13, <1>14 DEF OpBegins

--------------------------------------------------------------------------------
(* The monitor and pids.json: steps of an operation                           *)

\* An operation returns.
LEMMA ReturnLooks ==
    ASSUME Upright, NEW a \in Apps, Return(a), Entries', FolderTypes',
           started' \in [Apps -> BOOLEAN], restarts' = restarts,
           phase'[a] = "running" => phase[a] = "running" /\ (Recording(a) => Covered(a)'),
           \A b \in Apps \ {a} : phase'[b] = phase[b]
    PROVE  Upright' /\ Good(a)'
<1>0. LiveTypes /\ OpTypes /\ QueueTypes /\ MonitorTypes /\ Own(a)
  BY LookParts
<1>1. /\ Stands(a, "none", "none", "qdrant") /\ QueueTypes' /\ MonitorTypes' /\ Kept(a)
      /\ \A b \in Apps \ {a} : waiting'[b] = waiting[b] /\ monitor'[b] = monitor[b]
      /\ monitor' = monitor
  BY <1>0, Returned
<1>2. OpTypes' /\ LiveTypes'
  BY <1>0, <1>1 DEF Stands, LiveTypes, MonitorTypes
<1>3. Own(a)' /\ OthersStay(a)
  BY <1>0, <1>1 DEF Own, OthersStay, Stands, Kept
<1>4. Good(a)'
  BY <1>1 DEF Good, Recording, Stands, Kept
<1>5. QED
  BY <1>1, <1>2, <1>3, <1>4, Assembled

\* An operation goes on.
LEMMA MoveLooks ==
    ASSUME Upright, NEW a \in Apps, NEW place \in Places \ {"none"}, NEW s \in Services,
           Stands(a, op[a], place, s), op[a] # "none", place = "up" => op[a] = "start",
           Entries', FolderTypes', LiveTypes', UNCHANGED <<waiting, monitor, phase>>,
           Recording(a)' => Covered(a)'
    PROVE  Upright' /\ Good(a)'
<1>0. QueueTypes /\ Own(a)
  BY LookParts
<1>1. QueueTypes' /\ OpTypes'
  BY <1>0 DEF QueueTypes, Stands
<1>2. StopAsked(a)' <=> StopAsked(a)
  BY DEF StopAsked, Waits
<1>3. Own(a)' /\ OthersStay(a)
  BY <1>0, <1>2 DEF Own, OthersStay, Stands
<1>4. QED
  BY <1>1, <1>3, Assembled DEF Good

\* Stopping PostgreSQL, whether or not it does.
LEMMA StopTypes ==
    ASSUME FolderTypes, StopPostgres
    PROVE  postgres' \in BOOLEAN /\ faults' \in 0..MaxFaults
<1>1. MaxFaults \in Nat /\ faults \in 0..MaxFaults /\ postgres \in BOOLEAN
  BY SupervisorBounds DEF FolderTypes
<1>2. Fault => faults' \in 0..MaxFaults
  BY <1>1 DEF Fault
<1>3. postgres' \in BOOLEAN
  BY <1>1 DEF StopPostgres
<1>4. QED
  BY <1>1, <1>2, <1>3 DEF StopPostgres

LEMMA LockLooks ==
    ASSUME Upright, NEW a \in Apps, Good(a), Lock(a) \/ LockRefused(a) \/ Clean(a)
    PROVE  Upright' /\ Good(a)'
<1>0. /\ Entries /\ FolderTypes /\ LiveTypes /\ OpTypes /\ Own(a) /\ svc[a] \in Services
  BY LookParts
<1>1. CASE Lock(a)
  <2>1. /\ UNCHANGED <<running, pids, procs, postgres, node, phase, started, restarts, op, svc, waiting,
                       monitor, lost, faults>>
        /\ lock' = a /\ at[a] = "lock" /\ at' = [at EXCEPT ![a] = "clean"]
        /\ loaded' = [loaded EXCEPT ![a] = node]
    BY <1>1 DEF Lock, liveVars, monitorVars
  <2>2. Entries' /\ Shrinks /\ FolderTypes' /\ LiveTypes' /\ loaded' \in [Apps -> BOOLEAN]
    BY <1>0, <2>1, SameEntries DEF FolderTypes, LiveTypes, OpTypes
  <2>3. Stands(a, op[a], "clean", svc[a])
    <3>1. "clean" \in Places /\ svc' = [svc EXCEPT ![a] = svc[a]]
      BY <1>0, <2>1 DEF Places, OpTypes
    <3>2. QED
      BY <1>0, <2>1, <2>2, <3>1, StandsAt
  <2>4. Recording(a)' => Recording(a)
    BY <2>1, <2>3 DEF Recording, Stands, StopAsked, Waits
  <2>5. Recording(a)' => Covered(a)'
    BY <2>1, <2>2, <2>4, StillCovered DEF Good
  <2>6. op[a] # "none" /\ "clean" \in Places \ {"none"}
    BY <1>0, <2>1 DEF Own, Places
  <2>7. QED
    BY <1>0, <2>1, <2>2, <2>3, <2>5, <2>6, MoveLooks
<1>2. CASE LockRefused(a)
  <2>1. /\ UNCHANGED <<running, pids, procs, lock, postgres, node, started, restarts>>
        /\ phase' = [phase EXCEPT ![a] = "error"] /\ Return(a)
    BY <1>2 DEF LockRefused, folderVars, liveVars
  <2>2. faults' \in 0..MaxFaults
    BY <1>0, <1>2, SupervisorBounds DEF LockRefused, Fault, FolderTypes
  <2>3. FolderTypes' /\ phase'[a] = "error" /\ \A b \in Apps \ {a} : phase'[b] = phase[b]
    BY <1>0, <2>1, <2>2 DEF FolderTypes
  <2>4. Entries' /\ started' \in [Apps -> BOOLEAN] /\ restarts' = restarts
    BY <1>0, <2>1, SameEntries DEF LiveTypes
  <2>5. QED
    BY <2>1, <2>3, <2>4, ReturnLooks
<1>3. CASE Clean(a)
  <2>1. /\ UNCHANGED <<lock, node, phase, started, monitor, lost>> /\ StopPostgres
        /\ Die(Recorded) /\ at[a] = "clean" /\ Goto(a, "postgres")
        /\ procs' = [b \in Apps |-> [s \in Services |->
                        IF procs[b][s] \in Recorded THEN Exited ELSE procs[b][s]]]
        /\ restarts' = [restarts EXCEPT ![a] = [s \in Services \cup {"postgres"} |-> 0]]
    BY <1>3 DEF Clean, monitorVars
  <2>2. Entries' /\ Shrinks
    BY <1>0, <2>1, ExitShrinks
  <2>3. FolderTypes' /\ LiveTypes'
    <3>1. 0 \in 0..RestartLimit + 1
      BY SupervisorBounds
    <3>2. restarts' \in [Apps -> [Services \cup {"postgres"} -> 0..RestartLimit + 1]]
      BY <1>0, <2>1, <3>1 DEF LiveTypes
    <3>3. QED
      BY <1>0, <2>1, <3>2, StopTypes DEF FolderTypes, LiveTypes
  <2>4. Stands(a, op[a], "postgres", svc[a]) /\ waiting' = waiting
    BY <1>0, <2>1, StandsGoto DEF Goto, Places
  <2>5. Recording(a)' => Recording(a)
    BY <2>1, <2>4 DEF Recording, Stands, StopAsked, Waits
  <2>6. Recording(a)' => Covered(a)'
    BY <2>1, <2>2, <2>5, StillCovered DEF Good
  <2>7. op[a] # "none" /\ "postgres" \in Places \ {"none"}
    BY <1>0, <2>1 DEF Own, Places
  <2>8. QED
    BY <1>0, <2>1, <2>2, <2>3, <2>4, <2>6, <2>7, MoveLooks
<1>4. QED
  BY <1>1, <1>2, <1>3

LEMMA SpawnLooks ==
    ASSUME Upright, NEW a \in Apps, Good(a), StartPostgres(a) \/ Spawn(a) \/ Drain(a)
    PROVE  Upright' /\ Good(a)'
<1>0. /\ Entries /\ FolderTypes /\ LiveTypes /\ OpTypes /\ Own(a) /\ svc[a] \in Services
  BY LookParts
<1>1. CASE StartPostgres(a)
  <2>1. PICK s \in {"backend", "qdrant"} : SpawnNext(a, s)
    BY <1>1 DEF StartPostgres
  <2>2. /\ UNCHANGED <<running, pids, procs, lock, node, phase, restarts, waiting, monitor, lost, faults>>
        /\ at[a] = "postgres" /\ postgres' = TRUE /\ started' = [started EXCEPT ![a] = TRUE]
    BY <1>1, <2>1 DEF StartPostgres, SpawnNext, monitorVars
  <2>3. Entries' /\ Shrinks /\ FolderTypes' /\ LiveTypes'
    BY <1>0, <2>2, SameEntries DEF FolderTypes, LiveTypes
  <2>4. Stands(a, op[a], "spawn", s) /\ s \in Services
    BY <1>0, <2>1, StandsSpawn DEF Services
  <2>5. Recording(a)' => Recording(a)
    BY <2>2, <2>4 DEF Recording, Stands, StopAsked, Waits
  <2>6. Recording(a)' => Covered(a)'
    BY <2>2, <2>3, <2>5, StillCovered DEF Good
  <2>7. op[a] # "none" /\ "spawn" \in Places \ {"none"}
    BY <1>0, <2>2 DEF Own, Places
  <2>8. QED
    BY <2>2, <2>3, <2>4, <2>6, <2>7, MoveLooks
<1>2. CASE Spawn(a)
  <2>1. /\ UNCHANGED <<lock, postgres, node, phase, started, restarts, waiting, monitor, lost, faults>>
        /\ at[a] = "spawn" /\ Goto(a, "ready")
    BY <1>2 DEF Spawn, Goto, monitorVars
  <2>2. FolderTypes' /\ LiveTypes'
    BY <1>0, <2>1 DEF FolderTypes, LiveTypes
  <2>3. /\ Entries'
        /\ \A t \in Services \ {svc[a]} :
              Alive(a, t)' => /\ Alive(a, t) /\ procs'[a][t] = procs[a][t]
                              /\ pids[t] = procs[a][t] => pids'[t] = pids[t]
    BY <1>0, <1>2, Spawns
  <2>4. Stands(a, op[a], "ready", svc[a])
    BY <1>0, <2>1, StandsGoto DEF Places
  <2>5. Recording(a)' => Recording(a)
    BY <2>1, <2>4 DEF Recording, Stands, StopAsked, Waits
  <2>6. Recording(a)' => Covered(a)'
    BY <2>1, <2>3, <2>4, <2>5 DEF Good, Covered, Stands
  <2>7. op[a] # "none" /\ "ready" \in Places \ {"none"}
    BY <1>0, <2>1 DEF Own, Places
  <2>8. QED
    BY <1>0, <2>1, <2>2, <2>3, <2>4, <2>6, <2>7, MoveLooks
<1>3. CASE Drain(a)
  <2>1. /\ UNCHANGED <<lock, node, phase, started, restarts, waiting, monitor, lost>>
        /\ at[a] = "drain" /\ StopPostgres /\ Kill(a, "backend") /\ Goto(a, "postgres")
    BY <1>3 DEF Drain, Goto, monitorVars
  <2>2. FolderTypes' /\ LiveTypes'
    BY <1>0, <2>1, StopTypes DEF FolderTypes, LiveTypes
  <2>3. Entries' /\ Shrinks
    BY <1>0, <2>1, KillShrinks DEF Services
  <2>4. Stands(a, op[a], "postgres", svc[a])
    BY <1>0, <2>1, StandsGoto DEF Places
  <2>5. Recording(a)' => Recording(a)
    BY <2>1, <2>4 DEF Recording, Stands, StopAsked, Waits
  <2>6. Recording(a)' => Covered(a)'
    BY <2>1, <2>3, <2>5, StillCovered DEF Good
  <2>7. op[a] # "none" /\ "postgres" \in Places \ {"none"}
    BY <1>0, <2>1 DEF Own, Places
  <2>8. QED
    BY <1>0, <2>1, <2>2, <2>3, <2>4, <2>6, <2>7, MoveLooks
<1>4. QED
  BY <1>1, <1>2, <1>3

LEMMA ReadyLooks ==
    ASSUME Upright, NEW a \in Apps, Good(a),
           SpawnedAlready(a) \/ QdrantReady(a) \/ BackendReady(a) \/ LastReady(a) \/ BackupEnds(a)
    PROVE  Upright' /\ Good(a)'
<1>0. /\ Entries /\ FolderTypes /\ LiveTypes /\ OpTypes /\ Own(a) /\ svc[a] \in Services
  BY LookParts
<1>1. ASSUME op[a] = "start", at[a] \in {"spawn", "ready"}, NEW s \in Services, NEW place \in {"spawn", "up"},
             Stands(a, "start", place, s), Entries', FolderTypes',
             UNCHANGED <<phase, waiting, monitor, started, restarts, lost>>,
             (Apps = {a} => Covered(a)') \/ (place = "spawn" /\ s # "agent")
      PROVE  Upright' /\ Good(a)'
  <2>1. LiveTypes'
    BY <1>0, <1>1 DEF LiveTypes
  <2>2. phase[a] # "running"
    BY <1>0, <1>1 DEF Own
  <2>3. Recording(a)' => Covered(a)'
    BY <1>1, <2>2 DEF Recording, Stands
  <2>4. place \in Places \ {"none"}
    BY DEF Places
  <2>5. QED
    BY <1>1, <2>1, <2>3, <2>4, MoveLooks
<1>2. ASSUME Return(a), Entries', FolderTypes', UNCHANGED <<phase, started, restarts>>,
             Recording(a) => Covered(a)'
      PROVE  Upright' /\ Good(a)'
  <2>1. started' \in [Apps -> BOOLEAN] /\ restarts' = restarts
    BY <1>0, <1>2 DEF LiveTypes
  <2>2. phase'[a] = "running" => phase[a] = "running" /\ (Recording(a) => Covered(a)')
    BY <1>2
  <2>3. QED
    BY <1>2, <2>1, <2>2, ReturnLooks
<1>3. ASSUME WritePids(a), UNCHANGED <<running, procs>> PROVE Entries' /\ Covered(a)'
  BY <1>0, <1>3, Writes, WrittenCovered
<1>4. CASE SpawnedAlready(a)
  <2>1. /\ UNCHANGED <<running, procs, lock, postgres, node, phase, started, restarts, faults>>
        /\ at[a] = "spawn" /\ svc[a] = "agent"
    BY <1>4 DEF SpawnedAlready, liveVars
  <2>2. FolderTypes'
    BY <1>0, <2>1 DEF FolderTypes
  <2>3. CASE WritePids(a) /\ Return(a)
    BY <1>2, <1>3, <2>1, <2>2, <2>3
  <2>4. CASE pids' = pids
    <3>1. Entries' /\ Shrinks
      BY <1>0, <2>1, <2>4, SameEntries
    <3>2. Recording(a) => Covered(a)'
      BY <2>1, <3>1, StillCovered DEF Good
    <3>3. CASE Return(a)
      BY <1>2, <2>1, <2>2, <3>1, <3>2, <3>3
    <3>4. CASE op[a] = "start" /\ Goto(a, "up") /\ UNCHANGED monitorVars
      <4>1. Stands(a, "start", "up", svc[a])
        BY <1>0, <3>4, StandsGoto DEF Places
      <4>2. UNCHANGED <<waiting, monitor, lost>>
        BY <3>4 DEF Goto, monitorVars
      <4>3. Apps = {a} => Recording(a)
        BY <2>1, <3>4 DEF Recording
      <4>4. QED
        BY <1>0, <1>1, <2>1, <2>2, <3>1, <3>2, <3>4, <4>1, <4>2, <4>3
    <3>5. QED
      BY <1>4, <3>3, <3>4 DEF SpawnedAlready
  <2>5. QED
    <3>1. op[a] = "recover" => op[a] # "start"
      OBVIOUS
    <3>2. QED
      BY <1>4, <2>3, <2>4, <3>1 DEF SpawnedAlready
<1>5. CASE QdrantReady(a)
  <2>1. /\ UNCHANGED <<running, pids, procs, lock, postgres, node, phase, started, restarts, waiting, monitor,
                       lost, faults>>
        /\ op[a] = "start" /\ at[a] = "ready" /\ SpawnNext(a, "backend")
    BY <1>5 DEF QdrantReady, SpawnNext, folderVars, liveVars, monitorVars
  <2>2. Entries' /\ FolderTypes'
    BY <1>0, <2>1, SameEntries DEF FolderTypes
  <2>3. Stands(a, "start", "spawn", "backend") /\ "backend" \in Services
    BY <1>0, <2>1, StandsSpawn DEF Services
  <2>4. QED
    BY <1>1, <2>1, <2>2, <2>3
<1>6. CASE BackendReady(a)
  <2>1. /\ UNCHANGED <<running, procs, lock, postgres, phase, started, restarts, waiting, monitor,
                       lost, faults>>
        /\ op[a] = "start" /\ at[a] = "ready" /\ WritePids(a) /\ node' = loaded[a]
    BY <1>6 DEF BackendReady, SpawnNext, Goto, liveVars, monitorVars
  <2>2. Entries' /\ Covered(a)' /\ FolderTypes'
    BY <1>0, <1>3, <2>1 DEF FolderTypes, OpTypes
  <2>3. PICK place \in {"spawn", "up"}, s \in Services : Stands(a, "start", place, s)
    <3>1. CASE SpawnNext(a, "agent")
      BY <1>0, <2>1, <3>1, StandsSpawn DEF Services
    <3>2. CASE Goto(a, "up")
      BY <1>0, <2>1, <3>2, StandsGoto DEF Places
    <3>3. QED
      BY <1>6, <3>1, <3>2 DEF BackendReady
  <2>4. QED
    BY <1>1, <2>1, <2>2, <2>3
<1>7. CASE LastReady(a)
  <2>1. /\ UNCHANGED <<running, procs, lock, postgres, node, phase, started, restarts, faults>>
        /\ at[a] = "ready" /\ WritePids(a)
    BY <1>7 DEF LastReady, liveVars
  <2>2. Entries' /\ Covered(a)' /\ FolderTypes'
    BY <1>0, <1>3, <2>1 DEF FolderTypes
  <2>3. CASE Return(a)
    BY <1>2, <2>1, <2>2, <2>3
  <2>4. CASE op[a] = "start" /\ Goto(a, "up") /\ UNCHANGED monitorVars
    <3>1. Stands(a, "start", "up", svc[a]) /\ UNCHANGED <<waiting, monitor, lost>>
      BY <1>0, <2>4, StandsGoto DEF Places, Goto, monitorVars
    <3>2. QED
      BY <1>0, <1>1, <2>1, <2>2, <2>4, <3>1
  <2>5. QED
    BY <1>7, <2>3, <2>4 DEF LastReady
<1>8. CASE BackupEnds(a)
  <2>1. /\ UNCHANGED <<running, pids, procs, lock, postgres, node, phase, started, restarts, faults>>
        /\ at[a] = "dump" /\ Return(a)
    BY <1>8 DEF BackupEnds, folderVars, liveVars
  <2>2. Entries' /\ Shrinks /\ FolderTypes'
    BY <1>0, <2>1, SameEntries DEF FolderTypes
  <2>3. Recording(a) => Covered(a)'
    BY <2>1, <2>2, StillCovered DEF Good
  <2>4. QED
    BY <1>2, <2>1, <2>2, <2>3
<1>9. QED
  BY <1>4, <1>5, <1>6, <1>7, <1>8

\* The controller runs, and its monitor with it.
LEMMA UpLooks ==
    ASSUME Upright, NEW a \in Apps, Good(a), Up(a)
    PROVE  Upright' /\ Good(a)'
<1>0. /\ Entries /\ FolderTypes /\ LiveTypes /\ OpTypes /\ QueueTypes /\ Own(a)
  BY LookParts
<1>1. /\ UNCHANGED <<running, pids, procs, lock, postgres, node, started, restarts, faults>>
      /\ at[a] = "up" /\ LetGo(a) /\ phase' = [phase EXCEPT ![a] = "running"]
      /\ monitor' = [monitor EXCEPT ![a] = TRUE] /\ lost' = [lost EXCEPT ![a] = {}]
      /\ waiting' = [waiting EXCEPT ![a] = WithoutRecover(a)]
  BY DEF Up, folderVars, liveVars
<1>2. Entries' /\ Shrinks
  BY <1>0, <1>1, SameEntries
<1>3. FolderTypes' /\ \A b \in Apps \ {a} : phase'[b] = phase[b]
  BY <1>0, <1>1 DEF FolderTypes
<1>4. LiveTypes' /\ monitor'[a] /\ \A b \in Apps \ {a} : monitor'[b] = monitor[b]
  BY <1>0, <1>1 DEF LiveTypes
<1>5. Stands(a, "none", "none", "qdrant") /\ OpTypes'
  BY <1>0, <1>1, StandsGone DEF Stands
<1>6. QueueTypes' /\ \A b \in Apps \ {a} : waiting'[b] = waiting[b]
  BY <1>0, <1>1, Withdrawn, QueueStep
<1>7. Own(a)' /\ OthersStay(a)
  BY <1>3, <1>4, <1>5, <1>6 DEF Own, OthersStay, Stands
<1>8. Good(a)'
  <2>1. Recording(a)' => Recording(a)
    BY <1>1 DEF Recording
  <2>2. QED
    BY <1>1, <1>2, <2>1, StillCovered DEF Good
<1>9. QED
  BY <1>2, <1>3, <1>4, <1>5, <1>6, <1>7, <1>8, Assembled

LEMMA BrokenFaults == ASSUME FolderTypes, NEW a \in Apps, Broken(a) PROVE faults' \in 0..MaxFaults
  BY SupervisorBounds DEF Broken, Fault, FolderTypes

LEMMA FailLooks ==
    ASSUME Upright, NEW a \in Apps, Good(a), StartFails(a) \/ AgentFails(a)
    PROVE  Upright' /\ Good(a)'
<1>0. /\ Entries /\ FolderTypes /\ LiveTypes /\ OpTypes /\ Own(a) /\ svc[a] \in Services
  BY LookParts
<1>1. CASE StartFails(a)
  <2>1. /\ UNCHANGED <<running, pids, procs, lock, node, phase, started, restarts, waiting, monitor, lost>>
        /\ op[a] = "start" /\ Broken(a) /\ postgres' \in BOOLEAN /\ Goto(a, "stopping")
    BY <1>0, <1>1 DEF StartFails, PostgresFails, FolderTypes, Goto, liveVars, monitorVars
  <2>2. Entries' /\ LiveTypes'
    BY <1>0, <2>1, SameEntries DEF LiveTypes
  <2>3. FolderTypes'
    BY <1>0, <2>1, BrokenFaults DEF FolderTypes
  <2>4. Stands(a, op[a], "stopping", svc[a]) /\ "stopping" \in Places \ {"none"}
    BY <1>0, <2>1, StandsGoto DEF Places
  <2>5. ~Recording(a)'
    BY <1>0, <2>1, <2>4 DEF Recording, Stands, Own
  <2>6. QED
    BY <1>0, <2>1, <2>2, <2>3, <2>4, <2>5, MoveLooks
<1>2. CASE AgentFails(a)
  <2>1. /\ UNCHANGED <<lock, postgres, node, phase, started, restarts>>
        /\ at[a] \in {"spawn", "ready"} /\ svc[a] = "agent" /\ Broken(a)
    BY <1>2 DEF AgentFails
  <2>2. FolderTypes'
    BY <1>0, <2>1, BrokenFaults DEF FolderTypes
  <2>3. Entries' /\ Shrinks /\ (Covered(a) => Covered(a)')
    <3>1. CASE at[a] = "ready"
      <4>1. Kill(a, "agent") /\ "agent" \in Services
        BY <1>2, <3>1 DEF AgentFails, Services
      <4>2. Entries' /\ Shrinks
        BY <1>0, <4>1, KillShrinks
      <4>3. ~Alive(a, "agent")'
        <5>1. procs'[a]["agent"] = NoPid
          BY <1>0, <4>1 DEF Kill, Entries, EntryTypes
        <5>2. NoPid \notin running'
          BY <4>2, SupervisorBounds DEF Entries, EntryTypes, Pids, NoPid
        <5>3. QED
          BY <5>1, <5>2 DEF Alive
      <4>4. QED
        BY <2>1, <4>2, <4>3, KilledCovered
    <3>2. CASE at[a] = "spawn"
      <4>1. UNCHANGED <<running, pids, procs>>
        BY <1>2, <3>2 DEF AgentFails
      <4>2. QED
        BY <1>0, <3>2, <4>1, SameEntries, StillCovered
    <3>3. QED
      BY <2>1, <3>1, <3>2
  <2>4. CASE op[a] = "start" /\ Goto(a, "up") /\ UNCHANGED monitorVars
    <3>1. /\ Stands(a, op[a], "up", svc[a]) /\ UNCHANGED <<waiting, monitor, lost>>
          /\ "up" \in Places \ {"none"}
      BY <1>0, <2>4, StandsGoto DEF Places, Goto, monitorVars
    <3>2. LiveTypes'
      BY <1>0, <2>1, <3>1 DEF LiveTypes
    <3>3. Recording(a)' => Recording(a)
      BY <2>1, <2>4 DEF Recording
    <3>4. QED
      BY <1>0, <2>1, <2>2, <2>3, <2>4, <3>1, <3>2, <3>3, MoveLooks DEF Good
  <2>5. CASE Return(a)
    BY <1>0, <2>1, <2>2, <2>3, <2>5, ReturnLooks DEF Good, LiveTypes
  <2>6. QED
    BY <1>2, <2>4, <2>5 DEF AgentFails
<1>3. QED
  BY <1>1, <1>2

LEMMA StopLooks ==
    ASSUME Upright, NEW a \in Apps, Good(a), StopsService(a) \/ StopsRest(a) \/ RecoverFails(a)
    PROVE  Upright' /\ Good(a)'
<1>0. /\ Entries /\ FolderTypes /\ LiveTypes /\ OpTypes /\ QueueTypes /\ Own(a)
  BY LookParts
<1>1. CASE StopsService(a)
  <2>1. /\ UNCHANGED <<lock, postgres, node, phase, started, restarts, op, at, svc, loaded, waiting, monitor, lost, faults>>
        /\ \E s \in Services : Kill(a, s)
    BY <1>1 DEF StopsService, opVars, monitorVars, Services
  <2>2. Entries' /\ Shrinks
    BY <1>0, <2>1, KillShrinks
  <2>3. FolderTypes' /\ LiveTypes' /\ QueueTypes' /\ Kept(a)
    BY <1>0, <2>1 DEF FolderTypes, LiveTypes, QueueTypes, Kept, StopAsked, Waits
  <2>4. QED
    BY <2>1, <2>2, <2>3, QuietStep
<1>2. CASE StopsRest(a)
  <2>0. /\ started[a] => StopPostgres
        /\ ~started[a] => UNCHANGED <<postgres, faults>>
    BY <1>2 DEF StopsRest
  <2>1. /\ UNCHANGED <<running, node, procs, restarts>>
        /\ postgres' \in BOOLEAN /\ faults' \in 0..MaxFaults /\ started' = [started EXCEPT ![a] = FALSE]
        /\ pids' = [s \in Services |-> NoPid]
        /\ lock' \in {lock, NoApp} /\ Return(a)
        /\ \E now \in {"error", "off"} : phase' = [phase EXCEPT ![a] = now]
    BY <1>0, <1>2, <2>0, StopTypes DEF StopsRest, FolderTypes
  <2>2. Entries'
    BY <1>0, <2>1 DEF Entries, EntryTypes, Apart, Alive
  <2>3. /\ FolderTypes' /\ started' \in [Apps -> BOOLEAN] /\ phase'[a] # "running"
        /\ \A b \in Apps \ {a} : phase'[b] = phase[b]
    BY <1>0, <2>1 DEF FolderTypes, LiveTypes
  <2>4. QED
    BY <2>1, <2>2, <2>3, ReturnLooks
<1>3. CASE RecoverFails(a)
  <2> DEFINE gone == IF at[a] = "ready" /\ svc[a] = "agent" THEN procs[a]["agent"] ELSE NoPid
  <2>1. /\ running' = running \ {gone}
        /\ procs' = [procs EXCEPT ![a]["agent"] = IF gone # NoPid THEN NoPid ELSE @]
        /\ pids' = [s \in Services |->
                       IF Alive(a, s) /\ procs[a][s] # gone THEN procs[a][s] ELSE NoPid]
        /\ phase' = [phase EXCEPT ![a] = "error"] /\ Return(a) /\ Broken(a)
        /\ UNCHANGED <<lock, node, started, restarts>> /\ postgres' \in BOOLEAN
    BY <1>0, <1>3 DEF RecoverFails, PostgresFails, FolderTypes
  <2>2. /\ FolderTypes' /\ started' \in [Apps -> BOOLEAN] /\ phase'[a] # "running"
        /\ \A b \in Apps \ {a} : phase'[b] = phase[b]
    BY <1>0, <2>1, BrokenFaults DEF FolderTypes, LiveTypes
  <2>3. gone \in {NoPid, procs[a]["agent"]} /\ "agent" \in Services
    BY DEF Services
  <2> HIDE DEF gone
  <2>4. running' \subseteq Pids /\ pids' \in [Services -> running' \cup {NoPid}]
    BY <1>0, <2>1 DEF Entries, EntryTypes, Alive
  <2>5. ASSUME NEW b \in Apps, NEW t \in Services
        PROVE  procs'[b][t] = IF b = a /\ t = "agent" /\ gone # NoPid THEN NoPid ELSE procs[b][t]
    BY <1>0, <2>1, <2>3 DEF Entries, EntryTypes
  <2>6. ASSUME NEW b \in Apps, NEW t \in Services
        PROVE  procs'[b][t] \in running' \cup {NoPid, Exited}
    <3>1. procs[b][t] \in running /\ procs[b][t] = gone /\ gone # NoPid => b = a /\ t = "agent"
      BY <1>0, <2>3 DEF Entries, Apart, Alive
    <3>2. procs[b][t] \in running \cup {NoPid, Exited}
      BY <1>0 DEF Entries, EntryTypes
    <3>3. NoPid \notin running
      BY <1>0, NoProcess DEF Entries
    <3>4. QED
      BY <2>1, <2>5, <3>1, <3>2, <3>3
  <2>7. procs' \in [Apps -> [Services -> running' \cup {NoPid, Exited}]]
    <3>1. procs' \in [Apps -> [Services -> running \cup {NoPid, Exited}]]
      BY <1>0, <2>1 DEF Entries, EntryTypes
    <3>2. QED
      BY <2>6, <3>1
  <2>8. Apart'
    <3>1. NoPid \notin running'
      BY <1>0, <2>1, NoProcess DEF Entries
    <3>2. QED
      BY <1>0, <2>1, <2>5, <3>1 DEF Entries, Apart, Alive
  <2>9. Entries'
    BY <2>4, <2>7, <2>8 DEF Entries, EntryTypes
  <2>10. QED
    BY <2>1, <2>2, <2>9, ReturnLooks
<1>4. QED
  BY <1>1, <1>2, <1>3

\* Processes die, and apps end.
LEMMA EndLooks ==
    ASSUME Upright, NEW a \in Apps, Good(a), AppEnds(a)
    PROVE  Upright' /\ Good(a)'
<1>0. /\ Entries /\ FolderTypes /\ LiveTypes /\ OpTypes /\ QueueTypes /\ Own(a)
  BY LookParts
<1>1. Entries'
  BY <1>0, ExitAppShrinks
<1>2. /\ phase' = [phase EXCEPT ![a] = "closed"] /\ LetGo(a) /\ lock' \in {lock, NoApp}
      /\ UNCHANGED <<postgres, node>> /\ started' = [started EXCEPT ![a] = FALSE]
      /\ restarts' = [restarts EXCEPT ![a] = [s \in Services \cup {"postgres"} |-> 0]]
      /\ waiting' = [waiting EXCEPT ![a] = <<>>] /\ monitor' = [monitor EXCEPT ![a] = FALSE]
      /\ lost' = [lost EXCEPT ![a] = {}]
  BY <1>0 DEF AppEnds
<1>3. faults' \in 0..MaxFaults
  BY <1>0, SupervisorBounds DEF AppEnds, Fault, FolderTypes
<1>4. FolderTypes' /\ phase'[a] = "closed" /\ \A b \in Apps \ {a} : phase'[b] = phase[b]
  BY <1>0, <1>2, <1>3 DEF FolderTypes
<1>5. LiveTypes' /\ \A b \in Apps \ {a} : monitor'[b] = monitor[b]
  <2>1. 0 \in 0..RestartLimit + 1
    BY SupervisorBounds
  <2>2. restarts' \in [Apps -> [Services \cup {"postgres"} -> 0..RestartLimit + 1]]
    BY <1>0, <1>2, <2>1 DEF LiveTypes
  <2>3. QED
    BY <1>0, <1>2, <2>2 DEF LiveTypes
<1>6. Stands(a, "none", "none", "qdrant") /\ OpTypes'
  BY <1>0, <1>2, StandsGone DEF Stands
<1>7. QueueTypes' /\ \A b \in Apps \ {a} : waiting'[b] = waiting[b]
  BY <1>0, <1>2, EmptySeq, QueueStep
<1>8. Own(a)' /\ OthersStay(a)
  BY <1>4, <1>5, <1>6, <1>7 DEF Own, OthersStay, Stands
<1>9. Good(a)'
  BY <1>4, <1>6 DEF Good, Recording, Stands
<1>10. QED
  BY <1>1, <1>4, <1>5, <1>6, <1>7, <1>8, <1>9, Assembled

LEMMA DeathLooks ==
    ASSUME Upright, (\E p \in Pids : ServiceDies(p)) \/ PostgresDies \/ UNCHANGED vars
    PROVE  Upright' /\ \A a \in Apps : Good(a) => Good(a)'
<1>0. /\ Entries /\ FolderTypes /\ LiveTypes /\ OpTypes /\ QueueTypes /\ \A a \in Apps : Own(a)
  BY OwnParts, Types DEF Entries
<1>1. UNCHANGED <<lock, node, phase, started, restarts, op, at, svc, loaded, waiting, monitor, lost>>
  BY DEF ServiceDies, PostgresDies, vars, folderVars, liveVars, opVars, monitorVars
<1>2. postgres' \in BOOLEAN /\ faults' \in 0..MaxFaults
  <2>1. MaxFaults \in Nat /\ faults \in 0..MaxFaults /\ postgres \in BOOLEAN
    BY <1>0, SupervisorBounds DEF FolderTypes
  <2>2. ASSUME NEW p \in Pids, ServiceDies(p) PROVE postgres' = postgres /\ Fault
    BY <2>2 DEF ServiceDies
  <2>3. PostgresDies => postgres' = FALSE /\ Fault
    BY DEF PostgresDies
  <2>4. UNCHANGED vars => postgres' = postgres /\ faults' = faults
    BY DEF vars, folderVars
  <2>5. Fault => faults' \in 0..MaxFaults
    BY <2>1 DEF Fault
  <2>6. postgres' \in BOOLEAN
    BY <2>1, <2>2, <2>3, <2>4
  <2>7. faults' \in 0..MaxFaults
    BY <2>1, <2>2, <2>3, <2>4, <2>5
  <2>8. QED
    BY <2>6, <2>7
<1>3. Entries' /\ Shrinks
  <2>1. ASSUME NEW p \in Pids, ServiceDies(p) PROVE Entries' /\ Shrinks
    <3>1. /\ Die({p})
          /\ procs' = [b \in Apps |-> [s \in Services |->
                          IF procs[b][s] \in {p} THEN Exited ELSE procs[b][s]]]
      BY <2>1 DEF ServiceDies
    <3>2. QED
      BY <1>0, <3>1, ExitShrinks
  <2>2. CASE PostgresDies \/ UNCHANGED vars
    BY <1>0, <2>2, SameEntries DEF PostgresDies, vars, folderVars, liveVars
  <2>3. QED
    BY <2>1, <2>2
<1>4. FolderTypes' /\ LiveTypes' /\ OpTypes' /\ QueueTypes'
  BY <1>0, <1>1, <1>2 DEF FolderTypes, LiveTypes, OpTypes, QueueTypes
<1>5. ASSUME NEW a \in Apps PROVE Own(a)' /\ (Good(a) => Good(a)')
  <2>1. StopAsked(a)' <=> StopAsked(a)
    BY <1>1 DEF StopAsked, Waits
  <2>2. Own(a)'
    BY <1>0, <1>1, <2>1 DEF Own
  <2>3. Recording(a)' => Recording(a)
    BY <1>1, <2>1 DEF Recording
  <2>4. QED
    BY <1>1, <1>3, <2>2, <2>3, StillCovered DEF Good
<1>6. TypeOK'
  BY <1>3, <1>4, Types, PTL DEF Entries
<1>7. QED
  BY <1>3, <1>5, <1>6, OwnParts DEF Entries

--------------------------------------------------------------------------------
(* The monitor and pids.json: theorems                                        *)

\* Types, the monitor of whatever runs, processes that no two entries share, and
\* pids.json: kept by every step.
THEOREM LookInvariant == Spec => []LookInv
<1>1. Init => LookInv
  <2>1. ASSUME Init PROVE TypeOK
    <3>1. EntryTypes
      BY <2>1 DEF Init, EntryTypes
    <3>2. LiveTypes
      <4>1. 0 \in 0..RestartLimit + 1
        BY SupervisorBounds
      <4>2. restarts \in [Apps -> [Services \cup {"postgres"} -> 0..RestartLimit + 1]]
        BY <2>1, <4>1 DEF Init
      <4>3. lost \in [Apps -> SUBSET (Services \cup {"postgres"})]
        BY <2>1 DEF Init
      <4>4. started \in [Apps -> BOOLEAN] /\ monitor \in [Apps -> BOOLEAN]
        BY <2>1 DEF Init
      <4>5. QED
        BY <4>2, <4>3, <4>4 DEF LiveTypes
    <3>3. FolderTypes /\ OpTypes
      <4>1. 0 \in 0..MaxFaults
        BY SupervisorBounds
      <4>2. FolderTypes
        BY <2>1, <4>1 DEF Init, FolderTypes
      <4>3. "qdrant" \in Services /\ "none" \in Places
        BY DEF Services, Places
      <4>4. OpTypes
        BY <2>1, <4>3 DEF Init, OpTypes
      <4>5. QED
        BY <4>2, <4>4
    <3>4. QueueTypes
      BY <2>1, EmptySeq DEF Init, QueueTypes
    <3>5. QED
      BY <3>1, <3>2, <3>3, <3>4, Types
  <2>2. ASSUME Init PROVE Watched /\ Apart /\ Beside /\ Listed
    BY <2>2 DEF Init, Watched, Apart, Beside, Listed, Recording, Alive
  <2>3. QED
    BY <2>1, <2>2 DEF LookInv
<1>2. LookInv <=> Upright /\ \A a \in Apps : Good(a)
  BY DEF LookInv, Upright, Listed, Good
<1>3. ASSUME Upright, NEW a \in Apps, Good(a),
             \/ Open(a) \/ AskPlain(a) \/ AskStop(a) \/ SetLocalNode(a)
             \/ OpBegins(a) \/ OpStep(a) \/ Check(a)
             \/ \E s \in Services \cup {"postgres"} : Forgets(a, s)
             \/ AppEnds(a)
      PROVE  Upright' /\ \A b \in Apps : Good(b)'
  <2>1. Upright' /\ Good(a)'
    BY <1>3, AskLooks, CheckLooks, OpBeginsLooks, LockLooks, SpawnLooks, ReadyLooks, UpLooks, FailLooks,
       StopLooks, EndLooks DEF OpStep
  <2>2. \A b \in Apps \ {a} : Good(b)'
    BY DEF Good, Recording
  <2>3. QED
    BY <2>1, <2>2
<1>4. LookInv /\ [Next]_vars => LookInv'
  <2>1. ASSUME LookInv, [Next]_vars PROVE Upright' /\ \A a \in Apps : Good(a)'
    BY <1>2, <1>3, <2>1, DeathLooks DEF Next
  <2>2. QED
    BY <2>1 DEF LookInv, Upright, Listed, Good
<1>5. QED
  BY <1>1, <1>4, PTL DEF Spec

\* No start, restart or abort leaves a running controller without its monitor,
\* however many apps share the folder.
THEOREM RunningIsWatched == Spec => [](TypeOK /\ Watched)
<1>1. LookInv => TypeOK /\ Watched
  BY DEF LookInv
<1>2. QED
  BY <1>1, LookInvariant, PTL

\* The controller of an app that is alone on its folder is looked after: by its
\* monitor, and by a pids.json that names every service it left alive.
THEOREM AloneIsLookedAfter ==
    ASSUME NEW CONSTANT a, Apps = {a}
    PROVE  Spec => []LookedAfter
<1>1. LookInv => LookedAfter
  <2>1. ASSUME LookInv, phase[a] = "running", op[a] = "none", ~StopAsked(a), NEW s \in Services, Alive(a, s)
        PROVE  pids[s] = procs[a][s]
    <3>1. Recording(a) /\ at[a] = "none"
      BY <2>1 DEF LookInv, Beside, Recording
    <3>2. Covered(a)
      BY <2>1, <3>1 DEF LookInv, Listed
    <3>3. QED
      BY <2>1, <3>1, <3>2 DEF Covered
  <2>2. LookInv => PidFileCovers
    BY <2>1 DEF PidFileCovers
  <2>3. QED
    BY <2>2 DEF LookInv, LookedAfter
<1>2. QED
  BY <1>1, LookInvariant, PTL
================================================================================
