------------------------------- MODULE Supervisor -------------------------------
(***************************************************************************)
(* The desktop supervisor (ADR-037): src-tauri/src/supervisor.  It runs    *)
(* PostgreSQL, Qdrant, the API and optionally a local agent for one app,   *)
(* restarts what crashes, and shares a data folder with every other app    *)
(* started on the same computer.                                           *)
(*                                                                         *)
(* The mutex `ops` lets one operation at a time through, in the order they *)
(* asked for it; what an operation read before it got the mutex, the       *)
(* monitor's findings, the aborting of the monitor and the death of any    *)
(* process come in between.                                                *)
(***************************************************************************)
EXTENDS Naturals, FiniteSets, Sequences, SequencesExt

CONSTANTS
    Apps,
    NoApp,
    Outlive,        \* children survive a crash of their app (macOS)
    RestartLimit,   \* RESTART_LIMIT
    MaxPids,        \* bound: processes alive at once
    MaxAsked,       \* bound: commands of one app that wait
    MaxFaults       \* bound: crashes and failing steps

ASSUME NoAppAssumption == NoApp \notin Apps
ASSUME SupervisorBounds ==
    /\ RestartLimit \in Nat \ {0} /\ MaxPids \in Nat \ {0}
    /\ MaxAsked \in Nat \ {0} /\ MaxFaults \in Nat
    /\ Outlive \in BOOLEAN

Services == {"qdrant", "backend", "agent"}
Commands == {"start", "stop", "restart", "node on", "node off", "backup"}

Pids == 1..MaxPids
NoPid == 0
Exited == MaxPids + 1   \* an entry of procs whose process is gone

VARIABLES
    \* the computer and the data folder
    running,    \* processes of services that are alive
    pids,       \* pids.json, entries of dead processes left out
    lock,       \* the app that locked the folder
    postgres,   \* whether a server runs on the cluster
    node,       \* local_node in standalone.json
    \* per app
    phase,
    procs,      \* Live.procs
    started,    \* Live.postgres_up
    restarts,   \* Live.restarts: crashes within RESTART_WINDOW
    op,         \* the operation that holds `ops`
    at,         \* where it is
    svc,        \* the service it is starting
    loaded,     \* the local_node that start_all has loaded
    waiting,    \* commands that wait for `ops`, and the monitor, in order
    monitor,    \* whether the monitor task exists
    lost,       \* services it found dead and has not dealt with
    faults

folderVars  == <<running, pids, lock, postgres>>
liveVars    == <<procs, started, restarts>>
opVars      == <<op, at, svc, loaded, waiting>>
monitorVars == <<monitor, lost>>
vars == <<folderVars, node, phase, liveVars, opVars, monitorVars, faults>>

TypeOK ==
    /\ running \subseteq Pids
    /\ pids \in [Services -> running \cup {NoPid}]
    /\ lock \in Apps \cup {NoApp}
    /\ postgres \in BOOLEAN /\ node \in BOOLEAN
    /\ phase \in [Apps -> {"closed", "off", "starting", "running", "stopping", "error"}]
    /\ procs \in [Apps -> [Services -> running \cup {NoPid, Exited}]]
    /\ started \in [Apps -> BOOLEAN] /\ loaded \in [Apps -> BOOLEAN]
    /\ restarts \in [Apps -> [Services \cup {"postgres"} -> 0..RestartLimit + 1]]
    /\ op \in [Apps -> Commands \cup {"none", "recover"}]
    /\ at \in [Apps -> {"none", "lock", "clean", "drain", "postgres", "spawn", "ready", "up",
                        "stopping", "dump"}]
    /\ svc \in [Apps -> Services]
    /\ waiting \in [Apps -> Seq(Commands \cup {"recover"})]
    /\ monitor \in [Apps -> BOOLEAN]
    /\ lost \in [Apps -> SUBSET (Services \cup {"postgres"})]
    /\ faults \in 0..MaxFaults

Init ==
    /\ running = {} /\ pids = [s \in Services |-> NoPid]
    /\ lock = NoApp /\ postgres = FALSE /\ node \in BOOLEAN
    /\ phase = [a \in Apps |-> "closed"]
    /\ procs = [a \in Apps |-> [s \in Services |-> NoPid]]
    /\ started = [a \in Apps |-> FALSE] /\ loaded = [a \in Apps |-> FALSE]
    /\ restarts = [a \in Apps |-> [s \in Services \cup {"postgres"} |-> 0]]
    /\ op = [a \in Apps |-> "none"] /\ at = [a \in Apps |-> "none"]
    /\ svc = [a \in Apps |-> "qdrant"]
    /\ waiting = [a \in Apps |-> <<>>]
    /\ monitor = [a \in Apps |-> FALSE] /\ lost = [a \in Apps |-> {}]
    /\ faults = 0

Fault == faults < MaxFaults /\ faults' = faults + 1

Alive(a, s) == procs[a][s] \in running

\* Processes end: pids.json may still name them, but kill_stale finds nothing.
Die(dead) ==
    /\ running' = running \ dead
    /\ pids' = [s \in Services |-> IF pids[s] \in dead THEN NoPid ELSE pids[s]]

\* terminate() waits, so the entry goes with the process.
Kill(a, s) ==
    /\ Die({procs[a][s]})
    /\ procs' = [procs EXCEPT ![a][s] = NoPid]

Goto(a, place) ==
    /\ at' = [at EXCEPT ![a] = place]
    /\ UNCHANGED <<op, svc, loaded, waiting>>

\* `ops` is let go, and the locals of the operation with it.
LetGo(a) ==
    /\ op' = [op EXCEPT ![a] = "none"]
    /\ at' = [at EXCEPT ![a] = "none"]
    /\ svc' = [svc EXCEPT ![a] = "qdrant"]
    /\ loaded' = [loaded EXCEPT ![a] = FALSE]

\* Mutant of Return: the monitor recovers one service of those that died.
ReturnForgets(a) ==
    /\ LetGo(a)
    /\ lost' = [lost EXCEPT ![a] = IF op[a] = "recover" THEN {} ELSE @]
    /\ waiting' = [waiting EXCEPT ![a] = IF op[a] = "restart" THEN Append(@, "start") ELSE @]
    /\ UNCHANGED monitor

\* The operation returns.  The monitor has then dealt with what it was
\* recovering; restart goes on with its second half.
Return(a) ==
    /\ LetGo(a)
    /\ lost' = [lost EXCEPT ![a] = IF op[a] = "recover" THEN @ \ {svc[a], "postgres"} ELSE @]
    /\ waiting' = [waiting EXCEPT ![a] =
                      IF op[a] = "restart" THEN Append(@, "start")
                      ELSE IF op[a] = "recover" /\ lost'[a] # {} THEN Append(@, "recover")
                      ELSE @]
    /\ UNCHANGED monitor

--------------------------------------------------------------------------------
(* Commands                                                                   *)

Open(a) ==
    /\ phase[a] = "closed"
    /\ phase' = [phase EXCEPT ![a] = "off"]
    /\ UNCHANGED <<folderVars, node, liveVars, opVars, monitorVars, faults>>

Waits(a, c) == \E i \in DOMAIN waiting[a] : waiting[a][i] = c

\* The monitor is aborted: it no longer waits.  (It waits once at most.)
WithoutRecover(a) ==
    IF Waits(a, "recover")
    THEN RemoveAt(waiting[a], CHOOSE i \in DOMAIN waiting[a] : waiting[a][i] = "recover")
    ELSE waiting[a]

Ask(a, c, queue) ==
    /\ phase[a] # "closed" /\ c # op[a] /\ ~Waits(a, c)
    /\ Len(WithoutRecover(a)) < MaxAsked
    /\ waiting' = [waiting EXCEPT ![a] = Append(queue, c)]

AskPlain(a) ==
    /\ \E c \in {"start", "backup"} : Ask(a, c, waiting[a])
    /\ UNCHANGED <<folderVars, node, phase, liveVars, op, at, svc, loaded, monitorVars, faults>>

\* stop(), and restart() which begins with it, abort the monitor at once: a
\* recovery is dropped wherever it is, and the mutex with it.
AskStop(a) ==
    /\ \E c \in {"stop", "restart"} : Ask(a, c, WithoutRecover(a))
    /\ monitor' = [monitor EXCEPT ![a] = FALSE]
    /\ lost' = [lost EXCEPT ![a] = {}]
    /\ IF op[a] = "recover" THEN LetGo(a) ELSE UNCHANGED <<op, at, svc, loaded>>
    /\ UNCHANGED <<folderVars, node, phase, liveVars, faults>>

\* set_local_node saves the setting, and decides by the phase it sees now
\* whether to wait for its turn.
SetLocalNode(a) ==
    /\ \E on \in BOOLEAN :
          /\ node' = on
          /\ IF phase[a] = "running"
             THEN Ask(a, IF on THEN "node on" ELSE "node off", waiting[a])
             ELSE phase[a] # "closed" /\ UNCHANGED waiting
    /\ UNCHANGED <<folderVars, phase, liveVars, op, at, svc, loaded, monitorVars, faults>>

\* Next in turn.
Turn(a, c) ==
    /\ op[a] = "none" /\ waiting[a] # <<>> /\ Head(waiting[a]) = c
    /\ waiting' = [waiting EXCEPT ![a] = Tail(@)]

Begin(a, c, place) ==
    /\ Turn(a, c)
    /\ op' = [op EXCEPT ![a] = c]
    /\ at' = [at EXCEPT ![a] = place]
    /\ UNCHANGED loaded

\* The command finds nothing to do.
ReturnsAtOnce(a) ==
    /\ \/ phase[a] = "running" /\ Turn(a, "start")
       \/ phase[a] = "off" /\ Turn(a, "stop")
       \/ phase[a] # "running" /\ Turn(a, "backup")
       \/ procs[a]["agent"] # NoPid /\ Turn(a, "node on")
    /\ UNCHANGED <<folderVars, node, phase, liveVars, op, at, svc, loaded, monitorVars, faults>>

RestartsFromOff(a) ==
    /\ phase[a] = "off" /\ op[a] = "none" /\ waiting[a] # <<>> /\ Head(waiting[a]) = "restart"
    /\ waiting' = [waiting EXCEPT ![a] = Append(Tail(@), "start")]
    /\ UNCHANGED <<folderVars, node, phase, liveVars, op, at, svc, loaded, monitorVars, faults>>

StartBegins(a) ==
    /\ Begin(a, "start", "lock") /\ phase[a] # "running"
    /\ phase' = [phase EXCEPT ![a] = "starting"]
    /\ UNCHANGED <<folderVars, node, liveVars, svc, monitorVars, faults>>

\* Mutant of StopBegins: the lock is released before the services stop.
StopBeginsUnlocked(a) ==
    /\ \E c \in {"stop", "restart"} : Begin(a, c, "stopping")
    /\ phase[a] # "off"
    /\ phase' = [phase EXCEPT ![a] = "stopping"]
    /\ lock' = IF lock = a THEN NoApp ELSE lock
    /\ UNCHANGED <<running, pids, postgres, node, liveVars, svc, monitorVars, faults>>

StopBegins(a) ==
    /\ \E c \in {"stop", "restart"} : Begin(a, c, "stopping")
    /\ phase[a] # "off"
    /\ phase' = [phase EXCEPT ![a] = "stopping"]
    /\ UNCHANGED <<folderVars, node, liveVars, svc, monitorVars, faults>>

\* The phase is not looked at again.
NodeOn(a) ==
    /\ Begin(a, "node on", "spawn") /\ procs[a]["agent"] = NoPid
    /\ svc' = [svc EXCEPT ![a] = "agent"]
    /\ UNCHANGED <<folderVars, node, phase, liveVars, monitorVars, faults>>

NodeOff(a) ==
    /\ Turn(a, "node off")
    /\ Kill(a, "agent")
    /\ UNCHANGED <<lock, postgres, node, phase, started, restarts, op, at, svc, loaded,
                   monitorVars, faults>>

Backup(a) ==
    /\ Begin(a, "backup", "dump") /\ phase[a] = "running"
    /\ UNCHANGED <<folderVars, node, phase, liveVars, svc, monitorVars, faults>>

BackupEnds(a) ==
    /\ at[a] = "dump"
    /\ Return(a)
    /\ UNCHANGED <<folderVars, node, phase, liveVars, faults>>

--------------------------------------------------------------------------------
(* Starting                                                                   *)

\* acquire_lock; the settings are loaded right after it.
Lock(a) ==
    /\ at[a] = "lock" /\ lock \in {NoApp, a}
    /\ lock' = a
    /\ loaded' = [loaded EXCEPT ![a] = node]
    /\ at' = [at EXCEPT ![a] = "clean"]
    /\ UNCHANGED <<op, svc, waiting, running, pids, postgres, node, phase, liveVars, monitorVars, faults>>

\* The folder cannot be prepared, or another app owns the services and their pid
\* file: touch nothing.
LockRefused(a) ==
    /\ at[a] = "lock" /\ lock # a
    /\ IF lock = NoApp THEN Fault ELSE UNCHANGED faults
    /\ phase' = [phase EXCEPT ![a] = "error"]
    /\ Return(a)
    /\ UNCHANGED <<folderVars, node, liveVars>>

\* Postgres::stop says nothing when the server does not stop.
StopPostgres ==
    \/ postgres' = FALSE /\ UNCHANGED faults
    \/ postgres /\ Fault /\ UNCHANGED postgres

Recorded == {pids[s] : s \in Services} \ {NoPid}

\* kill_leftovers and stop_leftover.  After an error the leftovers are this
\* app's own: their entries remain in procs.
Clean(a) ==
    /\ at[a] = "clean"
    /\ Die(Recorded)
    /\ procs' = [b \in Apps |-> [s \in Services |->
                    IF procs[b][s] \in Recorded THEN Exited ELSE procs[b][s]]]
    /\ StopPostgres
    /\ restarts' = [restarts EXCEPT ![a] = [s \in Services \cup {"postgres"} |-> 0]]
    /\ Goto(a, "postgres")
    /\ UNCHANGED <<lock, node, phase, started, monitorVars>>

SpawnNext(a, s) ==
    /\ at' = [at EXCEPT ![a] = "spawn"]
    /\ svc' = [svc EXCEPT ![a] = s]
    /\ UNCHANGED <<op, loaded, waiting>>

\* pg_ctl start, and pg_isready.  A recovery goes on with the API.
StartPostgres(a) ==
    /\ at[a] = "postgres" /\ ~postgres
    /\ postgres' = TRUE
    /\ started' = [started EXCEPT ![a] = TRUE]
    /\ SpawnNext(a, IF op[a] = "recover" THEN "backend" ELSE "qdrant")
    /\ UNCHANGED <<running, pids, lock, node, phase, procs, restarts, monitorVars, faults>>

\* The new entry replaces an old one, which kills its process (kill_on_drop).
\* start_agent leaves an old one alone.
Spawn(a) ==
    /\ at[a] = "spawn" /\ ~(svc[a] = "agent" /\ procs[a]["agent"] # NoPid)
    /\ LET old  == procs[a][svc[a]]
           free == Pids \ (running \ {old})
           pid  == CHOOSE p \in free : \A q \in free : p <= q
       IN  /\ free # {}
           /\ running' = (running \ {old}) \cup {pid}
           /\ pids' = [s \in Services |->
                          IF pids[s] \in {old, pid} THEN NoPid ELSE pids[s]]
           /\ procs' = [procs EXCEPT ![a][svc[a]] = pid]
    /\ Goto(a, "ready")
    /\ UNCHANGED <<lock, postgres, node, phase, started, restarts, monitorVars, faults>>

WritePids(a) ==
    pids' = [s \in Services |-> IF Alive(a, s) THEN procs[a][s] ELSE NoPid]

\* The agent runs, or ran when it was last looked at.
SpawnedAlready(a) ==
    /\ at[a] = "spawn" /\ svc[a] = "agent" /\ procs[a]["agent"] # NoPid
    /\ IF op[a] = "recover" THEN WritePids(a) ELSE UNCHANGED pids
    /\ IF op[a] = "start" THEN Goto(a, "up") /\ UNCHANGED monitorVars ELSE Return(a)
    /\ UNCHANGED <<running, lock, postgres, node, phase, liveVars, faults>>

\* Qdrant is ready: migrations and the admin account follow, then the API.
QdrantReady(a) ==
    /\ at[a] = "ready" /\ op[a] = "start" /\ svc[a] = "qdrant" /\ Alive(a, "qdrant")
    /\ SpawnNext(a, "backend")
    /\ UNCHANGED <<folderVars, node, phase, liveVars, monitorVars, faults>>

\* The API is ready: the settings are saved as they were loaded, and the first
\* pids.json is written.
BackendReady(a) ==
    /\ at[a] = "ready" /\ op[a] = "start" /\ svc[a] = "backend" /\ Alive(a, "backend")
    /\ node' = loaded[a]
    /\ WritePids(a)
    /\ IF loaded[a] THEN SpawnNext(a, "agent") ELSE Goto(a, "up")
    /\ UNCHANGED <<running, lock, postgres, phase, liveVars, monitorVars, faults>>

\* Mutant of LastReady: a recovery does not write pids.json.
LastReadyUnrecorded(a) ==
    /\ at[a] = "ready" /\ (svc[a] = "agent" \/ op[a] = "recover") /\ Alive(a, svc[a])
    /\ IF op[a] = "recover" THEN UNCHANGED pids ELSE WritePids(a)
    /\ IF op[a] = "start" THEN Goto(a, "up") /\ UNCHANGED monitorVars ELSE Return(a)
    /\ UNCHANGED <<running, lock, postgres, node, phase, liveVars, faults>>

\* The agent is ready, or whatever a recovery restarts.
LastReady(a) ==
    /\ at[a] = "ready" /\ (svc[a] = "agent" \/ op[a] = "recover") /\ Alive(a, svc[a])
    /\ WritePids(a)
    /\ IF op[a] = "start" THEN Goto(a, "up") /\ UNCHANGED monitorVars ELSE Return(a)
    /\ UNCHANGED <<running, lock, postgres, node, phase, liveVars, faults>>

\* spawn_monitor aborts the monitor of an earlier run.
Up(a) ==
    /\ at[a] = "up"
    /\ phase' = [phase EXCEPT ![a] = "running"]
    /\ monitor' = [monitor EXCEPT ![a] = TRUE]
    /\ lost' = [lost EXCEPT ![a] = {}]
    /\ LetGo(a)
    /\ waiting' = [waiting EXCEPT ![a] = WithoutRecover(a)]
    /\ UNCHANGED <<folderVars, node, liveVars, faults>>

\* What a step can fail of: any error, the death of the service it awaits, or a
\* server that is still on the cluster.
Broken(a) ==
    \/ at[a] = "postgres" /\ postgres /\ UNCHANGED faults
    \/ at[a] = "ready" /\ ~Alive(a, svc[a]) /\ UNCHANGED faults
    \/ at[a] \in {"clean", "postgres", "spawn", "ready"} /\ Fault
    \/ at[a] = "lock" /\ lock = a /\ Fault

\* pg_ctl may give up waiting for a server that comes up all the same.
PostgresFails(a) ==
    postgres' \in {postgres, postgres \/ at[a] = "postgres"}

\* Whatever has started is stopped again.
StartFails(a) ==
    /\ op[a] = "start" /\ ~(at[a] \in {"spawn", "ready"} /\ svc[a] = "agent") /\ Broken(a)
    /\ PostgresFails(a)
    /\ Goto(a, "stopping")
    /\ UNCHANGED <<running, pids, lock, node, phase, liveVars, monitorVars>>

\* The controller goes on without its agent.
AgentFails(a) ==
    /\ op[a] \in {"start", "node on"} /\ at[a] \in {"spawn", "ready"} /\ svc[a] = "agent"
    /\ Broken(a)
    /\ IF at[a] = "ready" THEN Kill(a, "agent") ELSE UNCHANGED <<running, pids, procs>>
    /\ IF op[a] = "start" THEN Goto(a, "up") /\ UNCHANGED monitorVars ELSE Return(a)
    /\ UNCHANGED <<lock, postgres, node, phase, started, restarts>>

--------------------------------------------------------------------------------
(* Stopping: stop_all, and what follows it                                    *)

\* The agent first, then the API, then Qdrant.
StopsService(a) ==
    /\ at[a] = "stopping"
    /\ \/ procs[a]["agent"] # NoPid /\ Kill(a, "agent")
       \/ procs[a]["agent"] = NoPid /\ procs[a]["backend"] # NoPid /\ Kill(a, "backend")
       \/ /\ procs[a]["agent"] = NoPid /\ procs[a]["backend"] = NoPid
          /\ procs[a]["qdrant"] # NoPid /\ Kill(a, "qdrant")
    /\ UNCHANGED <<lock, postgres, node, phase, started, restarts, opVars, monitorVars,
                   faults>>

\* The lock is released whether or not PostgreSQL has stopped.
StopsRest(a) ==
    /\ at[a] = "stopping" /\ \A s \in Services : procs[a][s] = NoPid
    /\ IF started[a] THEN StopPostgres ELSE UNCHANGED <<postgres, faults>>
    /\ started' = [started EXCEPT ![a] = FALSE]
    /\ pids' = [s \in Services |-> NoPid]
    /\ lock' = IF lock = a THEN NoApp ELSE lock
    /\ phase' = [phase EXCEPT ![a] = IF op[a] = "start" THEN "error" ELSE "off"]
    /\ Return(a)
    /\ UNCHANGED <<running, node, procs, restarts>>

--------------------------------------------------------------------------------
(* The monitor                                                                *)

\* The entries of dead services are taken out of procs before anyone deals with
\* them.
CheckProcesses(a) ==
    /\ monitor[a] /\ lost[a] = {} /\ phase[a] = "running"
    /\ LET dead == {s \in Services : procs[a][s] # NoPid /\ ~Alive(a, s)}
       IN  /\ dead # {}
           /\ lost' = [lost EXCEPT ![a] = dead]
           /\ procs' = [procs EXCEPT ![a] = [s \in Services |->
                           IF s \in dead THEN NoPid ELSE @[s]]]
    /\ waiting' = [waiting EXCEPT ![a] = Append(@, "recover")]
    /\ UNCHANGED <<folderVars, node, phase, started, restarts, op, at, svc, loaded, monitor, faults>>

CheckPostgres(a) ==
    /\ monitor[a] /\ lost[a] = {} /\ phase[a] = "running" /\ ~postgres
    /\ lost' = [lost EXCEPT ![a] = {"postgres"}]
    /\ waiting' = [waiting EXCEPT ![a] = Append(@, "recover")]
    /\ UNCHANGED <<folderVars, node, phase, liveVars, op, at, svc, loaded, monitor, faults>>

\* recover() finds that the controller no longer runs: it may have failed on the
\* service before this one.
NothingToRecover(a) ==
    /\ phase[a] # "running" /\ Turn(a, "recover")
    /\ lost' = [lost EXCEPT ![a] = {}]
    /\ UNCHANGED <<folderVars, node, phase, liveVars, op, at, svc, loaded, monitor, faults>>

RecoverBegins(a, s) ==
    /\ Begin(a, "recover", IF s = "postgres" THEN "drain" ELSE "spawn")
    /\ phase[a] = "running" /\ s \in lost[a] /\ restarts[a][s] < RestartLimit
    /\ restarts' = [restarts EXCEPT ![a][s] = @ + 1]
    /\ svc' = [svc EXCEPT ![a] = IF s = "postgres" THEN "backend" ELSE s]
    /\ UNCHANGED <<folderVars, node, phase, procs, started, monitorVars, faults>>

\* What else was lost is forgotten: the controller no longer runs.
GivesUp(a, s) ==
    /\ phase[a] = "running" /\ s \in lost[a] /\ restarts[a][s] >= RestartLimit
    /\ Turn(a, "recover")
    /\ restarts' = [restarts EXCEPT ![a][s] = RestartLimit + 1]
    /\ phase' = [phase EXCEPT ![a] = "error"]
    /\ lost' = [lost EXCEPT ![a] = {}]
    /\ UNCHANGED <<folderVars, node, procs, started, op, at, svc, loaded, monitor, faults>>

\* The API's pool would hold dead connections: it stops before PostgreSQL starts.
Drain(a) ==
    /\ at[a] = "drain"
    /\ Kill(a, "backend")
    /\ StopPostgres
    /\ Goto(a, "postgres")
    /\ UNCHANGED <<lock, node, phase, started, restarts, monitorVars>>

RecoverFails(a) ==
    /\ op[a] = "recover" /\ Broken(a)
    /\ LET gone == IF at[a] = "ready" /\ svc[a] = "agent" THEN procs[a]["agent"] ELSE NoPid
       IN  /\ running' = running \ {gone}
           /\ procs' = [procs EXCEPT ![a]["agent"] = IF gone # NoPid THEN NoPid ELSE @]
           /\ pids' = [s \in Services |->
                          IF Alive(a, s) /\ procs[a][s] # gone THEN procs[a][s] ELSE NoPid]
    /\ PostgresFails(a)
    /\ phase' = [phase EXCEPT ![a] = "error"]
    /\ Return(a)
    /\ UNCHANGED <<lock, node, started, restarts>>

\* A crash is older than RESTART_WINDOW.
Forgets(a, s) ==
    /\ restarts[a][s] > 0
    /\ restarts' = [restarts EXCEPT ![a][s] = @ - 1]
    /\ UNCHANGED <<folderVars, node, phase, procs, started, opVars, monitorVars, faults>>

--------------------------------------------------------------------------------
(* Crashes                                                                    *)

ServiceDies(p) ==
    /\ p \in running /\ Fault
    /\ Die({p})
    /\ procs' = [a \in Apps |-> [s \in Services |->
                    IF procs[a][s] = p THEN Exited ELSE procs[a][s]]]
    /\ UNCHANGED <<lock, postgres, node, phase, started, restarts, opVars, monitorVars>>

PostgresDies ==
    /\ postgres /\ Fault
    /\ postgres' = FALSE
    /\ UNCHANGED <<running, pids, lock, node, phase, liveVars, opVars, monitorVars>>

\* The app exits, at once when it is off and with a stop asked for first
\* otherwise, or it crashes.  The operating system releases the lock and, where
\* it can, ends the children.
AppEnds(a) ==
    /\ phase[a] # "closed" /\ IF phase[a] = "off" THEN UNCHANGED faults ELSE Fault
    /\ phase' = [phase EXCEPT ![a] = "closed"]
    /\ lock' = IF lock = a THEN NoApp ELSE lock
    /\ Die(IF Outlive THEN {} ELSE {procs[a][s] : s \in Services})
    /\ procs' = [procs EXCEPT ![a] = [s \in Services |-> NoPid]]
    /\ started' = [started EXCEPT ![a] = FALSE]
    /\ restarts' = [restarts EXCEPT ![a] = [s \in Services \cup {"postgres"} |-> 0]]
    /\ LetGo(a)
    /\ waiting' = [waiting EXCEPT ![a] = <<>>]
    /\ monitor' = [monitor EXCEPT ![a] = FALSE]
    /\ lost' = [lost EXCEPT ![a] = {}]
    /\ UNCHANGED <<postgres, node>>

--------------------------------------------------------------------------------

OpStep(a) ==
    \/ Lock(a) \/ LockRefused(a) \/ Clean(a) \/ StartPostgres(a) \/ Spawn(a)
    \/ SpawnedAlready(a) \/ QdrantReady(a) \/ BackendReady(a) \/ LastReady(a) \/ Up(a)
    \/ StartFails(a) \/ AgentFails(a) \/ StopsService(a) \/ StopsRest(a)
    \/ Drain(a) \/ RecoverFails(a) \/ BackupEnds(a)

OpBegins(a) ==
    \/ ReturnsAtOnce(a) \/ RestartsFromOff(a) \/ StartBegins(a) \/ StopBegins(a)
    \/ NodeOn(a) \/ NodeOff(a) \/ Backup(a) \/ NothingToRecover(a)
    \/ \E s \in Services \cup {"postgres"} : RecoverBegins(a, s) \/ GivesUp(a, s)

Check(a) == CheckProcesses(a) \/ CheckPostgres(a)

Next ==
    \/ \E a \in Apps :
          \/ Open(a) \/ AskPlain(a) \/ AskStop(a) \/ SetLocalNode(a)
          \/ OpBegins(a) \/ OpStep(a) \/ Check(a)
          \/ \E s \in Services \cup {"postgres"} : Forgets(a, s)
          \/ AppEnds(a)
    \/ \E p \in Pids : ServiceDies(p)
    \/ PostgresDies

\* Every step has a timeout, the mutex is handed out in the order it was asked
\* for, and the monitor's loop goes on.
Fairness == \A a \in Apps : WF_vars(OpBegins(a) \/ OpStep(a)) /\ WF_vars(Check(a))

Spec == Init /\ [][Next]_vars

FairSpec == Spec /\ Fairness

--------------------------------------------------------------------------------
(* Properties                                                                 *)

Stores == {"qdrant", "backend"}

\* Only the app that has the lock counts anything on the data folder as its own,
\* whatever commands, recoveries and aborts overlap, and whoever else tries.  (A
\* server that did not stop is nobody's: the next start stops it, or fails.)
OneOwner ==
    \A a \in Apps :
        started[a] \/ (\E s \in Stores : procs[a][s] # NoPid) => lock = a

StopAsked(a) == Waits(a, "stop") \/ Waits(a, "restart")

\* A running controller is watched: its monitor exists, or somebody has asked
\* to stop it.  No start, restart or abort leaves it to itself.
Watched ==
    \A a \in Apps : phase[a] = "running" => monitor[a] \/ StopAsked(a)

\* Once it is idle, pids.json names every service of a running controller, so
\* that the next start finds them should this app die.
PidFileCovers ==
    \A a \in Apps : phase[a] = "running" /\ op[a] = "none" /\ ~StopAsked(a) =>
        \A s \in Services : Alive(a, s) => pids[s] = procs[a][s]

\* A running controller is looked after, by its monitor while the app lives and
\* by pids.json for the app that comes next.
LookedAfter == TypeOK /\ Watched /\ PidFileCovers

\* No operation keeps `ops` for good, whatever fails or dies under it; and
\* whoever asks to stop gets the controller stopped, though it may be starting,
\* recovering or backing up.
OperationsEnd ==
    \A a \in Apps :
        /\ op[a] # "none" ~> op[a] = "none"
        /\ Waits(a, "stop") ~> ~Waits(a, "stop") /\ op[a] # "stop"

\* A store that dies comes back, or the controller says that it does not run.
ComesBack ==
    \A a \in Apps, s \in Stores :
        phase[a] = "running" /\ ~Alive(a, s) ~> Alive(a, s) \/ phase[a] # "running"

\* Whatever fails under it, the supervisor neither hangs nor leaves a dead store
\* behind a controller it calls running.
Recovers == OperationsEnd /\ ComesBack

--------------------------------------------------------------------------------
(* An inductive invariant of the lock                                         *)

\* Who works on the folder has its lock: a start from the moment it cleans up, a
\* recovery, and a controller that runs.  Only the local node is switched on
\* without a look at the phase, and then nothing but the agent is started.
OwnerInv ==
    /\ OneOwner
    /\ \A a \in Apps :
          /\ phase[a] = "running" => lock = a
          /\ at[a] \in {"clean", "drain", "postgres", "up"} => lock = a
          /\ at[a] \in {"spawn", "ready"} /\ op[a] # "node on" => lock = a
          /\ op[a] = "node on" => at[a] \in {"spawn", "ready"} /\ svc[a] = "agent"

--------------------------------------------------------------------------------
(* An inductive invariant of the monitor and of pids.json                     *)

\* No two entries, of whichever apps, are the same live process.
Apart ==
    \A a, b \in Apps, s, t \in Services :
        Alive(a, s) /\ procs[b][t] = procs[a][s] => a = b /\ s = t

\* What runs beside a running controller is the monitor, a local node that is
\* switched on, or a backup; the mutex is free when nobody is anywhere.
Beside ==
    \A a \in Apps :
        /\ op[a] = "none" <=> at[a] = "none"
        /\ at[a] = "up" => op[a] = "start"
        /\ phase[a] = "running" => op[a] \in {"none", "backup", "recover", "node on"}

\* Up to the service that is being started, pids.json names what is alive.
Covered(a) ==
    \A s \in Services : Alive(a, s) => pids[s] = procs[a][s] \/ (at[a] = "ready" /\ s = svc[a])

\* It does while the controller runs and nobody asked to stop it, and from the
\* moment a start has written it; as long as the app is alone, for the local node
\* of another one writes the file without the lock.
Recording(a) ==
    /\ Apps = {a}
    /\ \/ phase[a] = "running" /\ ~StopAsked(a)
       \/ at[a] = "up"
       \/ op[a] = "start" /\ at[a] \in {"spawn", "ready"} /\ svc[a] = "agent"

Listed == \A a \in Apps : Recording(a) => Covered(a)

LookInv == TypeOK /\ Watched /\ Apart /\ Beside /\ Listed

================================================================================
