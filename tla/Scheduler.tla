------------------------------- MODULE Scheduler -------------------------------
(***************************************************************************)
(* Which nodes a task may go to, and in which order                        *)
(* (app/services/scheduler.py, classifier.py): rank_candidates and         *)
(* route_candidates, read once from the rows of the registry when a task   *)
(* is executed.                                                            *)
(*                                                                         *)
(* A node is its row: status, agent ("none", "invalid", "http", "https"),  *)
(* role and recommended, models, ram and vram in GB, silent (seconds since *)
(* the last heartbeat or Unknown), and the metrics of that heartbeat: cpu, *)
(* memory, tasks, healthy, ramFree and gpus, each [known, total, used,     *)
(* util].  cloud says that the administrator approved it for cloud models. *)
(* Scores are counted in tenths.                                           *)
(***************************************************************************)
EXTENDS Integers, Sequences, FiniteSets, Functions, Ranking

CONSTANTS
    NodeRows,       \* the rows the registry may hold
    Registered,     \* bound: how many it holds
    Tasks,          \* what tasks ask for
    Margin,         \* settings.routing_vram_safety_margin_mb
    SilentAfter,    \* settings.heartbeat_timeout_seconds
    Catalog,        \* model -> [vram, ram] in MB, for the models it lists
    CloudModels     \* settings.cloud_models

ASSUME SchedulerBounds == Registered \in Nat /\ Margin \in Nat /\ SilentAfter \in Nat

Unknown == -1     \* None, where a number is meant
Measured == Nat \cup {Unknown}

\* The values the schemas of a node, of its heartbeat and of a task let through.
Gpus == [known : BOOLEAN, total : Nat \ {0}, used : Nat, util : Nat]

Rows ==
    [status : STRING, agent : {"none", "invalid", "http", "https"}, role : STRING,
     recommended : STRING, models : SUBSET STRING, ram : Nat, vram : Nat, silent : Measured,
     cpu : Nat, memory : Nat, tasks : Nat, healthy : BOOLEAN, ramFree : Measured,
     gpus : Seq(Gpus), cloud : BOOLEAN]

Asks ==
    [type : {"coding", "retrieval", "tool", "vision", "general"}, model : STRING,
     provider : STRING, privacy : BOOLEAN, credentials : BOOLEAN, vram : Measured,
     ram : Measured, fallback : BOOLEAN]

ASSUME SchedulerRows ==
    /\ NodeRows \subseteq Rows /\ Tasks \subseteq Asks /\ Tasks # {}
    /\ DOMAIN Catalog \subseteq STRING \ {"none"}
    /\ Catalog \in [DOMAIN Catalog -> [vram : Nat, ram : Nat]]

VARIABLES
    nodes,       \* the rows, in the order the database returns them
    task,        \* the task to place
    decisions    \* the answer of route_candidates, Undecided before it

schedulerVars == <<nodes, task, decisions>>

Undecided == << [node |-> 0, score |-> 0, onCpu |-> FALSE] >>

SchedulerInit ==
    /\ nodes \in [1..Registered -> NodeRows]
    /\ task \in Tasks
    /\ decisions = Undecided

SchedulerIdle ==
    /\ nodes = <<>> /\ task = CHOOSE t \in Tasks : TRUE
    /\ decisions = Undecided

--------------------------------------------------------------------------------
(* rank_candidates                                                            *)

\* ROLE_PREFERENCES: the first role fits best.
PreferredRoles(type) ==
    CASE type = "coding"    -> <<"ai_compute", "hybrid">>
      [] type = "retrieval" -> <<"knowledge", "hybrid">>
      [] type = "tool"      -> <<"tool", "hybrid">>
      [] type = "vision"    -> <<"vision", "hybrid">>
      [] type = "general"   -> <<"hybrid", "ai_compute", "knowledge", "tool">>

EffectiveRole(n) == IF n.role = "none" THEN n.recommended ELSE n.role

Fit(n, type) ==
    LET roles == PreferredRoles(type)
    IN  Len(roles) + 1 - (CHOOSE i \in DOMAIN roles : roles[i] = EffectiveRole(n))

Least(a, b) == IF a < b THEN a ELSE b

RankScore(n, type, model) ==
    1000 * Fit(n, type)
        + (100 * Least(n.ram, 128)) \div 128 + (100 * Least(n.vram, 48)) \div 48
        + (IF model \in n.models THEN 200 ELSE 0)
        - n.cpu - n.memory - 50 * n.tasks

\* Stable, best first.
BestFirst(seq, scores) ==
    [k \in DOMAIN seq |-> seq[Ranked(DOMAIN seq, scores)[k]]]

RankCandidates(type, model) ==
    LET fit == InOrder({i \in DOMAIN nodes :
                   /\ nodes[i].status = "online"
                   /\ nodes[i].agent \in {"http", "https"}
                   /\ EffectiveRole(nodes[i]) \in Range(PreferredRoles(type))})
    IN  BestFirst(fit, [k \in DOMAIN fit |-> RankScore(nodes[fit[k]], type, model)])

--------------------------------------------------------------------------------
(* route_candidates                                                           *)

\* A node that fell silent is not used although no sweep has noticed yet.
Reported(n, t) ==
    IF n.silent = Unknown
    THEN t.vram = Unknown /\ t.provider = "local"
    ELSE n.silent <= SilentAfter

\* body.model, else the first model the node reports.
ModelFor(n, t) ==
    IF t.model # "none" THEN t.model
    ELSE IF n.models = {} THEN "none" ELSE CHOOSE m \in n.models : TRUE

RequiredVram(n, t) ==
    IF t.vram = Unknown /\ n.gpus # <<>> /\ ModelFor(n, t) \in DOMAIN Catalog
    THEN Catalog[ModelFor(n, t)].vram
    ELSE t.vram

Free(gpu) == IF gpu.total > gpu.used THEN gpu.total - gpu.used ELSE 0

GpuScore(gpu) == (600 * Free(gpu)) \div gpu.total - 4 * gpu.util

\* The cards that are known to have the room.
Roomy(n, t) ==
    {g \in DOMAIN n.gpus :
        /\ n.gpus[g].known
        /\ RequiredVram(n, t) # Unknown => Free(n.gpus[g]) >= RequiredVram(n, t) + Margin}

\* Mutant of Usable: one card with the room is enough.
UsableAny(n, t) == Roomy(n, t)

\* With a requirement, all cards or none: "Ollama currently chooses placement
\* itself."
Usable(n, t) ==
    IF RequiredVram(n, t) # Unknown /\ Roomy(n, t) # DOMAIN n.gpus THEN {} ELSE Roomy(n, t)

\* The explicit CPU fallback, where a requirement is not met.
CpuFallback(n, t) ==
    LET required == IF t.ram # Unknown /\ t.ram # 0 THEN t.ram
                    ELSE IF ModelFor(n, t) \in DOMAIN Catalog THEN Catalog[ModelFor(n, t)].ram
                    ELSE Unknown
    IN  t.fallback /\ required # Unknown /\ n.ramFree # Unknown /\ n.ramFree >= required

LocalOk(n, t) ==
    /\ n.healthy
    /\ ModelFor(n, t) \in n.models
    /\ t.ram # Unknown => n.ramFree # Unknown /\ n.ramFree >= t.ram
    /\ Usable(n, t) # {} \/ RequiredVram(n, t) = Unknown \/ CpuFallback(n, t)

Eligible(n, t) ==
    /\ Reported(n, t)
    /\ ModelFor(n, t) # "none"
    /\ IF t.provider = "local" THEN LocalOk(n, t) ELSE n.cloud /\ n.agent = "https"

\* Of the cards, the best; where the model has to fit, the worst.
GpuShare(n, t) ==
    LET scores == {GpuScore(n.gpus[g]) : g \in Usable(n, t)}
    IN  IF t.provider # "local" \/ scores = {} THEN 0
        ELSE CHOOSE s \in scores : \A o \in scores :
                IF RequiredVram(n, t) # Unknown THEN s <= o ELSE s >= o

RouteScore(n, t) ==
    1000 * Fit(n, t.type) - n.cpu - 2 * n.memory - 100 * n.tasks + GpuShare(n, t)

Decision(i, t) ==
    [node |-> i, score |-> RouteScore(nodes[i], t),
     onCpu |-> t.provider = "local" /\ Usable(nodes[i], t) = {} /\ RequiredVram(nodes[i], t) # Unknown]

CloudDenied(t) ==
    t.provider # "local" /\ (t.privacy \/ ~t.credentials \/ t.model \notin CloudModels)

RouteCandidates(t) ==
    IF CloudDenied(t) THEN <<>>
    ELSE LET candidates == RankCandidates(t.type, t.model)
             ranked == Selected(candidates, {k \in DOMAIN candidates : Eligible(nodes[candidates[k]], t)})
             made == [k \in DOMAIN ranked |-> Decision(ranked[k], t)]
         IN  BestFirst(made, [k \in DOMAIN made |-> made[k].score])

\* The orchestrator asks when it executes a task; it refuses to ask for a
\* private task of another provider, and knows the key of no such task.
Route ==
    /\ decisions = Undecided
    /\ decisions' = RouteCandidates(task)
    /\ UNCHANGED <<nodes, task>>

SchedulerNext == Route

--------------------------------------------------------------------------------
(* Properties                                                                 *)

\* The node has the RAM that was asked for or, where none was, what the catalogue
\* says of the model.
HasRam(n, t) ==
    /\ n.ramFree # Unknown
    /\ IF t.ram \notin {Unknown, 0} THEN n.ramFree >= t.ram
       ELSE \E m \in DOMAIN Catalog \cap n.models :
               t.model \in {m, "none"} /\ n.ramFree >= Catalog[m].ram

\* Wherever the runtime of a chosen node places the model, it fits: whatever
\* card it picks has the memory asked for, stated or estimated, and the margin,
\* unless the task allows the CPU and the node has the RAM for that; nobody is
\* named twice, and no private task leaves the fabric (scheduler.py:191 "Do not
\* claim a safe assignment based on a different, idle GPU it might not use").
PlacementSafe ==
    decisions # Undecided =>
        /\ \A i, j \in DOMAIN decisions : decisions[i].node = decisions[j].node => i = j
        /\ task.privacy /\ task.provider # "local" => decisions = <<>>
        /\ \A i \in DOMAIN decisions :
              LET n == nodes[decisions[i].node]
                  asked == IF task.vram # Unknown THEN task.vram
                           ELSE IF task.model \in DOMAIN Catalog /\ n.gpus # <<>>
                           THEN Catalog[task.model].vram ELSE Unknown
              IN  task.provider = "local" /\ asked # Unknown =>
                    \/ /\ n.gpus # <<>> /\ ~decisions[i].onCpu
                       /\ \A g \in DOMAIN n.gpus :
                             n.gpus[g].known /\ Free(n.gpus[g]) >= asked + Margin
                    \/ decisions[i].onCpu /\ task.fallback /\ HasRam(n, task)
================================================================================
