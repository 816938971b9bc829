------------------------------ MODULE MCServices ------------------------------
(* Small alphabets and tables for the services.                               *)
EXTENDS Services, TLC

CONSTANTS x, y, p, q, r, s, user, admin, shared, none, gone

Symmetry == Permutations({x, y}) \cup Permutations({p, q}) \cup Permutations({r, s})

MCAlphabet == {"x", "e", ":", "r", "n"}

MCCatalog == [m \in {"small"} |-> [vram |-> 4, ram |-> 6]]

Gpu == [known |-> TRUE, total |-> 10, used |-> 5, util |-> 50]

Plain ==
    [status |-> "online", agent |-> "http", role |-> "none", recommended |-> "hybrid",
     models |-> {"small"}, ram |-> 64, vram |-> 0, silent |-> 5, cpu |-> 50, memory |-> 50,
     tasks |-> 0, healthy |-> TRUE, ramFree |-> 8, gpus |-> <<>>, cloud |-> FALSE]

Equipped == [Plain EXCEPT !.gpus = <<Gpu>>]

Cards == {Gpu, [Gpu EXCEPT !.used = 10], [Gpu EXCEPT !.known = FALSE], [Gpu EXCEPT !.used = 0, !.util = 100]}

\* A node of each kind the scheduler tells apart.
MCRows ==
    {[Plain EXCEPT !.gpus = cards] : cards \in {<<>>} \cup {<<g>> : g \in Cards} \cup {<<Gpu, g>> : g \in Cards}}
        \cup {[Equipped EXCEPT !.status = "offline"], [Equipped EXCEPT !.agent = "none"],
              [Equipped EXCEPT !.agent = "invalid"], [Equipped EXCEPT !.silent = 20],
              [Equipped EXCEPT !.silent = -1], [Equipped EXCEPT !.role = "vision"],
              [Equipped EXCEPT !.role = "ai_compute"], [Equipped EXCEPT !.models = {}],
              [Equipped EXCEPT !.models = {"other"}], [Equipped EXCEPT !.healthy = FALSE],
              [Equipped EXCEPT !.tasks = 12], [Plain EXCEPT !.ramFree = 2],
              [Plain EXCEPT !.ramFree = -1], [Plain EXCEPT !.cloud = TRUE],
              [Plain EXCEPT !.cloud = TRUE, !.agent = "https"]}

MCTasks ==
    [type : {"coding", "general"}, model : {"none", "small", "other"}, provider : {"local"},
     privacy : {FALSE}, credentials : {FALSE}, vram : {-1, 4, 5}, ram : {-1, 3}, fallback : BOOLEAN]
    \cup
    [type : {"coding"}, model : {"small", "remote"}, provider : {"cloud"}, privacy : BOOLEAN,
     credentials : BOOLEAN, vram : {-1}, ram : {-1}, fallback : {FALSE}]
================================================================================
