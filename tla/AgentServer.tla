------------------------------ MODULE AgentServer ------------------------------
(***************************************************************************)
(* The HTTP server of a node's agent (lycosa_agent/executor.py): calls of  *)
(* the controller that run on the node, and the Claude Code CLI it runs    *)
(* for some of them (runtimes/claude_code.py).  Every CLI process is a     *)
(* child of the call it serves; the generators that pass its lines on are  *)
(* closed from the inside when the call is cancelled while it waits for    *)
(* the CLI, and from the outside when it was suspended in a line that the  *)
(* controller did not take.                                                *)
(*                                                                         *)
(* The CLI may print anything, hang or exit at any point.  What it prints  *)
(* and what the machine refuses may raise where nothing catches it: the    *)
(* connection then breaks off.  The CLI has no children that would keep    *)
(* its output open.                                                        *)
(***************************************************************************)
EXTENDS Naturals, Sequences, FiniteSets, SequencesExt

CONSTANTS
    Calls,        \* bound: calls of the controller
    ClaudeSlots,  \* LYCOSA_CLAUDE_MAX_CONCURRENCY
    RagSlots,     \* rag_slots, 2 in the code
    MaxLines      \* bound: pieces of output of a run

ASSUME AgentBounds == ClaudeSlots \in Nat \ {0} /\ RagSlots \in Nat \ {0} /\ MaxLines \in Nat

VARIABLES
    running,  \* app.state.running_tasks, what the heartbeat reports
    call,     \* [op, at, sending, left, seen, raised, sent]: a call, whether it was
              \* broken off by an exception, and what it has sent
    slots,    \* calls that hold a slot of the Claude runtime
    waiting,  \* calls that wait for one, in order
    cli,      \* the CLI process of a call: "none", "running", "dying", "exited"
    caller    \* the controller's end of the connection: "here" or "gone"

agentVars == <<running, call, slots, waiting, cli, caller>>

NoCall ==
    [op |-> "none", at |-> "new", sending |-> FALSE, left |-> <<>>, seen |-> FALSE,
     raised |-> FALSE, sent |-> <<>>]

AgentInit ==
    /\ running = 0
    /\ call = [c \in Calls |-> NoCall]
    /\ slots = {} /\ waiting = <<>>
    /\ cli = [c \in Calls |-> "none"]
    /\ caller = [c \in Calls |-> "here"]

At(c, stage) == call[c].at = stage /\ ~call[c].sending
Go(c, stage) == call' = [call EXCEPT ![c].at = stage]

\* An exception that nothing catches: the finally clauses run, and the
\* connection breaks off.
Raise(c, stage) == call' = [call EXCEPT ![c] = [@ EXCEPT !.at = stage, !.raised = TRUE]]

\* yield: the generator is suspended until the line is on its way.
Yield(c, type, stage) ==
    call' = [call EXCEPT ![c] = [@ EXCEPT !.at = stage, !.sending = TRUE,
                                          !.sent = Append(call[c].sent, type)]]

--------------------------------------------------------------------------------
(* Calls that run in the local runtime                                        *)

Grounded == {c \in Calls : call[c].op = "rag" /\ call[c].at = "working"}

\* /rag/answer answers 429 when both slots are taken, /execute 403 when cloud
\* execution is not authorized.
Begin(c) ==
    /\ At(c, "new")
    /\ \/ /\ \/ Cardinality(Grounded) < RagSlots /\ call' = [call EXCEPT ![c] = [@ EXCEPT !.op = "rag", !.at = "working"]]
             \/ call' = [call EXCEPT ![c] = [@ EXCEPT !.op = "execute", !.at = "working"]]
          /\ running' = running + 1
       \/ /\ \E op \in {"rag", "execute"} :
                /\ op = "rag" => Cardinality(Grounded) >= RagSlots
                /\ call' = [call EXCEPT ![c] = [@ EXCEPT !.op = op, !.at = "done"]]
          /\ UNCHANGED running
    /\ UNCHANGED <<slots, waiting, cli, caller>>

\* The runtime answers, fails or times out: an answer in any case.  A caller
\* that has left does not stop these handlers.
Complete(c) ==
    /\ At(c, "working")
    /\ Go(c, "done")
    /\ running' = running - 1
    /\ UNCHANGED <<slots, waiting, cli, caller>>

--------------------------------------------------------------------------------
(* /claude/complete: the way of a call                                        *)

\* 404 and 403, or the first step of events().
BeginClaude(c) ==
    /\ At(c, "new")
    /\ \E stage \in {"command", "done"} :
          /\ call' = [call EXCEPT ![c] = [@ EXCEPT !.op = "claude", !.at = stage]]
          /\ running' = IF stage = "command" THEN running + 1 ELSE running
    /\ UNCHANGED <<slots, waiting, cli, caller>>

\* The CLI is not found, or a slot is asked for.
Command(c) ==
    /\ At(c, "command")
    /\ \/ Yield(c, "error", "over") /\ UNCHANGED <<slots, waiting>>
       \/ /\ Cardinality(slots) < ClaudeSlots /\ waiting = <<>>
          /\ slots' = slots \cup {c}
          /\ Go(c, "spawning")
          /\ UNCHANGED waiting
       \/ /\ Cardinality(slots) >= ClaudeSlots \/ waiting # <<>>
          /\ waiting' = Append(waiting, c)
          /\ Go(c, "waiting")
          /\ UNCHANGED slots
    /\ UNCHANGED <<running, cli, caller>>

Acquire(c) ==
    /\ At(c, "waiting") /\ Head(waiting) = c /\ Cardinality(slots) < ClaudeSlots
    /\ waiting' = Tail(waiting)
    /\ slots' = slots \cup {c}
    /\ Go(c, "spawning")
    /\ UNCHANGED <<running, cli, caller>>

Spawn(c) ==
    /\ At(c, "spawning")
    /\ \/ cli' = [cli EXCEPT ![c] = "running"] /\ Go(c, "writing")
       \/ Yield(c, "error", "release") /\ UNCHANGED cli
    /\ UNCHANGED <<running, slots, waiting, caller>>

\* No directory, or no room for the system prompt: an OSError of its own.
PrepareFails(c) ==
    /\ At(c, "spawning")
    /\ Raise(c, "release")
    /\ UNCHANGED <<running, slots, waiting, cli, caller>>

\* The CLI takes the prompt, or has gone away; there is no time limit on it.
Written(c) ==
    /\ At(c, "writing")
    /\ Go(c, "reading")
    /\ UNCHANGED <<running, slots, waiting, cli, caller>>

\* A piece of text, or an aside: the name of the model ("start"), reasoning.
Pieces == {"text", "aside"}

\* A line that is passed on, up to MAX_OUTPUT_CHARS.
ReadPiece(c) ==
    /\ At(c, "reading") /\ cli[c] = "running" /\ Len(call[c].sent) < MaxLines
    /\ \E type \in Pieces :
          call' = [call EXCEPT ![c] = [@ EXCEPT !.sending = TRUE, !.sent = Append(call[c].sent, type),
                                                !.seen = call[c].seen \/ type = "text"]]
    /\ UNCHANGED <<running, slots, waiting, cli, caller>>

\* Mutant of ReadResult: the loop goes on after the result.
ReadResultOn(c) ==
    /\ At(c, "reading") /\ cli[c] = "running" /\ Len(call[c].sent) < MaxLines
    /\ call' = [call EXCEPT ![c].sent = @ \o <<"usage", "finish">>]
    /\ UNCHANGED <<running, slots, waiting, cli, caller>>

\* The result: its text unless some was streamed, its usage, its reason.
ReadResult(c) ==
    /\ At(c, "reading") /\ cli[c] = "running"
    /\ \E left \in {<<"usage", "finish">>} \cup
                      (IF call[c].seen THEN {} ELSE {<<"text", "usage", "finish">>}) :
          call' = [call EXCEPT ![c] = [@ EXCEPT !.at = "result", !.left = left]]
    /\ UNCHANGED <<running, slots, waiting, cli, caller>>

GiveResult(c) ==
    /\ At(c, "result")
    /\ LET more == Tail(call[c].left)
       IN  call' = [call EXCEPT ![c] = [@ EXCEPT !.at = IF more = <<>> THEN "ending" ELSE "result",
                                                 !.left = more, !.sending = TRUE,
                                                 !.sent = Append(call[c].sent, Head(call[c].left))]]
    /\ UNCHANGED <<running, slots, waiting, cli, caller>>

\* A result that reports an error, a line or an output that is too large, or
\* the end of the output without a result.
ReadFailure(c) ==
    /\ At(c, "reading")
    /\ Yield(c, "error", "ending")
    /\ UNCHANGED <<running, slots, waiting, cli, caller>>

\* A line that is an object, but within it has another shape than is looked for:
\* an `event`, `delta` or `unifiedWindows` that is no object.
ReadRaises(c) ==
    /\ At(c, "reading") /\ cli[c] = "running"
    /\ Raise(c, "ending")
    /\ UNCHANGED <<running, slots, waiting, cli, caller>>

\* The deadline is looked at between two lines.
Deadline(c) ==
    /\ At(c, "reading")
    /\ Yield(c, "error", "ending")
    /\ UNCHANGED <<running, slots, waiting, cli, caller>>

\* Mutant of Finally: the process is only waited for.
FinallyWaits(c) ==
    /\ At(c, "ending")
    /\ Go(c, "exiting")
    /\ UNCHANGED <<running, slots, waiting, cli, caller>>

\* The finally of _run: kill, wait for the exit and the end of stderr.
Finally(c) ==
    /\ At(c, "ending")
    /\ cli' = [cli EXCEPT ![c] = IF @ = "running" THEN "dying" ELSE @]
    /\ Go(c, "exiting")
    /\ UNCHANGED <<running, slots, waiting, caller>>

Exited(c) ==
    /\ At(c, "exiting") /\ cli[c] = "exited"
    /\ Go(c, "release")
    /\ UNCHANGED <<running, slots, waiting, cli, caller>>

Release(c) ==
    /\ At(c, "release")
    /\ slots' = slots \ {c}
    /\ Go(c, "over")
    /\ UNCHANGED <<running, waiting, cli, caller>>

\* The finally of events().
Over(c) ==
    /\ At(c, "over")
    /\ running' = running - 1
    /\ Go(c, "done")
    /\ UNCHANGED <<slots, waiting, cli, caller>>

--------------------------------------------------------------------------------
(* The caller leaves                                                          *)

\* Cancelled where it waits: the generators unwind from the inside.  A process
\* that was being started is killed by asyncio.
Cancelled(c) ==
    /\ caller[c] = "gone" /\ call[c].op = "claude" /\ ~call[c].sending
    /\ \/ /\ call[c].at = "waiting"
          /\ waiting' = SelectSeq(waiting, LAMBDA d : d # c)
          /\ Go(c, "over")
          /\ UNCHANGED cli
       \/ /\ call[c].at = "spawning"
          /\ \E process \in {"none", "dying"} : cli' = [cli EXCEPT ![c] = process]
          /\ Go(c, "release")
          /\ UNCHANGED waiting
       \/ /\ call[c].at \in {"writing", "reading", "exiting"}
          /\ cli' = [cli EXCEPT ![c] = IF @ = "running" THEN "dying" ELSE @]
          /\ Go(c, "release")
          /\ UNCHANGED waiting
    /\ UNCHANGED <<running, slots, caller>>

\* Suspended in a line: the outer generators are closed before the inner ones.
Dropped(c) ==
    /\ caller[c] = "gone" /\ call[c].sending
    /\ call' = [call EXCEPT ![c] = [@ EXCEPT !.sending = FALSE, !.at = "dropped"]]
    /\ running' = running - 1
    /\ UNCHANGED <<slots, waiting, cli, caller>>

DropSlot(c) ==
    /\ At(c, "dropped")
    /\ slots' = slots \ {c}
    /\ Go(c, "dropping")
    /\ UNCHANGED <<running, waiting, cli, caller>>

DropProcess(c) ==
    /\ At(c, "dropping")
    /\ cli' = [cli EXCEPT ![c] = IF @ = "running" THEN "dying" ELSE @]
    /\ Go(c, "done")
    /\ UNCHANGED <<running, slots, waiting, caller>>

--------------------------------------------------------------------------------
(* The environment                                                            *)

Sent(c) ==
    /\ call[c].sending /\ caller[c] = "here"
    /\ call' = [call EXCEPT ![c].sending = FALSE]
    /\ UNCHANGED <<running, slots, waiting, cli, caller>>

Leave(c) ==
    /\ call[c].at \notin {"new", "done"} /\ caller[c] = "here"
    /\ caller' = [caller EXCEPT ![c] = "gone"]
    /\ UNCHANGED <<running, call, slots, waiting, cli>>

\* The read timeout of the controller's connection: nothing was sent.
GiveUpSilent(c) == call[c].at \in {"waiting", "writing"} /\ Leave(c)

CliExits(c) ==
    /\ cli[c] \in {"running", "dying"}
    /\ cli' = [cli EXCEPT ![c] = "exited"]
    /\ UNCHANGED <<running, call, slots, waiting, caller>>

AgentStep(c) ==
    \/ Complete(c)
    \/ Command(c) \/ Acquire(c) \/ Spawn(c) \/ PrepareFails(c) \/ GiveResult(c) \/ Deadline(c)
    \/ Finally(c) \/ Exited(c) \/ Release(c) \/ Over(c)
    \/ Cancelled(c) \/ Dropped(c) \/ DropSlot(c) \/ DropProcess(c)

AgentNext ==
    \E c \in Calls :
        \/ Begin(c) \/ BeginClaude(c) \/ AgentStep(c)
        \/ Written(c) \/ ReadPiece(c) \/ ReadResult(c) \/ ReadFailure(c) \/ ReadRaises(c)
        \/ Sent(c) \/ Leave(c) \/ CliExits(c)

\* The agent runs; its runtimes have time limits of their own; the controller
\* takes what is sent and gives up on a silent stream; what is killed exits.
AgentFairness ==
    \A c \in Calls :
        /\ WF_agentVars(AgentStep(c)) /\ WF_agentVars(Sent(c)) /\ WF_agentVars(GiveUpSilent(c))
        /\ WF_agentVars(cli[c] = "dying" /\ CliExits(c))

--------------------------------------------------------------------------------
(* Properties                                                                 *)

Outcomes == {"finish", "error"}

Told(c) == call[c].sent # <<>> /\ Last(call[c].sent) \in Outcomes

\* A caller that stays until its call is over.
Waits(c) == call[c].op = "claude" /\ call[c].at = "over" /\ caller[c] = "here"

\* Nothing comes after the outcome, and the usage right before the finish; a
\* caller that stays is told one outcome, or its connection breaks off without
\* one: no answer ends silently, and none is broken off after its outcome.
OneOutcome ==
    \A c \in Calls :
        LET sent == call[c].sent
        IN  /\ \A k \in DOMAIN sent :
                  /\ sent[k] \in Outcomes => k = Len(sent)
                  /\ sent[k] = "finish" => k > 1 /\ sent[k - 1] = "usage"
                  /\ sent[k] = "usage" => k >= Len(sent) - 1
            /\ Waits(c) => (Told(c) <=> ~call[c].raised)

\* Whatever the CLI does and whenever the caller leaves, a call ends: its slot
\* and its place in the gauge are given back and its CLI does not survive it.
CallsEnd ==
    /\ \A c \in Calls :
          call[c].at # "new" ~> call[c].at = "done" /\ c \notin slots /\ cli[c] \in {"none", "exited"}
    /\ [](running = Cardinality({c \in Calls :
              call[c].at \notin {"new", "dropped", "dropping", "done"}}))

--------------------------------------------------------------------------------
(* An inductive invariant                                                    *)

OnlyPieces(s) == \A k \in DOMAIN s : s[k] \in Pieces

Shaped(s) ==
    \A k \in DOMAIN s :
        /\ s[k] \in Outcomes => k = Len(s)
        /\ s[k] = "finish" => k > 1 /\ s[k - 1] = "usage"
        /\ s[k] = "usage" => k >= Len(s) - 1

\* What a call has sent at every stage, and what is left of the result it gives.
OutcomeInv(c) ==
    LET sent == call[c].sent
        left == call[c].left
        at == call[c].at
    IN  /\ Shaped(sent)
        /\ at \in {"new", "working", "command", "waiting", "spawning", "writing"} =>
              sent = <<>> /\ ~call[c].raised
        /\ at = "reading" => OnlyPieces(sent)
        /\ at \in {"reading", "result"} => ~call[c].raised
        /\ at = "result" =>
              /\ left \in {<<"text", "usage", "finish">>, <<"usage", "finish">>, <<"finish">>}
              /\ IF left = <<"finish">>
                 THEN /\ sent # <<>> /\ Last(sent) = "usage"
                      /\ \A k \in DOMAIN sent : k < Len(sent) => sent[k] \in Pieces
                 ELSE OnlyPieces(sent)
        /\ at \in {"ending", "exiting", "release", "over"} /\ caller[c] = "here" =>
              (Told(c) <=> ~call[c].raised)
        /\ at \in {"dropped", "dropping"} => caller[c] = "gone"

AgentInv == \A c \in Calls : OutcomeInv(c)
================================================================================
