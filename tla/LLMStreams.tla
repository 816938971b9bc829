------------------------------ MODULE LLMStreams ------------------------------
(***************************************************************************)
(* One streamed answer of a provider, translated to normalized events by   *)
(* the stream method of an adapter (app/llm/adapters): OpenAI-compatible,  *)
(* Anthropic, Gemini, Ollama and the Claude subscription of a node.        *)
(*                                                                         *)
(* The provider says what its dialect allows; the connection may be closed *)
(* or break at any point, also within a line.  The content of texts and    *)
(* arguments is left out: a tool call has the number of fragments its      *)
(* arguments were sent in, and no proper prefix of them is a JSON object.  *)
(* What changes nothing is left out: pings, comments, other choices, empty *)
(* deltas.                                                                 *)
(***************************************************************************)
EXTENDS Naturals, Sequences, FiniteSets

CONSTANTS
    MaxCalls,    \* bound: tool calls of the answer
    MaxFragments,\* bound: fragments of the arguments of a call
    MaxTexts     \* bound: pieces of text and reasoning

ASSUME StreamBounds == MaxCalls \in Nat /\ MaxFragments \in Nat /\ MaxTexts \in Nat

Indexes == 0..MaxCalls - 1

VARIABLES
    dialect,
    size,     \* per call, the fragments the provider has for it
    wire,     \* what the provider has sent: [begun, sent, closed, stage]; a stage
              \* is "content", "stopped", "counted" (of a node) or "over"
    at,       \* the adapter: "idle", "reading", "calls", "usage", "finish", "ended", "failed"
    kept,     \* per call, the fragments the adapter has put together
    usage,    \* BOOLEAN: a usage was read that is held back
    finish,   \* the finish reason, "none" until one is read
    out       \* the events the adapter has yielded

adapterVars == <<at, kept, usage, finish, out>>
streamVars == <<dialect, size, wire, adapterVars>>

Fragmented == dialect \in {"openai", "anthropic"}
HoldsFinish == dialect # "claude"

Event(type) == [type |-> type, index |-> 0, kept |-> 0, reason |-> "none"]
Delta(i) == [Event("tool_call_delta") EXCEPT !.index = i]
ToolCall(i, n) == [Event("tool_call") EXCEPT !.index = i, !.kept = n]
Finished(r) == [Event("finish") EXCEPT !.reason = r]

Events(type) == {k \in DOMAIN out : out[k].type = type}
Emit(event) == out' = Append(out, event)

NothingSent ==
    [begun |-> {}, sent |-> [i \in Indexes |-> 0], closed |-> {}, stage |-> "content"]

StreamInit ==
    /\ dialect \in {"openai", "anthropic", "gemini", "ollama", "claude"}
    /\ size \in [Indexes -> 0..MaxFragments]
    /\ wire = NothingSent
    /\ at = "reading"
    /\ kept = [i \in Indexes |-> 0]
    /\ usage = FALSE
    /\ finish = "none"
    /\ out = <<>>

\* The adapter before its stream begins.
StreamIdle ==
    /\ dialect = "openai" /\ size = [i \in Indexes |-> 0]
    /\ wire = NothingSent /\ at = "idle"
    /\ kept = [i \in Indexes |-> 0] /\ usage = FALSE /\ finish = "none" /\ out = <<>>

--------------------------------------------------------------------------------
(* Content.  A call may begin once those before it have begun; with Anthropic *)
(* its block is over before the next one begins.                              *)

\* A block that ended before the arguments were whole: max_tokens, a refusal.
Cut == \E i \in wire.closed : wire.sent[i] < size[i]

\* Content comes until the provider stops, and none after a call it has cut; with
\* Anthropic message_start has come before it, and its usage is held.
Sending ==
    /\ at = "reading" /\ wire.stage = "content" /\ ~Cut
    /\ dialect = "anthropic" => usage

MayBegin(i) ==
    /\ Sending /\ i \notin wire.begun
    /\ \A j \in Indexes : j < i => j \in (IF dialect = "anthropic" THEN wire.closed ELSE wire.begun)

Text ==
    /\ Sending
    /\ Cardinality(Events("text") \cup Events("reasoning")) < MaxTexts
    /\ \E type \in {"text", "reasoning"} : Emit(Event(type))
    /\ UNCHANGED <<dialect, size, wire, at, kept, usage, finish>>

\* The first fragment of a call names it.
BeginCall ==
    /\ Fragmented
    /\ \E i \in Indexes :
          /\ MayBegin(i)
          /\ wire' = [wire EXCEPT !.begun = @ \cup {i}]
          /\ Emit(Delta(i))
    /\ UNCHANGED <<dialect, size, at, kept, usage, finish>>

Fragment ==
    /\ Sending /\ Fragmented
    /\ \E i \in wire.begun \ wire.closed :
          /\ wire.sent[i] < size[i]
          /\ wire' = [wire EXCEPT !.sent[i] = @ + 1]
          /\ kept' = [kept EXCEPT ![i] = @ + 1]
          /\ Emit(Delta(i))
    /\ UNCHANGED <<dialect, size, at, usage, finish>>

\* parse_arguments: no text at all stands for no arguments, a part of an object
\* is malformed.
ParseFails(i) == kept[i] > 0 /\ kept[i] < size[i]

\* Mutant of CloseBlock: the call is handed over with whatever came of it.
CloseAnyBlock ==
    /\ Sending /\ dialect = "anthropic"
    /\ \E i \in wire.begun \ wire.closed :
          /\ wire' = [wire EXCEPT !.closed = @ \cup {i}]
          /\ Emit(ToolCall(i, kept[i]))
    /\ UNCHANGED <<dialect, size, at, kept, usage, finish>>

\* content_block_stop, whether the arguments are whole or were cut.
CloseBlock ==
    /\ Sending /\ dialect = "anthropic"
    /\ \E i \in wire.begun \ wire.closed :
          /\ wire' = [wire EXCEPT !.closed = @ \cup {i}]
          /\ IF ParseFails(i)
             THEN at' = "failed" /\ UNCHANGED out
             ELSE Emit(ToolCall(i, kept[i])) /\ UNCHANGED at
    /\ UNCHANGED <<dialect, size, kept, usage, finish>>

\* Gemini and Ollama send a call in one piece.
WholeCall ==
    /\ dialect \in {"gemini", "ollama"}
    /\ \E i \in Indexes :
          /\ MayBegin(i)
          /\ wire' = [wire EXCEPT !.begun = @ \cup {i}, !.closed = @ \cup {i},
                                  !.sent[i] = size[i]]
          /\ kept' = [kept EXCEPT ![i] = size[i]]
          /\ Emit(ToolCall(i, size[i]))
    /\ UNCHANGED <<dialect, size, at, usage, finish>>

--------------------------------------------------------------------------------
(* The provider stops, counts and ends                                        *)

AllSent == \A i \in wire.begun : wire.sent[i] = size[i]

Complete == {"stop", "tool_calls"}

\* The finish reasons the dialects make of the provider's word.  A provider that
\* stops within the arguments of a call does not call its answer complete.
Reasons ==
    LET called == wire.begun # {}
        cut == {"length", "content_filter", "other"}
    IN  CASE dialect \in {"openai", "anthropic"} -> cut \cup (IF AllSent THEN Complete ELSE {})
          [] dialect = "gemini" -> cut \cup {IF called THEN "tool_calls" ELSE "stop"}
          [] dialect = "ollama" -> {"length"} \cup (IF called THEN {"tool_calls"} ELSE {"stop", "other"})
          [] dialect = "claude" -> {"stop", "length", "other"}

\* Of the dialects that hold it back, at any point of the content; Anthropic
\* closes the block first.  Ollama's `done` line is all in one; Gemini may
\* refuse a call it has made itself (MALFORMED_FUNCTION_CALL).
Stop ==
    /\ at = "reading" /\ HoldsFinish /\ wire.stage = "content"
    /\ dialect = "anthropic" => usage /\ wire.closed = wire.begun
    /\ \/ /\ \E r \in Reasons : finish' = r
          /\ wire' = [wire EXCEPT !.stage = IF dialect = "ollama" THEN "over" ELSE "stopped"]
          /\ at' = IF dialect = "ollama" THEN "usage" ELSE at
          /\ usage' = (usage \/ dialect = "ollama")
       \/ /\ dialect = "gemini"
          /\ at' = "failed"
          /\ UNCHANGED <<wire, usage, finish>>
    /\ UNCHANGED <<dialect, size, kept, out>>

CountsApart == dialect \in {"openai", "anthropic", "gemini"} /\ wire.stage \in {"content", "stopped"}

\* Mutant of Count: the usage is handed over as soon as it is read.
CountAtOnce ==
    /\ at = "reading" /\ CountsApart /\ ~usage
    /\ usage' = TRUE
    /\ Emit(Event("usage"))
    /\ UNCHANGED <<dialect, size, wire, at, kept, finish>>

\* A usage is read, at the beginning, with a piece of content or after the stop;
\* a later one replaces it.
Count ==
    /\ at = "reading" /\ CountsApart /\ ~usage
    /\ usage' = TRUE
    /\ UNCHANGED <<dialect, size, wire, at, kept, finish, out>>

\* The agent's usage and finish lines are passed on at once.
AgentCounts ==
    /\ at = "reading" /\ dialect = "claude" /\ wire.stage = "content"
    /\ wire' = [wire EXCEPT !.stage = "counted"]
    /\ Emit(Event("usage"))
    /\ UNCHANGED <<dialect, size, at, kept, usage, finish>>

AgentFinishes ==
    /\ at = "reading" /\ dialect = "claude" /\ wire.stage = "counted"
    /\ wire' = [wire EXCEPT !.stage = "over"]
    /\ \E r \in Reasons : finish' = r /\ Emit(Finished(r))
    /\ UNCHANGED <<dialect, size, at, kept, usage>>

\* [DONE] or message_stop: the rest is not read.
EndMark ==
    /\ at = "reading" /\ Fragmented /\ wire.stage = "stopped"
    /\ wire' = [wire EXCEPT !.stage = "over"]
    /\ at' = IF dialect = "openai" THEN "calls" ELSE "usage"
    /\ UNCHANGED <<dialect, size, kept, usage, finish, out>>

\* The connection is closed, after the answer or before its end, between two
\* lines: iter_sse and stream_lines give what they hold, and the loop is over.
Closed ==
    /\ at = "reading"
    /\ at' = CASE dialect = "openai" -> "calls"
               [] dialect = "claude" -> IF finish = "none" THEN "failed" ELSE "ended"
               [] OTHER -> "usage"
    /\ UNCHANGED <<dialect, size, wire, kept, usage, finish, out>>

\* It breaks or times out, ends within a line, brings an error or another shape.
Broken ==
    /\ at = "reading"
    /\ at' = "failed"
    /\ UNCHANGED <<dialect, size, wire, kept, usage, finish, out>>

--------------------------------------------------------------------------------
(* After the loop                                                             *)

\* ToolCallAccumulator.complete, in the order of the indexes.
HandOver ==
    /\ at = "calls"
    /\ IF \E i \in wire.begun : ParseFails(i)
       THEN at' = "failed" /\ UNCHANGED out
       ELSE /\ at' = "usage"
            /\ out' = out \o [k \in 1..Cardinality(wire.begun) |-> ToolCall(k - 1, kept[k - 1])]
    /\ UNCHANGED <<dialect, size, wire, kept, usage, finish>>

HandUsage ==
    /\ at = "usage"
    /\ at' = "finish"
    /\ out' = IF usage THEN Append(out, Event("usage")) ELSE out
    /\ UNCHANGED <<dialect, size, wire, kept, usage, finish>>

LastReason == IF finish = "none" THEN "other" ELSE finish

HandFinish ==
    /\ at = "finish"
    /\ at' = "ended"
    /\ Emit(Finished(LastReason))
    /\ UNCHANGED <<dialect, size, wire, kept, usage, finish>>

StreamNext ==
    \/ Text \/ BeginCall \/ Fragment \/ CloseBlock \/ WholeCall
    \/ Stop \/ Count \/ AgentCounts \/ AgentFinishes \/ EndMark
    \/ Closed \/ Broken
    \/ HandOver \/ HandUsage \/ HandFinish

--------------------------------------------------------------------------------
(* Properties                                                                 *)

contractPhase ==
    IF at = "failed" THEN "failed"
    ELSE IF Events("finish") # {} THEN "finished"
    ELSE IF Events("usage") # {} THEN "counted" ELSE "content"

contractCalled == {out[k].index : k \in Events("tool_call")}

Contract == INSTANCE AdapterContract WITH phase <- contractPhase, called <- contractCalled

\* Whatever the dialect and wherever the connection ends, the gateway sees each
\* call once, the usage after the content and one FINISH at the end, or an
\* error (llm/types.py:202 StreamEventType).
ImplementsContract == Contract!Spec

\* Wherever the provider stops and the connection ends, a call is never handed
\* over with a part of its arguments; with none of them it may be, but then, as
\* when a call is missing, the answer is not reported as complete.  An end that
\* the provider did not tell is not made up: the reason is its own, or "other".
AnswerFaithful ==
    /\ \A k \in Events("tool_call") : out[k].kept \in {0, size[out[k].index]}
    /\ \A k \in Events("finish") :
          /\ out[k].reason = "other" \/ wire.stage # "content"
          /\ out[k].reason \in Complete =>
                \A i \in wire.begun : \E j \in Events("tool_call") : out[j] = ToolCall(i, size[i])

--------------------------------------------------------------------------------
(* An inductive invariant                                                     *)

Finishes == {"none", "stop", "length", "content_filter", "tool_calls", "other"}

Emitted ==
    [type : {"text", "reasoning", "tool_call_delta", "tool_call", "usage", "finish"},
     index : Nat, kept : Nat, reason : Finishes]

StreamTypes ==
    /\ dialect \in {"openai", "anthropic", "gemini", "ollama", "claude"}
    /\ size \in [Indexes -> Nat] /\ kept \in [Indexes -> Nat]
    /\ wire \in [begun : SUBSET Indexes, sent : [Indexes -> Nat], closed : SUBSET Indexes,
                 stage : {"content", "stopped", "counted", "over"}]
    /\ at \in {"idle", "reading", "calls", "usage", "finish", "ended", "failed"}
    /\ usage \in BOOLEAN /\ finish \in Finishes
    /\ out \in Seq(Emitted)

\* Calls begin in the order of their indexes, the adapter has what was sent, and
\* a provider that calls its answer complete has sent all of them.
WireInv ==
    /\ \E n \in 0..MaxCalls : wire.begun = 0..n - 1
    /\ wire.closed \subseteq wire.begun
    /\ kept = wire.sent
    /\ \A i \in Indexes : wire.sent[i] <= size[i]
    /\ dialect \in {"gemini", "ollama"} => AllSent /\ wire.closed = wire.begun
    /\ finish \in Complete => AllSent /\ (dialect = "anthropic" => wire.closed = wire.begun)
    /\ dialect = "claude" => wire.begun = {}

\* The calls the adapter has given away.
HandedOver ==
    CASE dialect = "openai" -> IF at \in {"usage", "finish", "ended"} THEN wire.begun ELSE {}
      [] OTHER -> IF at = "failed" THEN {} ELSE wire.closed

\* What was yielded is what the adapter has come to.
OutInv ==
    /\ at = "calls" => dialect = "openai"
    /\ dialect = "claude" => at \in {"idle", "reading", "ended", "failed"}
    /\ finish # "none" => wire.stage # "content"
    /\ Events("usage") # {} =>
          at \in {"finish", "ended", "failed"} \/ (dialect = "claude" /\ wire.stage # "content")
    /\ Events("finish") # {} =>
          at \in {"ended", "failed"} \/ (dialect = "claude" /\ wire.stage = "over")
    /\ dialect = "openai" /\ at \in {"idle", "reading", "calls"} => Events("tool_call") = {}
    /\ dialect # "openai" => contractCalled \subseteq wire.closed
    /\ contractCalled \subseteq Indexes
    /\ \A i \in HandedOver : \E k \in Events("tool_call") : out[k] = ToolCall(i, kept[i])

StreamInv == StreamTypes /\ WireInv /\ OutInv /\ AnswerFaithful
================================================================================
