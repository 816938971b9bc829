----------------------------- MODULE LLMRequests -----------------------------
(***************************************************************************)
(* The requests an adapter makes of a conversation (app/llm/adapters:      *)
(* check_request, convert_messages, build_payload) and the answers it      *)
(* reads (parse_response), for a client that keeps the conversation and    *)
(* answers the tool calls of the model.                                    *)
(*                                                                         *)
(* A message is [role, calls, of, answers, named]: the calls <<id, name>>  *)
(* of an assistant message, and of a tool message the id it refers to, the *)
(* name of the call it answers and whether the client states that name.    *)
(* The name of a call is the turn it was made in and its place there.      *)
(***************************************************************************)
EXTENDS Naturals, Sequences, FiniteSets, SequencesExt

CONSTANTS
    MaxMessages,   \* bound: messages of the conversation
    MaxAsked       \* bound: tool calls of one answer

ASSUME RequestBounds == MaxMessages \in Nat /\ MaxAsked \in Nat

VARIABLES
    speaker,    \* the dialect of the adapter
    talk,       \* the conversation the client keeps
    options,    \* what else the request asks for
    unable,     \* features the discovered model is known not to support
    verdict,    \* "idle", "open", "sent" or "refused": the last request
    payload     \* the turns that were sent: [role, parts]

requestVars == <<speaker, talk, options, unable, verdict, payload>>

Speakers == {"openai", "compatible", "anthropic", "gemini", "ollama", "claude"}

Features == {"tools", "parallel", "schema", "json", "image", "effort"}

Options == Features \cup
    {"auto", "none", "required", "tool", "serial", "temperature", "max_tokens", "stop"}

--------------------------------------------------------------------------------
(* What may be asked of whom                                                  *)

AtMostOne(S) == Cardinality(S) <= 1

\* ToolChoice and LLMRequest._bounds
Valid(asked) ==
    /\ AtMostOne(asked \cap {"auto", "none", "required", "tool"})
    /\ asked \cap {"auto", "required", "tool"} # {} => "tools" \in asked
    /\ AtMostOne(asked \cap {"parallel", "serial"})
    /\ AtMostOne(asked \cap {"schema", "json"})

\* Capabilities that are False for the API as a whole.
ApiLacks(s) ==
    CASE s = "anthropic" -> {"json"}
      [] s = "claude" -> {"tools", "parallel", "schema", "json", "image"}
      [] OTHER -> {}

\* reasoning_effort_param: the adapter knows how to send an effort.
SendsEffort(s) == s \in {"openai", "anthropic", "ollama"}

\* merged_with: an API-level False always wins, else what was discovered.
Lacks(s) == ApiLacks(s) \cup unable

\* Mutant of CheckRequest: the model is not asked.
CheckApiOnly(s, asked) ==
    /\ asked \cap ApiLacks(s) = {}
    /\ "effort" \in asked => SendsEffort(s)

CheckRequest(s, asked) ==
    /\ asked \cap Lacks(s) = {}
    /\ "effort" \in asked => SendsEffort(s)

\* Refusals of build_payload, and of _model_path's kind.
CanBuild(s, asked) ==
    /\ s \in {"gemini", "ollama"} => "serial" \notin asked
    /\ s = "ollama" => asked \cap {"none", "required", "tool"} = {}

\* The options that reach the provider.
OpenAIPayload(asked) ==
    asked \ (IF "tools" \in asked THEN {} ELSE {"parallel", "serial"})

AnthropicPayload(asked) ==
    asked \ ({"parallel", "json"}
        \cup (IF "tools" \in asked THEN {} ELSE {"none", "serial"})
        \cup (IF "none" \in asked THEN {"serial"} ELSE {}))

GeminiPayload(asked) == asked \ {"parallel", "effort"}

OllamaPayload(asked) == asked \ {"auto", "parallel"}

Carried(s, asked) ==
    CASE s \in {"openai", "compatible"} -> OpenAIPayload(asked)
      [] s = "anthropic" -> AnthropicPayload(asked)
      [] s = "gemini" -> GeminiPayload(asked)
      [] s = "ollama" -> OllamaPayload(asked)
      [] s = "claude" -> {}

--------------------------------------------------------------------------------
(* The conversation as the provider sees it                                   *)

Part(kind, i, id, name) == [kind |-> kind, message |-> i, id |-> id, name |-> name]

\* names_by_call: of two calls with one id, the later one.
NameOf(id) ==
    LET made == {p \in (DOMAIN talk) \X (1..MaxAsked) :
                    p[2] <= Len(talk[p[1]].calls) /\ talk[p[1]].calls[p[2]][1] = id}
        last == CHOOSE p \in made : \A q \in made : q[1] < p[1] \/ (q[1] = p[1] /\ q[2] <= p[2])
    IN  talk[last[1]].calls[last[2]][2]

ResultName(m) == IF m.named THEN m.answers ELSE NameOf(m.of)

MessageParts(s, i) ==
    LET m == talk[i]
    IN  CASE m.role = "tool" ->
               << Part("result", i, m.of,
                       IF s \in {"gemini", "ollama"} THEN ResultName(m) ELSE m.answers) >>
          [] m.calls # <<>> ->
               [k \in DOMAIN m.calls |-> Part("call", i, m.calls[k][1], m.calls[k][2])]
          [] OTHER -> << Part("text", i, <<>>, <<>>) >>

\* The role a dialect gives a message.
RoleIn(s, role) ==
    CASE s = "gemini" -> IF role = "assistant" THEN "model" ELSE "user"
      [] s = "anthropic" -> IF role = "assistant" THEN "assistant" ELSE "user"
      [] OTHER -> role

Turn(s, i) == [role |-> RoleIn(s, talk[i].role), parts |-> MessageParts(s, i)]

\* One item per message: OpenAI and Ollama.
PlainTurns(s) == [i \in DOMAIN talk |-> Turn(s, i)]

\* push: consecutive turns of one role become one.
Push(turns, turn) ==
    IF turns # <<>> /\ Last(turns).role = turn.role
    THEN [turns EXCEPT ![Len(turns)].parts = @ \o turn.parts]
    ELSE Append(turns, turn)

\* The turns made of the first n messages, for every n.
Merging(s) ==
    LET merged[n \in 0..Len(talk)] == IF n = 0 THEN <<>> ELSE Push(merged[n - 1], Turn(s, n))
    IN  merged

MergedTurns(s) == Merging(s)[Len(talk)]

\* The Claude subscription adapter passes on what users and assistants wrote:
\* a call has no text and a result is neither.
SpokenTurns(s) ==
    LET spoken == SelectSeq([i \in DOMAIN talk |-> i], LAMBDA i : talk[i].role # "tool")
    IN  [k \in DOMAIN spoken |->
            [role |-> talk[spoken[k]].role, parts |-> << Part("text", spoken[k], <<>>, <<>>) >>]]

ConvertMessages(s) ==
    CASE s \in {"anthropic", "gemini"} -> MergedTurns(s)
      [] s = "claude" -> SpokenTurns(s)
      [] OTHER -> PlainTurns(s)

--------------------------------------------------------------------------------
(* What an answer says.  An answer is a sequence of the ids the provider gave *)
(* its calls, "" for none.                                                    *)

ProviderIds == {"given", ""}

GivenOrMade(id, k) == IF id = "" THEN <<"call", k - 1>> ELSE <<id, Len(talk), k>>

ParseOpenAI(ids) == [k \in DOMAIN ids |-> GivenOrMade(ids[k], k)]
ParseGemini(ids) == [k \in DOMAIN ids |-> GivenOrMade(ids[k], k)]
ParseOllama(ids) == [k \in DOMAIN ids |-> GivenOrMade(ids[k], k)]

\* Anthropic's tool_use blocks must carry an id, else the answer is malformed.
AnthropicReads(ids) == \A k \in DOMAIN ids : ids[k] # ""

CallIds(s, ids) ==
    CASE s \in {"openai", "compatible", "anthropic"} -> ParseOpenAI(ids)
      [] s = "gemini" -> ParseGemini(ids)
      [] s = "ollama" -> ParseOllama(ids)
      [] s = "claude" -> <<>>

--------------------------------------------------------------------------------
NoPayload == <<>>

RequestIdle ==
    /\ speaker = "openai" /\ talk = <<>> /\ options = {} /\ unable = {}
    /\ verdict = "idle" /\ payload = NoPayload

\* A request with options, or a conversation without any.
RequestInit ==
    /\ speaker \in Speakers
    /\ options \in {o \in SUBSET Options : Valid(o)}
    /\ unable \in {{f} : f \in Features} \cup {{}}
    /\ talk = <<[role |-> "user", calls |-> <<>>, of |-> <<>>, answers |-> <<>>, named |-> FALSE]>>
    /\ verdict = "open" /\ payload = NoPayload

Ask ==
    /\ verdict = "open" /\ Last(talk).role # "assistant"
    /\ IF CheckRequest(speaker, options) /\ CanBuild(speaker, options)
       THEN verdict' = "sent" /\ payload' = ConvertMessages(speaker)
       ELSE verdict' = "refused" /\ UNCHANGED payload
    /\ UNCHANGED <<speaker, talk, options, unable>>

Say(m) ==
    /\ talk' = Append(talk, m)
    /\ UNCHANGED <<speaker, options, unable, payload>>

\* The answer: text, or calls that the client is to answer.  (The options and
\* what is discovered are varied for first requests only.)
Answer ==
    /\ verdict = "sent" /\ Len(talk) < MaxMessages /\ options = {} /\ unable = {}
    /\ \E ids \in UNION {[1..n -> ProviderIds] : n \in 0..MaxAsked} :
          /\ speaker = "anthropic" => AnthropicReads(ids)
          /\ Say([role |-> "assistant", of |-> <<>>, answers |-> <<>>, named |-> FALSE,
                  calls |-> [k \in DOMAIN CallIds(speaker, ids) |->
                                << CallIds(speaker, ids)[k], <<Len(talk), k>> >>]])
    /\ verdict' = "open"

\* The client answers the calls of the last answer in their order, or goes on.
Answers == {i \in DOMAIN talk : talk[i].role = "assistant"}

LastAnswer == CHOOSE i \in Answers : \A j \in Answers : j <= i

Pending ==
    IF Answers = {} THEN {}
    ELSE {k \in DOMAIN talk[LastAnswer].calls : k = Len(talk) - LastAnswer + 1}

ToolResult ==
    /\ verdict = "open" /\ options = {} /\ Len(talk) < MaxMessages
    /\ \E k \in Pending, named \in BOOLEAN :
          LET call == talk[LastAnswer].calls[k]
          IN  Say([role |-> "tool", calls |-> <<>>, of |-> call[1], answers |-> call[2],
                   named |-> named])
    /\ UNCHANGED verdict

UserSays ==
    /\ verdict = "open" /\ options = {} /\ Len(talk) < MaxMessages
    /\ Last(talk).role # "user" /\ Pending = {}
    /\ Say([role |-> "user", calls |-> <<>>, of |-> <<>>, answers |-> <<>>, named |-> FALSE])
    /\ UNCHANGED verdict

RequestNext == Ask \/ Answer \/ ToolResult \/ UserSays

--------------------------------------------------------------------------------
(* Properties                                                                 *)

\* What an option that is not sent would not have changed.
Moot(asked) ==
    {"auto", "parallel"}
        \cup (IF "tools" \in asked THEN {} ELSE {"none", "serial"})
        \cup (IF "none" \in asked THEN {"serial"} ELSE {})

\* A request is refused or every option that matters reaches the provider, and
\* none that the model is known not to support; only a Claude subscription
\* ignores the sampling parameters (adapters/base.py:203).
OptionsKept ==
    verdict = "sent" =>
        /\ options \ Carried(speaker, options) \subseteq
              Moot(options) \cup (IF speaker = "claude" THEN {"temperature", "max_tokens", "stop"} ELSE {})
        /\ options \cap unable = {}

\* The parts that were sent, each at <<its turn, its place there>>.
PlacesOf(turns) == UNION {{i} \X (DOMAIN turns[i].parts) : i \in DOMAIN turns}

PartAt(turns, p) == turns[p[1]].parts[p[2]]

Before(p, q) == p[1] < q[1] \/ (p[1] = q[1] /\ p[2] < q[2])

MadeIn(i, id) == \E k \in DOMAIN talk[i].calls : talk[i].calls[k][1] = id

GivenTwice(id) == Cardinality({i \in DOMAIN talk : MadeIn(i, id)}) > 1

\* The provider finds the call that a result belongs to, however the turns were
\* merged: by its id, in the last answer before it, or by its name; unless the
\* adapter itself gave one id to calls of two answers and the client does not
\* state the name.  Turns of one role are one turn where the API wants that.
ConversationKept ==
    payload # NoPayload /\ speaker # "claude" =>
        /\ \A n \in PlacesOf(payload) :
              LET part == PartAt(payload, n)
                  m == talk[part.message]
              IN  part.kind = "result" =>
                    /\ part.name = m.answers \/ (~m.named /\ GivenTwice(m.of))
                    /\ \E p \in PlacesOf(payload) :
                          /\ Before(p, n) /\ PartAt(payload, p).kind = "call"
                          /\ PartAt(payload, p).id = m.of /\ PartAt(payload, p).name = m.answers
                          /\ \A q \in PlacesOf(payload) :
                                Before(p, q) /\ Before(q, n) => PartAt(payload, q).kind # "text"
        /\ speaker \in {"anthropic", "gemini"} =>
              \A i \in 1..Len(payload) - 1 : payload[i].role # payload[i + 1].role

\* What reaches the provider is what the client asked for: every option that
\* matters, and a conversation whose results the provider can tell apart.
RequestFaithful == OptionsKept /\ ConversationKept
================================================================================
