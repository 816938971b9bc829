-------------------------------- MODULE LLMHttp --------------------------------
(***************************************************************************)
(* One exchange with a provider: app/llm/http.py, and the classification of *)
(* what comes back by app/llm/errors.py.                                    *)
(*                                                                         *)
(* A reply is a record                                                     *)
(*     sent    "ok", "timeout" or "failed": what client.send met; or        *)
(*             "keyless", when the adapter asks for a key there is not      *)
(*     status  the HTTP status                                             *)
(*     hints   which of the word lists the error envelope contains         *)
(*     after   the Retry-After header in ticks, 0 for none                 *)
(*     body    "json", "text", "shape" (JSON of another shape), "large",   *)
(*             "timeout" or "failed"                                       *)
(* An error is [code, after]; NoError stands for a result.                 *)
(***************************************************************************)
EXTENDS Naturals, Sequences

CONSTANT MaxRetryAfter     \* MAX_RETRY_AFTER_SECONDS, in ticks

ASSUME HttpBounds == MaxRetryAfter \in Nat

Hints == {"context", "auth", "quota", "model"}

\* The classes of errors.py whose `retryable` is set.
Retryable == {"rate_limited", "timeout", "unavailable"}

Codes == Retryable \cup
    {"auth", "permission", "quota", "invalid", "not_found", "context", "tool",
     "unsupported", "endpoint", "malformed", "too_large", "credential",
     "node", "no_route", "llm_error"}

Error(code) == [code |-> code, after |-> 0]
NoError == Error("none")

\* The verdict of the first rule that applies.
FirstOf(rules) ==
    LET hit == {i \in DOMAIN rules : rules[i][1]}
    IN  rules[CHOOSE i \in hit : \A j \in hit : i <= j][2]

ParseRetryAfter(after) == IF after > MaxRetryAfter THEN MaxRetryAfter ELSE after

\* Mutant of FromHttp: a 429 is a rate limit whatever its body says.
FromHttpByStatus(status, hints, after) ==
    LET code == FirstOf(<<
            <<"context" \in hints, "context">>,
            <<status = 401, "auth">>,
            <<status = 402, "quota">>,
            <<status = 403, "permission">>,
            <<status = 404 \/ "model" \in hints, "not_found">>,
            <<status = 408, "timeout">>,
            <<status = 429, "rate_limited">>,
            <<status < 500, "invalid">>,
            <<TRUE, "unavailable">> >>)
    IN  [code |-> code, after |-> ParseRetryAfter(after)]

FromHttp(status, hints, after) ==
    LET code == FirstOf(<<
            <<"context" \in hints, "context">>,
            <<status = 401 \/ (status \in {400, 403} /\ "auth" \in hints), "auth">>,
            <<status = 402 \/ (status \in {403, 429} /\ "quota" \in hints), "quota">>,
            <<status = 403, "permission">>,
            <<status = 404 \/ "model" \in hints, "not_found">>,
            <<status = 408, "timeout">>,
            <<status = 429, "rate_limited">>,
            <<status \in {400, 409, 413, 415, 422}, "invalid">>,
            <<status >= 500, "unavailable">>,
            <<TRUE, "llm_error">> >>)
    IN  [code |-> code,
         after |-> IF code \in {"rate_limited", "unavailable"}
                   THEN ParseRetryAfter(after) ELSE 0]

\* An error delivered inside a stream that began with status 200.
FromStreamPayload(hints) ==
    Error(FirstOf(<<
        <<"overloaded" \in hints, "unavailable">>,
        <<"rate" \in hints, "rate_limited">>,
        <<"context" \in hints, "context">>,
        <<"model" \in hints, "not_found">>,
        <<"auth" \in hints, "auth">>,
        <<TRUE, "llm_error">> >>))

--------------------------------------------------------------------------------
Sending(reply) ==
    CASE reply.sent = "ok"      -> NoError
      [] reply.sent = "timeout" -> Error("timeout")
      [] reply.sent = "failed"  -> Error("unavailable")
      [] reply.sent = "keyless" -> Error("credential")

ReadCapped(reply) ==
    CASE reply.body = "large"   -> Error("too_large")
      [] reply.body = "timeout" -> Error("timeout")
      [] reply.body = "failed"  -> Error("unavailable")
      [] OTHER                  -> NoError

\* The envelope is read for classification only; one that cannot be read, or
\* is not a JSON object, gives no hints.
ErrorSignals(reply) == IF reply.body = "json" THEN reply.hints ELSE {}

RaiseForStatus(reply) ==
    IF reply.status < 300 THEN NoError
    ELSE IF reply.status < 400 THEN Error("llm_error")
    ELSE FromHttp(reply.status, ErrorSignals(reply), reply.after)

\* request_json and what parse_response makes of the value: adapter.generate.
RequestJson(reply) ==
    IF Sending(reply) # NoError THEN Sending(reply)
    ELSE IF RaiseForStatus(reply) # NoError THEN RaiseForStatus(reply)
    ELSE IF ReadCapped(reply) # NoError THEN ReadCapped(reply)
    ELSE IF reply.body = "json" THEN NoError ELSE Error("malformed")

\* The first part of stream_lines: what happens before the first line.
OpenStream(reply) ==
    IF Sending(reply) # NoError THEN Sending(reply) ELSE RaiseForStatus(reply)
================================================================================
