------------------------------ MODULE LLMGateway ------------------------------
(***************************************************************************)
(* One call of the LLM gateway over a route (ADR-031): generate and stream *)
(* of app/llm/gateway.py with the usage rows of usage.py, seen from their  *)
(* callers: the chat and test handlers and the event stream of             *)
(* api/v1/llm.py, and task_bridge.complete_task.                           *)
(*                                                                         *)
(* Meanwhile an account of the route may be deleted, and the client of an  *)
(* event stream may disconnect.  Time is counted in ticks of half a second *)
(* and only where the call is budgeted.                                    *)
(***************************************************************************)
EXTENDS LLMHttp

CONSTANTS
    Route,        \* length of the resolved chain
    MaxRetries,   \* settings.llm_max_retries
    Deadline,     \* settings.llm_request_timeout_seconds, in ticks
    Total,        \* settings.llm_total_timeout_seconds, in ticks
    MaxDelay,     \* MAX_BACKOFF_SECONDS, in ticks
    Late,         \* bound: ticks a wake-up or a connection may take too long
    MaxEvents,    \* bound: events of one stream that reach the client
    Replies       \* what providers answer, for RequestJson

ASSUME GatewayBounds ==
    /\ Route \in Nat \ {0} /\ MaxRetries \in Nat
    /\ Deadline \in Nat \ {0} /\ Total \in Nat \ {0} /\ MaxDelay \in Nat
    /\ Late \in Nat /\ MaxEvents \in Nat
ASSUME ReplyTypes ==
    Replies \subseteq [sent : {"ok", "timeout", "failed", "keyless"}, status : Nat,
                       hints : SUBSET Hints, after : Nat,
                       body : {"json", "text", "shape", "large", "timeout", "failed"}]

VARIABLES
    mode,      \* "generate", "task" or "stream"
    at,        \* where the call is
    index,     \* the route entry it works on, from 1
    attempts,  \* attempts at this entry
    clock,     \* ticks since the call began
    alarm,     \* when the attempt times out or the sleep ends
    error,     \* last_error
    rows,      \* the LLMUsage rows the call's transaction holds
    frames,    \* what the client of the stream was sent: <<kind, entry, attempt>>
    sent,      \* per entry, the attempts its adapter was given
    refused,   \* entries whose provider refused for good
    gone       \* entries whose account was deleted

callVars == <<mode, index, attempts, rows, frames>>
timeVars == <<clock, alarm>>
worldVars == <<sent, refused, gone>>
vars == <<callVars, at, timeVars, error, worldVars>>

Entries == 1..Route
Budgeted == mode # "stream"
Over == {"answered", "raised", "broken", "disconnected"}
Emitted == \E i \in DOMAIN frames : frames[i][1] = "start"

Init ==
    /\ mode \in {"generate", "task", "stream"}
    /\ at = "entry" /\ index = 1 /\ attempts = 0
    /\ clock = 0 /\ alarm = 0
    /\ error = Error("no_route")
    /\ rows = <<>> /\ frames = <<>>
    /\ sent = [e \in Entries |-> 0] /\ refused = {} /\ gone = {}

--------------------------------------------------------------------------------
(* Usage rows.  The flush checks the row's reference to its account: once     *)
(* that is deleted the insert breaks the transaction, with an error that is   *)
(* no LLMError, and the commit that follows loses the earlier rows too.       *)

Row(status, e, n) == [index |-> index, status |-> status, error |-> e.code, attempts |-> n]

Record(status, e, n) ==
    rows' = IF index \in gone THEN <<>> ELSE Append(rows, Row(status, e, n))

\* The entry failed: record, then the next entry.
Fail(e, n) ==
    /\ Record("failed", e, n)
    /\ error' = e
    /\ at' = IF index \in gone THEN "broken" ELSE "entry"
    /\ index' = IF index \in gone THEN index ELSE index + 1
    /\ attempts' = 0

--------------------------------------------------------------------------------
(* The loop over the route                                                    *)

\* generate stops when the budget is spent; both raise the last error at the
\* end of the route, which _sse turns into an error frame.
NextEntry ==
    /\ at = "entry"
    /\ IF index > Route \/ (Budgeted /\ clock >= Total)
       THEN /\ at' = "raised"
            /\ frames' = IF Budgeted THEN frames ELSE Append(frames, <<"error", index, attempts>>)
       ELSE at' = "connecting" /\ UNCHANGED frames
    /\ UNCHANGED <<mode, index, attempts, rows, timeVars, error, worldVars>>

\* check_request or connection_for says no: nothing was attempted.
Unprepared ==
    /\ at = "connecting" /\ attempts = 0
    /\ \E code \in {"unsupported", "credential"} : Fail(Error(code), 0)
    /\ UNCHANGED <<mode, timeVars, worldVars, frames>>

--------------------------------------------------------------------------------
(* with_retries, and the inner loop of stream                                 *)

\* Mutant of Limit: the entry's own deadline only.
LimitByEntry == clock + Deadline

\* min(deadline, budget.remaining()), as the time it is reached.
Limit == IF clock + Deadline < Total THEN clock + Deadline ELSE Total

\* An attempt begins.  budget.check raises an error that carries no count of
\* attempts, so _record is given none.
Attempt ==
    /\ at = "connecting"
    /\ IF Budgeted /\ clock >= Total
       THEN Fail(Error("timeout"), 0) /\ UNCHANGED <<alarm, sent>>
       ELSE /\ at' = "calling"
            /\ attempts' = attempts + 1
            /\ alarm' = IF Budgeted THEN Limit ELSE 0
            /\ sent' = [sent EXCEPT ![index] = @ + 1]
            /\ UNCHANGED <<index, rows, error>>
    /\ UNCHANGED <<mode, clock, refused, gone, frames>>

\* backoff_delay: base plus at most half of it, the header if longer, capped.
BackoffDelays(n, after) ==
    LET base == 2 ^ (n - 1)
        longer(a, b) == IF a > b THEN a ELSE b
        capped(d) == IF d > MaxDelay THEN MaxDelay ELSE d
    IN  {capped(longer(base + jitter, after)) : jitter \in 0..base \div 2}

\* "waiting would exhaust the budget: give up on this entry"
MayWait(delay) == ~Budgeted \/ clock + delay < Total

\* Mutant of MayRetry: a stream is retried after it has shown output.
RetryAfterOutput(e) == e.code \in Retryable /\ attempts <= MaxRetries

\* Mutant of MayRetry: one retry more than the settings say.
RetryOneMore(e) == e.code \in Retryable /\ attempts <= MaxRetries + 1 /\ ~Emitted

MayRetry(e) == e.code \in Retryable /\ attempts <= MaxRetries /\ ~Emitted

AttemptFails(e) ==
    \/ /\ MayRetry(e)
       /\ \E delay \in BackoffDelays(attempts, e.after) :
             /\ MayWait(delay)
             /\ alarm' = IF Budgeted THEN clock + delay ELSE 0
       /\ at' = "sleeping"
       /\ UNCHANGED <<index, attempts, rows, error, frames>>
    \/ /\ ~MayRetry(e) \/ \E delay \in BackoffDelays(attempts, e.after) : ~MayWait(delay)
       /\ IF Emitted
          THEN \* "output already reached the caller: no silent switch"
               /\ Record("failed", e, attempts)
               /\ error' = e
               /\ at' = IF index \in gone THEN "broken" ELSE "raised"
               /\ frames' = IF index \in gone THEN frames ELSE Append(frames, <<"error", index, attempts>>)
               /\ UNCHANGED <<index, attempts>>
          ELSE Fail(e, attempts) /\ UNCHANGED frames
       /\ UNCHANGED alarm

Wake ==
    /\ at = "sleeping" /\ clock >= alarm
    /\ at' = "connecting"
    /\ UNCHANGED <<callVars, timeVars, error, worldVars>>

\* Mutant of CallTimesOut: no timeout round the attempt.
CallNeverTimesOut == FALSE

\* asyncio.timeout(limit)
CallTimesOut ==
    /\ at = "calling" /\ Budgeted /\ clock >= alarm
    /\ AttemptFails(Error("timeout"))
    /\ UNCHANGED <<mode, clock, worldVars>>

--------------------------------------------------------------------------------
(* The provider answers                                                       *)

\* The provider's verdict, whatever errors.py makes of it: the same request
\* can only be refused again.
RefusesForGood(reply) ==
    reply.sent = "ok" /\
        \/ reply.status \in {400, 401, 402, 403, 404, 413, 422}
        \/ reply.status = 429 /\ reply.body = "json" /\ "quota" \in reply.hints

Answered == at' = IF index \in gone THEN "broken" ELSE "answered"

\* complete_task: an answer that is cut, withheld or blank is an error.
TaskAnswer(finish, text) ==
    IF finish \in {"length", "filter"} \/ ~text THEN <<"error", index, attempts>> ELSE <<"output", index, attempts>>

Respond ==
    /\ at = "calling" /\ Budgeted
    /\ \E reply \in Replies :
          /\ refused' = IF RefusesForGood(reply) THEN refused \cup {index} ELSE refused
          /\ IF RequestJson(reply) = NoError
             THEN /\ Record("succeeded", NoError, attempts)
                  /\ Answered
                  /\ \E finish \in {"stop", "length", "filter"}, text \in BOOLEAN :
                        frames' = IF mode = "task" /\ index \notin gone
                                  THEN <<TaskAnswer(finish, text)>> ELSE frames
                  /\ UNCHANGED <<index, attempts, error, alarm>>
             ELSE AttemptFails(RequestJson(reply))
    /\ UNCHANGED <<mode, clock, sent, gone>>

\* The next event of adapter.stream; the first is preceded by START.
StreamEvent ==
    /\ at = "calling" /\ mode = "stream" /\ Len(frames) <= MaxEvents
    /\ frames' = (IF Emitted THEN frames ELSE Append(frames, <<"start", index, attempts>>))
                    \o << <<"event", index, attempts>> >>
    /\ UNCHANGED <<mode, index, attempts, rows, at, timeVars, error, worldVars>>

\* The adapter's generator is exhausted, even without one event.
StreamEnds ==
    /\ at = "calling" /\ mode = "stream"
    /\ Record("succeeded", NoError, attempts)
    /\ Answered
    /\ frames' = IF index \in gone THEN frames ELSE Append(frames, <<"done", index, attempts>>)
    /\ UNCHANGED <<mode, index, attempts, timeVars, error, worldVars>>

\* It fails: before the first event with what opening the stream gave, later
\* with an error event, a broken connection or a wrong shape.
StreamFails ==
    /\ at = "calling" /\ mode = "stream"
    /\ \/ /\ Emitted
          /\ \E hints \in {{"overloaded"}, {}} : AttemptFails(FromStreamPayload(hints))
          /\ UNCHANGED refused
       \/ /\ ~Emitted
          /\ \E reply \in Replies :
                /\ OpenStream(reply) # NoError
                /\ refused' = IF RefusesForGood(reply) THEN refused \cup {index} ELSE refused
                /\ AttemptFails(OpenStream(reply))
    /\ UNCHANGED <<mode, clock, sent, gone>>

--------------------------------------------------------------------------------
(* The surroundings                                                           *)

\* The generator of a stream is closed; _sse commits what there is.
Disconnect ==
    /\ mode = "stream" /\ at \notin Over
    /\ at' = "disconnected"
    /\ UNCHANGED <<callVars, timeVars, error, worldVars>>

\* delete_account commits.  It waits for a transaction that has flushed a row
\* for the account.
DeleteAccount ==
    /\ at \notin Over
    /\ \E e \in Entries \ gone :
          /\ \A i \in DOMAIN rows : rows[i].index # e
          /\ gone' = gone \cup {e}
    /\ UNCHANGED <<callVars, at, timeVars, error, sent, refused>>

\* Time passes while the call waits: never beyond a timeout, a little beyond
\* the end of a sleep, and for a while in connection_for (DNS, the keyring).
Tick ==
    /\ Budgeted
    /\ \/ at = "calling" /\ clock < alarm
       \/ at = "sleeping" /\ clock < alarm + Late
       \/ at = "connecting" /\ attempts = 0 /\ Late > 0
    /\ clock < Total + Late
    /\ clock' = clock + 1
    /\ UNCHANGED <<callVars, at, alarm, error, worldVars>>

Loop == NextEntry \/ Unprepared \/ Attempt \/ Wake \/ CallTimesOut

StreamOver == StreamEnds \/ StreamFails

Next ==
    \/ Loop \/ Respond \/ StreamEvent \/ StreamOver
    \/ Disconnect \/ DeleteAccount \/ Tick

\* The event loop goes on with the call, and time with the clock; a provider
\* need not answer.  A stream has no budget: that it does not stay open without
\* an end is the read timeout of the HTTP client, and MaxEvents.
Fairness == WF_vars(Loop) /\ WF_vars(Tick) /\ WF_vars(StreamOver)

Spec == Init /\ [][Next]_vars /\ Fairness

--------------------------------------------------------------------------------
(* Properties                                                                 *)

\* No provider is waited for, and no sleep is begun, beyond the budget of the
\* call, however the retries, the headers and the entries of the route fall
\* (gateway.py:81 "so a long chain cannot outlive the caller's own timeout").
WithinBudget ==
    Budgeted =>
        /\ at = "calling" => clock <= Total
        /\ at = "sleeping" => alarm < Total

\* The usage rows tell what happened: one per entry, in the order of the route,
\* all failed but the one that answered, and never more attempts than the
\* provider received or the settings allow.
RowsTell ==
    /\ \A i \in DOMAIN rows :
          /\ rows[i].index = i
          /\ rows[i].attempts \in {0, sent[i]} /\ sent[i] <= MaxRetries + 1
          /\ rows[i].status = "succeeded" => i = Len(rows) /\ at = "answered"
    /\ at = "answered" => rows # <<>> /\ rows[Len(rows)].status = "succeeded"
    /\ at = "raised" /\ clock < Total /\ ~Emitted => Len(rows) = Route

\* Nothing is asked again of a provider that refused for good: a bad key, an
\* empty balance, an unknown model are not retried (errors.py:208 from_http).
RefusedOnce == [][\A e \in refused : sent'[e] = sent[e]]_vars

\* Once an attempt has shown output to the client, no other attempt does, and
\* the stream begins once: one START, then events of that attempt, then one last
\* frame (gateway.py:374 "no silent switch").
NoSilentSwitch ==
    \A i \in DOMAIN frames : mode = "stream" =>
        /\ frames[i][1] = "event" => frames[1] = <<"start", frames[i][2], frames[i][3]>>
        /\ frames[i][1] = "start" => i = 1
        /\ frames[i][1] \in {"done", "error"} => i = Len(frames) /\ at \in Over

\* Every call comes to an end.
CallEnds == <>(at \in Over)

--------------------------------------------------------------------------------
(* An inductive invariant                                                     *)

\* Attempts are counted where the provider received them, and those that may
\* still be retried leave room for one more.
CountInv ==
    /\ \A e \in Entries : sent[e] <= MaxRetries + 1 /\ (e > index => sent[e] = 0)
    /\ at = "entry" => attempts = 0 /\ (index \in Entries => sent[index] = 0)
    /\ at \in {"connecting", "calling", "sleeping"} => index \in Entries /\ sent[index] = attempts
    /\ at \in {"connecting", "sleeping"} => attempts <= MaxRetries

\* Until the call is over there is a row for every entry before this one, and all
\* of them failed.
RowsInv ==
    /\ Len(rows) <= Route
    /\ at \notin Over \/ at = "disconnected" => Len(rows) = index - 1
    /\ at = "answered" => Len(rows) = index
    /\ \A i \in DOMAIN rows :
          /\ rows[i].index = i /\ rows[i].attempts \in {0, sent[i]}
          /\ rows[i].status = IF at = "answered" /\ i = Len(rows) THEN "succeeded" ELSE "failed"
    /\ at = "raised" /\ clock < Total /\ ~Emitted => Len(rows) = Route

BudgetInv ==
    Budgeted =>
        /\ at = "calling" => alarm \in Nat /\ clock <= alarm /\ alarm <= Total
        /\ at = "sleeping" => alarm < Total

\* A provider that refused for good is behind the call.
RefusedInv == \A e \in refused : e <= index /\ (e = index => at \in Over)

\* What a stream has shown so far is of the attempt it waits for.
FramesInv ==
    /\ NoSilentSwitch
    /\ at \notin Over /\ frames # <<>> =>
          /\ mode = "stream" /\ at = "calling"
          /\ frames[1] = <<"start", index, attempts>>
          /\ \A i \in DOMAIN frames : i > 1 => frames[i] = <<"event", index, attempts>>

CallInv == CountInv /\ RowsInv /\ BudgetInv /\ RefusedInv /\ FramesInv
================================================================================
